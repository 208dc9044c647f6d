------------------------------- MODULE Logger -------------------------------
(***************************************************************************)
(* logger (logger.cxx): lines are appended to a log file, which is rotated *)
(* when it would grow too long.  Log messages are asynchronous, so that    *)
(* assign runs on the scheduler's thread alone; but the daemon may die at  *)
(* any point of it, also between two renames, and is started again by      *)
(* main_daemon with the files as they are.                                 *)
(*                                                                         *)
(* File 0 is log_path, file i is log_path_array[i - 1].  A file is the     *)
(* numbers of its lines and its length.                                    *)
(***************************************************************************)
EXTENDS Naturals, Sequences

CONSTANTS
  LogCounts,   \* numbers of rotated files that may be configured
  max_size,    \* length at which a file is rotated
  Lengths,     \* lengths of the lines
  MaxLines,    \* bound: lines written
  MaxFaults,   \* bound: failures of fopen
  MaxCrashes   \* bound: crashes

ASSUME LoggerAssumption ==
  /\ LogCounts \subseteq Nat /\ max_size \in Nat /\ Lengths \subseteq Nat \ {0}
  /\ MaxLines \in Nat /\ MaxFaults \in Nat /\ MaxCrashes \in Nat

File == [lines : Seq(1 .. MaxLines), size : Nat]

(* A file that is not there, or that fopen has just made.                  *)
NoFile == [lines |-> << >>, size |-> 0]

VARIABLES
  log_count, \* rotated files that are kept, as configured
  files,     \* each file: its lines, and its length as ftell returns it
  pc,        \* where assign is; "down" when there is no logger
  shift,     \* the file that the next rename of loop_rotate moves
  log_buf,   \* length of the line in the buffer
  opened,    \* wfp # NULL
  written,   \* number of lines written so far
  faults, crashes

vars == <<log_count, files, pc, shift, log_buf, opened, written, faults, crashes>>

Files == 0 .. log_count
-----------------------------------------------------------------------------
(* create opens log_path; the logger is not loaded when that fails.        *)
create ==
  /\ pc = "down"
  /\ pc' = "idle" /\ opened' = TRUE
  /\ UNCHANGED <<log_count, files, shift, log_buf, written, faults, crashes>>

(* assign, current size: would the line fill the file?                     *)
TooLong(len) == files[0].size + len >= max_size

(* assign: a line that no file has room for is dropped; then the file is   *)
(* emptied or rotated where necessary.  Without a file, fseek fails hard.  *)
assign(len) ==
  /\ pc = "idle" /\ written < MaxLines
  /\ log_buf' = len
  /\ pc' = CASE ~opened                           -> "down"
             [] opened /\ len >= max_size         -> "idle"
             [] opened /\ len < max_size /\ ~TooLong(len)  -> "write"
             [] OTHER -> IF log_count = 0 THEN "empty" ELSE "rotate"
  /\ opened' = (opened /\ pc' # "down")
  /\ UNCHANGED <<log_count, files, shift, written, faults, crashes>>

(* The single file is removed...                                           *)
Empty ==
  /\ pc = "empty"
  /\ files' = [files EXCEPT ![0] = NoFile]
  /\ opened' = FALSE /\ pc' = "open"
  /\ UNCHANGED <<log_count, shift, log_buf, written, faults, crashes>>

(* Mutant: the loop starts one file too late.                              *)
FirstMoved_Late == IF log_count > 1 THEN log_count - 2 ELSE 0

(* The first file that loop_rotate renames.                                *)
FirstMoved == log_count - 1

(* loop_rotate, "delete the oldest"...                                     *)
RemoveOldest ==
  /\ pc = "rotate"
  /\ files' = [files EXCEPT ![log_count] = NoFile]
  /\ shift' = FirstMoved
  /\ pc' = "rename"
  /\ UNCHANGED <<log_count, log_buf, opened, written, faults, crashes>>

(* Mutant: the file is copied and the old name stays.                      *)
Renamed_Copied(f) == [files EXCEPT ![f + 1] = files[f]]

(* rename of file f to the next older one; one that is not there cannot be *)
(* renamed.                                                                *)
Renamed(f) ==
  IF files[f] = NoFile THEN files
  ELSE [files EXCEPT ![f + 1] = files[f], ![f] = NoFile]

(* ...and each file becomes the next older one, the current one last.      *)
Rename ==
  /\ pc = "rename"
  /\ files' = Renamed(shift)
  /\ IF shift = 0 THEN pc' = "open" /\ opened' = FALSE /\ UNCHANGED shift
     ELSE shift' = shift - 1 /\ UNCHANGED <<pc, opened>>
  /\ UNCHANGED <<log_count, log_buf, written, faults, crashes>>

(* log_path is opened anew; the line is lost when that fails.              *)
Reopen ==
  /\ pc = "open"
  /\ pc' = "write" /\ opened' = TRUE
  /\ UNCHANGED <<log_count, files, shift, log_buf, written, faults, crashes>>

ReopenFails ==
  /\ pc = "open" /\ faults < MaxFaults
  /\ faults' = faults + 1
  /\ pc' = "idle"
  /\ UNCHANGED <<log_count, files, shift, log_buf, opened, written, crashes>>

Write ==
  /\ pc = "write"
  /\ written' = written + 1
  /\ files' = [files EXCEPT ![0] = [lines |-> Append(@.lines, written + 1),
                                    size  |-> @.size + log_buf]]
  /\ pc' = "idle"
  /\ UNCHANGED <<log_count, shift, log_buf, opened, faults, crashes>>

(* The daemon dies.                                                        *)
Crash ==
  /\ pc # "down" /\ crashes < MaxCrashes
  /\ crashes' = crashes + 1
  /\ pc' = "down" /\ opened' = FALSE
  /\ UNCHANGED <<log_count, files, shift, log_buf, written, faults>>
-----------------------------------------------------------------------------
Init ==
  /\ log_count \in LogCounts
  /\ files = [i \in Files |-> NoFile]
  /\ pc = "down" /\ shift = 0 /\ log_buf = 0 /\ opened = FALSE
  /\ written = 0 /\ faults = 0 /\ crashes = 0

Next ==
  \/ create \/ (\E len \in Lengths : assign(len))
  \/ Empty \/ RemoveOldest \/ Rename \/ Reopen \/ ReopenFails \/ Write
  \/ Crash

Spec == Init /\ [][Next]_vars
-----------------------------------------------------------------------------
TypeOK ==
  /\ log_count \in LogCounts
  /\ files \in [Files -> File] /\ \A f \in Files : files[f].size < max_size
  /\ pc \in {"down", "idle", "empty", "rotate", "rename", "open", "write"}
  /\ shift \in Files /\ log_buf \in Lengths \cup {0}
  /\ opened \in BOOLEAN
  /\ written \in 0 .. MaxLines /\ faults \in 0 .. MaxFaults
  /\ crashes \in 0 .. MaxCrashes

Numbers(f) == {files[f].lines[k] : k \in 1 .. Len(files[f].lines)}

Held(n) == \E f \in Files : n \in Numbers(f)

(* Read from the oldest file to the current one, the lines are in the      *)
(* order of writing.                                                       *)
InOrder ==
  /\ \A f \in Files : \A k \in 1 .. Len(files[f].lines), j \in 1 .. Len(files[f].lines) :
       j < k => files[f].lines[j] < files[f].lines[k]
  /\ \A f \in Files, g \in Files : f < g =>
       \A m \in Numbers(f), n \in Numbers(g) : n < m

(* What is given up is older than what is kept.                            *)
Newest ==
  /\ \A f \in Files : Numbers(f) \subseteq 1 .. written
  /\ \A m \in 1 .. written, n \in 1 .. written : Held(m) /\ m < n => Held(n)

(* loop_rotate, also when it is cut short and done again: what the files   *)
(* hold are the newest lines, each once and in the order of writing.  (All *)
(* variables have their types, and no file grows to max_size.)             *)
KeepsTheNewest == TypeOK /\ InOrder /\ Newest

(* loop_rotate: lines are only given up for want of files; where no crash  *)
(* and no failure has left a gap, all rotated files are then in use.       *)
DropsOnlyWhenFull ==
  crashes = 0 /\ faults = 0 /\ pc \in {"idle", "write"} /\ written > 0 /\ ~Held(1)
    => \A f \in 1 .. log_count : files[f] # NoFile
=============================================================================
