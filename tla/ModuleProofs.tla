---------------------------- MODULE ModuleProofs ----------------------------
(***************************************************************************)
(* Proofs about two of the scheduler's modules, that have nothing to do    *)
(* with each other: the logger, for any number of files and any lengths,   *)
(* and center_agent, for any set of tasks; both for any number of faults.  *)
(***************************************************************************)
EXTENDS Logger, CenterAgent, TLAPS

(* The types, with the Boolean variable apart from the others.             *)
LogTypes ==
  /\ log_count \in LogCounts
  /\ files \in [Files -> File] /\ \A f \in Files : files[f].size < max_size
  /\ pc \in {"down", "idle", "empty", "rotate", "rename", "open", "write"}
  /\ shift \in Files /\ log_buf \in Lengths \cup {0}
  /\ written \in 0 .. MaxLines /\ faults \in 0 .. MaxFaults
  /\ crashes \in 0 .. MaxCrashes

(* Where assign is says that there is room for the line: in some file, and *)
(* in the current one when it is written; and that a rename does not       *)
(* overwrite a file.                                                       *)
RoomInv ==
  /\ pc \in {"empty", "rotate", "rename", "open", "write"} =>
       log_buf < max_size /\ written < MaxLines
  /\ pc = "empty" => log_count = 0
  /\ pc = "rotate" => log_count > 0 /\ files[0] # NoFile
  /\ pc = "rename" => shift < log_count /\ files[shift + 1] = NoFile
  /\ pc = "open" => files[0] = NoFile
  /\ pc = "write" => files[0].size + log_buf < max_size

LogInv == LogTypes /\ RoomInv /\ InOrder /\ Newest

(* Among these files, the newer ones are in use where an older one is.     *)
NoGapIn(some) ==
  \A f \in some, g \in some : f < g /\ files[g] # NoFile => files[f] # NoFile

Dropped == written > 0 /\ ~Held(1)

(* Without crashes and failures there is no gap among the rotated files,   *)
(* apart from the one that loop_rotate moves towards the current file; and *)
(* all are in use when a line is gone.                                     *)
FullInv ==
  crashes = 0 /\ faults = 0 =>
    LET filled == IF pc = "rename" THEN Files \ {shift + 1} ELSE 1 .. log_count IN
      /\ pc = "rename" => files[0] # NoFile
      /\ NoGapIn(filled)
      /\ Dropped => \A f \in filled : files[f] # NoFile

(* The steps that change the files or what has been written, and the       *)
(* others.                                                                 *)
Writes == Empty \/ RemoveOldest \/ Rename \/ Write

(* What the steps other than these leave alone.                            *)
LEMMA FilesKept ==
  ASSUME [Next]_vars, ~Writes
  PROVE  UNCHANGED <<log_count, files, written>>
BY Zenon DEF Next, vars, Writes, create, assign, Reopen, ReopenFails, Crash

(* The configuration is not changed.                                       *)
LEMMA CountKept ==
  ASSUME [Next]_vars
  PROVE  log_count' = log_count
BY Zenon DEF Next, vars, create, assign, Empty, RemoveOldest, Rename, Reopen, ReopenFails,
             Write, Crash

(* An empty file has its type.                                             *)
LEMMA NoFileType == NoFile \in File /\ NoFile.size = 0 /\ NoFile.lines = << >>
BY DEF NoFile, File

(* The number of rotated files.                                            *)
LEMMA CountType ==
  ASSUME LoggerAssumption, LogTypes
  PROVE  log_count \in Nat /\ 0 \in Files /\ log_count \in Files /\ max_size \in Nat
BY DEF LoggerAssumption, LogTypes, Files

(* What the write adds to the current file has its type and its room.      *)
LEMMA WriteTypes ==
  ASSUME LoggerAssumption, LogTypes, RoomInv, Write
  PROVE  LogTypes' /\ RoomInv'
<1>0. log_count \in Nat /\ 0 \in Files /\ max_size \in Nat
  BY CountType
<1>1. files[0] \in File /\ log_buf \in Nat /\ written \in Nat
      /\ written < MaxLines /\ MaxLines \in Nat
  BY <1>0 DEF LogTypes, RoomInv, LoggerAssumption, Write
<1> DEFINE new == [lines |-> Append(files[0].lines, written + 1),
                   size |-> files[0].size + log_buf]
<1>2. files' = [files EXCEPT ![0] = new]
  BY DEF Write
<1>3. new \in File /\ new.size < max_size
  <2>1. /\ written + 1 \in 1 .. MaxLines /\ files[0].lines \in Seq(1 .. MaxLines)
        /\ files[0].size \in Nat
    BY <1>1 DEF File
  <2>2. Append(files[0].lines, written + 1) \in Seq(1 .. MaxLines)
    BY <2>1
  <2>3. files[0].size + log_buf < max_size
    BY DEF RoomInv, Write
  <2> QED
    BY <1>1, <2>1, <2>2, <2>3 DEF File
<1> HIDE DEF new
<1>4. files' \in [Files -> File] /\ \A f \in Files : files'[f].size < max_size
  BY <1>0, <1>2, <1>3 DEF LogTypes
<1>5. Files' = Files /\ log_count' = log_count /\ pc' = "idle"
  BY DEF Files, Write
<1>6. LogTypes'
  BY <1>1, <1>4, <1>5 DEF LogTypes, Write
<1> QED
  BY <1>5, <1>6 DEF RoomInv

(* A file is removed.                                                      *)
LEMMA RemovedTypes ==
  ASSUME LogTypes, NEW g \in Files, files' = [files EXCEPT ![g] = NoFile], LoggerAssumption
  PROVE  /\ files' \in [Files -> File] /\ \A f \in Files : files'[f].size < max_size
         /\ files'[g] = NoFile /\ \A f \in Files : f # g => files'[f] = files[f]
<1>1. files[g].size \in Nat /\ files[g].size < max_size /\ max_size \in Nat
  BY DEF LogTypes, LoggerAssumption, File
<1>2. NoFile \in File /\ NoFile.size < max_size
  BY <1>1, NoFileType
<1> QED
  BY <1>2 DEF LogTypes

(* A file takes the place of the next older one, which is not there.       *)
LEMMA RenamedFiles ==
  ASSUME LoggerAssumption, LogTypes, RoomInv, Rename
  PROVE  /\ shift \in Files /\ shift + 1 \in Files /\ shift \in Nat /\ shift < log_count
         /\ files[shift + 1] = NoFile
         /\ files' \in [Files -> File]
         /\ files'[shift + 1] = files[shift] /\ files'[shift] = NoFile
         /\ \A f \in Files : f # shift /\ f # shift + 1 => files'[f] = files[f]
<1>1. shift \in Files /\ shift < log_count /\ log_count \in Nat /\ files[shift + 1] = NoFile
  BY CountType DEF LogTypes, RoomInv, Rename
<1>2. shift \in Nat /\ shift + 1 \in Files
  BY <1>1 DEF Files
<1>3. files' = Renamed(shift)
  BY DEF Rename
<1>4. CASE files[shift] = NoFile
  BY <1>1, <1>2, <1>3, <1>4 DEF Renamed, LogTypes
<1>5. CASE files[shift] # NoFile
  BY <1>1, <1>2, <1>3, <1>5, NoFileType DEF Renamed, LogTypes
<1> QED
  BY <1>1, <1>2, <1>4, <1>5

(* The types, and where there is room, after each step.                    *)
LEMMA TypesStep ==
  ASSUME LoggerAssumption, LogTypes, RoomInv, [Next]_vars
  PROVE  LogTypes' /\ RoomInv'
<1>0. log_count \in Nat /\ 0 \in Files /\ log_count \in Files /\ max_size \in Nat
      /\ log_count' = log_count /\ Files' = Files
  BY CountType, CountKept DEF Files
<1> USE DEF LogTypes, RoomInv
<1>1. CASE create
  BY <1>0, <1>1 DEF create
<1>2. ASSUME NEW len \in Lengths, assign(len)
      PROVE  LogTypes' /\ RoomInv'
  <2>1. len \in Nat /\ files[0] \in File /\ files[0].size \in Nat
    BY <1>0 DEF LoggerAssumption, File
  <2>2. LogTypes'
    BY <1>0, <1>2 DEF assign
  <2>3. RoomInv'
    <3>1. UNCHANGED <<files, written>> /\ log_buf' = len /\ written < MaxLines
      BY <1>2 DEF assign
    <3>2. CASE pc' \in {"down", "idle"}
      BY <3>2
    <3>3. CASE pc' \in {"write", "empty", "rotate"}
      <4>1. len < max_size
        BY <1>2, <3>3, <2>1, <1>0 DEF assign
      <4>2. CASE pc' = "write"
        <5>1. ~TooLong(len)
          BY <1>2, <4>2 DEF assign
        <5> QED
          BY <3>1, <4>1, <4>2, <5>1, <2>1, <1>0 DEF TooLong
      <4>3. CASE pc' \in {"empty", "rotate"}
        <5>1. TooLong(len) /\ pc' = (IF log_count = 0 THEN "empty" ELSE "rotate")
          BY <1>2, <4>3, <4>1 DEF assign
        <5>2. files[0] # NoFile
          BY <5>1, <4>1, <2>1, <1>0, NoFileType DEF TooLong
        <5> QED
          BY <3>1, <4>1, <4>3, <5>1, <5>2, <1>0
      <4> QED
        BY <3>3, <4>2, <4>3
    <3> QED
      BY <2>2, <3>2, <3>3, <1>2 DEF assign
  <2> QED
    BY <2>2, <2>3
<1>3. CASE Empty
  <2>1. files' = [files EXCEPT ![0] = NoFile] /\ pc' = "open"
    BY <1>3 DEF Empty
  <2>2. files' \in [Files -> File] /\ (\A f \in Files : files'[f].size < max_size)
       /\ files'[0] = NoFile
    BY <1>0, <2>1, RemovedTypes
  <2> QED
    BY <1>0, <1>3, <2>1, <2>2 DEF Empty
<1>4. CASE RemoveOldest
  <2>1. /\ files' = [files EXCEPT ![log_count] = NoFile]
        /\ pc' = "rename" /\ shift' = log_count - 1
    BY <1>4 DEF RemoveOldest, FirstMoved
  <2>2. files' \in [Files -> File] /\ (\A f \in Files : files'[f].size < max_size)
       /\ files'[log_count] = NoFile
    BY <1>0, <2>1, RemovedTypes
  <2>3. shift' \in Files /\ shift' < log_count /\ shift' + 1 = log_count
    BY <1>0, <1>4, <2>1 DEF RemoveOldest, Files
  <2> QED
    BY <1>0, <1>4, <2>1, <2>2, <2>3 DEF RemoveOldest
<1>5. CASE Rename
  <2>1. /\ shift \in Files /\ shift + 1 \in Files /\ shift \in Nat /\ shift < log_count
        /\ files[shift + 1] = NoFile
        /\ files' \in [Files -> File]
        /\ files'[shift + 1] = files[shift] /\ files'[shift] = NoFile
        /\ \A f \in Files : f # shift /\ f # shift + 1 => files'[f] = files[f]
    BY <1>5, RenamedFiles
  <2>2. \A f \in Files : files'[f].size < max_size
    BY <2>1
  <2>3. CASE shift = 0
    BY <1>0, <1>5, <2>1, <2>2, <2>3 DEF Rename
  <2>4. CASE shift # 0
    <3>1. shift' = shift - 1 /\ UNCHANGED pc
      BY <1>5, <2>4 DEF Rename
    <3>2. shift' \in Files /\ shift' < log_count /\ shift' + 1 = shift
      BY <1>0, <2>1, <2>4, <3>1 DEF Files
    <3> QED
      BY <1>0, <1>5, <2>1, <2>2, <3>1, <3>2 DEF Rename
  <2> QED
    BY <2>3, <2>4
<1>6. CASE Reopen
  <2>1. log_buf \in Nat
    BY DEF LoggerAssumption
  <2>2. /\ pc = "open" /\ pc' = "write"
        /\ UNCHANGED <<files, shift, log_buf, written, faults, crashes>>
    BY <1>6 DEF Reopen
  <2>3. files[0] = NoFile /\ log_buf < max_size /\ written < MaxLines
    BY <2>2
  <2>4. files[0].size + log_buf < max_size
    BY <2>1, <2>3, NoFileType
  <2>5. LogTypes'
    BY <1>0, <2>2
  <2> QED
    BY <1>0, <2>2, <2>3, <2>4, <2>5
<1>7. CASE ReopenFails
  BY <1>0, <1>7 DEF ReopenFails, LoggerAssumption
<1>8. CASE Write
  BY <1>8, WriteTypes
<1>9. CASE Crash
  BY <1>0, <1>9 DEF Crash, LoggerAssumption
<1>10. CASE UNCHANGED vars
  BY <1>0, <1>10 DEF vars
<1> HIDE DEF LogTypes, RoomInv
<1> QED
  BY <1>1, <1>2, <1>3, <1>4, <1>5, <1>6, <1>7, <1>8, <1>9, <1>10 DEF Next

(* The numbers in a file are numbers of lines.                             *)
LEMMA NumbersType ==
  ASSUME LoggerAssumption, LogTypes, NEW f \in Files
  PROVE  /\ Numbers(f) \subseteq 1 .. MaxLines
         /\ files[f].lines \in Seq(1 .. MaxLines) /\ Len(files[f].lines) \in Nat
         /\ \A k \in 1 .. Len(files[f].lines) :
              files[f].lines[k] \in Nat /\ files[f].lines[k] \in Numbers(f)
<1>1. files[f].lines \in Seq(1 .. MaxLines)
  BY DEF LogTypes, File
<1>2. Len(files[f].lines) \in Nat
      /\ \A k \in 1 .. Len(files[f].lines) : files[f].lines[k] \in 1 .. MaxLines
  BY <1>1
<1> QED
  BY <1>1, <1>2, SMTT(30) DEF Numbers, LoggerAssumption

(* Nothing is in a file that is not there.                                 *)
LEMMA NoNumbers ==
  ASSUME NEW f, files'[f] = NoFile
  PROVE  Numbers(f)' = {} /\ Len(files'[f].lines) = 0
<1>1. Len(files'[f].lines) = 0
  BY NoFileType
<1> QED
  BY <1>1 DEF Numbers

(* Where the oldest file is removed, the order stays, and what is kept is  *)
(* still the newest.                                                       *)
LEMMA RemovedOrder ==
  ASSUME LoggerAssumption, LogInv, files' = [files EXCEPT ![log_count] = NoFile],
         UNCHANGED <<log_count, written>>
  PROVE  InOrder' /\ Newest'
<1>0. /\ LogTypes /\ InOrder /\ Newest /\ log_count \in Files /\ log_count \in Nat
      /\ Files' = Files
  BY CountType DEF LogInv, Files
<1>1. files'[log_count] = NoFile /\ \A f \in Files : f # log_count => files'[f] = files[f]
  BY <1>0, RemovedTypes
<1>2. Numbers(log_count)' = {} /\ Len(files'[log_count].lines) = 0
  BY <1>1, NoNumbers
<1>3. \A f \in Files : f # log_count => Numbers(f)' = Numbers(f)
  BY <1>1 DEF Numbers
<1>4. InOrder'
  <2>1. ASSUME NEW f \in Files, NEW k \in 1 .. Len(files'[f].lines),
               NEW j \in 1 .. Len(files'[f].lines), j < k
        PROVE  files'[f].lines[j] < files'[f].lines[k]
    <3>1. f # log_count /\ files'[f] = files[f]
      BY <1>1, <1>2, <2>1
    <3> QED
      BY <1>0, <2>1, <3>1 DEF InOrder
  <2>2. ASSUME NEW f \in Files, NEW g \in Files, f < g,
               NEW m \in Numbers(f)', NEW n \in Numbers(g)'
        PROVE  n < m
    <3>1. m \in Numbers(f) /\ n \in Numbers(g)
      BY <1>2, <1>3, <2>2
    <3> QED
      BY <1>0, <2>2, <3>1 DEF InOrder
  <2> QED
    BY <1>0, <2>1, <2>2 DEF InOrder
<1>5. Newest'
  <2>1. \A f \in Files : Numbers(f)' \subseteq 1 .. written
    BY <1>0, <1>2, <1>3 DEF Newest
  <2>2. ASSUME NEW m \in 1 .. written, NEW n \in 1 .. written, Held(m)', m < n
        PROVE  Held(n)'
    <3>1. PICK f \in Files : m \in Numbers(f)'
      BY <1>0, <2>2 DEF Held
    <3>2. f # log_count /\ m \in Numbers(f)
      BY <1>2, <1>3, <3>1
    <3>3. Held(n)
      BY <1>0, <2>2, <3>2 DEF Held, Newest
    <3>4. PICK g \in Files : n \in Numbers(g)
      BY <3>3 DEF Held
    <3>5. g # log_count
      <4>1. SUFFICES ASSUME g = log_count PROVE FALSE
        OBVIOUS
      <4>2. f < g
        BY <1>0, <3>2, <4>1 DEF Files
      <4>3. n < m
        BY <1>0, <3>2, <3>4, <4>2 DEF InOrder
      <4> QED
        BY <2>2, <4>3
    <3> QED
      BY <1>0, <1>3, <3>4, <3>5 DEF Held
  <2> QED
    BY <1>0, <2>1, <2>2 DEF Newest
<1> QED
  BY <1>4, <1>5

(* So it is where a file becomes the next older one.                       *)
LEMMA RenamedOrder ==
  ASSUME LoggerAssumption, LogInv, Rename
  PROVE  InOrder' /\ Newest' /\ (\A n : Held(n)' <=> Held(n))
<1>0. LogTypes /\ InOrder /\ Newest /\ log_count \in Nat /\ Files' = Files /\ written' = written
  BY CountType DEF LogInv, Files, Rename
<1>1. PICK s \in Nat : s = shift
  BY RenamedFiles DEF LogInv
<1>11. /\ s \in Files /\ s + 1 \in Files
       /\ files[s + 1] = NoFile
       /\ files'[s + 1] = files[s] /\ files'[s] = NoFile
       /\ \A f \in Files : f # s /\ f # s + 1 => files'[f] = files[f]
  BY <1>1, RenamedFiles DEF LogInv
<1>2. Numbers(s)' = {} /\ Len(files'[s].lines) = 0
  BY <1>11, NoNumbers
<1>3. Numbers(s + 1)' = Numbers(s)
  BY <1>11 DEF Numbers
<1>4. Numbers(s + 1) = {}
  <2>1. Len(files[s + 1].lines) = 0
    BY <1>11, NoFileType
  <2> QED
    BY <2>1 DEF Numbers
<1>5. \A f \in Files : f # s /\ f # s + 1 => Numbers(f)' = Numbers(f)
  BY <1>11 DEF Numbers
<1>6. \A n : Held(n)' <=> Held(n)
  BY <1>0, <1>11, <1>2, <1>3, <1>4, <1>5 DEF Held
<1>7. Newest'
  <2>1. \A f \in Files : Numbers(f)' \subseteq 1 .. written
    BY <1>0, <1>11, <1>2, <1>3, <1>5 DEF Newest
  <2> QED
    BY <1>0, <1>6, <2>1 DEF Newest
<1>8. InOrder'
  <2>1. ASSUME NEW f \in Files, NEW k \in 1 .. Len(files'[f].lines),
               NEW j \in 1 .. Len(files'[f].lines), j < k
        PROVE  files'[f].lines[j] < files'[f].lines[k]
    <3>1. CASE f = s
      BY <1>2, <2>1, <3>1
    <3>2. CASE f = s + 1
      BY <1>0, <1>11, <2>1, <3>2 DEF InOrder
    <3>3. CASE f # s /\ f # s + 1
      BY <1>0, <1>11, <2>1, <3>3 DEF InOrder
    <3> QED
      BY <3>1, <3>2, <3>3
  <2>2. ASSUME NEW f \in Files, NEW g \in Files, f < g,
               NEW m \in Numbers(f)', NEW n \in Numbers(g)'
        PROVE  n < m
    <3>1. f # s /\ g # s /\ f \in Nat /\ g \in Nat
      BY <1>0, <1>2 DEF Files
    <3>2. CASE f = s + 1
      <4>1. m \in Numbers(s) /\ g # s + 1 /\ s < g
        BY <1>11, <1>3, <2>2, <3>1, <3>2
      <4>2. n \in Numbers(g)
        BY <1>5, <3>1, <4>1
      <4> QED
        BY <1>0, <1>11, <4>1, <4>2 DEF InOrder
    <3>3. CASE g = s + 1
      <4>1. n \in Numbers(s) /\ f # s + 1 /\ f < s
        BY <1>11, <1>3, <2>2, <3>1, <3>3
      <4>2. m \in Numbers(f)
        BY <1>5, <3>1, <4>1
      <4> QED
        BY <1>0, <1>11, <4>1, <4>2 DEF InOrder
    <3>4. CASE f # s + 1 /\ g # s + 1
      <4>1. m \in Numbers(f) /\ n \in Numbers(g)
        BY <1>5, <3>1, <3>4
      <4> QED
        BY <1>0, <2>2, <4>1 DEF InOrder
    <3> QED
      BY <3>2, <3>3, <3>4
  <2> QED
    BY <1>0, <2>1, <2>2 DEF InOrder
<1> QED
  BY <1>6, <1>7, <1>8

(* So it is where the next line is written.                                *)
LEMMA WrittenOrder ==
  ASSUME LoggerAssumption, LogInv, Write
  PROVE  InOrder' /\ Newest' /\ (\A n : Held(n)' <=> Held(n) \/ n = written + 1)
<1>0. LogTypes /\ InOrder /\ Newest /\ 0 \in Files /\ log_count \in Nat /\ Files' = Files
      /\ written' = written + 1 /\ written \in Nat
  BY CountType DEF LogInv, LogTypes, Files, Write
<1> DEFINE old == files[0].lines
<1>1. old \in Seq(1 .. MaxLines) /\ Len(old) \in Nat
  BY <1>0, NumbersType
<1>2. files'[0].lines = Append(old, written + 1)
  BY <1>0 DEF Write, LogTypes
<1>3. \A f \in Files : f # 0 => files'[f] = files[f]
  BY <1>0 DEF Write, LogTypes
<1>4. /\ Len(files'[0].lines) = Len(old) + 1 /\ files'[0].lines[Len(old) + 1] = written + 1
      /\ \A k \in 1 .. Len(old) : files'[0].lines[k] = old[k]
  BY <1>1, <1>2
<1>5. Numbers(0)' = Numbers(0) \cup {written + 1}
  <2> HIDE DEF old
  <2>1. 1 .. Len(old) + 1 = (1 .. Len(old)) \cup {Len(old) + 1}
    BY <1>1
  <2>2. \A n : n \in Numbers(0)' <=> \E k \in 1 .. Len(old) + 1 : n = files'[0].lines[k]
    BY Zenon, <1>4 DEF Numbers
  <2>3. \A n : n \in Numbers(0) <=> \E k \in 1 .. Len(old) : n = old[k]
    BY Zenon DEF Numbers, old
  <2> QED
    BY <1>4, <2>1, <2>2, <2>3, SMTT(30)
<1>6. \A f \in Files : f # 0 => Numbers(f)' = Numbers(f)
  BY <1>3 DEF Numbers
<1>7. \A f \in Files : Numbers(f) \subseteq 1 .. written
  BY <1>0 DEF Newest
<1>8. \A n : Held(n)' <=> Held(n) \/ n = written + 1
  BY <1>0, <1>5, <1>6 DEF Held
<1>9. Newest'
  <2>1. \A f \in Files : Numbers(f)' \subseteq 1 .. written + 1
    BY <1>0, <1>5, <1>6, <1>7
  <2>2. ASSUME NEW m \in 1 .. written + 1, NEW n \in 1 .. written + 1, Held(m)', m < n
        PROVE  Held(n)'
    <3>1. CASE n = written + 1
      BY <1>8, <3>1
    <3>2. CASE n # written + 1
      <4>1. m \in 1 .. written /\ n \in 1 .. written /\ Held(m)
        BY <1>0, <1>8, <2>2, <3>2
      <4>2. Held(n)
        BY <1>0, <2>2, <4>1 DEF Newest
      <4> QED
        BY <1>8, <4>2
    <3> QED
      BY <3>1, <3>2
  <2> QED
    BY <1>0, <2>1, <2>2 DEF Newest
<1>10. InOrder'
  <2>1. ASSUME NEW f \in Files, NEW k \in 1 .. Len(files'[f].lines),
               NEW j \in 1 .. Len(files'[f].lines), j < k
        PROVE  files'[f].lines[j] < files'[f].lines[k]
    <3>1. CASE f # 0
      BY <1>0, <1>3, <2>1, <3>1 DEF InOrder
    <3>2. CASE f = 0 /\ k = Len(old) + 1
      <4>1. j \in 1 .. Len(old)
        BY <1>1, <1>4, <2>1, <3>2
      <4>2. old[j] \in Numbers(0)
        BY <4>1 DEF Numbers
      <4>3. old[j] \in 1 .. written
        BY <1>0, <1>7, <4>2
      <4> QED
        BY <1>0, <1>4, <3>2, <4>1, <4>3, SMTT(30)
    <3>3. CASE f = 0 /\ k # Len(old) + 1
      <4>1. j \in 1 .. Len(old) /\ k \in 1 .. Len(old)
        BY <1>1, <1>4, <2>1, <3>3, SMTT(30)
      <4>2. old[j] < old[k]
        BY <1>0, <2>1, <4>1 DEF InOrder
      <4> QED
        BY <1>4, <3>3, <4>1, <4>2
    <3> QED
      BY <3>1, <3>2, <3>3
  <2>2. ASSUME NEW f \in Files, NEW g \in Files, f < g,
               NEW m \in Numbers(f)', NEW n \in Numbers(g)'
        PROVE  n < m
    <3>1. g # 0 /\ n \in Numbers(g)
      BY <1>0, <1>6, <2>2 DEF Files
    <3>2. CASE m \in Numbers(f)
      BY <1>0, <2>2, <3>1, <3>2 DEF InOrder
    <3>3. CASE m \notin Numbers(f)
      <4>1. m = written + 1
        BY <1>5, <1>6, <3>3
      <4>2. n \in 1 .. written
        BY <1>7, <3>1
      <4> QED
        BY <1>0, <4>1, <4>2
    <3> QED
      BY <3>2, <3>3
  <2> QED
    BY <1>0, <2>1, <2>2 DEF InOrder
<1> QED
  BY <1>8, <1>9, <1>10

(* The invariant of KeepsTheNewest is inductive.                           *)
LEMMA LogStep ==
  ASSUME LoggerAssumption, LogInv, [Next]_vars
  PROVE  LogInv'
<1>1. LogTypes' /\ RoomInv'
  BY TypesStep DEF LogInv
<1>2. log_count' = log_count
  BY CountKept
<1>3. CASE Empty
  <2>1. log_count = 0 /\ files' = [files EXCEPT ![0] = NoFile] /\ written' = written
    BY <1>3 DEF Empty, LogInv, RoomInv
  <2> QED
    BY <1>1, <1>2, <2>1, RemovedOrder DEF LogInv
<1>4. CASE RemoveOldest
  <2>1. files' = [files EXCEPT ![log_count] = NoFile] /\ written' = written
    BY <1>4 DEF RemoveOldest
  <2> QED
    BY <1>1, <1>2, <2>1, RemovedOrder DEF LogInv
<1>5. CASE Rename
  BY <1>1, <1>5, RenamedOrder DEF LogInv
<1>6. CASE Write
  BY <1>1, <1>6, WrittenOrder DEF LogInv
<1>7. CASE ~Writes
  <2>1. UNCHANGED <<log_count, files, written>>
    BY <1>7, FilesKept
  <2>2. InOrder /\ Newest
    BY DEF LogInv
  <2>3. Files' = Files /\ \A f : Numbers(f)' = Numbers(f)
    BY <2>1 DEF Numbers, Files
  <2>4. \A n : Held(n)' <=> Held(n)
    BY <2>3 DEF Held
  <2>5. InOrder'
    BY <2>1, <2>2, <2>3 DEF InOrder
  <2>6. Newest'
    BY <2>1, <2>2, <2>3, <2>4 DEF Newest
  <2> QED
    BY <1>1, <2>5, <2>6 DEF LogInv
<1> QED
  BY <1>3, <1>4, <1>5, <1>6, <1>7 DEF Writes

(* It holds in the beginning.                                              *)
LEMMA LogInit ==
  ASSUME LoggerAssumption, Init
  PROVE  LogInv
<1>1. log_count \in Nat /\ 0 \in Files /\ files = [f \in Files |-> NoFile] /\ written = 0
  BY DEF Init, LoggerAssumption, Files
<1>2. files \in [Files -> File]
      /\ \A f \in Files : files[f] = NoFile /\ Len(files[f].lines) = 0 /\ files[f].size = 0
  BY <1>1, NoFileType
<1>3. \A f \in Files : Numbers(f) = {}
  BY <1>2 DEF Numbers
<1>4. LogTypes /\ RoomInv
  BY <1>1, <1>2 DEF Init, LogTypes, RoomInv, LoggerAssumption
<1>5. InOrder
  BY <1>2, <1>3 DEF InOrder
<1>6. Newest
  BY <1>1, <1>3 DEF Newest
<1> QED
  BY <1>4, <1>5, <1>6 DEF LogInv

(* loop_rotate, also where a crash cuts it short: the files hold the       *)
(* newest lines, each once and in the order of writing, and none grows to  *)
(* max_size.                                                               *)
THEOREM KeepsTheNewestHolds ==
  ASSUME LoggerAssumption
  PROVE  Spec => []KeepsTheNewest
<1>1. Init => LogInv
  BY LogInit
<1>2. LogInv /\ [Next]_vars => LogInv'
  BY LogStep
<1>3. Init => opened \in BOOLEAN
  BY DEF Init
<1>4. opened \in BOOLEAN /\ [Next]_vars => (opened \in BOOLEAN)'
  BY Zenon DEF Next, vars, create, assign, Empty, RemoveOldest, Rename, Reopen, ReopenFails,
               Write, Crash
<1>5. LogInv /\ opened \in BOOLEAN => KeepsTheNewest
  <2>1. LogTypes /\ opened \in BOOLEAN => TypeOK
    BY Zenon DEF LogTypes, TypeOK
  <2> QED
    BY <2>1 DEF LogInv, KeepsTheNewest
<1> QED
  BY <1>1, <1>2, <1>3, <1>4, <1>5, PTL DEF Spec

(* Nothing is gone that was not gone, but by the removal of a file.        *)
LEMMA GoneByRemoval ==
  ASSUME LoggerAssumption, LogInv, [Next]_vars, Dropped', ~Empty, ~RemoveOldest
  PROVE  Dropped
<1>0. written \in Nat
  BY DEF LogInv, LogTypes
<1>1. CASE Rename
  <2>1. (\A n : Held(n)' <=> Held(n)) /\ written' = written
    BY <1>1, RenamedOrder DEF Rename
  <2> QED
    BY <2>1 DEF Dropped
<1>2. CASE Write
  <2>1. (\A n : Held(n)' <=> Held(n) \/ n = written + 1) /\ written' = written + 1
    BY <1>2, WrittenOrder DEF Write
  <2> QED
    BY <1>0, <2>1 DEF Dropped
<1>3. CASE ~Writes
  <2>1. UNCHANGED <<log_count, files, written>>
    BY <1>3, FilesKept
  <2> QED
    BY <2>1 DEF Dropped, Held, Numbers, Files
<1> QED
  BY <1>1, <1>2, <1>3 DEF Writes

(* Without crashes and failures, the first line goes only when all the     *)
(* rotated files are in use.                                               *)
LEMMA FullStep ==
  ASSUME LoggerAssumption, LogInv, FullInv, [Next]_vars
  PROVE  FullInv'
<1>0. /\ log_count \in Nat /\ 0 \in Files /\ log_count \in Files
      /\ log_count' = log_count /\ Files' = Files
  BY CountType, CountKept DEF Files, LogInv
<1>1. SUFFICES ASSUME crashes' = 0 /\ faults' = 0
               PROVE  FullInv'
  BY DEF FullInv
<1>2. crashes = 0 /\ faults = 0 /\ ~Crash /\ ~ReopenFails
  <2>1. crashes \in Nat /\ faults \in Nat
    BY DEF LogInv, LogTypes, LoggerAssumption
  <2>2. ~Crash /\ ~ReopenFails
    BY <1>1, <2>1 DEF Crash, ReopenFails
  <2>3. UNCHANGED <<crashes, faults>>
    BY Zenon, <2>2 DEF Next, vars, create, assign, Empty, RemoveOldest, Rename, Reopen, Write
  <2> QED
    BY <1>1, <2>2, <2>3
<1>3. CASE Empty
  <2>1. log_count = 0 /\ pc' = "open"
    BY <1>3 DEF Empty, LogInv, RoomInv
  <2> QED
    BY <1>0, <2>1 DEF FullInv, NoGapIn
<1>4. CASE RemoveOldest
  <2>1. /\ files' = [files EXCEPT ![log_count] = NoFile] /\ written' = written
        /\ pc' = "rename" /\ shift' = log_count - 1 /\ pc = "rotate"
    BY <1>4 DEF RemoveOldest, FirstMoved
  <2>2. log_count > 0 /\ files[0] # NoFile /\ LogTypes
    BY <2>1 DEF LogInv, RoomInv
  <2>3. files'[log_count] = NoFile /\ \A f \in Files : f # log_count => files'[f] = files[f]
    BY <1>0, <2>1, <2>2, RemovedTypes
  <2>4. NoGapIn(1 .. log_count) /\ (Dropped => \A f \in 1 .. log_count : files[f] # NoFile)
    BY <1>2, <2>1 DEF FullInv
  <2>5. \A f \in Files : f = 0 \/ f \in 1 .. log_count
    BY <1>0 DEF Files
  <2>6. shift' + 1 = log_count
    BY <1>0, <2>1
  <2>7. ASSUME NEW f \in Files \ {log_count}, NEW g \in Files \ {log_count},
               f < g, files'[g] # NoFile
        PROVE  files'[f] # NoFile
    BY <2>2, <2>3, <2>4, <2>5, <2>7 DEF NoGapIn, Files
  <2>8. Dropped' => \A f \in Files \ {log_count} : files'[f] # NoFile
    <3>1. SUFFICES ASSUME Dropped', NEW f \in Files \ {log_count}
                   PROVE  files'[f] # NoFile
      OBVIOUS
    <3>2. \A g \in 1 .. log_count : files[g] # NoFile
      <4>1. CASE Dropped
        BY <2>4, <4>1
      <4>2. CASE files[log_count] # NoFile
        BY <1>0, <2>2, <2>4, <4>2 DEF NoGapIn
      <4>3. CASE ~Dropped /\ files[log_count] = NoFile
        <5>1. files' = files
          BY <1>0, <2>1, <2>2, <4>3 DEF LogTypes
        <5> QED
          BY <1>0, <2>1, <3>1, <4>3, <5>1 DEF Dropped, Held, Numbers
      <4> QED
        BY <4>1, <4>2, <4>3
    <3> QED
      BY <2>2, <2>3, <2>5, <3>2
  <2>9. files'[0] # NoFile
    BY <1>0, <2>2, <2>3
  <2> QED
    BY <1>0, <2>1, <2>6, <2>7, <2>8, <2>9 DEF FullInv, NoGapIn
<1>5. CASE Rename
  <2>1. PICK s \in Nat : s = shift
    BY <1>5, RenamedFiles DEF LogInv
  <2>2. /\ s \in Files /\ s + 1 \in Files /\ s < log_count /\ pc = "rename"
        /\ files'[s + 1] = files[s] /\ files'[s] = NoFile
        /\ \A f \in Files : f # s /\ f # s + 1 => files'[f] = files[f]
    BY <1>5, <2>1, RenamedFiles DEF LogInv, Rename
  <2>3. /\ NoGapIn(Files \ {s + 1}) /\ files[0] # NoFile
        /\ Dropped => \A f \in Files \ {s + 1} : files[f] # NoFile
    BY <1>2, <2>1, <2>2 DEF FullInv
  <2>4. Dropped' => Dropped
    BY <1>5, GoneByRemoval DEF Empty, RemoveOldest, Rename
  <2> DEFINE from(f) == IF f = s + 1 THEN s ELSE f
  <2>5. \A f \in Files \ {s} : from(f) \in Files \ {s + 1} /\ files'[f] = files[from(f)]
    BY <2>2
  <2>6. \A f \in Files \ {s}, g \in Files \ {s} : f < g => from(f) < from(g)
    BY <2>1 DEF Files
  <2>7. ASSUME NEW f \in Files \ {s}, NEW g \in Files \ {s}, f < g, files'[g] # NoFile
        PROVE  files'[f] # NoFile
    <3> HIDE DEF from
    <3> QED
      BY <2>3, <2>5, <2>6, <2>7 DEF NoGapIn
  <2>8. Dropped' => \A f \in Files \ {s} : files'[f] # NoFile
    <3> HIDE DEF from
    <3> QED
      BY <2>3, <2>4, <2>5
  <2>9. CASE s = 0
    <3>1. pc' = "open"
      BY <1>5, <2>1, <2>9 DEF Rename
    <3>2. 1 .. log_count \subseteq Files \ {s}
      BY <2>9, <1>0 DEF Files
    <3> QED
      BY <1>0, <2>7, <2>8, <3>1, <3>2 DEF FullInv, NoGapIn
  <2>10. CASE s # 0
    <3>1. shift' = s - 1 /\ pc' = "rename" /\ (s - 1) + 1 = s
      BY <1>5, <2>1, <2>2, <2>10 DEF Rename
    <3>2. files'[0] = files[0]
      BY <1>0, <2>1, <2>2, <2>10
    <3> QED
      BY <1>0, <2>3, <2>7, <2>8, <3>1, <3>2 DEF FullInv, NoGapIn
  <2> QED
    BY <2>9, <2>10
<1>6. CASE create \/ (\E len \in Lengths : assign(len)) \/ Reopen \/ Write
  <2>1. ~Empty /\ ~RemoveOldest /\ ~Rename /\ pc # "rename" /\ pc' # "rename"
    BY <1>6 DEF create, assign, Reopen, Write, Empty, RemoveOldest, Rename
  <2>2. Dropped' => Dropped
    BY <2>1, GoneByRemoval
  <2>3. \A f \in 1 .. log_count : files'[f] = files[f]
    <3>1. CASE Write
      BY <1>0, <3>1 DEF Write, LogInv, LogTypes, Files
    <3>2. CASE ~Write
      BY <2>1, <3>2, FilesKept DEF Writes
    <3> QED
      BY <3>1, <3>2
  <2> QED
    BY <1>0, <1>2, <2>1, <2>2, <2>3 DEF FullInv, NoGapIn
<1>7. CASE UNCHANGED vars
  BY <1>7 DEF vars, FullInv, NoGapIn, Dropped, Held, Numbers, Files
<1> QED
  BY <1>2, <1>3, <1>4, <1>5, <1>6, <1>7 DEF Next

(* loop_rotate: where no crash and no failure has left a gap, a line is    *)
(* given up only when all the rotated files are in use.                    *)
THEOREM DropsOnlyWhenFullHolds ==
  ASSUME LoggerAssumption
  PROVE  Spec => []DropsOnlyWhenFull
<1>1. Init => LogInv
  BY LogInit
<1>2. LogInv /\ [Next]_vars => LogInv'
  BY LogStep
<1>3. Init => FullInv
  BY DEF Init, FullInv, NoGapIn, Dropped, Files
<1>4. LogInv /\ FullInv /\ [Next]_vars => FullInv'
  BY FullStep
<1>5. FullInv => DropsOnlyWhenFull
  BY DEF FullInv, DropsOnlyWhenFull, Dropped
<1> QED
  BY <1>1, <1>2, <1>3, <1>4, <1>5, PTL DEF Spec
-----------------------------------------------------------------------------
(* The result that assign has stored stays until the task follows it,      *)
(* because on_heart_beat waits for the mutex.                              *)
AssignInv == assigning # NoTask => task_result = assigning

(* The flag says how far run has come with the callers of stop: run goes   *)
(* to the logout only while it is set, and only the logout that ends run   *)
(* and the session takes it back.  Nobody's stop returns before.           *)
StopInv ==
  /\ runPc = "logout" => stop_flag
  /\ \A c \in Callers : stopPc[c] # "idle" /\ ~stop_flag => runPc = "ended" /\ centre # "logged"
  /\ \A c \in Callers : stopPc[c] = "returned" => runPc = "ended" /\ centre # "logged"

(* run only logs in when the modules have been told that the last login is *)
(* void.  (The first heart beat ignores what it is told, but a login does  *)
(* not follow before the second.)                                          *)
TokenInv ==
  /\ logok \in Int /\ logok <= 1
  /\ runPc \in {"login", "register", "relogin"} => logok <= 0

(* The types, with the Boolean variables apart from the others.            *)
AgentBooleans == looping \in BOOLEAN /\ LOGINED \in BOOLEAN /\ stop_flag \in BOOLEAN

AgentTypes ==
  /\ centre \in {"unknown", "registered", "logged"} /\ lost \in 0 .. MaxLost
  /\ runPc \in {"login", "register", "relogin", "loop", "heart", "task", "logout", "ended"}
  /\ stopPc \in [Callers -> {"idle", "spin", "returned"}]
  /\ cur_task_id \in MaybeTask /\ task_result \in MaybeTask /\ assigning \in MaybeTask

PairInv ==
  runPc # "task" /\ assigning = NoTask => (cur_task_id = NoTask <=> task_result = NoTask)

AgentInv == AgentTypes /\ PairInv /\ AssignInv /\ StopInv /\ TokenInv

(* What the invariant says of the properties.                              *)
LEMMA InvImplies ==
  AgentInv /\ AgentBooleans => ResultHasTask /\ StoppedIsLoggedOut /\ TokenTakenBack
<1>1. AgentTypes /\ AgentBooleans => AgentTypeOK
  BY Zenon DEF AgentTypes, AgentBooleans, AgentTypeOK
<1>2. AgentInv => StoppedIsLoggedOut /\ TokenTakenBack
  BY DEF AgentInv, StopInv, TokenInv, StoppedIsLoggedOut, TokenTakenBack
<1> QED
  BY <1>1, <1>2 DEF AgentInv, PairInv, ResultHasTask

(* What a request does to the centre: it stays as it is or becomes what    *)
(* the centre's side of the request says.                                  *)
LEMMA RequestType ==
  ASSUME NEW answer, NEW state \in {"unknown", "registered", "logged"}, NEW code, AgentTypes,
         do_request(answer, state, code)
  PROVE  /\ centre' \in {"unknown", "registered", "logged"}
         /\ lost' \in 0 .. MaxLost
         /\ code = "failed" \/ (code = answer /\ centre' = state)
<1>1. CASE code = answer /\ centre' = state /\ UNCHANGED lost
  BY <1>1 DEF AgentTypes
<1>2. CASE /\ code = "failed" /\ lost < MaxLost
           /\ lost' = lost + 1
           /\ centre' \in {centre, state}
  <2>1. lost' \in 0 .. MaxLost
    BY <1>2, CenterAgentAssumption DEF AgentTypes
  <2>2. centre' \in {"unknown", "registered", "logged"}
    BY <1>2 DEF AgentTypes
  <2> QED
    BY <1>2, <2>1, <2>2
<1> QED
  BY <1>1, <1>2 DEF do_request

(* The centre's next states; a logout that it confirms ends the session.   *)
LEMMA Replies ==
  ASSUME AgentTypes
  PROVE  /\ AfterServerLogin \in {"unknown", "registered", "logged"}
         /\ AfterServerRegister \in {"unknown", "registered", "logged"}
         /\ AfterServerLogout \in {"unknown", "registered", "logged"}
         /\ ServerLogout = "ERR_OK" => AfterServerLogout # "logged"
  BY DEF AgentTypes, AfterServerLogin, AfterServerRegister, AfterServerLogout, ServerLogout

(* Nothing is logged in and nothing is assigned at first.                  *)
LEMMA Initially == AgentInit => AgentInv
  BY CenterAgentAssumption
  DEF AgentInit, AgentInv, AgentTypes, PairInv, AssignInv, StopInv, TokenInv, MaybeTask

(* A step of run.                                                          *)
LEMMA RunStepInv == ASSUME AgentInv, RunStep PROVE AgentInv'
<1> USE CenterAgentAssumption
    DEF AgentInv, AgentTypes, PairInv, AssignInv, StopInv, TokenInv, MaybeTask, taskVars,
        stopVars, requestVars
<1>1. ASSUME NEW code, center_login(code)
      PROVE  /\ centre' \in {"unknown", "registered", "logged"}
             /\ lost' \in 0 .. MaxLost
             /\ logok' \in Int
             /\ code = "ERR_OK" => logok' = logok + 1 /\ LOGINED'
             /\ code # "ERR_OK" => logok' = logok
             /\ UNCHANGED <<stop_flag, stopPc, cur_task_id, task_result, assigning>>
  <2>1. do_request(ServerLogin, AfterServerLogin, code)
    BY <1>1 DEF center_login
  <2>2. centre' \in {"unknown", "registered", "logged"} /\ lost' \in 0 .. MaxLost
    BY <2>1, RequestType, Replies
  <2>3. code = "ERR_OK" => LOGINED'
    BY <1>1, Zenon DEF center_login
  <2>4. logok' = IF code = "ERR_OK" THEN logok + 1 ELSE logok
    BY <1>1, Zenon DEF center_login
  <2>5. UNCHANGED <<stop_flag, stopPc, cur_task_id, task_result, assigning>>
    BY <1>1, Zenon DEF center_login
  <2> QED
    BY <2>2, <2>3, <2>4, <2>5
<1>2. CASE Login
  <2>1. PICK code \in Codes : center_login(code) /\ runPc' = AfterFirst(code, LOGINED')
    BY <1>2 DEF Login
  <2>2. /\ runPc' \in {"register", "login", "heart", "loop"}
        /\ runPc' \in {"register", "login"} => code # "ERR_OK"
    BY <1>1, <2>1 DEF AfterFirst, AfterLogin
  <2>3. runPc = "login" BY <1>2 DEF Login
  <2>4. TokenInv' BY <1>1, <2>1, <2>2, <2>3
  <2>5. StopInv' BY <1>1, <2>1, <2>2, <2>3
  <2> QED
    BY <1>1, <2>1, <2>2, <2>3, <2>4, <2>5
<1>3. CASE Register
  <2>1. PICK code \in Codes : do_request(ServerRegister, AfterServerRegister, code)
    BY <1>3 DEF Register
  <2>2. centre' \in {"unknown", "registered", "logged"} /\ lost' \in 0 .. MaxLost
    BY <2>1, RequestType, Replies
  <2> QED
    BY <1>3, <2>2 DEF Register, AfterLogin
<1>4. CASE LoginAgain
  <2>1. PICK code \in Codes : center_login(code) /\ runPc' = AfterLogin(LOGINED')
    BY <1>4 DEF LoginAgain
  <2>2. /\ runPc' \in {"login", "heart", "loop"}
        /\ runPc' = "login" => code # "ERR_OK"
    BY <1>1, <2>1 DEF AfterLogin
  <2>3. runPc = "relogin" BY <1>4 DEF LoginAgain
  <2>4. TokenInv' BY <1>1, <2>1, <2>2, <2>3
  <2>5. StopInv' BY <1>1, <2>1, <2>2, <2>3
  <2> QED
    BY <1>1, <2>1, <2>2, <2>3, <2>4, <2>5
<1>5. CASE Loop
  BY <1>5 DEF Loop
<1>6. CASE HeartBeat
  <2>1. PICK code \in Codes : do_request(ServerHeartBeat, centre, code)
    BY <1>6 DEF HeartBeat
  <2>2. centre' \in {"unknown", "registered", "logged"} /\ lost' \in 0 .. MaxLost
    BY <2>1, RequestType, Replies
  <2>3. /\ runPc' \in {"task", "login", "loop"}
        /\ runPc' # "task" => UNCHANGED cur_task_id
        /\ cur_task_id' \in MaybeTask
        /\ logok' \in Int /\ logok' <= 1
        /\ runPc' = "login" => logok' <= 0
    BY <1>6 DEF HeartBeat
  <2> QED
    BY <1>6, <2>2, <2>3 DEF HeartBeat
<1>7. CASE FinishTask
  BY <1>7 DEF FinishTask
<1>8. CASE Logout
  <2>1. PICK code \in Codes : /\ do_request(ServerLogout, AfterServerLogout, code)
                              /\ stop_flag' = (stop_flag /\ ~ResetsFlag(code))
    BY <1>8 DEF Logout
  <2>2. centre' \in {"unknown", "registered", "logged"} /\ lost' \in 0 .. MaxLost
    BY <2>1, RequestType, Replies
  <2>3. ~stop_flag' => centre' # "logged"
    <3>1. SUFFICES ASSUME ~stop_flag' PROVE centre' # "logged"
      OBVIOUS
    <3>2. stop_flag /\ runPc = "logout" BY <1>8 DEF Logout
    <3>3. code = "ERR_OK" BY <2>1, <3>1, <3>2 DEF ResetsFlag
    <3>4. ServerLogout = "ERR_OK" /\ centre' = AfterServerLogout
      BY <2>1, <3>3, RequestType, Replies
    <3> QED
      BY <3>4, Replies
  <2>4. runPc' = "ended" /\ UNCHANGED <<stopPc, cur_task_id, task_result, assigning, logok>>
    BY <1>8 DEF Logout
  <2>5. runPc = "logout" BY <1>8 DEF Logout
  <2>6. StopInv' BY <2>3, <2>4, <2>5
  <2> QED
    BY <2>2, <2>4, <2>5, <2>6
<1> QED
  BY <1>2, <1>3, <1>4, <1>5, <1>6, <1>7, <1>8 DEF RunStep

(* A step of the centre, of assign and of stop.                            *)
OtherStep ==
  \/ Forget \/ AssignTaskId \/ AssignNoTask
  \/ \E c \in Callers : StopRequest(c) \/ StopReturn(c)
  \/ \E t \in Tasks : AssignResult(t)

LEMMA OtherStepInv == ASSUME AgentInv, OtherStep PROVE AgentInv'
<1> USE CenterAgentAssumption
    DEF AgentInv, AgentTypes, PairInv, AssignInv, StopInv, TokenInv, MaybeTask, taskVars,
        stopVars, requestVars
<1>1. CASE Forget
  <2>1. lost' \in 0 .. MaxLost
    BY <1>1 DEF Forget
  <2>2. centre' \in {"unknown", "registered"}
    BY <1>1 DEF Forget
  <2> QED
    BY <1>1, <2>1, <2>2 DEF Forget
<1>2. CASE AssignTaskId
  BY <1>2 DEF AssignTaskId
<1>3. CASE AssignNoTask
  BY <1>3 DEF AssignNoTask
<1>4. CASE \E c \in Callers : StopRequest(c)
  BY <1>4 DEF StopRequest, Deleted, Callers
<1>5. CASE \E c \in Callers : StopReturn(c)
  BY <1>5 DEF StopReturn, Deleted, Callers
<1>6. CASE \E t \in Tasks : AssignResult(t)
  BY <1>6 DEF AssignResult
<1> QED
  BY <1>1, <1>2, <1>3, <1>4, <1>5, <1>6, Zenon DEF OtherStep

(* A step that leaves everything as it is.                                 *)
LEMMA StutterInv == ASSUME AgentInv, UNCHANGED agentVars PROVE AgentInv'
  BY DEF AgentInv, AgentTypes, PairInv, AssignInv, StopInv, TokenInv, MaybeTask,
         agentVars, taskVars, stopVars, requestVars

(* The Boolean variables are only ever given Boolean values.               *)
LEMMA BooleansHold == ASSUME AgentBooleans, [AgentNext]_agentVars PROVE AgentBooleans'
<1> USE DEF AgentBooleans
<1>1. CASE RunStep
  <2>1. ASSUME NEW code, center_login(code) PROVE AgentBooleans'
    BY <2>1, Zenon DEF center_login, stopVars
  <2> QED
    BY <1>1, <2>1, Zenon
    DEF RunStep, Login, Register, LoginAgain, Loop, HeartBeat, FinishTask, Logout, stopVars
<1>2. CASE ~RunStep
  BY <1>2, Zenon
  DEF AgentNext, Forget, AssignResult, AssignTaskId, AssignNoTask, StopRequest, StopReturn,
      agentVars, stopVars
<1> QED
  BY <1>1, <1>2

(* The invariant, with the types of the Boolean variables.                 *)
LEMMA InvHolds == AgentSpec => [](AgentInv /\ AgentBooleans)
<1>1. AgentInit => AgentInv /\ AgentBooleans
  <2>1. AgentInit => AgentBooleans
    BY Zenon DEF AgentInit, AgentBooleans
  <2> QED
    BY <2>1, Initially
<1>2. AgentInv /\ AgentBooleans /\ [AgentNext]_agentVars => (AgentInv /\ AgentBooleans)'
  <2>1. ASSUME AgentInv, AgentNext PROVE AgentInv'
    <3>1. RunStep \/ OtherStep
      BY <2>1, Zenon DEF AgentNext, OtherStep
    <3> QED
      BY <2>1, <3>1, RunStepInv, OtherStepInv, Zenon
  <2>2. AgentInv /\ [AgentNext]_agentVars => AgentInv'
    BY <2>1, StutterInv, Zenon
  <2> QED
    BY <2>2, BooleansHold, Zenon
<1> QED
  BY <1>1, <1>2, PTL DEF AgentSpec

(* The pair of task and result is whole whenever neither assign nor        *)
(* on_heart_beat is in the middle of changing it, whatever the tasks and   *)
(* the faults.                                                             *)
THEOREM ResultHasTaskHolds == AgentSpec => []ResultHasTask
  BY InvHolds, InvImplies, PTL

(* stop returns only when the centre has confirmed the logout and run has  *)
(* ended; the session stays closed.                                        *)
THEOREM StoppedIsLoggedOutHolds == AgentSpec => []StoppedIsLoggedOut
  BY InvHolds, InvImplies, PTL

(* The modules never hold a token while they are told another.             *)
THEOREM TokenTakenBackHolds == AgentSpec => []TokenTakenBack
  BY InvHolds, InvImplies, PTL
=============================================================================
