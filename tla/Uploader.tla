------------------------------ MODULE Uploader -------------------------------
(***************************************************************************)
(* Store and forward of the monitor's reports (uploader_edr.cpp over       *)
(* http_src/upload_report.cpp and cache_to_sqlite.cpp): the statistics     *)
(* thread pushes reports, the upload thread drives their transfers with    *)
(* libcurl, and what cannot be sent now waits in a database, one for       *)
(* snapshots and one for process actions, that outlives the process.       *)
(*                                                                         *)
(* A report is inserted into a database at most once, so the database is   *)
(* the sequence of its reports in the order of their ids.                  *)
(***************************************************************************)
EXTENDS Naturals, Sequences, SequencesExt, FiniteSets

CONSTANTS
  SnapShots, ProcActions,   \* reports: json_file
  Tasks,          \* reports: task_record, for which there is no database
  Handles,        \* bound: numbers of transfers at the same time
  MaxFaults,      \* bound: failures to wait, to start a transfer, to insert a row or to open
                  \* a database, lost answers
  MaxEnds         \* bound: stops and crashes of the process

Reports == SnapShots \cup ProcActions \cup Tasks

ASSUME UploaderAssumption ==
  /\ SnapShots \cap ProcActions = {} /\ (SnapShots \cup ProcActions) \cap Tasks = {}
  /\ Handles \subseteq Nat /\ Handles # {} /\ IsFiniteSet(Handles)
  /\ MaxFaults \in Nat /\ MaxEnds \in Nat

Caches == {"ss", "pa"}

CacheOf(r) == IF r \in SnapShots THEN "ss" ELSE "pa"

(* An entry of curl_cache_map: its report, whether that came from the      *)
(* database (cache_id # 0), and how far the transfer is.                   *)
Item == [report : Reports, cached : BOOLEAN, state : {"sending", "ok", "failed"}]
NoItem == [report |-> "none"]

VARIABLES
  process,    \* "up", "stopping" (stop was called), "ended" (the upload thread), "down"
  valid,      \* host, port and token are known
  cache,      \* the two databases
  curl_map,   \* the transfers
  running,    \* running_number, as curl_multi_perform has returned it
  pc,         \* of the upload thread
  pushed,     \* reports that the statistics have made
  delivered,  \* how often the server has got a report
  faults, ends

vars == <<process, valid, cache, curl_map, running, pc, pushed, delivered, faults, ends>>

InFlight(state) == {h \in Handles : curl_map[h] # NoItem /\ curl_map[h].state = state}

Ok == UNCHANGED faults
Fails == faults < MaxFaults /\ faults' = faults + 1
-----------------------------------------------------------------------------
(* set_jsonstr_to_cache: a row that cannot be inserted is not noticed.     *)
Insert(r) ==
  \/ cache' = [cache EXCEPT ![CacheOf(r)] = Append(@, r)] /\ Ok
  \/ UNCHANGED cache /\ Fails

(* delete_jsonstr_by_id: of a row that is not there any more, nothing.     *)
Delete(rows, r) ==
  IF r \in Range(rows)
  THEN RemoveAt(rows, CHOOSE i \in 1 .. Len(rows) : rows[i] = r) ELSE rows

(* priv_common_upload: 0, and there is a new entry, or -1.                 *)
CommonUpload(r, cached) ==
  \/ \E h \in Handles :
       /\ curl_map[h] = NoItem /\ \A g \in Handles : curl_map[g] = NoItem => h <= g
       /\ curl_map' = [curl_map EXCEPT ![h] =
                         [report |-> r, cached |-> cached, state |-> "sending"]]
       /\ Ok
  \/ UNCHANGED curl_map /\ Fails

(* receive_token: set_url.                                                 *)
SetUrl ==
  /\ process = "up" /\ ~valid
  /\ valid' = TRUE
  /\ UNCHANGED <<process, cache, curl_map, running, pc, pushed, delivered, faults, ends>>

(* push_task of a json_file, by the statistics thread.                     *)
PushReport(r) ==
  /\ process = "up" /\ r \in (SnapShots \cup ProcActions) \ pushed
  /\ pushed' = pushed \cup {r}
  /\ IF valid THEN CommonUpload(r, FALSE) /\ UNCHANGED cache
              ELSE Insert(r) /\ UNCHANGED curl_map
  /\ UNCHANGED <<process, valid, running, pc, delivered, ends>>

(* push_task of a task_record: without a server, it is dropped.            *)
PushTask(r) ==
  /\ process = "up" /\ r \in Tasks \ pushed
  /\ pushed' = pushed \cup {r}
  /\ IF valid THEN CommonUpload(r, FALSE) ELSE UNCHANGED <<curl_map, faults>>
  /\ UNCHANGED <<process, valid, cache, running, pc, delivered, ends>>
-----------------------------------------------------------------------------
(* priv_run_upload, on the upload thread.                                  *)
Running == process \in {"up", "stopping"}

(* curl_multi_perform and the network: a transfer ends.  The server may    *)
(* have the report although the client sees an error.                      *)
TransferEnds(h) ==
  /\ Running /\ pc = "perform" /\ h \in InFlight("sending")
  /\ \E state \in {"ok", "failed"} :
       /\ curl_map' = [curl_map EXCEPT ![h].state = state]
       /\ \/ /\ state = "ok" /\ Ok
             /\ delivered' = [delivered EXCEPT ![curl_map[h].report] = @ + 1]
          \/ /\ state = "failed" /\ Ok /\ UNCHANGED delivered
          \/ /\ state = "failed" /\ Fails
             /\ delivered' = [delivered EXCEPT ![curl_map[h].report] = @ + 1]
  /\ UNCHANGED <<process, valid, cache, running, pc, pushed, ends>>

Perform ==
  /\ Running /\ pc = "perform"
  /\ running' = Cardinality(InFlight("sending"))
  /\ pc' = "read"
  /\ UNCHANGED <<process, valid, cache, curl_map, pushed, delivered, faults, ends>>

WaitFails ==
  /\ Running /\ pc = "perform" /\ Fails
  /\ pc' = "active" /\ running' = 0
  /\ UNCHANGED <<process, valid, cache, curl_map, pushed, delivered, ends>>

(* What a crash leaves.                                                    *)
ProcessDies ==
  /\ process' = "down" /\ valid' = FALSE /\ running' = 0 /\ pc' = "perform"
  /\ curl_map' = [h \in Handles |-> NoItem]
  /\ ends' = ends + 1

(* after_upload: the failed report of a task would go to a database that   *)
(* is a null pointer.                                                      *)
NullCache(item) == item.state = "failed" /\ ~item.cached /\ item.report \in Tasks

(* Mutant: rows stay when their report has been sent.                      *)
AfterUpload_Keeps(item) ==
  IF item.state = "failed" /\ ~item.cached THEN Insert(item.report)
  ELSE UNCHANGED <<cache, faults>>

AfterUpload(item) ==
  IF item.state = "ok" /\ item.cached
    THEN /\ cache' = [cache EXCEPT ![CacheOf(item.report)] = Delete(@, item.report)]
         /\ Ok
  ELSE IF item.state = "failed" /\ ~item.cached THEN Insert(item.report)
  ELSE UNCHANGED <<cache, faults>>

(* multi_read_return, one message.                                         *)
ReadReturn(h) ==
  /\ Running /\ pc = "read" /\ h \in InFlight("ok") \cup InFlight("failed")
  /\ IF NullCache(curl_map[h])
       THEN ProcessDies /\ UNCHANGED <<cache, faults>>
       ELSE /\ AfterUpload(curl_map[h])
            /\ curl_map' = [curl_map EXCEPT ![h] = NoItem]
            /\ UNCHANGED <<process, valid, running, pc, ends>>
  /\ UNCHANGED <<pushed, delivered>>

(* while (running_number)                                                  *)
ReadFinished ==
  /\ Running /\ pc = "read" /\ InFlight("ok") \cup InFlight("failed") = {}
  /\ pc' = IF running > 0 THEN "perform" ELSE "active"
  /\ running' = 0
  /\ UNCHANGED <<process, valid, cache, curl_map, pushed, delivered, faults, ends>>

(* Mutant: process actions are never looked for.                           *)
TopOfCaches_SnapShotsOnly == IF cache["ss"] # << >> THEN {Head(cache["ss"])} ELSE {}

(* get_data_from_cache: the first row, of snapshots before process actions.*)
TopOfCaches ==
  IF cache["ss"] # << >> THEN {Head(cache["ss"])}
  ELSE IF cache["pa"] # << >> THEN {Head(cache["pa"])} ELSE {}

(* active_cb: prepare_to_upload, priv_common_upload.                       *)
PrepareToUpload ==
  /\ Running /\ pc = "active"
  /\ IF valid /\ TopOfCaches # {}
       THEN \E r \in TopOfCaches : CommonUpload(r, TRUE)
       ELSE UNCHANGED <<curl_map, faults>>
  /\ pc' = "check"
  /\ UNCHANGED <<process, valid, cache, running, pushed, delivered, ends>>

(* Mutant: stop_upload is not looked at.                                   *)
CheckRun_GoesOn ==
  /\ Running /\ pc = "check"
  /\ pc' = "perform"
  /\ UNCHANGED <<process, valid, cache, curl_map, running, pushed, delivered, faults, ends>>

(* while (run_flag)                                                        *)
CheckRun ==
  /\ Running /\ pc = "check"
  /\ IF process = "stopping" THEN process' = "ended" /\ UNCHANGED pc
                             ELSE pc' = "perform" /\ UNCHANGED process
  /\ UNCHANGED <<valid, cache, curl_map, running, pushed, delivered, faults, ends>>
-----------------------------------------------------------------------------
(* sys_info_statis_stop: the statistics thread has ended; stop_upload.     *)
Stop ==
  /\ process = "up" /\ ends < MaxEnds
  /\ process' = "stopping"
  /\ UNCHANGED <<valid, cache, curl_map, running, pc, pushed, delivered, faults, ends>>

(* ~EDRUploader: destroy_jsonstr_cache removes the files.                  *)
Destroy ==
  /\ process = "ended"
  /\ cache' = [c \in Caches |-> << >>]
  /\ ProcessDies
  /\ UNCHANGED <<pushed, delivered, faults>>

Crash ==
  /\ process # "down" /\ ends < MaxEnds
  /\ ProcessDies
  /\ UNCHANGED <<cache, pushed, delivered, faults>>

(* Mutant: create_jsonstr_cache makes its table anew.                      *)
Start_Anew ==
  /\ process = "down"
  /\ process' = "up"
  /\ cache' = [c \in Caches |-> << >>]
  /\ UNCHANGED <<valid, curl_map, running, pc, pushed, delivered, faults, ends>>

(* EDRUploader::EDRUploader, with the databases that are there.            *)
Start ==
  /\ process = "down"
  /\ process' = "up"
  /\ UNCHANGED <<valid, cache, curl_map, running, pc, pushed, delivered, faults, ends>>

(* create_jsonstr_cache cannot open a database or create its table: it     *)
(* removes the file, and the constructor's assertion ends the process.     *)
CreateFails(c) ==
  /\ process = "down" /\ Fails
  /\ cache' = [cache EXCEPT ![c] = << >>]
  /\ UNCHANGED <<process, valid, curl_map, running, pc, pushed, delivered, ends>>

Init ==
  /\ process = "up" /\ valid = FALSE
  /\ cache = [c \in Caches |-> << >>]
  /\ curl_map = [h \in Handles |-> NoItem]
  /\ running = 0 /\ pc = "perform"
  /\ pushed = {} /\ delivered = [r \in Reports |-> 0]
  /\ faults = 0 /\ ends = 0

UploadThread ==
  \/ Perform \/ WaitFails \/ ReadFinished \/ PrepareToUpload \/ CheckRun
  \/ \E h \in Handles : ReadReturn(h)

Next ==
  \/ UploadThread \/ SetUrl \/ Stop \/ Destroy \/ Crash \/ Start
  \/ \E c \in Caches : CreateFails(c)
  \/ \E h \in Handles : TransferEnds(h)
  \/ \E r \in Reports : PushReport(r) \/ PushTask(r)

Spec == Init /\ [][Next]_vars

(* A transfer of r ends well.                                              *)
Succeeds(r) ==
  \E h \in Handles : /\ curl_map[h] # NoItem /\ curl_map[h].report = r
                     /\ TransferEnds(h) /\ curl_map'[h].state = "ok"

(* The upload thread runs, a transfer ends (it has a timeout), the server  *)
(* is known some day, and it does not refuse a report for ever.            *)
FairSpec ==
  /\ Spec /\ WF_vars(UploadThread) /\ WF_vars(SetUrl) /\ WF_vars(Start) /\ WF_vars(Destroy)
  /\ SF_vars(\E h \in Handles : TransferEnds(h))
  /\ \A r \in SnapShots \cup ProcActions : SF_vars(Succeeds(r))
-----------------------------------------------------------------------------
TypeOK ==
  /\ process \in {"up", "stopping", "ended", "down"} /\ valid \in BOOLEAN
  /\ cache \in [Caches -> Seq(Reports)]
  /\ \A r \in Range(cache["ss"]) : r \in SnapShots
  /\ \A r \in Range(cache["pa"]) : r \in ProcActions
  /\ curl_map \in [Handles -> Item \cup {NoItem}]
  /\ running \in 0 .. Cardinality(Handles)
  /\ pc \in {"perform", "read", "active", "check"}
  /\ pushed \subseteq Reports /\ delivered \in [Reports -> Nat]
  /\ faults \in 0 .. MaxFaults
  /\ ends \in Nat

Cached(r) == r \in Range(cache["ss"]) \cup Range(cache["pa"])

Sent(r) == delivered[r] > 0

(* A report in a database stays there until the server has it, through     *)
(* failed transfers, crashes and the deaths of the process.  Only two      *)
(* things remove it unsent, both in destroy_jsonstr_cache: the destructor  *)
(* after a clean stop, and a start that ends at once because the database  *)
(* cannot be opened or its table not created.                              *)
CachedKept ==
  [][\A r \in Reports :
       Cached(r) /\ ~Cached(r)' =>
         \/ Sent(r)'
         \/ process = "ended"
         \/ process = "down" /\ process' = "down"]_vars

(* While nothing fails, the server gets no report twice, although a row is *)
(* still in the database while it is being sent: the inner loop of         *)
(* priv_run_upload keeps it from being taken again.  (All variables have   *)
(* their types.)                                                           *)
DeliveredOnce ==
  TypeOK /\ (faults = 0 /\ ends = 0 => \A r \in Reports : delivered[r] <= 1)

(* Every snapshot and every process action reaches the server, unless      *)
(* something fails on this side or the process ends.                       *)
EventuallySent ==
  \A r \in SnapShots \cup ProcActions :
    r \in pushed ~> Sent(r) \/ faults > 0 \/ ends > 0

(* stop_upload ends run_upload although the inner loop does not look at    *)
(* run_flag.                                                               *)
StopEnds == process = "stopping" ~> process \in {"ended", "down"}
=============================================================================
