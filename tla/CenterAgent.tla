----------------------------- MODULE CenterAgent -----------------------------
(***************************************************************************)
(* center_agent (center_agent.cpp, functions.cpp): the module that logs in *)
(* to the control centre, registers where that is needed, sends heart      *)
(* beats, hands the centre's tasks to the other modules and logs out.      *)
(*                                                                         *)
(* Threads: run (its own), assign (the scheduler's) and the callers of     *)
(* stop: whoever stops the scheduler, and destroy, which the scheduler's   *)
(* destructor calls before, while or after that.  The centre is external;  *)
(* it may forget its nodes, and requests or their answers may get lost,    *)
(* MaxLost times in all.  A result is identified with the task that it     *)
(* belongs to.                                                             *)
(***************************************************************************)
EXTENDS Integers

CONSTANTS
  Tasks,       \* ids of the centre's tasks
  NoTask,      \* VALUE_NOTASK
  MaxLost      \* bound: requests lost and sessions forgotten

ASSUME CenterAgentAssumption == NoTask \notin Tasks /\ MaxLost \in Nat

MaybeTask == Tasks \cup {NoTask}

Callers == {"stop", "destroy"}

VARIABLES
  centre,        \* what the centre knows of the node: "unknown", "registered",
                 \* "logged" in
  lost,          \* number of requests lost and sessions forgotten so far
  runPc,         \* where run is
  looping,       \* run has left the loop of the first login
  LOGINED,       \* login_status = LOGINED
  stop_flag,
  stopPc,        \* where each caller of stop is
  cur_task_id, task_result,
  assigning,     \* NoTask, or the task whose result assign is storing
  logok          \* receive_token notices less relogin notices

requestVars == <<centre, lost>>
taskVars == <<cur_task_id, task_result, assigning>>
stopVars == <<stop_flag, stopPc>>
agentVars == <<requestVars, runPc, looping, LOGINED, stopVars, taskVars, logok>>
-----------------------------------------------------------------------------
(* The centre's side of a request: its answer, and its next state.         *)

ServerLogin == IF centre = "unknown" THEN "ERR_NOT_REGISTER" ELSE "ERR_OK"
ServerRegister == IF centre = "unknown" THEN "ERR_OK" ELSE "ERR_NEED_LOGIN"
ServerHeartBeat == IF centre = "logged" THEN "ERR_OK" ELSE "ERR_NEED_LOGIN"
ServerLogout == IF centre = "logged" THEN "ERR_OK" ELSE "ERR_NEED_LOGIN"

AfterServerLogin == IF centre = "unknown" THEN "unknown" ELSE "logged"
AfterServerRegister == IF centre = "unknown" THEN "registered" ELSE centre
AfterServerLogout == IF centre = "logged" THEN "registered" ELSE centre

Codes == {"ERR_OK", "ERR_NEED_LOGIN", "ERR_NOT_REGISTER", "failed"}

(* do_request: answered, or lost on the way there or on the way back.      *)
do_request(answer, state, code) ==
  \/ /\ code = answer
     /\ centre' = state
     /\ UNCHANGED lost
  \/ /\ code = "failed" /\ lost < MaxLost
     /\ lost' = lost + 1
     /\ centre' \in {centre, state}

(* The centre restarts, or drops the node.                                 *)
Forget ==
  /\ lost < MaxLost /\ centre # "unknown"
  /\ lost' = lost + 1
  /\ centre' \in {"unknown", "registered"} \ {centre}
  /\ UNCHANGED <<runPc, looping, LOGINED, stopVars, taskVars, logok>>
-----------------------------------------------------------------------------
(* login returns: to the loop, or to the first login, which is tried until *)
(* it succeeds.                                                            *)
AfterLogin(logined) ==
  CASE looping -> "loop" [] ~looping /\ logined -> "heart" [] OTHER -> "login"

(* center_login and on_login; success is announced with the token.         *)
center_login(code) ==
  /\ do_request(ServerLogin, AfterServerLogin, code)
  /\ LOGINED' = (LOGINED \/ code = "ERR_OK")
  /\ logok' = IF code = "ERR_OK" THEN logok + 1 ELSE logok
  /\ UNCHANGED <<looping, stopVars, taskVars>>

(* Mutant: the answer that the node is not registered is an error.         *)
AfterFirst_Error(code, logined) == AfterLogin(logined)

(* login: a node that is not registered registers first...                 *)
AfterFirst(code, logined) ==
  IF code = "ERR_NOT_REGISTER" THEN "register" ELSE AfterLogin(logined)

Login ==
  /\ runPc = "login"
  /\ \E code \in Codes : center_login(code) /\ runPc' = AfterFirst(code, LOGINED')

(* ...with center_reg and on_reg, where already registered is no error...  *)
Register ==
  /\ runPc = "register"
  /\ \E code \in Codes :
       /\ do_request(ServerRegister, AfterServerRegister, code)
       /\ runPc' = IF code \in {"ERR_OK", "ERR_NEED_LOGIN"} THEN "relogin"
                   ELSE AfterLogin(LOGINED)
  /\ UNCHANGED <<looping, LOGINED, stopVars, taskVars, logok>>

(* ...and logs in once more.                                               *)
LoginAgain ==
  /\ runPc = "relogin"
  /\ \E code \in Codes : center_login(code) /\ runPc' = AfterLogin(LOGINED')
-----------------------------------------------------------------------------
(* run: the heart beat is due, or stop_flag is set.                        *)
Loop ==
  /\ runPc = "loop"
  /\ runPc' = IF stop_flag THEN "logout" ELSE "heart"
  /\ UNCHANGED <<requestVars, looping, LOGINED, stopVars, taskVars, logok>>

(* Mutant: the modules are not told that the login is void.                *)
HeartBeat_NoNotice ==
  /\ runPc = "heart"
  /\ looping' = TRUE
  /\ \E code \in Codes :
       /\ do_request(ServerHeartBeat, centre, code)
       /\ \/ /\ code = "ERR_OK"
             /\ \E t \in Tasks : cur_task_id' = t
             /\ runPc' = "task"
             /\ UNCHANGED logok
          \/ /\ code = "ERR_NEED_LOGIN" /\ looping
             /\ runPc' = "login"
             /\ UNCHANGED <<cur_task_id, logok>>
          \/ /\ code = "ERR_NEED_LOGIN" => ~looping
             /\ runPc' = "loop"
             /\ UNCHANGED <<cur_task_id, logok>>
  /\ UNCHANGED <<LOGINED, stopVars, task_result, assigning>>

(* center_heart_beat and on_heart_beat.  What is reported of the current   *)
(* task is left out.  The answer may carry a task, or ask for a login,     *)
(* which the heart beat before the loop ignores.                           *)
HeartBeat ==
  /\ runPc = "heart"
  /\ looping' = TRUE
  /\ \E code \in Codes :
       /\ do_request(ServerHeartBeat, centre, code)
       /\ \/ /\ code = "ERR_OK"
             /\ \E t \in Tasks : cur_task_id' = t
             /\ runPc' = "task"
             /\ UNCHANGED logok
          \/ /\ code = "ERR_NEED_LOGIN" /\ looping
             /\ logok' = logok - 1
             /\ runPc' = "login"
             /\ UNCHANGED cur_task_id
          \/ /\ code = "ERR_NEED_LOGIN" => ~looping
             /\ runPc' = "loop"
             /\ UNCHANGED <<cur_task_id, logok>>
  /\ UNCHANGED <<LOGINED, stopVars, task_result, assigning>>

(* Mutant: only the result is reset.                                       *)
FinishTask_KeepsId ==
  /\ runPc = "task" /\ assigning = NoTask
  /\ task_result' = NoTask
  /\ runPc' = "loop"
  /\ UNCHANGED <<requestVars, looping, LOGINED, stopVars, cur_task_id, assigning,
                 logok>>

(* on_heart_beat: the modules have answered; with the lock, task and       *)
(* result are reset whatever the answer ("for sdk").                       *)
FinishTask ==
  /\ runPc = "task" /\ assigning = NoTask
  /\ task_result' = NoTask /\ cur_task_id' = NoTask
  /\ runPc' = "loop"
  /\ UNCHANGED <<requestVars, looping, LOGINED, stopVars, assigning, logok>>

(* Mutant: the answer to the logout is not looked at.                      *)
ResetsFlag_Always(code) == TRUE

(* Mutant: nobody resets the flag.                                         *)
ResetsFlag_Never(code) == FALSE

(* on_logout: only a logout that the centre has confirmed ends stop.       *)
ResetsFlag(code) == code = "ERR_OK"

Logout ==
  /\ runPc = "logout"
  /\ \E code \in Codes : /\ do_request(ServerLogout, AfterServerLogout, code)
                         /\ stop_flag' = (stop_flag /\ ~ResetsFlag(code))
  /\ runPc' = "ended"
  /\ UNCHANGED <<looping, LOGINED, stopPc, taskVars, logok>>
-----------------------------------------------------------------------------
(* destroy: when its stop has returned, it deletes the object.             *)
Deleted == stopPc["destroy"] = "returned"

(* assign, CENTER_MESSAGE_TASK_RESULT: with the lock, the result and then  *)
(* the task; VALUE_NOTASK clears both.                                     *)
AssignResult(t) ==
  /\ ~Deleted /\ assigning = NoTask
  /\ assigning' = t /\ task_result' = t
  /\ UNCHANGED <<requestVars, runPc, looping, LOGINED, stopVars, cur_task_id, logok>>

AssignTaskId ==
  /\ assigning # NoTask
  /\ cur_task_id' = assigning /\ assigning' = NoTask
  /\ UNCHANGED <<requestVars, runPc, looping, LOGINED, stopVars, task_result, logok>>

AssignNoTask ==
  /\ ~Deleted /\ assigning = NoTask
  /\ task_result' = NoTask /\ cur_task_id' = NoTask
  /\ UNCHANGED <<requestVars, runPc, looping, LOGINED, stopVars, assigning, logok>>

(* stop, which destroy calls too, sets the flag and spins until run has    *)
(* reset it, also if run has ended before.                                 *)
StopRequest(c) ==
  /\ stopPc[c] = "idle" /\ ~Deleted
  /\ stopPc' = [stopPc EXCEPT ![c] = "spin"] /\ stop_flag' = TRUE
  /\ UNCHANGED <<requestVars, runPc, looping, LOGINED, taskVars, logok>>

(* The flag of an object that destroy has deleted may have any value.      *)
StopReturn(c) ==
  /\ stopPc[c] = "spin" /\ (~stop_flag \/ Deleted)
  /\ stopPc' = [stopPc EXCEPT ![c] = "returned"]
  /\ UNCHANGED <<requestVars, runPc, looping, LOGINED, stop_flag, taskVars, logok>>
-----------------------------------------------------------------------------
(* create, and run at its first login.  The node may be known already.     *)
AgentInit ==
  /\ centre \in {"unknown", "registered"} /\ lost = 0
  /\ runPc = "login" /\ looping = FALSE /\ LOGINED = FALSE
  /\ stop_flag = FALSE /\ stopPc = [c \in Callers |-> "idle"]
  /\ cur_task_id = NoTask /\ task_result = NoTask /\ assigning = NoTask
  /\ logok = 0

RunStep ==
  \/ Login \/ Register \/ LoginAgain \/ Loop \/ HeartBeat \/ FinishTask \/ Logout

AgentNext ==
  \/ RunStep \/ Forget
  \/ \E t \in Tasks : AssignResult(t)
  \/ AssignTaskId \/ AssignNoTask
  \/ \E c \in Callers : StopRequest(c) \/ StopReturn(c)

AgentSpec == AgentInit /\ [][AgentNext]_agentVars

(* The threads are scheduled, requests return and a lock that is free time *)
(* and again is obtained; nobody need call stop, and the centre's faults   *)
(* end.                                                                    *)
AgentFairSpec ==
  /\ AgentSpec
  /\ WF_agentVars(RunStep) /\ SF_agentVars(FinishTask) /\ WF_agentVars(AssignTaskId)
  /\ \A c \in Callers : WF_agentVars(~Deleted /\ StopReturn(c))
-----------------------------------------------------------------------------
AgentTypeOK ==
  /\ centre \in {"unknown", "registered", "logged"} /\ lost \in 0 .. MaxLost
  /\ runPc \in {"login", "register", "relogin", "loop", "heart", "task", "logout", "ended"}
  /\ looping \in BOOLEAN /\ LOGINED \in BOOLEAN
  /\ stop_flag \in BOOLEAN /\ stopPc \in [Callers -> {"idle", "spin", "returned"}]
  /\ cur_task_id \in MaybeTask /\ task_result \in MaybeTask /\ assigning \in MaybeTask

(* on_heart_beat and assign: but for the critical section of assign and    *)
(* the time in which the modules handle a new task, there is a task iff    *)
(* there is a result.  (All variables have their types.)                   *)
ResultHasTask ==
  /\ AgentTypeOK
  /\ runPc # "task" /\ assigning = NoTask
       => (cur_task_id = NoTask <=> task_result = NoTask)

(* stop returns, to either caller, only when the centre has ended the      *)
(* session, and nothing opens another one.                                 *)
StoppedIsLoggedOut ==
  \A c \in Callers : stopPc[c] = "returned" => centre # "logged" /\ runPc = "ended"

(* on_login and on_heart_beat: the other modules are not told a new token  *)
(* before the old one has been taken back.  (It may be taken back twice.)  *)
TokenTakenBack == logok <= 1

(* However often requests are lost or the node is forgotten, the node is   *)
(* logged in again, unless run has been told to stop.                      *)
LogsInAgain ==
  (centre # "logged") ~> (centre = "logged" \/ \E c \in Callers : stopPc[c] # "idle")

(* Another call has set the flag again after run has reset it.             *)
CalledAgain(c) ==
  runPc = "ended" /\ stop_flag /\ \E o \in Callers \ {c} : stopPc[o] = "spin"

(* A stop that comes before run has ended returns, at whatever point of    *)
(* run it comes, if the node is logged in or about to, and from then on no *)
(* request is lost and the centre does not forget the node (lost counts    *)
(* both; the logout that is then refused or lost leaves the flag set).     *)
(* Two more exceptions are the other caller's doing: it sets the flag      *)
(* again before the loop of this one has seen it reset, or deletes the     *)
(* object.  Of a call after run has ended nothing is said: destroy's,      *)
(* after a stop that has returned, spins for ever.                         *)
StopReturns ==
  \A c \in Callers, n \in 0 .. MaxLost :
    /\ stopPc[c] = "spin" /\ runPc # "ended"
    /\ lost = n /\ (centre = "logged" \/ runPc = "login")
    ~> \/ stopPc[c] = "returned"
       \/ lost > n \/ CalledAgain(c) \/ Deleted
=============================================================================
