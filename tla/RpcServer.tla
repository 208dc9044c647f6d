------------------------------ MODULE RpcServer ------------------------------
(***************************************************************************)
(* rpcsrv (implements.cxx) with its clients: engines of kv_engine.cpp,     *)
(* which open a connection for each request and wait for the first message *)
(* on it, and the SDK's long connection.  Requests go to the scheduler and *)
(* come back as results, which are routed by the number of the request.    *)
(*                                                                         *)
(* Connections are numbered in the order in which they are opened; the     *)
(* payload of a result is the connection that its request came on.  The    *)
(* event loop (module EventLoop) shows up in what it guarantees: a request *)
(* is handled on some worker, and OnClose runs once, on another thread.    *)
(***************************************************************************)
EXTENDS Integers, Sequences

CONSTANTS
  Clients,
  Types,       \* the requests that clients make
  Copies,      \* how often the scheduler hands a request to its module
  MayStop,     \* whether the scheduler may stop the module
  MaxConns,    \* bound: connections
  MaxPosts,    \* bound: notices of the centre and scan results
  MaxCrashes,  \* bound: clients that die, and come back
  NoClient

Conns == 1 .. MaxConns
NoConn == 0
NoRequest == [client |-> NoClient, id |-> 0, type |-> "none"]

(* "monitor" goes to another module, "assets" is answered by the worker,   *)
(* "unknown" fails KVEngineCheckTYPE, "post" registers for notices, "long" *)
(* is command 9527 and "scan" 9528 of the SDK.                             *)
AllTypes == {"monitor", "assets", "unknown", "post", "long", "scan"}

ASSUME RpcServerAssumption ==
  /\ Types \subseteq AllTypes
  /\ Copies \in Nat \ {0}
  /\ MayStop \in BOOLEAN
  /\ MaxConns \in Nat /\ MaxPosts \in Nat /\ MaxCrashes \in Nat
  /\ NoClient \notin Clients

Opened == [client : Clients, id : Nat, type : AllTypes]
Message == [kind : {"request", "result", "notice", "scanned", "target"},
            id : Nat, of : 0 .. MaxConns]
Entry == [conn : 0 .. MaxConns, type : AllTypes \cup {"none"}]

VARIABLES
  count,         \* number of connections so far
  opened,        \* the request that came on a connection
  link,          \* "none", "open", "closed" by the peer, "gone" after OnClose
  handling,      \* where the request of a connection is
  answers,       \* messages sent on a connection and not yet read
  taken,         \* what the client has taken for its answer, NoConn if nothing
  ids,           \* kv_engine::id
  alive,         \* the engines in existence
  crashes,       \* number of clients that have died
  queue,         \* the scheduler's queue, as far as this module is concerned
  msg_conn_maps, \* function from the ids in use to entries
  m_p_connect_ref,
  target,        \* the answer that the scheduler's thread is about to send
  posts,         \* number of notices and scan results so far
  runPc, stopPc, \* where run and stop are
  m_Flag, m_Running,
  fault          \* a connection was used after it was destroyed

connVars == <<count, opened, link, handling, answers, taken>>
clientVars == <<ids, alive, crashes>>
serverVars == <<msg_conn_maps, m_p_connect_ref>>
lifeVars == <<runPc, stopPc, m_Flag, m_Running>>
vars == <<connVars, clientVars, queue, serverVars, target, posts, lifeVars, fault>>
-----------------------------------------------------------------------------
(* start_ipc_server has returned and stop_ipc_server has not been called.  *)
Serving == ~fault /\ runPc # "start" /\ stopPc \notin {"stopping", "returned"}

(* kv_engine: a request goes out on a new connection.                      *)
Open(c, type, id) ==
  /\ Serving /\ count < MaxConns
  /\ count' = count + 1
  /\ opened' = [opened EXCEPT ![count + 1] = [client |-> c, id |-> id, type |-> type]]
  /\ link' = [link EXCEPT ![count + 1] = "open"]
  /\ handling' = [handling EXCEPT ![count + 1] = "sent"]
  /\ UNCHANGED <<answers, taken, queue, serverVars, target, posts, lifeVars, fault>>

(* A synchronous request has its caller wait until it is answered.         *)
Waiting(k) == /\ opened[k].type \notin {"post", "long"}
              /\ link[k] = "open" /\ taken[k] = NoConn

Free(c) == \A k \in Conns : opened[k].client = c => ~Waiting(k)

NextId(c) == ids[c] + 1

(* kv_engine::kv_engine registers for notices with the first id.           *)
InitializeEngine(c) ==
  /\ c \notin alive
  /\ Open(c, "post", 0)
  /\ ids' = [ids EXCEPT ![c] = 1]
  /\ alive' = alive \cup {c}
  /\ UNCHANGED crashes

(* enable_monitor, get_assets_info, upgrade_daemon: id++ and request_sync. *)
RequestSync(c, type) ==
  /\ c \in alive /\ Free(c) /\ type \in Types \cap {"monitor", "assets", "unknown"}
  /\ Open(c, type, ids[c])
  /\ ids' = [ids EXCEPT ![c] = NextId(c)]
  /\ UNCHANGED <<alive, crashes>>

(* The SDK's commands carry no id.                                         *)
SdkCommand(c, type) ==
  /\ c \in alive /\ Free(c) /\ type \in Types \cap {"long", "scan"}
  /\ Open(c, type, 0)
  /\ UNCHANGED clientVars

(* QueryData: the first message on the connection is the answer, whatever  *)
(* its id; the connection is closed.  On a notice connection each message  *)
(* is handed to the notifier.                                              *)
TakeAnswer(k) ==
  /\ ~fault /\ link[k] = "open" /\ answers[k] # << >>
  /\ answers' = [answers EXCEPT ![k] = Tail(@)]
  /\ IF Waiting(k)
     THEN /\ taken' = [taken EXCEPT ![k] = Head(answers[k])]
          /\ link' = [link EXCEPT ![k] = "closed"]
     ELSE UNCHANGED <<taken, link>>
  /\ UNCHANGED <<count, opened, handling, clientVars, queue, serverVars, target, posts,
                 lifeVars, fault>>

(* A client process dies: its connections close.                           *)
Crash(c) ==
  /\ ~fault /\ crashes < MaxCrashes /\ c \in alive
  /\ crashes' = crashes + 1
  /\ alive' = alive \ {c}
  /\ link' = [k \in Conns |->
                IF opened[k].client = c /\ link[k] = "open" THEN "closed" ELSE link[k]]
  /\ UNCHANGED <<count, opened, handling, answers, taken, ids, queue, serverVars,
                 target, posts, lifeVars, fault>>
-----------------------------------------------------------------------------
(* The workers of the event loop.                                          *)

Handled(k, place) == handling' = [handling EXCEPT ![k] = place]

(* The worker has found the connection open and calls OnReceive.           *)
OnReceive(k) ==
  /\ ~fault /\ stopPc # "returned" /\ handling[k] = "sent"
  /\ Handled(k, IF link[k] = "gone" THEN "dropped" ELSE "received")
  /\ UNCHANGED <<count, opened, link, answers, taken, clientVars, queue, serverVars,
                 target, posts, lifeVars, fault>>

(* SendResponse on connection k; bytes to a closed peer are lost.          *)
SendResponse(k, of) ==
  IF link[k] = "gone"
  THEN fault' = TRUE /\ UNCHANGED answers
  ELSE /\ answers' = IF link[k] = "open"
                     THEN [answers EXCEPT ![k] = Append(@, of)] ELSE answers
       /\ UNCHANGED fault

(* OnReceiveKVEngine, a request that fails the checks: answered at once.   *)
RefuseRequest(k) ==
  /\ ~fault /\ handling[k] = "received" /\ opened[k].type = "unknown"
  /\ SendResponse(k, k)
  /\ Handled(k, "handled")
  /\ UNCHANGED <<count, opened, link, taken, clientVars, queue, serverVars, target,
                 posts, lifeVars>>

(* "set connection before notify", with the lock.                          *)
SetConnection(k) ==
  /\ ~fault /\ handling[k] = "received"
  /\ opened[k].type \in {"monitor", "assets", "post"}
  /\ LET id == opened[k].id IN
     msg_conn_maps' = [i \in DOMAIN msg_conn_maps \cup {id} |->
                         IF i = id THEN [conn |-> k, type |-> opened[k].type]
                         ELSE msg_conn_maps[i]]
  /\ Handled(k, "registered")
  /\ UNCHANGED <<count, opened, link, answers, taken, clientVars, queue,
                 m_p_connect_ref, target, posts, lifeVars, fault>>

Msg(kind, id, of) == [kind |-> kind, id |-> id, of |-> of]

NeedsModule(type) == type = "monitor"

(* ...then the assets are answered, or the scheduler is notified.          *)
KVEngineDoNotify(k) ==
  /\ ~fault /\ handling[k] = "registered"
  /\ IF opened[k].type = "assets" THEN SendResponse(k, k)
     ELSE UNCHANGED <<answers, fault>>
  /\ queue' = IF NeedsModule(opened[k].type)
              THEN Append(queue, Msg("request", opened[k].id, k)) ELSE queue
  /\ Handled(k, "handled")
  /\ UNCHANGED <<count, opened, link, taken, clientVars, serverVars, target, posts,
                 lifeVars>>

(* OnDataRecv: 9528 notifies and answers, 9527 becomes the long connection.*)
OnDataRecv(k) ==
  /\ ~fault /\ handling[k] = "received" /\ opened[k].type \in {"long", "scan"}
  /\ IF opened[k].type = "long"
     THEN m_p_connect_ref' = k /\ UNCHANGED <<queue, answers, fault>>
     ELSE /\ queue' = Append(queue, Msg("target", 0, k))
          /\ SendResponse(k, k)
          /\ UNCHANGED m_p_connect_ref
  /\ Handled(k, "handled")
  /\ UNCHANGED <<count, opened, link, taken, clientVars, msg_conn_maps, target, posts,
                 lifeVars>>

(* Mutant: the entries stay, as in the commented-out erase.                *)
Erased_None(k) == {}

(* Mutant: a close empties the table.                                      *)
Erased_All(k) == DOMAIN msg_conn_maps

(* The entries that OnClose erases.                                        *)
Erased(k) == { i \in DOMAIN msg_conn_maps : msg_conn_maps[i].conn = k }

(* OnClose on the service thread, without the lock, and the end of the     *)
(* connection.  The scan of the long connection is stopped.                *)
OnClose(k) ==
  /\ ~fault /\ stopPc # "returned"
  /\ link[k] = "closed" \/ (link[k] = "open" /\ stopPc = "stopping")
  /\ link' = [link EXCEPT ![k] = "gone"]
  /\ msg_conn_maps' = [i \in DOMAIN msg_conn_maps \ Erased(k) |-> msg_conn_maps[i]]
  /\ IF m_p_connect_ref = k
     THEN m_p_connect_ref' = NoConn /\ queue' = Append(queue, Msg("target", 0, NoConn))
     ELSE UNCHANGED <<m_p_connect_ref, queue>>
  /\ UNCHANGED <<count, opened, handling, answers, taken, clientVars, target, posts,
                 lifeVars, fault>>
-----------------------------------------------------------------------------
(* The scheduler's thread.                                                 *)

Idle == ~fault /\ target = << >>

(* A request reaches a module, as often as it is routed to it, and each    *)
(* call notifies a result.                                                 *)
HandleByModule ==
  /\ Idle /\ queue # << >> /\ Head(queue).kind \in {"request", "target"}
  /\ queue' = IF Head(queue).kind = "target" THEN Tail(queue)
              ELSE Tail(queue) \o
                   [i \in 1 .. Copies |-> [Head(queue) EXCEPT !.kind = "result"]]
  /\ UNCHANGED <<connVars, clientVars, serverVars, target, posts, lifeVars, fault>>

(* The centre has a notice, or the scanner a result.                       *)
Post(kind) ==
  /\ ~fault /\ posts < MaxPosts
  /\ posts' = posts + 1
  /\ queue' = Append(queue, Msg(kind, 0, NoConn))
  /\ UNCHANGED <<connVars, clientVars, serverVars, target, lifeVars, fault>>

(* FindTask: the entry with the lowest id that is of a type.               *)
FindTask(type) ==
  LET ids_of == { i \in DOMAIN msg_conn_maps : msg_conn_maps[i].type = type }
  IN  IF ids_of = {} THEN NoConn
      ELSE msg_conn_maps[CHOOSE i \in ids_of : \A j \in ids_of : i <= j].conn

(* Mutant: results are routed by type, as notices are.                     *)
FindConnection_ByType(m) ==
  IF m.kind = "scanned" THEN m_p_connect_ref
  ELSE FindTask(IF m.kind = "notice" THEN "post" ELSE "monitor")

(* The connection that OnPostData or KVEngineDoResponse sends to.          *)
FindConnection(m) ==
  CASE m.kind = "scanned" -> m_p_connect_ref
    [] m.kind # "scanned" /\ m.id # 0 ->
         IF m.id \in DOMAIN msg_conn_maps THEN msg_conn_maps[m.id].conn ELSE NoConn
    [] OTHER -> FindTask("post")

(* assign: the connection is looked up; operator[] leaves an empty entry.  *)
Assign ==
  /\ Idle /\ queue # << >> /\ Head(queue).kind \in {"result", "notice", "scanned"}
  /\ LET m == Head(queue)
         k == FindConnection(m)
     IN  /\ target' = IF k = NoConn THEN << >> ELSE << [conn |-> k, of |-> m.of] >>
         /\ msg_conn_maps' =
              IF m.id = 0 \/ m.id \in DOMAIN msg_conn_maps THEN msg_conn_maps
              ELSE [i \in DOMAIN msg_conn_maps \cup {m.id} |->
                      IF i = m.id THEN [conn |-> NoConn, type |-> "none"]
                      ELSE msg_conn_maps[i]]
  /\ queue' = Tail(queue)
  /\ UNCHANGED <<connVars, clientVars, m_p_connect_ref, posts, lifeVars, fault>>

(* ...and used without the lock that OnClose does not take anyway.         *)
KVEngineDoResponse ==
  /\ ~fault /\ target # << >>
  /\ SendResponse(target[1].conn, target[1].of)
  /\ target' = << >>
  /\ UNCHANGED <<count, opened, link, handling, taken, clientVars, queue, serverVars,
                 posts, lifeVars>>
-----------------------------------------------------------------------------
(* run and stop of the module.                                             *)

LifeStep ==
  ~fault /\ UNCHANGED <<connVars, clientVars, queue, serverVars, target, posts, fault>>

(* run: start_ipc_server and p_Server, then m_Flag, then m_Running.        *)
RunServer == runPc = "start" /\ runPc' = "served"
             /\ UNCHANGED <<stopPc, m_Flag, m_Running>> /\ LifeStep
RunFlag == runPc = "served" /\ runPc' = "flagged" /\ m_Flag' = TRUE
           /\ UNCHANGED <<stopPc, m_Running>> /\ LifeStep
RunRunning == runPc = "flagged" /\ runPc' = "loop" /\ m_Running' = TRUE
              /\ UNCHANGED <<stopPc, m_Flag>> /\ LifeStep
(* Mutant: m_Running is left set.                                          *)
RunEnds_Running == runPc = "loop" /\ ~m_Flag /\ runPc' = "ended"
                   /\ UNCHANGED <<stopPc, m_Flag, m_Running>> /\ LifeStep

RunEnds == runPc = "loop" /\ ~m_Flag /\ runPc' = "ended" /\ m_Running' = FALSE
           /\ UNCHANGED <<stopPc, m_Flag>> /\ LifeStep

(* stop: nothing to do before the server is there; else the flag...        *)
StopFlag ==
  /\ MayStop /\ stopPc = "idle"
  /\ IF runPc = "start" THEN stopPc' = "returned" /\ UNCHANGED m_Flag
     ELSE stopPc' = "waiting" /\ m_Flag' = FALSE
  /\ UNCHANGED <<runPc, m_Running>> /\ LifeStep

(* ...the end of run, and stop_ipc_server, which closes all connections.   *)
StopWaited == stopPc = "waiting" /\ ~m_Running /\ stopPc' = "stopping"
              /\ UNCHANGED <<runPc, m_Flag, m_Running>> /\ LifeStep
StopReturned ==
  /\ stopPc = "stopping" /\ \A k \in Conns : link[k] \in {"none", "gone"}
  /\ stopPc' = "returned"
  /\ UNCHANGED <<runPc, m_Flag, m_Running>> /\ LifeStep
-----------------------------------------------------------------------------
Init ==
  /\ count = 0 /\ opened = [k \in Conns |-> NoRequest]
  /\ link = [k \in Conns |-> "none"] /\ handling = [k \in Conns |-> "none"]
  /\ answers = [k \in Conns |-> << >>] /\ taken = [k \in Conns |-> NoConn]
  /\ ids = [c \in Clients |-> 0] /\ alive = {} /\ crashes = 0
  /\ queue = << >>
  /\ msg_conn_maps = << >> /\ m_p_connect_ref = NoConn
  /\ target = << >> /\ posts = 0
  /\ \/ runPc = "start" /\ m_Flag = FALSE /\ m_Running = FALSE
     \/ ~MayStop /\ runPc = "loop" /\ m_Flag = TRUE /\ m_Running = TRUE
  /\ stopPc = "idle"
  /\ fault = FALSE

ClientStep ==
  \E c \in Clients : \/ InitializeEngine(c) \/ Crash(c)
                     \/ \E type \in Types : RequestSync(c, type) \/ SdkCommand(c, type)

ConnStep(k) ==
  \/ OnReceive(k) \/ RefuseRequest(k) \/ SetConnection(k) \/ KVEngineDoNotify(k)
  \/ OnDataRecv(k)

MainStep == HandleByModule \/ Assign \/ KVEngineDoResponse

RunStep == RunServer \/ RunFlag \/ RunRunning \/ RunEnds

Next ==
  \/ ClientStep
  \/ \E k \in Conns : TakeAnswer(k) \/ ConnStep(k) \/ OnClose(k)
  \/ MainStep
  \/ \E kind \in {"notice", "scanned"} : Post(kind)
  \/ RunStep \/ StopFlag \/ StopWaited \/ StopReturned

Spec == Init /\ [][Next]_vars

(* All threads are scheduled; clients need not make requests.              *)
Fairness ==
  /\ \A k \in Conns :
       WF_vars(TakeAnswer(k)) /\ WF_vars(ConnStep(k)) /\ WF_vars(OnClose(k))
  /\ WF_vars(MainStep) /\ WF_vars(RunStep)
  /\ WF_vars(StopWaited \/ StopReturned)

FairSpec == Spec /\ Fairness
-----------------------------------------------------------------------------
TypeOK ==
  /\ count \in 0 .. MaxConns
  /\ opened \in [Conns -> Opened \cup {NoRequest}]
  /\ link \in [Conns -> {"none", "open", "closed", "gone"}]
  /\ handling \in [Conns -> {"none", "sent", "dropped", "received",
                             "registered", "handled"}]
  /\ answers \in [Conns -> Seq(0 .. MaxConns)]
  /\ taken \in [Conns -> 0 .. MaxConns]
  /\ ids \in [Clients -> Nat] /\ alive \subseteq Clients /\ crashes \in 0 .. MaxCrashes
  /\ queue \in Seq(Message)
  /\ \A i \in DOMAIN msg_conn_maps : i \in Nat /\ msg_conn_maps[i] \in Entry
  /\ m_p_connect_ref \in 0 .. MaxConns
  /\ target \in Seq([conn : Conns, of : 0 .. MaxConns]) /\ Len(target) <= 1
  /\ posts \in 0 .. MaxPosts
  /\ m_Flag \in BOOLEAN /\ m_Running \in BOOLEAN /\ fault \in BOOLEAN

(* request_sync: what a client takes for its answer belongs to a request   *)
(* with the id that it has sent, and it is the answer to its own request   *)
(* unless the client has died and numbers its requests as before.          *)
OwnAnswer ==
  \A k \in Conns :
    taken[k] # NoConn =>
      /\ opened[taken[k]].id = opened[k].id
      /\ crashes = 0 => taken[k] = k

(* OnClose leaves no entry of the table and no long connection behind that *)
(* names a destroyed connection.  (Where the peer does not wait for its    *)
(* answer, a worker may register a connection that is gone already.)  All  *)
(* variables have their types.                                             *)
TableIsCurrent ==
  /\ TypeOK
  /\ crashes = 0 /\ stopPc \notin {"stopping", "returned"} =>
       /\ \A i \in DOMAIN msg_conn_maps :
            LET k == msg_conn_maps[i].conn IN k # NoConn => link[k] # "gone"
       /\ m_p_connect_ref # NoConn => link[m_p_connect_ref] # "gone"

(* A request is answered, unless its client dies or the module is stopped. *)
RequestAnswered ==
  \A k \in Conns :
    Waiting(k) ~> ~Waiting(k) \/ stopPc # "idle" \/ fault

(* A stop that clears the flag while run is in its loop ends run, and      *)
(* returns.  (One that comes between p_Server and m_Flag is undone by run, *)
(* and waits for ever.)                                                    *)
StopEndsRun ==
  (runPc = "loop" /\ stopPc = "waiting" /\ ~m_Flag)
    ~> (runPc = "ended" /\ stopPc = "returned") \/ fault
=============================================================================
