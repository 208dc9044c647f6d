------------------------------ MODULE EventLoop ------------------------------
(***************************************************************************)
(* The event loop of ipc_server, as rpcsrv starts it: one service thread   *)
(* runs the callbacks of libwebsockets, working threads handle what was    *)
(* received, other threads of the process send through do_send, and one    *)
(* thread stops and destroys the server.                                   *)
(*                                                                         *)
(* The queue of a connection and its reference count are guarded by spin   *)
(* locks; a critical section is one step.  What the code reads or frees    *)
(* outside of them is a step of its own.  A use of freed memory sets       *)
(* fault, and a faulted process takes no further step.                     *)
(***************************************************************************)
EXTENDS Naturals, Sequences, FiniteSets

CONSTANTS
  Conns,          \* the connections that clients may open, once each
  WorkerCount,    \* working_thread.count
  Service,        \* the thread that runs the loop
  Stopper,        \* the thread that stops and destroys the server
  Callers,        \* threads outside the loop that call do_send
  WorkerQueue,    \* slots of a worker's queue
  SendQueue,      \* slots of a connection's queue
  StopKinds,      \* how the server may be stopped: "request", "force"
  ServiceMayFail, \* whether lws_service may fail
  MaxRequests,    \* bound: requests received
  MaxNotices,     \* bound: messages the callers send
  NoConn

Workers == 0 .. WorkerCount - 1
Threads == {Service, Stopper} \cup Workers \cup Callers
Requests == 1 .. MaxRequests

(* A response carries the number of its request, a notice a later number.  *)
Messages == 1 .. MaxRequests + MaxNotices

ASSUME EventLoopAssumption ==
  /\ WorkerCount \in Nat \ {0}
  /\ WorkerQueue \in Nat \ {0} /\ SendQueue \in Nat \ {0}
  /\ StopKinds \subseteq {"request", "force"}
  /\ ServiceMayFail \in BOOLEAN
  /\ MaxRequests \in Nat /\ MaxNotices \in Nat
  /\ NoConn \notin Conns
  /\ Service # Stopper /\ Service \notin Workers /\ Stopper \notin Workers
  /\ Callers \cap ({Service, Stopper} \cup Workers) = {}

VARIABLES
  wsi,             \* per connection: "none", "open", "gone"
  wantWrite,       \* connections with a pending lws_callback_on_writable
  heap,            \* per connection, what is allocated of it
  p_connection,    \* per connection: p_connection of the shared state is set
  queue,           \* per connection: p_queue
  reference_count, \* per connection: of its shared state
  holders,         \* history: who holds a counted reference; 0 is the connection
  inbox,           \* per worker: the <<connection, request>> pairs of its queue
  curr_thread_index,
  started,         \* is_running of the workers
  contexts,        \* thread contexts: "live", "cancelled", "freed"
  pc, on, item,    \* per thread: where it is, its connection, its message
  found,           \* per thread: p_connection as it was read before the lock
  stop, is_pending_stop, is_data_sending,
  received, noticed, \* numbers of requests and notices so far
  fault            \* "none", or the freed object that was used

connVars == <<wsi, heap, p_connection>>
refVars == <<reference_count, holders>>
sendVars == <<queue, wantWrite>>
poolVars == <<inbox, curr_thread_index, started, contexts>>
threadVars == <<pc, on, item, found>>
stopVars == <<stop, is_pending_stop, is_data_sending>>
countVars == <<received, noticed>>
vars == <<connVars, refVars, sendVars, poolVars, threadVars, stopVars,
          countVars, fault>>
-----------------------------------------------------------------------------
(* Thread t is at a place, in a process that has not crashed.              *)
At(t, place) == fault = "none" /\ pc[t] = place

Goto(t, place) == pc' = [pc EXCEPT ![t] = place]

Fault(what) ==
  /\ fault' = what
  /\ UNCHANGED <<connVars, refVars, sendVars, poolVars, threadVars, stopVars,
                 countVars>>

(* Thread t runs with the memory it is about to use, or faults.            *)
Using(what, c, step) == IF what \in heap[c] THEN step /\ UNCHANGED fault
                        ELSE Fault(what)

(* queue.c keeps one slot free.                                            *)
HasRoom(q, size) == Len(q) + 1 < size
-----------------------------------------------------------------------------
(* The service thread.                                                     *)

Polling == At(Service, "poll")

(* callback_establish: queue, shared state and connection object are made. *)
Establish(c) ==
  /\ Polling /\ wsi[c] = "none" /\ ~is_pending_stop
  /\ wsi' = [wsi EXCEPT ![c] = "open"]
  /\ heap' = [heap EXCEPT ![c] = {"queue", "state", "object"}]
  /\ p_connection' = [p_connection EXCEPT ![c] = TRUE]
  /\ reference_count' = [reference_count EXCEPT ![c] = 1]
  /\ holders' = [holders EXCEPT ![c] = {0}]
  /\ UNCHANGED <<sendVars, poolVars, threadVars, stopVars, countVars, fault>>

(* callback_establish, no peer address: everything is undone and discarded.*)
EstablishFails(c) ==
  /\ Polling /\ wsi[c] = "none" /\ ~is_pending_stop
  /\ wsi' = [wsi EXCEPT ![c] = "gone"]
  /\ UNCHANGED <<heap, p_connection, refVars, sendVars, poolVars, threadVars,
                 stopVars, countVars, fault>>

(* callback_establish during a stop: refused, but discard is not set, so   *)
(* that callback_close releases a connection object that was never made.   *)
EstablishRefused(c) ==
  /\ Polling /\ wsi[c] = "none" /\ is_pending_stop
  /\ Fault("missing")

(* Mutant: the message shares the state without being counted.             *)
CopySharedPtr_Plain(c) == reference_count' = reference_count

CopySharedPtr(c) == reference_count' = [reference_count EXCEPT ![c] = @ + 1]

(* callback_receive: the message takes a reference to the shared state.    *)
Receive(c) ==
  /\ Polling /\ wsi[c] = "open" /\ ~is_pending_stop /\ received < MaxRequests
  /\ received' = received + 1
  /\ item' = [item EXCEPT ![Service] = received + 1]
  /\ on' = [on EXCEPT ![Service] = c]
  /\ Goto(Service, "dispatch")
  /\ CopySharedPtr(c)
  /\ holders' = [holders EXCEPT ![c] = @ \cup {received + 1}]
  /\ UNCHANGED <<connVars, sendVars, poolVars, found, stopVars, noticed, fault>>

ScheduleThreadData(w) == (w + 1) % WorkerCount

(* send_data_to_thread_pool: the workers take turns, a thread is created   *)
(* for its first message; the service thread spins while the queue is full.*)
Dispatch ==
  LET w == curr_thread_index IN
  /\ At(Service, "dispatch")
  /\ HasRoom(inbox[w], WorkerQueue)
  /\ inbox' = [inbox EXCEPT ![w] = Append(@, <<on[Service], item[Service]>>)]
  /\ curr_thread_index' = ScheduleThreadData(w)
  /\ started' = started \cup {w}
  /\ Goto(Service, "poll")
  /\ UNCHANGED <<connVars, refVars, sendVars, contexts, on, item, found,
                 stopVars, countVars, fault>>

(* callback_writable: one message is dequeued and written...               *)
Writable(c) ==
  /\ Polling /\ wsi[c] = "open" /\ c \in wantWrite
  /\ wantWrite' = wantWrite \ {c}
  /\ IF queue[c] = << >>
     THEN UNCHANGED <<queue, is_data_sending, pc, on>>
     ELSE /\ queue' = [queue EXCEPT ![c] = Tail(@)]
          /\ is_data_sending' = TRUE
          /\ on' = [on EXCEPT ![Service] = c]
          /\ Goto(Service, "next")
  /\ UNCHANGED <<connVars, refVars, poolVars, item, found, stop,
                 is_pending_stop, countVars, fault>>

(* Mutant: the result of isQueueEmpty is taken for a truth value.          *)
NoMessage_Inverted(c) == queue[c] # << >>

NoMessage(c) == queue[c] = << >>

(* ...and handle_next_message asks to be called again if there are more.   *)
HandleNextMessage ==
  /\ At(Service, "next")
  /\ wantWrite' = IF NoMessage(on[Service])
                  THEN wantWrite ELSE wantWrite \cup {on[Service]}
  /\ Goto(Service, "poll")
  /\ UNCHANGED <<connVars, refVars, queue, poolVars, on, item, found, stopVars,
                 countVars, fault>>

(* The peer has closed, or callback_receive refuses its data during a stop.*)
PeerCloses(c) ==
  /\ Polling /\ wsi[c] = "open"
  /\ on' = [on EXCEPT ![Service] = c]
  /\ Goto(Service, "mark")
  /\ UNCHANGED <<connVars, refVars, sendVars, poolVars, item, found, stopVars,
                 countVars, fault>>

(* Mutant: only a polite stop ends the loop.                               *)
ReallyStops_RequestOnly == stop = "request" /\ ~is_data_sending

ReallyStops == stop = "force" \/ ~is_data_sending

(* launch_evloop_internal, top of the loop, when a stop is requested.      *)
LoopCheck ==
  /\ Polling /\ stop # "none"
  /\ IF ReallyStops
     THEN stop' = "none" /\ Goto(Service, "exited") /\ UNCHANGED is_data_sending
     ELSE is_data_sending' = FALSE /\ UNCHANGED <<stop, pc>>
  /\ UNCHANGED <<connVars, refVars, sendVars, poolVars, on, item, found,
                 is_pending_stop, countVars, fault>>

(* lws_service returns an error: the loop ends without taking stop back.   *)
ServiceFails ==
  /\ Polling /\ ServiceMayFail
  /\ Goto(Service, "exited")
  /\ UNCHANGED <<connVars, refVars, sendVars, poolVars, on, item, found,
                 stopVars, countVars, fault>>
-----------------------------------------------------------------------------
(* callback_close, on the service thread or, in lws_context_destroy, on    *)
(* the thread that destroys the server.                                    *)

Closing(t) == t \in {Service, Stopper}

(* mark_conn_as_close, without the lock.                                   *)
MarkConnAsClose(t) ==
  /\ Closing(t) /\ At(t, "mark")
  /\ p_connection' = [p_connection EXCEPT ![on[t]] = FALSE]
  /\ Goto(t, "drain")
  /\ UNCHANGED <<wsi, heap, refVars, sendVars, poolVars, on, item, found,
                 stopVars, countVars, fault>>

(* destroy_queued_messages: one dequeue with the lock.                     *)
DestroyQueuedMessages(t) ==
  /\ Closing(t) /\ At(t, "drain")
  /\ IF queue[on[t]] = << >>
     THEN Goto(t, "unqueue") /\ UNCHANGED queue
     ELSE queue' = [queue EXCEPT ![on[t]] = Tail(@)] /\ UNCHANGED pc
  /\ UNCHANGED <<connVars, refVars, wantWrite, poolVars, on, item, found,
                 stopVars, countVars, fault>>

(* destroyQueue, without the lock.                                         *)
DestroyQueue(t) ==
  /\ Closing(t) /\ At(t, "unqueue")
  /\ heap' = [heap EXCEPT ![on[t]] = @ \ {"queue"}]
  /\ Goto(t, "release")
  /\ UNCHANGED <<wsi, p_connection, refVars, sendVars, poolVars, on, item,
                 found, stopVars, countVars, fault>>

(* connection_destroy; nothing else counts references to the object.       *)
ConnectionDestroy(t) ==
  /\ Closing(t) /\ At(t, "object")
  /\ heap' = [heap EXCEPT ![on[t]] = @ \ {"object"}]
  /\ wsi' = [wsi EXCEPT ![on[t]] = "gone"]
  /\ wantWrite' = wantWrite \ {on[t]}
  /\ Goto(t, IF t = Service THEN "poll" ELSE "closing")
  /\ UNCHANGED <<p_connection, refVars, queue, poolVars, on, item, found,
                 stopVars, countVars, fault>>
-----------------------------------------------------------------------------
(* destroy_shared_ptr, by a closing thread or by a worker.                 *)

(* The reference t gives up: the connection's own, or its message's.       *)
Reference(t) == IF t \in Workers THEN item[t] ELSE 0

(* decrease_ref_count, with the lock of the shared pointer.                *)
DecreaseRefCount(t) ==
  /\ At(t, "release")
  /\ reference_count' = [reference_count EXCEPT ![on[t]] = @ - 1]
  /\ holders' = [holders EXCEPT ![on[t]] = @ \ {Reference(t)}]
  /\ Goto(t, "try")
  /\ UNCHANGED <<connVars, sendVars, poolVars, on, item, found, stopVars,
                 countVars, fault>>

(* Mutant: a worker leaves it to the connection to destroy the state.      *)
LastReference_OnClose(t) == reference_count[on[t]] = 0 /\ Closing(t)

LastReference(t) == reference_count[on[t]] = 0

(* try_destroy_shared_object reads the count again, without the lock.      *)
TryDestroySharedObject(t) ==
  /\ At(t, "try")
  /\ IF "state" \in heap[on[t]]
     THEN /\ heap' = IF LastReference(t)
                     THEN [heap EXCEPT ![on[t]] = @ \ {"state"}] ELSE heap
          /\ Goto(t, IF Closing(t) THEN "object" ELSE "idle")
          /\ UNCHANGED <<wsi, p_connection, refVars, sendVars, poolVars, on,
                         item, found, stopVars, countVars, fault>>
     ELSE Fault("count")
-----------------------------------------------------------------------------
(* A worker.                                                               *)

(* handle_one_async_message: dequeue with the lock of the thread's context.*)
TakeMessage(w) ==
  /\ w \in started /\ At(w, "idle")
  /\ IF contexts = "freed" THEN Fault("context")
     ELSE /\ inbox[w] # << >>
          /\ inbox' = [inbox EXCEPT ![w] = Tail(@)]
          /\ on' = [on EXCEPT ![w] = Head(inbox[w])[1]]
          /\ item' = [item EXCEPT ![w] = Head(inbox[w])[2]]
          /\ Goto(w, "check")
          /\ UNCHANGED <<connVars, refVars, sendVars, curr_thread_index,
                         started, contexts, found, stopVars, countVars, fault>>

(* do_async_request: p_connection is read without the lock.                *)
DoAsyncRequest(w) ==
  /\ w \in Workers /\ At(w, "check")
  /\ Using("state", on[w],
       /\ Goto(w, IF p_connection[on[w]] THEN "request" ELSE "release")
       /\ UNCHANGED <<connVars, refVars, sendVars, poolVars, on, item, found,
                      stopVars, countVars>>)

(* async_request, OnReceive: handled through the connection object, with a *)
(* response from this thread or without.                                   *)
AsyncRequest(w) ==
  /\ w \in Workers /\ At(w, "request")
  /\ Using("object", on[w],
       /\ \E place \in {"read", "finish"} : Goto(w, place)
       /\ UNCHANGED <<connVars, refVars, sendVars, poolVars, on, item, found,
                      stopVars, countVars>>)

(* OnReceive goes back to the object to remove the bytes it has handled.   *)
FinishRequest(w) ==
  /\ w \in Workers /\ At(w, "finish")
  /\ Using("object", on[w],
       /\ Goto(w, "release")
       /\ UNCHANGED <<connVars, refVars, sendVars, poolVars, on, item, found,
                      stopVars, countVars>>)

(* A cancelled worker ends where it sleeps, or where it writes to stdout.  *)
WorkerExits(w) ==
  /\ w \in started /\ contexts # "live"
  /\ At(w, "request") \/ (At(w, "idle") /\ inbox[w] = << >>)
  /\ Goto(w, "exited")
  /\ UNCHANGED <<connVars, refVars, sendVars, poolVars, on, item, found,
                 stopVars, countVars, fault>>
-----------------------------------------------------------------------------
(* do_send and send_message_to_connection.                                 *)

(* SendResponse by a thread that has found the connection in a table of    *)
(* the server; it holds no reference.                                      *)
SendNotice(t, c) ==
  /\ t \in Callers /\ At(t, "idle") /\ wsi[c] = "open" /\ noticed < MaxNotices
  /\ noticed' = noticed + 1
  /\ item' = [item EXCEPT ![t] = MaxRequests + noticed + 1]
  /\ on' = [on EXCEPT ![t] = c]
  /\ Goto(t, "send")
  /\ UNCHANGED <<connVars, refVars, sendVars, poolVars, found, stopVars,
                 received, fault>>

(* do_send is entered through the connection object.                       *)
DoSend(t) ==
  /\ At(t, "send")
  /\ Using("object", on[t],
       /\ Goto(t, "read")
       /\ UNCHANGED <<connVars, refVars, sendVars, poolVars, on, item, found,
                      stopVars, countVars>>)

(* p_connection is read...                                                 *)
ReadConnection(t) ==
  /\ At(t, "read")
  /\ Using("state", on[t],
       /\ found' = [found EXCEPT ![t] = p_connection[on[t]]]
       /\ Goto(t, "locked")
       /\ UNCHANGED <<connVars, refVars, sendVars, poolVars, on, item,
                      stopVars, countVars>>)

(* Mutant: destroy_async_message is forgotten after a response.            *)
Sent_Keeps(t) == Goto(t, "idle")

Sent(t) == Goto(t, IF t \in Workers THEN "finish" ELSE "idle")

(* send_message_to_queue, when the queue has room.                         *)
SendMessageToQueue(t, c) ==
  /\ queue' = [queue EXCEPT ![c] = Append(@, item[t])]
  /\ wantWrite' = wantWrite \cup {c}

(* ...and, with the lock, the message is queued if it was set.  A full     *)
(* queue is tried again; without a connection the message is dropped.      *)
SendMessageToConnection(t) ==
  LET c == on[t] IN
  /\ At(t, "locked")
  /\ IF "state" \notin heap[c] THEN Fault("state")
     ELSE IF found[t] /\ "queue" \notin heap[c] THEN Fault("queue")
     ELSE /\ \/ ~found[t] /\ Sent(t) /\ UNCHANGED sendVars
             \/ /\ found[t] /\ HasRoom(queue[c], SendQueue)
                /\ SendMessageToQueue(t, c) /\ Sent(t)
             \/ /\ found[t] /\ ~HasRoom(queue[c], SendQueue)
                /\ Goto(t, "read") /\ UNCHANGED sendVars
          /\ UNCHANGED <<connVars, refVars, poolVars, on, item, found, stopVars,
                         countVars, fault>>
-----------------------------------------------------------------------------
(* stop_server_evloop and destroy_server_evloop.                           *)

StopRequest(kind) ==
  /\ At(Stopper, "idle")
  /\ stop' = kind
  /\ Goto(Stopper, "pending")
  /\ UNCHANGED <<connVars, refVars, sendVars, poolVars, on, item, found,
                 is_pending_stop, is_data_sending, countVars, fault>>

StopPending ==
  /\ At(Stopper, "pending")
  /\ is_pending_stop' = TRUE
  /\ Goto(Stopper, "wait")
  /\ UNCHANGED <<connVars, refVars, sendVars, poolVars, on, item, found,
                 stop, is_data_sending, countVars, fault>>

StopWaited ==
  /\ At(Stopper, "wait") /\ stop = "none"
  /\ Goto(Stopper, "closing")
  /\ UNCHANGED <<connVars, refVars, sendVars, poolVars, on, item, found,
                 stopVars, countVars, fault>>

(* lws_context_destroy closes the connections that are left...             *)
CloseNext ==
  /\ At(Stopper, "closing")
  /\ \E c \in Conns : wsi[c] = "open"
                      /\ on' = [on EXCEPT ![Stopper] = c]
  /\ Goto(Stopper, "mark")
  /\ UNCHANGED <<connVars, refVars, sendVars, poolVars, item, found, stopVars,
                 countVars, fault>>

(* ...destroy_thread_pool cancels the workers without waiting for them...  *)
CancelWorkers ==
  /\ At(Stopper, "closing") /\ \A c \in Conns : wsi[c] # "open"
  /\ contexts' = "cancelled"
  /\ Goto(Stopper, "contexts")
  /\ UNCHANGED <<connVars, refVars, sendVars, inbox, curr_thread_index, started,
                 on, item, found, stopVars, countVars, fault>>

(* ...and destroy_thread_contexts frees their queues.                      *)
DestroyThreadContexts ==
  /\ At(Stopper, "contexts")
  /\ contexts' = "freed"
  /\ Goto(Stopper, "done")
  /\ UNCHANGED <<connVars, refVars, sendVars, inbox, curr_thread_index, started,
                 on, item, found, stopVars, countVars, fault>>
-----------------------------------------------------------------------------
(* After start_ipc_server: the loop runs, nobody is connected.             *)
Init ==
  /\ wsi = [c \in Conns |-> "none"]
  /\ wantWrite = {}
  /\ heap = [c \in Conns |-> {}]
  /\ p_connection = [c \in Conns |-> FALSE]
  /\ queue = [c \in Conns |-> << >>]
  /\ reference_count = [c \in Conns |-> 0]
  /\ holders = [c \in Conns |-> {}]
  /\ inbox = [w \in Workers |-> << >>]
  /\ curr_thread_index = 0
  /\ started = {}
  /\ contexts = "live"
  /\ pc = [t \in Threads |-> IF t = Service THEN "poll" ELSE "idle"]
  /\ on = [t \in Threads |-> NoConn]
  /\ item = [t \in Threads |-> 0]
  /\ found = [t \in Threads |-> FALSE]
  /\ stop = "none" /\ is_pending_stop = FALSE /\ is_data_sending = FALSE
  /\ received = 0 /\ noticed = 0
  /\ fault = "none"

ServiceStep ==
  \/ \E c \in Conns : Establish(c) \/ EstablishFails(c) \/ EstablishRefused(c)
                      \/ Receive(c) \/ Writable(c) \/ PeerCloses(c)
  \/ Dispatch \/ HandleNextMessage \/ LoopCheck \/ ServiceFails

CloseStep(t) ==
  \/ MarkConnAsClose(t) \/ DestroyQueuedMessages(t) \/ DestroyQueue(t)
  \/ ConnectionDestroy(t)

RefStep(t) == DecreaseRefCount(t) \/ TryDestroySharedObject(t)

WorkerStep(w) ==
  \/ TakeMessage(w) \/ DoAsyncRequest(w) \/ AsyncRequest(w) \/ FinishRequest(w)
  \/ WorkerExits(w)

SendStep(t) == DoSend(t) \/ ReadConnection(t) \/ SendMessageToConnection(t)

StopStep ==
  \/ \E kind \in StopKinds : StopRequest(kind)
  \/ StopPending \/ StopWaited \/ CloseNext \/ CancelWorkers
  \/ DestroyThreadContexts

Next ==
  \/ ServiceStep
  \/ \E t \in Threads : CloseStep(t) \/ RefStep(t) \/ SendStep(t)
  \/ \E w \in Workers : WorkerStep(w)
  \/ \E t \in Callers, c \in Conns : SendNotice(t, c)
  \/ StopStep

Spec == Init /\ [][Next]_vars

(* Threads are scheduled, and a peer eventually reads what it is sent.     *)
Fairness ==
  /\ \A c \in Conns : WF_vars(Writable(c))
  /\ WF_vars(Dispatch \/ HandleNextMessage)
  /\ WF_vars(LoopCheck)
  /\ \A t \in Threads :
       WF_vars(CloseStep(t) \/ RefStep(t) \/ SendStep(t))
  /\ \A w \in Workers : WF_vars(WorkerStep(w))
  /\ WF_vars(StopPending \/ StopWaited \/ CloseNext \/ CancelWorkers
             \/ DestroyThreadContexts)

FairSpec == Spec /\ Fairness
-----------------------------------------------------------------------------
Places == {"poll", "dispatch", "next", "mark", "drain", "unqueue", "release",
           "try", "object", "exited", "idle", "check", "request", "finish",
           "send", "read", "locked", "pending", "wait", "closing", "contexts", "done"}

TypeOK ==
  /\ wsi \in [Conns -> {"none", "open", "gone"}]
  /\ wantWrite \subseteq Conns
  /\ heap \in [Conns -> SUBSET {"queue", "state", "object"}]
  /\ p_connection \in [Conns -> BOOLEAN]
  /\ queue \in [Conns -> Seq(Messages)]
  /\ reference_count \in [Conns -> Nat]
  /\ holders \in [Conns -> SUBSET (0 .. MaxRequests)]
  /\ inbox \in [Workers -> Seq(Conns \X Requests)]
  /\ curr_thread_index \in Workers
  /\ started \subseteq Workers
  /\ contexts \in {"live", "cancelled", "freed"}
  /\ pc \in [Threads -> Places]
  /\ on \in [Threads -> Conns \cup {NoConn}]
  /\ item \in [Threads -> Messages \cup {0}]
  /\ found \in [Threads -> BOOLEAN]
  /\ stop \in {"none", "request", "force"}
  /\ is_pending_stop \in BOOLEAN /\ is_data_sending \in BOOLEAN
  /\ received \in 0 .. MaxRequests /\ noticed \in 0 .. MaxNotices
  /\ fault \in {"none", "missing", "object", "state", "queue", "count",
                "context"}

(* shared_ptr.c: as long as a counted reference to a connection's shared   *)
(* state is held, by the connection or by a message on its way through the *)
(* workers, the state is not freed.                                        *)
HeldStateAlive == \A c \in Conns : holders[c] # {} => "state" \in heap[c]

(* ...and when the last holder is through destroy_shared_ptr, it is freed. *)
StateReclaimed ==
  \A c \in Conns :
    "state" \in heap[c] /\ holders[c] = {}
      => \E t \in Threads : pc[t] = "try" /\ on[t] = c

(* send_message_to_queue, callback_writable and handle_next_message keep   *)
(* the writable callback requested while an open connection has messages.  *)
WakeupNotLost ==
  \A c \in Conns :
    wsi[c] = "open" /\ queue[c] # << >>
      => \/ c \in wantWrite
         \/ pc[Service] = "next" /\ on[Service] = c

Faulted == fault # "none"

(* Every reference that a message has taken is on its way to being given   *)
(* back: the message is with the service thread, in a worker's queue or    *)
(* with a worker, whether or not its connection is still there.  (All      *)
(* variables have their types.)                                            *)
RequestsRelease ==
  /\ TypeOK
  /\ contexts = "live" => \A c \in Conns : \A i \in holders[c] \ {0} :
       \/ pc[Service] = "dispatch" /\ on[Service] = c /\ item[Service] = i
       \/ \E w \in Workers :
            \/ \E k \in 1 .. Len(inbox[w]) : inbox[w][k] = <<c, i>>
            \/ pc[w] \in {"check", "request", "read", "locked", "finish", "release"}
               /\ on[w] = c /\ item[w] = i

(* The service thread waits for room in the queue of a worker that waits   *)
(* for room in a connection's queue, which only the service thread empties.*)
EveryoneWaits ==
  LET w == curr_thread_index IN
  /\ pc[Service] = "dispatch" /\ ~HasRoom(inbox[w], WorkerQueue)
  /\ pc[w] \in {"read", "locked"} /\ p_connection[on[w]]
  /\ ~HasRoom(queue[on[w]], SendQueue)

(* stop_server_evloop returns at whatever point it comes, with all queues  *)
(* as full as they get, unless service thread and worker wait for each     *)
(* other, or lws_service has failed: then the loop is over and nobody      *)
(* takes stop back.                                                        *)
StopReturns ==
  pc[Stopper] = "wait"
    ~> \/ pc[Stopper] # "wait" \/ Faulted \/ EveryoneWaits
       \/ pc[Service] = "exited" /\ stop # "none"
=============================================================================
