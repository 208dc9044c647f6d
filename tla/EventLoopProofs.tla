--------------------------- MODULE EventLoopProofs ---------------------------
(***************************************************************************)
(* The reference counts of the event loop, for any number of connections,  *)
(* workers, callers and requests.                                          *)
(***************************************************************************)
EXTENDS EventLoop, FiniteSetTheorems, SequenceTheorems, TLAPS

ServicePlaces == {"poll", "dispatch", "next", "mark", "drain", "unqueue",
                  "release", "try", "object", "exited"}
ClosePlaces == {"mark", "drain", "unqueue", "release", "try", "object"}
StopperPlaces == ClosePlaces \cup {"idle", "pending", "wait", "closing",
                                   "contexts", "done"}
CarryPlaces == {"check", "request", "read", "locked", "finish", "release"}
WorkerPlaces == CarryPlaces \cup {"idle", "try", "exited"}
CallerPlaces == {"idle", "send", "read", "locked"}

(* The types, without the Boolean variables.                               *)
Typed ==
  /\ wsi \in [Conns -> {"none", "open", "gone"}]
  /\ wantWrite \subseteq Conns
  /\ heap \in [Conns -> SUBSET {"queue", "state", "object"}]
  /\ p_connection \in [Conns -> BOOLEAN]
  /\ queue \in [Conns -> Seq(Messages)]
  /\ reference_count \in [Conns -> Nat]
  /\ holders \in [Conns -> SUBSET (0 .. MaxRequests)]
  /\ inbox \in [Workers -> Seq(Conns \X Requests)]
  /\ curr_thread_index \in Workers
  /\ started \subseteq Workers
  /\ contexts \in {"live", "cancelled", "freed"}
  /\ pc \in [Threads -> Places]
  /\ on \in [Threads -> Conns \cup {NoConn}]
  /\ item \in [Threads -> Messages \cup {0}]
  /\ found \in [Threads -> BOOLEAN]
  /\ stop \in {"none", "request", "force"}
  /\ received \in 0 .. MaxRequests /\ noticed \in 0 .. MaxNotices
  /\ fault \in {"none", "missing", "object", "state", "queue", "count",
                "context"}

(* Which thread can be where, and on which connection.                     *)
PlacesInv ==
  /\ pc[Service] \in ServicePlaces
  /\ pc[Stopper] \in StopperPlaces
  /\ \A w \in Workers : pc[w] \in WorkerPlaces
  /\ \A t \in Callers : pc[t] \in CallerPlaces
  /\ pc[Service] \in ServicePlaces \ {"poll", "exited"}
       => on[Service] \in Conns /\ wsi[on[Service]] = "open"
  /\ pc[Stopper] \in ClosePlaces
       => on[Stopper] \in Conns /\ wsi[on[Stopper]] = "open"
  /\ \A w \in Workers : pc[w] \in CarryPlaces \cup {"try"} => on[w] \in Conns
  /\ \A t \in Callers : pc[t] # "idle" => on[t] \in Conns

(* The server is destroyed only after the loop has ended.                  *)
StopInv ==
  /\ pc[Stopper] = "idle" => stop = "none"
  /\ pc[Stopper] \in {"pending", "wait"} /\ stop = "none"
       => pc[Service] = "exited"
  /\ pc[Stopper] \notin {"idle", "pending", "wait"} => pc[Service] = "exited"

(* A connection that has not been made has nothing.                        *)
FreshInv ==
  \A c \in Conns : wsi[c] = "none"
                     => heap[c] = {} /\ holders[c] = {} /\ queue[c] = << >>

(* The count is that of the holders, and they are requests so far.         *)
CountInv ==
  \A c \in Conns : /\ holders[c] \subseteq 0 .. received
                   /\ reference_count[c] = Cardinality(holders[c])

(* An open connection has its own reference until callback_close drops it. *)
OwnInv ==
  \A c \in Conns :
    wsi[c] = "open" => \/ 0 \in holders[c]
                       \/ \E t \in {Service, Stopper} :
                            pc[t] \in {"try", "object"} /\ on[t] = c

(* A worker, or the service thread, has a request in hand.                 *)
Carries(w) == pc[w] \in CarryPlaces
Dispatching == pc[Service] = "dispatch"

(* A caller of do_send has a message.                                      *)
NoticeInv == \A t \in Callers : pc[t] # "idle" => item[t] \in Messages

(* Each request has its reference...                                       *)
HeldInv ==
  /\ Dispatching => /\ item[Service] \in Requests
                    /\ item[Service] \in holders[on[Service]]
  /\ \A w \in Workers : Carries(w) => /\ item[w] \in Requests
                                      /\ item[w] \in holders[on[w]]
  /\ \A w \in Workers : \A k \in 1 .. Len(inbox[w]) :
       inbox[w][k][2] \in holders[inbox[w][k][1]]

(* ...and is in one place.                                                 *)
OnceInv ==
  /\ Dispatching => \A w \in Workers : Carries(w) => item[w] # item[Service]
  /\ Dispatching => \A w \in Workers : \A k \in 1 .. Len(inbox[w]) :
                      inbox[w][k][2] # item[Service]
  /\ \A v, w \in Workers : Carries(v) /\ Carries(w) /\ v # w
                             => item[v] # item[w]
  /\ \A v, w \in Workers : Carries(v) => \A k \in 1 .. Len(inbox[w]) :
                                           inbox[w][k][2] # item[v]
  /\ \A v, w \in Workers : \A j \in 1 .. Len(inbox[v]), k \in 1 .. Len(inbox[w]) :
       inbox[v][j][2] = inbox[w][k][2] => v = w /\ j = k

(* Without a context that was cancelled, each of them is still on its way. *)
OnItsWay(c, i) ==
  \/ Dispatching /\ on[Service] = c /\ item[Service] = i
  \/ \E w \in Workers :
       \/ \E k \in 1 .. Len(inbox[w]) : inbox[w][k] = <<c, i>>
       \/ Carries(w) /\ on[w] = c /\ item[w] = i

Released ==
  contexts = "live" => \A c \in Conns : \A i \in holders[c] \ {0} : OnItsWay(c, i)

Inv ==
  /\ Typed /\ PlacesInv /\ StopInv /\ FreshInv /\ CountInv /\ OwnInv
  /\ NoticeInv /\ HeldInv /\ OnceInv
  /\ HeldStateAlive /\ StateReclaimed /\ WakeupNotLost /\ Released
-----------------------------------------------------------------------------
(* The threads are the service thread, the stopper, workers and callers.   *)
LEMMA ThreadFacts ==
  /\ Service \in Threads /\ Stopper \in Threads /\ Service # Stopper
  /\ \A w \in Workers : w \in Threads /\ w # Service /\ w # Stopper /\ w \notin Callers
  /\ \A t \in Callers : t \in Threads /\ t # Service /\ t # Stopper /\ t \notin Workers
  /\ \A t \in Threads : t = Service \/ t = Stopper \/ t \in Workers \/ t \in Callers
BY EventLoopAssumption DEF Threads

(* A step that only faults, or none: everything else stays.                *)
Still == UNCHANGED <<connVars, refVars, sendVars, poolVars, threadVars, stopVars, countVars>>

(* try_destroy_shared_object, with the state still there.                  *)
Frees(t) == "state" \in heap[on[t]] /\ TryDestroySharedObject(t)

(* A thread goes on from one place to another, and neither it nor any      *)
(* other gets another message or connection.                               *)
Edge(t, p, q) ==
  \/ t = Service /\ p = "next" /\ q = "poll" /\ HandleNextMessage
  \/ t = Service /\ p = "poll" /\ q \in {"poll", "exited"}
  \/ Closing(t) /\ p = "mark" /\ q = "drain"
  \/ Closing(t) /\ p = "drain" /\ q \in {"drain", "unqueue"}
  \/ Closing(t) /\ p = "unqueue" /\ q = "release"
  \/ Closing(t) /\ p = "try" /\ q = "object" /\ Frees(t)
  \/ t = Stopper /\ p = "idle" /\ q = "pending"
  \/ t = Stopper /\ p = "pending" /\ q = "wait"
  \/ t = Stopper /\ p = "wait" /\ q = "closing"
  \/ t = Stopper /\ p \in {"closing", "contexts"} /\ q \in {"contexts", "done"}
  \/ t \in Workers /\ p \in CarryPlaces \ {"release"} /\ q \in CarryPlaces
  \/ t \in Workers /\ p = "try" /\ q = "idle" /\ Frees(t)
  \/ t \in Workers /\ contexts # "live" /\ p \in {"request", "idle"} /\ q = "exited"
  \/ t \in Callers /\ p \in {"send", "read", "locked"} /\ q \in {"read", "locked", "idle"}

Walks(t, q) ==
  /\ Edge(t, pc[t], q) /\ pc' = [pc EXCEPT ![t] = q]
  /\ UNCHANGED <<wsi, refVars, inbox, on, item, received>>

(* A thread turns to another connection.                                   *)
Aims(t, c, q) ==
  /\ \/ t = Service /\ pc[t] = "poll" /\ wsi[c] = "open" /\ q \in {"next", "mark"}
     \/ t = Stopper /\ pc[t] = "closing" /\ wsi[c] = "open" /\ q = "mark"
     \/ t \in Callers /\ pc[t] = "idle" /\ q = "send" /\ item'[t] \in Messages
  /\ pc' = [pc EXCEPT ![t] = q] /\ on' = [on EXCEPT ![t] = c]
  /\ t \in Callers \/ item' = item
  /\ item' \in [Threads -> Messages \cup {0}]
  /\ \A s \in Threads : s # t => item'[s] = item[s]
  /\ UNCHANGED <<wsi, refVars, inbox, received>>

Stays == UNCHANGED <<wsi, refVars, inbox, pc, on, item, received>>

(* Every step is one of these, as far as references are concerned.         *)
Kinds ==
  \/ Stays
  \/ \E t \in Threads, q \in Places : Walks(t, q)
  \/ \E t \in Threads, c \in Conns, q \in Places : Aims(t, c, q)
  \/ \E c \in Conns : Establish(c) \/ EstablishFails(c) \/ Receive(c)
  \/ Dispatch
  \/ \E t \in {Service, Stopper} : ConnectionDestroy(t)
  \/ \E t \in Threads : DecreaseRefCount(t)
  \/ \E w \in Workers : inbox[w] # << >> /\ contexts # "freed" /\ TakeMessage(w)

(* A thread that goes on along an edge walks.                              *)
LEMMA WalkKind ==
  ASSUME NEW t \in Threads, NEW q \in Places, Edge(t, pc[t], q), Goto(t, q),
         UNCHANGED <<wsi, refVars, inbox, on, item, received>>
  PROVE  Kinds
BY DEF Kinds, Walks, Goto

(* Nothing happens, but perhaps a fault.                                   *)
LEMMA StillKind == ASSUME Still \/ UNCHANGED vars PROVE Kinds
BY DEF Still, vars, Kinds, Stays, connVars, refVars, poolVars, threadVars, countVars

(* A fault leaves everything else alone.                                   *)
LEMMA FaultKind == ASSUME NEW what, Fault(what) PROVE Still
BY DEF Fault, Still

(* Every step is of one of the kinds.                                      *)
LEMMA KindsStep ==
  ASSUME Typed, PlacesInv, [Next]_vars
  PROVE  Kinds
<1>0. /\ pc \in [Threads -> Places]
      /\ \A p \in ServicePlaces \cup StopperPlaces \cup WorkerPlaces \cup CallerPlaces : p \in Places
  BY DEF Typed, Places, ServicePlaces, StopperPlaces, WorkerPlaces, CallerPlaces,
         ClosePlaces, CarryPlaces
<1>1. ASSUME NEW c \in Conns, Establish(c) \/ EstablishFails(c) \/ Receive(c) PROVE Kinds
  BY <1>1 DEF Kinds
<1>2. ASSUME NEW c \in Conns, EstablishRefused(c) PROVE Kinds
  BY <1>2, FaultKind, StillKind DEF EstablishRefused
<1>3. ASSUME NEW c \in Conns, Writable(c) PROVE Kinds
  <2>1. UNCHANGED <<wsi, refVars, inbox, item, received>> /\ pc[Service] = "poll" /\ wsi[c] = "open"
    BY <1>3 DEF Writable, Polling, At, connVars, poolVars, countVars
  <2>2. CASE queue[c] = << >>
    BY <1>3, <2>1, <2>2 DEF Writable, Kinds, Stays
  <2>3. CASE queue[c] # << >>
    <3>1. Aims(Service, c, "next")
      BY <1>3, <2>1, <2>3 DEF Writable, Aims, Goto, Typed
    <3> QED
      BY <1>0, <3>1, ThreadFacts DEF Kinds, ServicePlaces
  <2> QED
    BY <2>2, <2>3
<1>4. ASSUME NEW c \in Conns, PeerCloses(c) PROVE Kinds
  <2>1. Aims(Service, c, "mark")
    BY <1>4 DEF PeerCloses, Polling, At, Aims, Goto, connVars, poolVars, countVars, Typed
  <2> QED
    BY <1>0, <2>1, ThreadFacts DEF Kinds, ServicePlaces
<1>5. ASSUME HandleNextMessage PROVE Kinds
  <2>1. /\ pc[Service] = "next" /\ Goto(Service, "poll")
        /\ UNCHANGED <<wsi, refVars, inbox, on, item, received>>
    BY <1>5 DEF HandleNextMessage, At, connVars, poolVars, countVars
  <2> QED
    BY <1>0, <1>5, <2>1, ThreadFacts, WalkKind DEF Edge, ServicePlaces
<1>6. ASSUME LoopCheck \/ ServiceFails PROVE Kinds
  <2>1. /\ pc[Service] = "poll" /\ (Goto(Service, "exited") \/ UNCHANGED pc)
        /\ UNCHANGED <<wsi, refVars, inbox, on, item, received>>
    BY <1>6 DEF LoopCheck, ServiceFails, Polling, At, connVars, poolVars, countVars
  <2>2. CASE UNCHANGED pc
    BY <2>1, <2>2 DEF Kinds, Stays
  <2>3. CASE Goto(Service, "exited")
    BY <1>0, <2>1, <2>3, ThreadFacts, WalkKind DEF Edge, ServicePlaces
  <2> QED
    BY <2>1, <2>2, <2>3
<1>7. ASSUME NEW t \in Threads, MarkConnAsClose(t) \/ DestroyQueuedMessages(t) \/ DestroyQueue(t)
      PROVE  Kinds
  <2>1. /\ Closing(t) /\ UNCHANGED <<wsi, refVars, inbox, on, item, received>>
        /\ \/ pc[t] = "mark" /\ Goto(t, "drain")
           \/ pc[t] = "drain" /\ (Goto(t, "unqueue") \/ UNCHANGED pc)
           \/ pc[t] = "unqueue" /\ Goto(t, "release")
    BY <1>7 DEF MarkConnAsClose, DestroyQueuedMessages, DestroyQueue, At, connVars, poolVars,
                countVars
  <2>2. CASE UNCHANGED pc
    BY <2>1, <2>2 DEF Kinds, Stays
  <2>3. CASE pc[t] = "mark" /\ Goto(t, "drain")
    BY <1>0, <2>1, <2>3, WalkKind DEF Edge, ServicePlaces
  <2>4. CASE pc[t] = "drain" /\ Goto(t, "unqueue")
    BY <1>0, <2>1, <2>4, WalkKind DEF Edge, ServicePlaces
  <2>5. CASE pc[t] = "unqueue" /\ Goto(t, "release")
    BY <1>0, <2>1, <2>5, WalkKind DEF Edge, ServicePlaces
  <2> QED
    BY <2>1, <2>2, <2>3, <2>4, <2>5
<1>8. ASSUME NEW t \in Threads, ConnectionDestroy(t) PROVE Kinds
  BY <1>8 DEF Kinds, ConnectionDestroy, Closing
<1>9. ASSUME NEW t \in Threads, TryDestroySharedObject(t) PROVE Kinds
  <2>1. CASE Still
    BY <2>1, StillKind
  <2>2. CASE ~Still
    <3>1. /\ pc[t] = "try" /\ Goto(t, IF Closing(t) THEN "object" ELSE "idle") /\ Frees(t)
          /\ UNCHANGED <<wsi, refVars, inbox, on, item, received>>
      BY <1>9, <2>2, FaultKind DEF TryDestroySharedObject, At, poolVars, countVars, Frees
    <3>2. CASE Closing(t)
      BY <1>0, <3>1, <3>2, WalkKind DEF Edge, ServicePlaces
    <3>3. CASE ~Closing(t)
      <4>1. t \in Workers
        BY <3>1, <3>3, ThreadFacts DEF Closing, PlacesInv, CallerPlaces
      <4> QED
        BY <1>0, <3>1, <3>3, <4>1, WalkKind DEF Edge, WorkerPlaces
    <3> QED
      BY <3>2, <3>3
  <2> QED
    BY <2>1, <2>2
<1>10. ASSUME NEW w \in Workers, TakeMessage(w) PROVE Kinds
  <2>1. CASE Still
    BY <2>1, StillKind
  <2>2. CASE ~Still
    <3>1. inbox[w] # << >> /\ contexts # "freed"
      BY <1>10, <2>2, FaultKind DEF TakeMessage
    <3> QED
      BY <1>10, <3>1 DEF Kinds
  <2> QED
    BY <2>1, <2>2
<1>11. ASSUME NEW w \in Workers, DoAsyncRequest(w) \/ AsyncRequest(w) \/ FinishRequest(w)
       PROVE  Kinds
  <2>1. CASE Still
    BY <2>1, StillKind
  <2>2. CASE ~Still
    <3>1. /\ pc[w] \in CarryPlaces \ {"release"} /\ \E q \in CarryPlaces : Goto(w, q)
          /\ UNCHANGED <<wsi, refVars, inbox, on, item, received>>
      BY <1>11, <2>2, FaultKind
      DEF DoAsyncRequest, AsyncRequest, FinishRequest, Using, At, CarryPlaces, connVars,
          poolVars, countVars
    <3> QED
      BY <1>0, <3>1, ThreadFacts, WalkKind DEF Edge, WorkerPlaces
  <2> QED
    BY <2>1, <2>2
<1>12. ASSUME NEW w \in Workers, WorkerExits(w) PROVE Kinds
  <2>1. /\ pc[w] \in {"request", "idle"} /\ contexts # "live" /\ Goto(w, "exited")
        /\ UNCHANGED <<wsi, refVars, inbox, on, item, received>>
    BY <1>12 DEF WorkerExits, At, connVars, poolVars, countVars
  <2> QED
    BY <1>0, <2>1, ThreadFacts, WalkKind DEF Edge, WorkerPlaces
<1>13. ASSUME NEW t \in Threads, SendStep(t) PROVE Kinds
  <2>1. CASE Still
    BY <2>1, StillKind
  <2>2. CASE ~Still
    <3>1. /\ pc[t] \in {"send", "read", "locked"}
          /\ \/ pc[t] = "send" /\ Goto(t, "read")
             \/ pc[t] = "read" /\ Goto(t, "locked")
             \/ pc[t] = "locked" /\ (Sent(t) \/ Goto(t, "read"))
          /\ UNCHANGED <<wsi, refVars, inbox, on, item, received>>
      BY <1>13, <2>2, FaultKind
      DEF SendStep, DoSend, ReadConnection, SendMessageToConnection, Using, At, connVars,
          poolVars, countVars
    <3>2. CASE t \in Workers
      <4>1. /\ pc[t] \in CarryPlaces \ {"release"}
            /\ \E q \in {"read", "locked", "finish"} : Goto(t, q)
        BY <3>1, <3>2 DEF PlacesInv, WorkerPlaces, CarryPlaces, Sent
      <4> QED
        BY <1>0, <3>1, <3>2, <4>1, WalkKind DEF Edge, WorkerPlaces, CarryPlaces
    <3>3. CASE t \in Callers
      <4>1. \E q \in {"read", "locked", "idle"} : Goto(t, q)
        BY <3>1, <3>3, ThreadFacts DEF Sent
      <4> QED
        BY <1>0, <3>1, <3>3, <4>1, WalkKind DEF Edge, CallerPlaces
    <3> QED
      BY <3>1, <3>2, <3>3, ThreadFacts
      DEF PlacesInv, ServicePlaces, StopperPlaces, ClosePlaces
  <2> QED
    BY <2>1, <2>2
<1>14. ASSUME NEW t \in Callers, NEW c \in Conns, SendNotice(t, c) PROVE Kinds
  <2>1. /\ pc[t] = "idle" /\ Goto(t, "send") /\ on' = [on EXCEPT ![t] = c]
        /\ item' = [item EXCEPT ![t] = MaxRequests + noticed + 1]
        /\ UNCHANGED <<wsi, refVars, inbox, received>>
    BY <1>14 DEF SendNotice, At, connVars, poolVars
  <2>2. MaxRequests + noticed + 1 \in Messages /\ item \in [Threads -> Messages \cup {0}]
    BY <1>14, EventLoopAssumption DEF SendNotice, Typed, Messages
  <2>3. /\ item'[t] \in Messages /\ item' \in [Threads -> Messages \cup {0}]
        /\ \A s \in Threads : s # t => item'[s] = item[s]
    BY <1>14, <2>1, <2>2, ThreadFacts
  <2>4. Aims(t, c, "send")
    BY <1>14, <2>1, <2>3 DEF Aims, Goto
  <2> QED
    BY <1>0, <2>4, ThreadFacts DEF Kinds, CallerPlaces
<1>15. ASSUME CloseNext PROVE Kinds
  <2>1. PICK c \in Conns : Aims(Stopper, c, "mark")
    BY <1>15 DEF CloseNext, At, Aims, Goto, connVars, poolVars, countVars, Typed
  <2> QED
    BY <1>0, <2>1, ThreadFacts DEF Kinds, ServicePlaces
<1>16. ASSUME (\E kind \in StopKinds : StopRequest(kind)) \/ StopPending \/ StopWaited
              \/ CancelWorkers \/ DestroyThreadContexts
       PROVE  Kinds
  <2>1. /\ \/ pc[Stopper] = "idle" /\ Goto(Stopper, "pending")
           \/ pc[Stopper] = "pending" /\ Goto(Stopper, "wait")
           \/ pc[Stopper] = "wait" /\ Goto(Stopper, "closing")
           \/ pc[Stopper] = "closing" /\ Goto(Stopper, "contexts")
           \/ pc[Stopper] = "contexts" /\ Goto(Stopper, "done")
        /\ UNCHANGED <<wsi, refVars, inbox, on, item, received>>
    BY <1>16 DEF StopRequest, StopPending, StopWaited, CancelWorkers, DestroyThreadContexts,
                 At, connVars, poolVars, countVars
  <2>2. PICK q \in {"pending", "wait", "closing", "contexts", "done"} :
          Goto(Stopper, q) /\ Edge(Stopper, pc[Stopper], q)
    BY <2>1 DEF Edge
  <2> QED
    BY <1>0, <2>1, <2>2, ThreadFacts, WalkKind DEF StopperPlaces
<1>17. ASSUME UNCHANGED vars PROVE Kinds
  BY <1>17, StillKind
<1>18. ASSUME Dispatch \/ \E t \in Threads : DecreaseRefCount(t) PROVE Kinds
  BY <1>18 DEF Kinds
<1> QED
  BY <1>1, <1>2, <1>3, <1>4, <1>5, <1>6, <1>7, <1>8, <1>9, <1>10, <1>11, <1>12, <1>13,
     <1>14, <1>15, <1>16, <1>17, <1>18
  DEF Next, ServiceStep, CloseStep, RefStep, WorkerStep, StopStep
-----------------------------------------------------------------------------
(* The message that a worker takes.                                        *)
LEMMA TakeFacts ==
  ASSUME Typed, NEW w \in Workers, inbox[w] # << >>, contexts # "freed", TakeMessage(w)
  PROVE  /\ pc[w] = "idle" /\ pc' = [pc EXCEPT ![w] = "check"]
         /\ inbox[w] \in Seq(Conns \X Requests) /\ Len(inbox[w]) \in Nat \ {0}
         /\ inbox[w][1] \in Conns \X Requests
         /\ on' = [on EXCEPT ![w] = inbox[w][1][1]]
         /\ item' = [item EXCEPT ![w] = inbox[w][1][2]]
         /\ inbox[w][1][1] \in Conns /\ inbox[w][1][2] \in Requests
         /\ inbox' \in [Workers -> Seq(Conns \X Requests)]
         /\ Len(inbox'[w]) = Len(inbox[w]) - 1
         /\ \A k \in 1 .. Len(inbox[w]) - 1 : inbox'[w][k] = inbox[w][k + 1]
         /\ \A v \in Workers : v # w => inbox'[v] = inbox[v]
         /\ on'[w] = inbox[w][1][1] /\ item'[w] = inbox[w][1][2]
         /\ \A s \in Threads : s # w => pc'[s] = pc[s] /\ on'[s] = on[s] /\ item'[s] = item[s]
         /\ UNCHANGED <<connVars, refVars, sendVars, contexts, received>>
<1>1. inbox[w] \in Seq(Conns \X Requests) /\ inbox[w] # << >>
  BY DEF Typed
<1>2. /\ Len(inbox[w]) \in Nat \ {0} /\ Head(inbox[w]) = inbox[w][1]
      /\ inbox[w][1] \in Conns \X Requests
  BY <1>1
<1>3. /\ Tail(inbox[w]) \in Seq(Conns \X Requests)
      /\ Len(Tail(inbox[w])) = Len(inbox[w]) - 1
      /\ \A k \in 1 .. Len(inbox[w]) - 1 : Tail(inbox[w])[k] = inbox[w][k + 1]
  BY <1>1, <1>2, HeadTailProperties
<1>4. inbox[w][1][1] \in Conns /\ inbox[w][1][2] \in Requests
  BY <1>2
<1>5. /\ pc[w] = "idle" /\ pc' = [pc EXCEPT ![w] = "check"]
      /\ on' = [on EXCEPT ![w] = inbox[w][1][1]]
      /\ item' = [item EXCEPT ![w] = inbox[w][1][2]]
      /\ inbox' = [inbox EXCEPT ![w] = Tail(inbox[w])]
      /\ UNCHANGED <<connVars, refVars, sendVars, contexts, received>>
  BY <1>2 DEF TakeMessage, At, Goto, countVars
<1>6. /\ inbox'[w] = Tail(inbox[w]) /\ \A v \in Workers : v # w => inbox'[v] = inbox[v]
      /\ inbox' \in [Workers -> Seq(Conns \X Requests)]
  BY <1>3, <1>5 DEF Typed
<1>7. /\ Len(inbox'[w]) = Len(inbox[w]) - 1
      /\ \A k \in 1 .. Len(inbox[w]) - 1 : inbox'[w][k] = inbox[w][k + 1]
  BY <1>3, <1>6, Zenon
<1>8. w \in Threads /\ DOMAIN pc = Threads /\ DOMAIN on = Threads /\ DOMAIN item = Threads
  BY ThreadFacts DEF Typed
<1>9. /\ on'[w] = inbox[w][1][1] /\ item'[w] = inbox[w][1][2]
      /\ \A s \in Threads : s # w => pc'[s] = pc[s] /\ on'[s] = on[s] /\ item'[s] = item[s]
  BY <1>5, <1>8
<1> QED
  BY <1>1, <1>2, <1>3, <1>4, <1>5, <1>6, <1>9, <1>7

(* While one of the two threads closes a connection, the other does not.   *)
LEMMA OneCloses ==
  ASSUME PlacesInv, StopInv
  PROVE  /\ pc[Service] # "exited" => pc[Stopper] \in {"idle", "pending", "wait"}
         /\ pc[Stopper] \in ClosePlaces \cup {"closing"} => pc[Service] = "exited"
BY DEF PlacesInv, StopInv, ClosePlaces, StopperPlaces

(* No thread gets to a place that is not its own.                          *)
LEMMA PlacesStep ==
  ASSUME Typed, PlacesInv, StopInv, Kinds
  PROVE  PlacesInv'
<1> USE ThreadFacts
<1>0. /\ pc \in [Threads -> Places] /\ on \in [Threads -> Conns \cup {NoConn}]
      /\ wsi \in [Conns -> {"none", "open", "gone"}]
  BY DEF Typed
<1>1. CASE Stays
  BY <1>1 DEF Stays, PlacesInv
<1>2. ASSUME NEW t \in Threads, NEW q \in Places, Walks(t, q) PROVE PlacesInv'
  <2>1. /\ pc'[t] = q /\ \A s \in Threads : s # t => pc'[s] = pc[s]
        /\ UNCHANGED <<wsi, on>> /\ Edge(t, pc[t], q)
    BY <1>0, <1>2 DEF Walks
  <2>2. CASE t = Service
    BY <2>1, <2>2 DEF Edge, Closing, PlacesInv, ServicePlaces
  <2>3. CASE t = Stopper
    BY <2>1, <2>3 DEF Edge, Closing, PlacesInv, StopperPlaces, ClosePlaces
  <2>4. CASE t \in Workers
    BY <2>1, <2>4 DEF Edge, Closing, PlacesInv, WorkerPlaces, CarryPlaces
  <2>5. CASE t \in Callers
    BY <2>1, <2>5 DEF Edge, Closing, PlacesInv, CallerPlaces
  <2> QED
    BY <2>2, <2>3, <2>4, <2>5
<1>3. ASSUME NEW t \in Threads, NEW c \in Conns, NEW q \in Places, Aims(t, c, q) PROVE PlacesInv'
  <2>1. /\ pc'[t] = q /\ \A s \in Threads : s # t => pc'[s] = pc[s]
        /\ on'[t] = c /\ \A s \in Threads : s # t => on'[s] = on[s]
        /\ UNCHANGED wsi
    BY <1>0, <1>3 DEF Aims
  <2>2. CASE t = Service
    BY <1>3, <2>1, <2>2 DEF Aims, PlacesInv, ServicePlaces
  <2>3. CASE t = Stopper
    BY <1>3, <2>1, <2>3 DEF Aims, PlacesInv, StopperPlaces, ClosePlaces
  <2>4. CASE t \in Callers
    BY <1>3, <2>1, <2>4 DEF Aims, PlacesInv, CallerPlaces
  <2> QED
    BY <1>3, <2>2, <2>3, <2>4 DEF Aims
<1>4. ASSUME NEW c \in Conns, Establish(c) \/ EstablishFails(c) PROVE PlacesInv'
  <2>1. /\ UNCHANGED <<pc, on>> /\ wsi[c] = "none"
        /\ \A d \in Conns : d # c => wsi'[d] = wsi[d]
    BY <1>0, <1>4 DEF Establish, EstablishFails, threadVars
  <2> QED
    BY <2>1 DEF PlacesInv
<1>5. ASSUME NEW c \in Conns, Receive(c) PROVE PlacesInv'
  <2>1. /\ pc'[Service] = "dispatch" /\ \A s \in Threads : s # Service => pc'[s] = pc[s]
        /\ on'[Service] = c /\ \A s \in Threads : s # Service => on'[s] = on[s]
        /\ UNCHANGED wsi /\ wsi[c] = "open"
    BY <1>0, <1>5 DEF Receive, Goto, connVars
  <2> QED
    BY <2>1 DEF PlacesInv, ServicePlaces
<1>6. ASSUME Dispatch PROVE PlacesInv'
  <2>1. /\ pc'[Service] = "poll" /\ \A s \in Threads : s # Service => pc'[s] = pc[s]
        /\ UNCHANGED <<wsi, on>>
    BY <1>0, <1>6 DEF Dispatch, Goto, connVars
  <2> QED
    BY <2>1 DEF PlacesInv, ServicePlaces
<1>7. ASSUME NEW t \in {Service, Stopper}, ConnectionDestroy(t) PROVE PlacesInv'
  <2>1. /\ pc[t] = "object" /\ pc'[t] = IF t = Service THEN "poll" ELSE "closing"
        /\ \A s \in Threads : s # t => pc'[s] = pc[s]
        /\ UNCHANGED on
    BY <1>0, <1>7 DEF ConnectionDestroy, At, Goto
  <2>2. on[t] \in Conns /\ \A d \in Conns : d # on[t] => wsi'[d] = wsi[d]
    BY <1>0, <1>7, <2>1 DEF ConnectionDestroy, PlacesInv, ServicePlaces, ClosePlaces
  <2>3. CASE t = Service
    <3>1. pc'[Stopper] \in {"idle", "pending", "wait"}
      BY <2>1, <2>3, OneCloses
    <3> QED
      BY <2>1, <2>3, <3>1 DEF PlacesInv, ServicePlaces, StopperPlaces, ClosePlaces
  <2>4. CASE t = Stopper
    <3>1. pc'[Service] = "exited"
      BY <2>1, <2>4, OneCloses DEF ClosePlaces
    <3> QED
      BY <2>1, <2>4, <3>1 DEF PlacesInv, ServicePlaces, StopperPlaces, ClosePlaces
  <2> QED
    BY <2>3, <2>4
<1>8. ASSUME NEW t \in Threads, DecreaseRefCount(t) PROVE PlacesInv'
  <2>1. /\ pc[t] = "release" /\ pc'[t] = "try" /\ \A s \in Threads : s # t => pc'[s] = pc[s]
        /\ UNCHANGED <<wsi, on>>
    BY <1>0, <1>8 DEF DecreaseRefCount, At, Goto, connVars
  <2>2. t \notin Callers
    BY <2>1 DEF PlacesInv, CallerPlaces
  <2> QED
    BY <2>1, <2>2 DEF PlacesInv, ServicePlaces, StopperPlaces, ClosePlaces, WorkerPlaces,
                      CarryPlaces
<1>9. ASSUME NEW w \in Workers, inbox[w] # << >> /\ contexts # "freed" /\ TakeMessage(w)
      PROVE  PlacesInv'
  <2>1. /\ pc'[w] = "check" /\ \A s \in Threads : s # w => pc'[s] = pc[s]
        /\ on'[w] \in Conns /\ \A s \in Threads : s # w => on'[s] = on[s]
        /\ UNCHANGED wsi
    <3>1. /\ pc' = [pc EXCEPT ![w] = "check"] /\ on'[w] = inbox[w][1][1]
          /\ inbox[w][1][1] \in Conns /\ UNCHANGED connVars
          /\ \A s \in Threads : s # w => pc'[s] = pc[s] /\ on'[s] = on[s]
      BY <1>9, TakeFacts
    <3> QED
      BY <1>0, <3>1 DEF connVars
  <2> QED
    BY <2>1 DEF PlacesInv, WorkerPlaces, CarryPlaces
<1> QED
  BY <1>1, <1>2, <1>3, <1>4, <1>5, <1>6, <1>7, <1>8, <1>9 DEF Kinds

(* The loop has ended when the server is destroyed.                        *)
LEMMA StopStepInv ==
  ASSUME Typed, PlacesInv, StopInv, [Next]_vars
  PROVE  StopInv'
<1> USE ThreadFacts
<1>0. pc \in [Threads -> Places]
  BY DEF Typed
<1>1. ASSUME stop' = stop, pc'[Stopper] = pc[Stopper],
             pc[Service] = "exited" => pc'[Service] = "exited"
      PROVE  StopInv'
  BY <1>1 DEF StopInv
<1>2. ASSUME stop' = stop, pc'[Service] = pc[Service],
             pc[Stopper] \notin {"idle", "pending", "wait"},
             pc'[Stopper] \notin {"idle", "pending", "wait"}
      PROVE  StopInv'
  BY <1>2 DEF StopInv
<1>3. ASSUME Still \/ UNCHANGED vars PROVE StopInv'
  BY <1>1, <1>3 DEF Still, vars, threadVars, stopVars
<1>4. ASSUME NEW c \in Conns, Establish(c) \/ EstablishFails(c) \/ EstablishRefused(c)
      PROVE  StopInv'
  <2>1. UNCHANGED <<stop, pc>>
    BY <1>4 DEF Establish, EstablishFails, EstablishRefused, Fault, threadVars, stopVars
  <2> QED
    BY <1>1, <2>1
<1>5. ASSUME NEW t \in Threads, t # Stopper, NEW q, pc[t] # "exited", Goto(t, q), stop' = stop
      PROVE  StopInv'
  BY <1>0, <1>1, <1>5 DEF Goto
<1>6. ASSUME NEW c \in Conns, Receive(c) \/ PeerCloses(c) PROVE StopInv'
  <2>1. pc[Service] = "poll" /\ UNCHANGED stop /\ \E q : Goto(Service, q)
    BY <1>6 DEF Receive, PeerCloses, Polling, At, stopVars
  <2> QED
    BY <1>5, <2>1
<1>7. ASSUME NEW c \in Conns, Writable(c) PROVE StopInv'
  <2>1. pc[Service] = "poll" /\ UNCHANGED stop /\ (UNCHANGED pc \/ Goto(Service, "next"))
    BY <1>7 DEF Writable, Polling, At
  <2> QED
    BY <1>1, <1>5, <2>1
<1>8. ASSUME Dispatch \/ HandleNextMessage \/ ServiceFails PROVE StopInv'
  <2>1. pc[Service] # "exited" /\ UNCHANGED stop /\ \E q : Goto(Service, q)
    BY <1>8 DEF Dispatch, HandleNextMessage, ServiceFails, Polling, At, stopVars
  <2> QED
    BY <1>5, <2>1
<1>9. ASSUME LoopCheck PROVE StopInv'
  <2>1. /\ pc'[Stopper] = pc[Stopper] /\ pc[Service] = "poll" /\ stop # "none"
        /\ \/ stop' = "none" /\ pc'[Service] = "exited"
           \/ stop' = stop /\ pc'[Service] = pc[Service]
    BY <1>0, <1>9 DEF LoopCheck, Polling, At, Goto
  <2> QED
    BY <2>1 DEF StopInv
<1>10. ASSUME NEW t \in Threads, CloseStep(t) \/ RefStep(t) PROVE StopInv'
  <2>1. CASE Still
    BY <1>3, <2>1
  <2>2. CASE ~Still
    <3>1. pc[t] \in ClosePlaces /\ UNCHANGED stop
      BY <1>10, <2>2, FaultKind
      DEF CloseStep, RefStep, MarkConnAsClose, DestroyQueuedMessages, DestroyQueue,
          ConnectionDestroy, DecreaseRefCount, TryDestroySharedObject, At, stopVars, ClosePlaces
    <3>2. UNCHANGED pc \/ \E q \in ClosePlaces \cup {"poll", "closing", "idle"} :
            Goto(t, q) /\ (t = Stopper => q # "idle")
      BY <1>10, <2>2, FaultKind
      DEF CloseStep, RefStep, MarkConnAsClose, DestroyQueuedMessages, DestroyQueue,
          ConnectionDestroy, DecreaseRefCount, TryDestroySharedObject, ClosePlaces, Closing
    <3>3. CASE t = Stopper
      <4>1. /\ pc'[Service] = pc[Service] /\ pc[Stopper] \notin {"idle", "pending", "wait"}
            /\ pc'[Stopper] \notin {"idle", "pending", "wait"}
        BY <1>0, <3>1, <3>2, <3>3 DEF Goto, ClosePlaces
      <4> QED
        BY <1>2, <3>1, <4>1
    <3>4. CASE t # Stopper
      BY <1>1, <1>5, <3>1, <3>2, <3>4 DEF ClosePlaces
    <3> QED
      BY <3>3, <3>4
  <2> QED
    BY <2>1, <2>2
<1>11. ASSUME NEW t \in Threads, SendStep(t) PROVE StopInv'
  <2>1. CASE Still
    BY <1>3, <2>1
  <2>2. CASE ~Still
    <3>1. pc[t] \in {"send", "read", "locked"} /\ UNCHANGED stop /\ \E q : Goto(t, q)
      BY <1>11, <2>2, FaultKind
      DEF SendStep, DoSend, ReadConnection, SendMessageToConnection, Using, Sent, At, stopVars
    <3>2. t # Stopper
      BY <3>1 DEF PlacesInv, StopperPlaces, ClosePlaces
    <3> QED
      BY <1>5, <3>1, <3>2
  <2> QED
    BY <2>1, <2>2
<1>12. ASSUME NEW w \in Workers, WorkerStep(w) PROVE StopInv'
  <2>1. CASE Still
    BY <1>3, <2>1
  <2>2. CASE ~Still
    <3>1. pc[w] # "exited" /\ UNCHANGED stop /\ \E q : Goto(w, q)
      BY <1>12, <2>2, FaultKind
      DEF WorkerStep, TakeMessage, DoAsyncRequest, AsyncRequest, FinishRequest, WorkerExits,
          Using, At, stopVars
    <3> QED
      BY <1>5, <3>1
  <2> QED
    BY <2>1, <2>2
<1>13. ASSUME NEW t \in Callers, NEW c \in Conns, SendNotice(t, c) PROVE StopInv'
  BY <1>5, <1>13 DEF SendNotice, At, stopVars
<1>14. ASSUME NEW kind \in StopKinds, StopRequest(kind) PROVE StopInv'
  <2>1. /\ stop' = kind /\ pc'[Stopper] = "pending" /\ pc'[Service] = pc[Service]
        /\ kind # "none"
    BY <1>0, <1>14, EventLoopAssumption DEF StopRequest, Goto
  <2> QED
    BY <2>1 DEF StopInv
<1>15. ASSUME StopPending PROVE StopInv'
  <2>1. /\ stop' = stop /\ pc[Stopper] = "pending" /\ pc'[Stopper] = "wait"
        /\ pc'[Service] = pc[Service]
    BY <1>0, <1>15 DEF StopPending, Goto, At
  <2> QED
    BY <2>1 DEF StopInv
<1>16. ASSUME StopWaited PROVE StopInv'
  <2>1. /\ stop' = stop /\ pc[Stopper] = "wait" /\ pc'[Stopper] = "closing" /\ stop = "none"
        /\ pc'[Service] = pc[Service]
    BY <1>0, <1>16 DEF StopWaited, Goto, At, stopVars
  <2> QED
    BY <2>1 DEF StopInv
<1>17. ASSUME CloseNext \/ CancelWorkers \/ DestroyThreadContexts PROVE StopInv'
  <2>1. /\ stop' = stop /\ pc'[Service] = pc[Service]
        /\ pc[Stopper] \notin {"idle", "pending", "wait"}
        /\ pc'[Stopper] \notin {"idle", "pending", "wait"}
    BY <1>0, <1>17 DEF CloseNext, CancelWorkers, DestroyThreadContexts, At, Goto, stopVars
  <2> QED
    BY <1>2, <2>1
<1> QED
  BY <1>3, <1>4, <1>6, <1>7, <1>8, <1>9, <1>10, <1>11, <1>12, <1>13, <1>14, <1>15, <1>16, <1>17
  DEF Next, ServiceStep, StopStep
-----------------------------------------------------------------------------
(* The message that the service thread puts into a worker's queue.         *)
LEMMA DispatchFacts ==
  ASSUME Typed, PlacesInv, HeldInv, Dispatch, NEW w, w = curr_thread_index
  PROVE  /\ w \in Workers /\ pc[Service] = "dispatch" /\ pc' = [pc EXCEPT ![Service] = "poll"]
         /\ UNCHANGED <<on, item, refVars, wsi, received, contexts>>
         /\ inbox[w] \in Seq(Conns \X Requests) /\ Len(inbox[w]) \in Nat
         /\ inbox'[w] \in Seq(Conns \X Requests)
         /\ inbox' \in [Workers -> Seq(Conns \X Requests)]
         /\ Len(inbox'[w]) = Len(inbox[w]) + 1
         /\ \A k \in 1 .. Len(inbox[w]) : inbox'[w][k] = inbox[w][k]
         /\ inbox'[w][Len(inbox[w]) + 1] = <<on[Service], item[Service]>>
         /\ \A v \in Workers : v # w => inbox'[v] = inbox[v]
<1>1. /\ w \in Workers /\ pc[Service] = "dispatch" /\ pc' = [pc EXCEPT ![Service] = "poll"]
      /\ UNCHANGED <<on, item, refVars, wsi, received, contexts>>
      /\ inbox' = [inbox EXCEPT ![w] = Append(inbox[w], <<on[Service], item[Service]>>)]
  BY DEF Dispatch, Typed, At, Goto, connVars, countVars
<1>2. <<on[Service], item[Service]>> \in Conns \X Requests
  BY <1>1 DEF PlacesInv, HeldInv, Dispatching, ServicePlaces
<1>3. inbox \in [Workers -> Seq(Conns \X Requests)]
  BY DEF Typed
<1>4. inbox'[w] = Append(inbox[w], <<on[Service], item[Service]>>)
  BY <1>1, <1>3
<1>5. /\ inbox[w] \in Seq(Conns \X Requests) /\ Len(inbox[w]) \in Nat
      /\ inbox'[w] \in Seq(Conns \X Requests)
      /\ Len(inbox'[w]) = Len(inbox[w]) + 1
      /\ \A k \in 1 .. Len(inbox[w]) : inbox'[w][k] = inbox[w][k]
      /\ inbox'[w][Len(inbox[w]) + 1] = <<on[Service], item[Service]>>
  BY <1>1, <1>2, <1>3, <1>4
<1>6. inbox' \in [Workers -> Seq(Conns \X Requests)]
      /\ \A v \in Workers : v # w => inbox'[v] = inbox[v]
  BY <1>1, <1>3, <1>4, <1>5
<1> QED
  BY <1>1, <1>5, <1>6

(* The reference that a thread gives back is its own.                      *)
LEMMA ReferenceIsHeld ==
  ASSUME Typed, PlacesInv, StopInv, OwnInv, HeldInv, NEW t \in Threads, pc[t] = "release"
  PROVE  /\ t \notin Callers /\ on[t] \in Conns
         /\ Reference(t) \in holders[on[t]]
         /\ t \in Workers => Reference(t) = item[t] /\ item[t] \in Requests
         /\ t \notin Workers => Reference(t) = 0
<1> USE ThreadFacts
<1>1. t \notin Callers
  BY DEF PlacesInv, CallerPlaces
<1>2. CASE t \in Workers
  BY <1>1, <1>2 DEF PlacesInv, HeldInv, Carries, CarryPlaces, Reference
<1>3. CASE t = Service
  <2>1. on[t] \in Conns /\ wsi[on[t]] = "open"
    BY <1>3 DEF PlacesInv, ServicePlaces
  <2>2. pc[Stopper] \notin {"try", "object"}
    BY <1>3, OneCloses
  <2>3. 0 \in holders[on[t]]
    BY <1>3, <2>1, <2>2 DEF OwnInv
  <2> QED
    BY <1>1, <1>3, <2>1, <2>3 DEF Reference
<1>4. CASE t = Stopper
  <2>1. on[t] \in Conns /\ wsi[on[t]] = "open"
    BY <1>4 DEF PlacesInv, ClosePlaces
  <2>2. pc[Service] \notin {"try", "object"}
    BY <1>4, OneCloses DEF ClosePlaces
  <2>3. 0 \in holders[on[t]]
    BY <1>4, <2>1, <2>2 DEF OwnInv
  <2> QED
    BY <1>1, <1>4, <2>1, <2>3 DEF Reference
<1> QED
  BY <1>1, <1>2, <1>3, <1>4

(* decrease_ref_count removes a reference that was there.                  *)
LEMMA DecreaseFacts ==
  ASSUME Typed, PlacesInv, StopInv, OwnInv, HeldInv, NEW t \in Threads, DecreaseRefCount(t)
  PROVE  /\ pc[t] = "release" /\ pc'[t] = "try" /\ pc' = [pc EXCEPT ![t] = "try"]
         /\ \A s \in Threads : s # t => pc'[s] = pc[s]
         /\ UNCHANGED <<wsi, heap, queue, wantWrite, inbox, on, item, received, contexts>>
         /\ t \notin Callers /\ on[t] \in Conns
         /\ Reference(t) \in holders[on[t]]
         /\ t \in Workers => Reference(t) = item[t] /\ item[t] \in Requests
         /\ t \notin Workers => Reference(t) = 0
         /\ holders'[on[t]] = holders[on[t]] \ {Reference(t)}
         /\ reference_count'[on[t]] = reference_count[on[t]] - 1
         /\ \A c \in Conns : c # on[t] => /\ holders'[c] = holders[c]
                                         /\ reference_count'[c] = reference_count[c]
<1>1. pc[t] = "release" /\ pc' = [pc EXCEPT ![t] = "try"] /\ pc \in [Threads -> Places]
  BY DEF DecreaseRefCount, At, Goto, Typed
<1>2. /\ t \notin Callers /\ on[t] \in Conns
      /\ Reference(t) \in holders[on[t]]
      /\ t \in Workers => Reference(t) = item[t] /\ item[t] \in Requests
      /\ t \notin Workers => Reference(t) = 0
  BY <1>1, ReferenceIsHeld
<1>3. UNCHANGED <<wsi, heap, queue, wantWrite, inbox, on, item, received, contexts>>
  BY DEF DecreaseRefCount, connVars, sendVars, poolVars, countVars
<1>4. /\ holders' = [holders EXCEPT ![on[t]] = holders[on[t]] \ {Reference(t)}]
      /\ reference_count' = [reference_count EXCEPT ![on[t]] = reference_count[on[t]] - 1]
      /\ DOMAIN holders = Conns /\ DOMAIN reference_count = Conns
  BY DEF DecreaseRefCount, Typed
<1> QED
  BY <1>1, <1>2, <1>3, <1>4

(* Only callback_close gives up the reference of the connection.           *)
LEMMA OwnStep ==
  ASSUME Typed, PlacesInv, StopInv, OwnInv, HeldInv, Kinds
  PROVE  OwnInv'
<1> USE ThreadFacts
<1>0. /\ pc \in [Threads -> Places] /\ on \in [Threads -> Conns \cup {NoConn}]
      /\ wsi \in [Conns -> {"none", "open", "gone"}]
      /\ DOMAIN holders = Conns
  BY DEF Typed
<1>1. CASE Stays
  BY <1>1 DEF Stays, OwnInv, refVars
<1>2. ASSUME NEW t \in Threads, NEW q \in Places, Walks(t, q) PROVE OwnInv'
  <2>1. /\ pc'[t] = q /\ \A s \in Threads : s # t => pc'[s] = pc[s]
        /\ UNCHANGED <<wsi, on, holders>> /\ Edge(t, pc[t], q)
    BY <1>0, <1>2 DEF Walks, refVars
  <2>2. t \in {Service, Stopper} /\ pc[t] \in {"try", "object"} => q = "object"
    BY <2>1 DEF Edge
  <2> QED
    BY <2>1, <2>2 DEF OwnInv
<1>3. ASSUME NEW t \in Threads, NEW c \in Conns, NEW q \in Places, Aims(t, c, q) PROVE OwnInv'
  <2>1. /\ \A s \in Threads : s # t => pc'[s] = pc[s] /\ on'[s] = on[s]
        /\ UNCHANGED <<wsi, holders>> /\ pc[t] \notin {"try", "object"}
    BY <1>0, <1>3 DEF Aims, refVars
  <2> QED
    BY <2>1 DEF OwnInv
<1>4. ASSUME NEW c \in Conns, Establish(c) \/ EstablishFails(c) PROVE OwnInv'
  <2>1. /\ UNCHANGED <<pc, on>> /\ (wsi'[c] = "open" => 0 \in holders'[c])
        /\ \A d \in Conns : d # c => wsi'[d] = wsi[d] /\ holders'[d] = holders[d]
    BY <1>0, <1>4 DEF Establish, EstablishFails, threadVars, refVars
  <2> QED
    BY <2>1 DEF OwnInv
<1>5. ASSUME NEW c \in Conns, Receive(c) PROVE OwnInv'
  <2>1. /\ \A s \in Threads : s # Service => pc'[s] = pc[s] /\ on'[s] = on[s]
        /\ UNCHANGED wsi /\ pc[Service] = "poll"
        /\ \A d \in Conns : holders[d] \subseteq holders'[d]
    BY <1>0, <1>5 DEF Receive, Polling, At, Goto, connVars
  <2> QED
    BY <2>1 DEF OwnInv
<1>6. ASSUME Dispatch PROVE OwnInv'
  <2>1. /\ \A s \in Threads : s # Service => pc'[s] = pc[s]
        /\ UNCHANGED <<wsi, on, holders>> /\ pc[Service] = "dispatch"
    BY <1>0, <1>6 DEF Dispatch, At, Goto, connVars, refVars
  <2> QED
    BY <2>1 DEF OwnInv
<1>7. ASSUME NEW t \in {Service, Stopper}, ConnectionDestroy(t) PROVE OwnInv'
  <2>1. /\ \A s \in Threads : s # t => pc'[s] = pc[s]
        /\ UNCHANGED <<on, holders>> /\ pc[t] = "object"
    BY <1>0, <1>7 DEF ConnectionDestroy, At, Goto, refVars
  <2>2. \A d \in Conns : IF d = on[t] THEN wsi'[d] = "gone" ELSE wsi'[d] = wsi[d]
    BY <1>0, <1>7 DEF ConnectionDestroy
  <2> QED
    BY <2>1, <2>2 DEF OwnInv
<1>8. ASSUME NEW t \in Threads, DecreaseRefCount(t) PROVE OwnInv'
  <2>1. /\ pc[t] = "release" /\ pc'[t] = "try" /\ \A s \in Threads : s # t => pc'[s] = pc[s]
        /\ UNCHANGED <<wsi, on>> /\ t \notin Callers
        /\ holders'[on[t]] = holders[on[t]] \ {Reference(t)}
        /\ t \in Workers => Reference(t) \in Requests
        /\ \A c \in Conns : c # on[t] => holders'[c] = holders[c]
    BY <1>8, DecreaseFacts
  <2>2. 0 \notin Requests
    BY DEF Requests
  <2>3. CASE t \in Workers
    BY <2>1, <2>2, <2>3 DEF OwnInv
  <2>4. CASE t \in {Service, Stopper}
    BY <2>1, <2>4 DEF OwnInv
  <2> QED
    BY <2>1, <2>3, <2>4
<1>9. ASSUME NEW w \in Workers, inbox[w] # << >> /\ contexts # "freed" /\ TakeMessage(w)
      PROVE  OwnInv'
  <2>1. /\ \A s \in Threads : s # w => pc'[s] = pc[s] /\ on'[s] = on[s]
        /\ UNCHANGED <<wsi, holders>>
    BY <1>0, <1>9, TakeFacts DEF connVars, refVars
  <2> QED
    BY <2>1 DEF OwnInv
<1> QED
  BY <1>1, <1>2, <1>3, <1>4, <1>5, <1>6, <1>7, <1>8, <1>9 DEF Kinds

(* The count is zero when nobody holds a reference.                        *)
LEMMA HoldersFinite ==
  ASSUME CountInv, Typed, NEW c \in Conns
  PROVE  /\ IsFiniteSet(holders[c]) /\ Cardinality(holders[c]) \in Nat
         /\ reference_count[c] = 0 <=> holders[c] = {}
<1>1. received \in Nat
  BY EventLoopAssumption DEF Typed
<1>2. IsFiniteSet(0 .. received)
  BY <1>1, FS_Interval
<1>3. IsFiniteSet(holders[c])
  BY <1>2, FS_Subset DEF CountInv
<1> QED
  BY <1>3, FS_CardinalityType, FS_EmptySet DEF CountInv

(* The count is the number of the holders.                                 *)
LEMMA CountStep ==
  ASSUME Typed, PlacesInv, StopInv, CountInv, OwnInv, HeldInv, Kinds
  PROVE  CountInv'
<1>0. DOMAIN holders = Conns /\ DOMAIN reference_count = Conns /\ received \in Nat
  BY EventLoopAssumption DEF Typed
<1>1. ASSUME UNCHANGED <<refVars, received>> PROVE CountInv'
  BY <1>1 DEF CountInv, refVars
<1>2. ASSUME NEW c \in Conns, Establish(c) PROVE CountInv'
  <2>1. /\ holders'[c] = {0} /\ reference_count'[c] = 1 /\ received' = received
        /\ \A d \in Conns : d # c =>
             holders'[d] = holders[d] /\ reference_count'[d] = reference_count[d]
    BY <1>0, <1>2 DEF Establish, countVars
  <2>2. Cardinality({0}) = 1
    BY FS_Singleton
  <2>3. {0} \subseteq 0 .. received
    BY <1>0
  <2> QED
    BY <2>1, <2>2, <2>3 DEF CountInv
<1>3. ASSUME NEW c \in Conns, Receive(c) PROVE CountInv'
  <2>1. /\ received' = received + 1
        /\ holders'[c] = holders[c] \cup {received + 1}
        /\ reference_count'[c] = reference_count[c] + 1
        /\ \A d \in Conns : d # c =>
             holders'[d] = holders[d] /\ reference_count'[d] = reference_count[d]
    BY <1>0, <1>3 DEF Receive, CopySharedPtr
  <2>2. /\ received + 1 \notin holders[c]
        /\ \A d \in Conns : holders[d] \subseteq 0 .. received + 1
    BY <1>0 DEF CountInv
  <2>3. Cardinality(holders'[c]) = Cardinality(holders[c]) + 1
    BY <2>1, <2>2, HoldersFinite, FS_AddElement
  <2>4. \A d \in Conns : holders'[d] \subseteq 0 .. received + 1
    BY <1>0, <2>1, <2>2
  <2> QED
    BY <2>1, <2>3, <2>4 DEF CountInv
<1>4. ASSUME NEW t \in Threads, DecreaseRefCount(t) PROVE CountInv'
  <2>1. /\ on[t] \in Conns /\ Reference(t) \in holders[on[t]] /\ received' = received
        /\ holders'[on[t]] = holders[on[t]] \ {Reference(t)}
        /\ reference_count'[on[t]] = reference_count[on[t]] - 1
        /\ \A c \in Conns : c # on[t] => /\ holders'[c] = holders[c]
                                        /\ reference_count'[c] = reference_count[c]
    BY <1>4, DecreaseFacts
  <2>2. Cardinality(holders'[on[t]]) = Cardinality(holders[on[t]]) - 1
    <3>1. IsFiniteSet(holders[on[t]])
      BY <2>1, HoldersFinite
    <3> QED
      BY <2>1, <3>1, FS_RemoveElement
  <2> QED
    BY <2>1, <2>2 DEF CountInv
<1>5. ASSUME Dispatch PROVE CountInv'
  BY <1>1, <1>5 DEF Dispatch, countVars
<1>6. ASSUME NEW t, ConnectionDestroy(t) PROVE CountInv'
  BY <1>1, <1>6 DEF ConnectionDestroy, countVars
<1>7. ASSUME NEW c \in Conns, EstablishFails(c) PROVE CountInv'
  BY <1>1, <1>7 DEF EstablishFails, countVars
<1>8. ASSUME NEW w \in Workers, inbox[w] # << >> /\ contexts # "freed" /\ TakeMessage(w)
      PROVE  CountInv'
  BY <1>1, <1>8, TakeFacts
<1>9. ASSUME \/ Stays
             \/ \E t \in Threads, q \in Places : Walks(t, q)
             \/ \E t \in Threads, c \in Conns, q \in Places : Aims(t, c, q)
      PROVE  CountInv'
  BY <1>1, <1>9 DEF Stays, Walks, Aims
<1> QED
  BY <1>2, <1>3, <1>4, <1>5, <1>6, <1>7, <1>8, <1>9 DEF Kinds

(* Nobody drops the reference of a request that is somewhere else.         *)
LEMMA HeldStep ==
  ASSUME Typed, PlacesInv, StopInv, FreshInv, OwnInv, HeldInv, OnceInv, Kinds
  PROVE  HeldInv'
<1> USE ThreadFacts
<1>0. /\ pc \in [Threads -> Places] /\ on \in [Threads -> Conns \cup {NoConn}]
      /\ item \in [Threads -> Messages \cup {0}]
      /\ DOMAIN holders = Conns /\ DOMAIN inbox = Workers
      /\ \A w \in Workers : \A k \in 1 .. Len(inbox[w]) :
           inbox[w][k][1] \in Conns /\ inbox[w][k][2] \in Requests
  <2>1. \A w \in Workers : inbox[w] \in Seq(Conns \X Requests)
    BY DEF Typed
  <2>2. \A w \in Workers : \A k \in 1 .. Len(inbox[w]) : inbox[w][k] \in Conns \X Requests
    BY <2>1
  <2> QED
    BY <2>2 DEF Typed
<1>1. CASE Stays
  BY <1>1 DEF Stays, HeldInv, refVars, Dispatching, Carries
<1>2. ASSUME NEW t \in Threads, NEW q \in Places, Walks(t, q) PROVE HeldInv'
  <2>1. /\ pc'[t] = q /\ \A s \in Threads : s # t => pc'[s] = pc[s]
        /\ UNCHANGED <<on, item, inbox, holders>> /\ Edge(t, pc[t], q)
    BY <1>0, <1>2 DEF Walks, refVars
  <2>2. Dispatching' => Dispatching
    BY <2>1 DEF Edge, Dispatching, Closing
  <2>3. \A w \in Workers : Carries(w)' => Carries(w)
    BY <2>1 DEF Edge, Carries, Closing, CarryPlaces
  <2> QED
    BY <2>1, <2>2, <2>3 DEF HeldInv
<1>3. ASSUME NEW t \in Threads, NEW c \in Conns, NEW q \in Places, Aims(t, c, q) PROVE HeldInv'
  <2>1. /\ pc'[t] = q /\ q \in {"next", "mark", "send"} /\ t \notin Workers
        /\ \A s \in Threads : s # t => pc'[s] = pc[s] /\ on'[s] = on[s] /\ item'[s] = item[s]
        /\ UNCHANGED <<inbox, holders>>
    BY <1>0, <1>3 DEF Aims, refVars
  <2>2. Dispatching' => Dispatching /\ t # Service
    BY <2>1 DEF Dispatching
  <2>3. \A w \in Workers : Carries(w)' => Carries(w)
    BY <2>1 DEF Carries
  <2> QED
    BY <2>1, <2>2, <2>3 DEF HeldInv
<1>4. ASSUME NEW c \in Conns, Establish(c) \/ EstablishFails(c) PROVE HeldInv'
  <2>1. /\ UNCHANGED <<pc, on, item, inbox>> /\ wsi[c] = "none"
        /\ \A d \in Conns : d # c => holders'[d] = holders[d]
    BY <1>0, <1>4 DEF Establish, EstablishFails, threadVars, refVars, poolVars
  <2>2. holders[c] = {}
    BY <2>1 DEF FreshInv
  <2>3. /\ Dispatching => on[Service] \in Conns
        /\ \A w \in Workers : Carries(w) => on[w] \in Conns
    BY DEF PlacesInv, Dispatching, Carries, ServicePlaces
  <2> QED
    BY <1>0, <2>1, <2>2, <2>3 DEF HeldInv, Dispatching, Carries
<1>5. ASSUME NEW c \in Conns, Receive(c) PROVE HeldInv'
  <2>1. /\ \A s \in Threads : s # Service => /\ pc'[s] = pc[s] /\ on'[s] = on[s]
                                            /\ item'[s] = item[s]
        /\ on'[Service] = c /\ item'[Service] = received + 1 /\ UNCHANGED inbox
        /\ \A d \in Conns : holders[d] \subseteq holders'[d]
        /\ received + 1 \in holders'[c]
    BY <1>0, <1>5 DEF Receive, Goto, poolVars
  <2>2. received + 1 \in Requests
    BY <1>5, EventLoopAssumption DEF Receive, Requests, Typed
  <2>3. \A w \in Workers : Carries(w)' <=> Carries(w)
    BY <2>1 DEF Carries
  <2>4. \A w \in Workers : Carries(w) => on[w] \in Conns
    BY DEF PlacesInv, Carries
  <2> QED
    BY <1>0, <2>1, <2>2, <2>3, <2>4 DEF HeldInv
<1>6. ASSUME Dispatch PROVE HeldInv'
  <2> DEFINE w == curr_thread_index
  <2>1. /\ w \in Workers /\ Dispatching /\ pc'[Service] = "poll"
        /\ \A s \in Threads : s # Service => pc'[s] = pc[s]
        /\ UNCHANGED <<on, item, holders>>
        /\ Len(inbox[w]) \in Nat
        /\ Len(inbox'[w]) = Len(inbox[w]) + 1
        /\ \A k \in 1 .. Len(inbox[w]) : inbox'[w][k] = inbox[w][k]
        /\ inbox'[w][Len(inbox[w]) + 1] = <<on[Service], item[Service]>>
        /\ \A v \in Workers : v # w => inbox'[v] = inbox[v]
    BY <1>0, <1>6, DispatchFacts DEF refVars, Dispatching
  <2> HIDE DEF w
  <2>2. \A v \in Workers : \A k \in 1 .. Len(inbox'[v]) :
          inbox'[v][k][2] \in holders[inbox'[v][k][1]]
    <3>1. /\ item[Service] \in holders[on[Service]]
          /\ \A v \in Workers : \A k \in 1 .. Len(inbox[v]) :
               inbox[v][k][2] \in holders[inbox[v][k][1]]
      BY <2>1 DEF HeldInv
    <3>2. \A k \in 1 .. Len(inbox'[w]) :
            \/ k \in 1 .. Len(inbox[w]) /\ inbox'[w][k] = inbox[w][k]
            \/ inbox'[w][k] = <<on[Service], item[Service]>>
      BY <2>1
    <3>3. ASSUME NEW k \in 1 .. Len(inbox'[w])
          PROVE  inbox'[w][k][2] \in holders[inbox'[w][k][1]]
      <4>1. CASE k \in 1 .. Len(inbox[w]) /\ inbox'[w][k] = inbox[w][k]
        BY <2>1, <3>1, <4>1
      <4>2. CASE inbox'[w][k] = <<on[Service], item[Service]>>
        BY <3>1, <4>2
      <4> QED
        BY <3>2, <4>1, <4>2
    <3> QED
      BY <2>1, <3>1, <3>3, SMTT(30)
  <2>3. ~Dispatching' /\ \A v \in Workers : Carries(v)' <=> Carries(v)
    BY <2>1 DEF Dispatching, Carries
  <2> QED
    BY <2>1, <2>2, <2>3 DEF HeldInv
<1>7. ASSUME NEW t \in {Service, Stopper}, ConnectionDestroy(t) PROVE HeldInv'
  <2>1. /\ \A s \in Threads : s # t => pc'[s] = pc[s]
        /\ pc'[t] \in {"poll", "closing"}
        /\ UNCHANGED <<on, item, inbox, holders>>
    BY <1>0, <1>7 DEF ConnectionDestroy, Goto, refVars, poolVars
  <2>2. (Dispatching' => Dispatching) /\ \A w \in Workers : Carries(w)' <=> Carries(w)
    BY <2>1 DEF Dispatching, Carries
  <2> QED
    BY <2>1, <2>2 DEF HeldInv
<1>8. ASSUME NEW t \in Threads, DecreaseRefCount(t) PROVE HeldInv'
  <2>1. /\ pc[t] = "release" /\ pc'[t] = "try" /\ \A s \in Threads : s # t => pc'[s] = pc[s]
        /\ UNCHANGED <<inbox, on, item>> /\ t \notin Callers
        /\ \A c \in Conns : \A i \in holders[c] : i # Reference(t) => i \in holders'[c]
        /\ t \in Workers => Reference(t) = item[t]
        /\ t \notin Workers => Reference(t) = 0
    BY <1>8, DecreaseFacts
  <2>2. (Dispatching' => Dispatching) /\ \A w \in Workers : Carries(w)' => Carries(w) /\ w # t
    BY <2>1 DEF Dispatching, Carries, CarryPlaces
  <2>3. /\ Dispatching => on[Service] \in Conns
        /\ \A w \in Workers : Carries(w) => on[w] \in Conns
    BY DEF PlacesInv, Dispatching, Carries, ServicePlaces
  <2>4. 0 \notin Requests
    BY DEF Requests
  <2>5. /\ Dispatching => item[Service] # Reference(t)
        /\ \A w \in Workers : Carries(w) /\ w # t => item[w] # Reference(t)
        /\ \A w \in Workers : \A k \in 1 .. Len(inbox[w]) : inbox[w][k][2] # Reference(t)
    <3>1. CASE t \in Workers
      <4>1. Carries(t)
        BY <2>1 DEF Carries, CarryPlaces
      <4> QED
        BY <2>1, <3>1, <4>1 DEF OnceInv
    <3>2. CASE t \notin Workers
      BY <1>0, <2>1, <2>4, <3>2 DEF HeldInv
    <3> QED
      BY <3>1, <3>2
  <2> QED
    BY <1>0, <2>1, <2>2, <2>3, <2>5 DEF HeldInv
<1>9. ASSUME NEW w \in Workers, inbox[w] # << >> /\ contexts # "freed" /\ TakeMessage(w)
      PROVE  HeldInv'
  <2>1. /\ \A s \in Threads : s # w => pc'[s] = pc[s] /\ on'[s] = on[s] /\ item'[s] = item[s]
        /\ UNCHANGED holders /\ Len(inbox[w]) \in Nat \ {0}
        /\ on'[w] = inbox[w][1][1] /\ item'[w] = inbox[w][1][2]
        /\ Len(inbox'[w]) = Len(inbox[w]) - 1
        /\ \A k \in 1 .. Len(inbox[w]) - 1 : inbox'[w][k] = inbox[w][k + 1]
        /\ \A v \in Workers : v # w => inbox'[v] = inbox[v]
    <3>1. inbox[w] # << >> /\ contexts # "freed" /\ TakeMessage(w)
      BY <1>9
    <3>2. /\ \A s \in Threads : s # w => pc'[s] = pc[s] /\ on'[s] = on[s] /\ item'[s] = item[s]
          /\ on'[w] = inbox[w][1][1] /\ item'[w] = inbox[w][1][2]
      BY <1>0, <3>1, TakeFacts
    <3>3. /\ UNCHANGED holders /\ Len(inbox[w]) \in Nat \ {0}
          /\ Len(inbox'[w]) = Len(inbox[w]) - 1
          /\ \A k \in 1 .. Len(inbox[w]) - 1 : inbox'[w][k] = inbox[w][k + 1]
          /\ \A v \in Workers : v # w => inbox'[v] = inbox[v]
      BY <3>1, TakeFacts DEF refVars
    <3> QED
      BY <3>2, <3>3
  <2>2. \A v \in Workers : \A k \in 1 .. Len(inbox'[v]) :
          inbox'[v][k][2] \in holders[inbox'[v][k][1]]
    <3>1. \A v \in Workers : \A k \in 1 .. Len(inbox[v]) :
            inbox[v][k][2] \in holders[inbox[v][k][1]]
      BY DEF HeldInv
    <3>2. \A k \in 1 .. Len(inbox'[w]) :
            k + 1 \in 1 .. Len(inbox[w]) /\ inbox'[w][k] = inbox[w][k + 1]
      BY <2>1
    <3>3. \A k \in 1 .. Len(inbox'[w]) : inbox'[w][k][2] \in holders[inbox'[w][k][1]]
      BY <3>1, <3>2
    <3> QED
      BY <2>1, <3>1, <3>3
  <2>3. (Dispatching' => Dispatching) /\ \A v \in Workers : v # w => (Carries(v)' <=> Carries(v))
    BY <2>1 DEF Dispatching, Carries
  <2>4. item'[w] \in Requests /\ item'[w] \in holders[on'[w]]
    BY <1>0, <2>1 DEF HeldInv
  <2> QED
    BY <2>1, <2>2, <2>3, <2>4 DEF HeldInv
<1> QED
  BY <1>1, <1>2, <1>3, <1>4, <1>5, <1>6, <1>7, <1>8, <1>9 DEF Kinds

(* A request is handed on, never doubled.                                  *)
LEMMA OnceStep ==
  ASSUME Typed, PlacesInv, CountInv, HeldInv, OnceInv, Kinds
  PROVE  OnceInv'
<1> USE ThreadFacts
<1>0. /\ pc \in [Threads -> Places] /\ item \in [Threads -> Messages \cup {0}]
      /\ received \in Nat /\ \A w \in Workers : Len(inbox[w]) \in Nat
  BY EventLoopAssumption DEF Typed
<1>1. ASSUME Dispatching' => Dispatching, \A w \in Workers : Carries(w)' => Carries(w),
             UNCHANGED inbox, \A w \in Workers : item'[w] = item[w],
             Dispatching' => item'[Service] = item[Service]
      PROVE  OnceInv'
  BY <1>1 DEF OnceInv
<1>2. CASE Stays
  BY <1>1, <1>2 DEF Stays, Dispatching, Carries
<1>3. ASSUME NEW t \in Threads, NEW q \in Places, Walks(t, q) PROVE OnceInv'
  <2>1. /\ pc'[t] = q /\ \A s \in Threads : s # t => pc'[s] = pc[s]
        /\ UNCHANGED <<item, inbox>> /\ Edge(t, pc[t], q)
    BY <1>0, <1>3 DEF Walks
  <2>2. Dispatching' => Dispatching
    BY <2>1 DEF Edge, Dispatching, Closing
  <2>3. \A w \in Workers : Carries(w)' => Carries(w)
    BY <2>1 DEF Edge, Carries, Closing, CarryPlaces
  <2> QED
    BY <1>1, <2>1, <2>2, <2>3
<1>4. ASSUME NEW t \in Threads, NEW c \in Conns, NEW q \in Places, Aims(t, c, q) PROVE OnceInv'
  <2>1. /\ pc'[t] = q /\ q \in {"next", "mark", "send"} /\ t \notin Workers
        /\ \A s \in Threads : s # t => pc'[s] = pc[s] /\ item'[s] = item[s]
        /\ UNCHANGED inbox
    BY <1>0, <1>4 DEF Aims
  <2>2. (Dispatching' => Dispatching /\ t # Service) /\ \A w \in Workers : Carries(w)' => Carries(w)
    BY <2>1 DEF Dispatching, Carries
  <2> QED
    BY <1>1, <2>1, <2>2
<1>5. ASSUME NEW c \in Conns, Establish(c) \/ EstablishFails(c) PROVE OnceInv'
  <2>1. UNCHANGED <<pc, item, inbox>>
    BY <1>5 DEF Establish, EstablishFails, threadVars, poolVars
  <2> QED
    BY <1>1, <2>1 DEF Dispatching, Carries
<1>6. ASSUME NEW c \in Conns, Receive(c) PROVE OnceInv'
  <2>1. /\ \A s \in Threads : s # Service => pc'[s] = pc[s] /\ item'[s] = item[s]
        /\ item'[Service] = received + 1 /\ UNCHANGED inbox
    BY <1>0, <1>6 DEF Receive, Goto, poolVars
  <2>2. \A w \in Workers : (Carries(w)' <=> Carries(w)) /\ item'[w] = item[w]
    BY <2>1 DEF Carries
  <2>3. \A d \in Conns : \A i \in holders[d] : i # received + 1
    BY <1>0 DEF CountInv
  <2>4. /\ \A w \in Workers : Carries(w) => on[w] \in Conns
        /\ \A w \in Workers : \A k \in 1 .. Len(inbox[w]) : inbox[w][k][1] \in Conns
    <3>1. \A w \in Workers : inbox[w] \in Seq(Conns \X Requests)
      BY DEF Typed
    <3>2. \A w \in Workers : \A k \in 1 .. Len(inbox[w]) : inbox[w][k] \in Conns \X Requests
      BY <3>1
    <3> QED
      BY <3>2 DEF PlacesInv, Carries
  <2>5. \A w \in Workers : Carries(w) => item[w] # received + 1
    BY <2>3, <2>4 DEF HeldInv
  <2>6. \A w \in Workers : \A k \in 1 .. Len(inbox[w]) : inbox[w][k][2] # received + 1
    BY <2>3, <2>4 DEF HeldInv
  <2> QED
    BY <2>1, <2>2, <2>5, <2>6, SMTT(30) DEF OnceInv
<1>7. ASSUME Dispatch PROVE OnceInv'
  <2> DEFINE w == curr_thread_index
             last == Len(inbox[w]) + 1
  <2>1. /\ w \in Workers /\ Dispatching /\ pc'[Service] = "poll"
        /\ \A s \in Threads : s # Service => pc'[s] = pc[s]
        /\ UNCHANGED item /\ Len(inbox[w]) \in Nat
        /\ Len(inbox'[w]) = last
        /\ \A k \in 1 .. Len(inbox[w]) : inbox'[w][k] = inbox[w][k]
        /\ inbox'[w][last] = <<on[Service], item[Service]>>
        /\ \A v \in Workers : v # w => inbox'[v] = inbox[v]
    BY <1>0, <1>7, DispatchFacts DEF Dispatching
  <2>2. ~Dispatching' /\ \A v \in Workers : Carries(v)' <=> Carries(v)
    BY <2>1 DEF Dispatching, Carries
  <2> HIDE DEF w
  <2>3. \A v \in Workers : \A k \in 1 .. Len(inbox'[v]) :
          \/ k \in 1 .. Len(inbox[v]) /\ inbox'[v][k] = inbox[v][k]
          \/ v = w /\ k = last /\ inbox'[v][k][2] = item[Service]
    BY <2>1
  <2> HIDE DEF last
  <2>4. \A u, v \in Workers : Carries(u) => \A k \in 1 .. Len(inbox'[v]) : inbox'[v][k][2] # item[u]
    BY <2>1, <2>3, SMTT(30) DEF OnceInv
  <2>5. \A u, v \in Workers : \A j \in 1 .. Len(inbox'[u]), k \in 1 .. Len(inbox'[v]) :
          inbox'[u][j][2] = inbox'[v][k][2] => u = v /\ j = k
    <3> SUFFICES ASSUME NEW u \in Workers, NEW v \in Workers, NEW j \in 1 .. Len(inbox'[u]),
                        NEW k \in 1 .. Len(inbox'[v]), inbox'[u][j][2] = inbox'[v][k][2]
                 PROVE  u = v /\ j = k
      OBVIOUS
    <3>1. \A x \in Workers : \A i \in 1 .. Len(inbox[x]) : inbox[x][i][2] # item[Service]
      BY <2>1 DEF OnceInv
    <3>2. \/ j \in 1 .. Len(inbox[u]) /\ inbox'[u][j] = inbox[u][j]
          \/ u = w /\ j = last /\ inbox'[u][j][2] = item[Service]
      BY <2>3
    <3>3. \/ k \in 1 .. Len(inbox[v]) /\ inbox'[v][k] = inbox[v][k]
          \/ v = w /\ k = last /\ inbox'[v][k][2] = item[Service]
      BY <2>3
    <3>4. CASE j \in 1 .. Len(inbox[u]) /\ inbox'[u][j] = inbox[u][j]
      BY <3>1, <3>3, <3>4 DEF OnceInv
    <3>5. CASE u = w /\ j = last /\ inbox'[u][j][2] = item[Service]
      BY <3>1, <3>3, <3>5
    <3> QED
      BY <3>2, <3>4, <3>5
  <2> QED
    BY <2>1, <2>2, <2>4, <2>5 DEF OnceInv
<1>8. ASSUME NEW t \in {Service, Stopper}, ConnectionDestroy(t) PROVE OnceInv'
  <2>1. /\ \A s \in Threads : s # t => pc'[s] = pc[s]
        /\ pc'[t] \in {"poll", "closing"} /\ UNCHANGED <<item, inbox>>
    BY <1>0, <1>8 DEF ConnectionDestroy, Goto, poolVars
  <2>2. (Dispatching' => Dispatching) /\ \A w \in Workers : Carries(w)' <=> Carries(w)
    BY <2>1 DEF Dispatching, Carries
  <2> QED
    BY <1>1, <2>1, <2>2
<1>9. ASSUME NEW t \in Threads, DecreaseRefCount(t) PROVE OnceInv'
  <2>1. /\ pc'[t] = "try" /\ \A s \in Threads : s # t => pc'[s] = pc[s]
        /\ UNCHANGED <<inbox, item>>
    BY <1>0, <1>9 DEF DecreaseRefCount, Goto, poolVars
  <2>2. (Dispatching' => Dispatching) /\ \A w \in Workers : Carries(w)' => Carries(w)
    BY <2>1 DEF Dispatching, Carries, CarryPlaces
  <2> QED
    BY <1>1, <2>1, <2>2
<1>10. ASSUME NEW w \in Workers, inbox[w] # << >> /\ contexts # "freed" /\ TakeMessage(w)
       PROVE  OnceInv'
  <2>0. inbox[w] # << >> /\ contexts # "freed" /\ TakeMessage(w)
    BY <1>10
  <2>1. /\ \A s \in Threads : s # w => pc'[s] = pc[s] /\ item'[s] = item[s]
        /\ item'[w] = inbox[w][1][2] /\ Len(inbox[w]) \in Nat \ {0}
        /\ Len(inbox'[w]) = Len(inbox[w]) - 1
        /\ \A k \in 1 .. Len(inbox[w]) - 1 : inbox'[w][k] = inbox[w][k + 1]
        /\ \A v \in Workers : v # w => inbox'[v] = inbox[v]
    BY <2>0, TakeFacts
  <2>2. (Dispatching' => Dispatching) /\ \A v \in Workers : v # w => (Carries(v)' <=> Carries(v))
    BY <2>1 DEF Dispatching, Carries
  <2> DEFINE from(v, k) == IF v = w THEN k + 1 ELSE k
  <2>3. \A v \in Workers : \A k \in 1 .. Len(inbox'[v]) :
          /\ from(v, k) \in 1 .. Len(inbox[v]) /\ inbox'[v][k] = inbox[v][from(v, k)]
          /\ v = w => from(v, k) # 1
    BY <1>0, <2>1, SMTT(30)
  <2>4. \A v \in Workers : \A j, k \in 1 .. Len(inbox'[v]) : from(v, j) = from(v, k) => j = k
    BY <1>0, <2>1
  <2> HIDE DEF from
  <2>5. 1 \in 1 .. Len(inbox[w])
    BY <2>1
  <2>6. /\ Dispatching => item[Service] # item'[w]
        /\ \A v \in Workers : Carries(v) => item[v] # item'[w]
        /\ \A v \in Workers : \A k \in 1 .. Len(inbox'[v]) : inbox'[v][k][2] # item'[w]
    <3>1. /\ Dispatching => item[Service] # inbox[w][1][2]
          /\ \A v \in Workers : Carries(v) => item[v] # inbox[w][1][2]
      BY <2>5 DEF OnceInv
    <3>2. ASSUME NEW v \in Workers, NEW k \in 1 .. Len(inbox'[v])
          PROVE  inbox'[v][k][2] # inbox[w][1][2]
      <4>1. /\ from(v, k) \in 1 .. Len(inbox[v]) /\ inbox'[v][k] = inbox[v][from(v, k)]
            /\ v = w => from(v, k) # 1
        BY <2>3
      <4> QED
        BY <2>5, <4>1 DEF OnceInv
    <3> QED
      BY <2>1, <3>1, <3>2
  <2>7. /\ Dispatching => \A v \in Workers : \A k \in 1 .. Len(inbox'[v]) :
                            inbox'[v][k][2] # item[Service]
        /\ \A u, v \in Workers : Carries(u) =>
             \A k \in 1 .. Len(inbox'[v]) : inbox'[v][k][2] # item[u]
    <3> SUFFICES ASSUME NEW v \in Workers, NEW k \in 1 .. Len(inbox'[v])
                 PROVE  /\ Dispatching => inbox'[v][k][2] # item[Service]
                        /\ \A u \in Workers : Carries(u) => inbox'[v][k][2] # item[u]
      OBVIOUS
    <3>1. from(v, k) \in 1 .. Len(inbox[v]) /\ inbox'[v][k] = inbox[v][from(v, k)]
      BY <2>3
    <3> QED
      BY <3>1 DEF OnceInv
  <2>8. \A u, v \in Workers : \A j \in 1 .. Len(inbox'[u]), k \in 1 .. Len(inbox'[v]) :
          inbox'[u][j][2] = inbox'[v][k][2] => u = v /\ j = k
    <3> SUFFICES ASSUME NEW u \in Workers, NEW v \in Workers, NEW j \in 1 .. Len(inbox'[u]),
                        NEW k \in 1 .. Len(inbox'[v]), inbox'[u][j][2] = inbox'[v][k][2]
                 PROVE  u = v /\ j = k
      OBVIOUS
    <3>1. /\ from(u, j) \in 1 .. Len(inbox[u]) /\ inbox'[u][j] = inbox[u][from(u, j)]
          /\ from(v, k) \in 1 .. Len(inbox[v]) /\ inbox'[v][k] = inbox[v][from(v, k)]
      BY <2>3
    <3>2. u = v /\ from(u, j) = from(v, k)
      BY <3>1, SMTT(30) DEF OnceInv
    <3> QED
      BY <2>4, <3>2
  <2> QED
    BY <2>1, <2>2, <2>6, <2>7, <2>8, SMTT(30) DEF OnceInv
<1> QED
  BY <1>2, <1>3, <1>4, <1>5, <1>6, <1>7, <1>8, <1>9, <1>10 DEF Kinds
-----------------------------------------------------------------------------
(* A caller keeps its message while it sends it.                           *)
LEMMA NoticeStep ==
  ASSUME Typed, NoticeInv, Kinds
  PROVE  NoticeInv'
<1> USE ThreadFacts
<1>0. pc \in [Threads -> Places] /\ item \in [Threads -> Messages \cup {0}]
  BY DEF Typed
<1>1. ASSUME \A t \in Callers : item'[t] = item[t] /\ (pc'[t] # "idle" => pc[t] # "idle")
      PROVE  NoticeInv'
  BY <1>1 DEF NoticeInv
<1>2. ASSUME NEW t \in Threads, t \notin Callers,
             \A s \in Threads : s # t => pc'[s] = pc[s] /\ item'[s] = item[s]
      PROVE  NoticeInv'
  BY <1>1, <1>2
<1>3. CASE Stays
  BY <1>1, <1>3 DEF Stays
<1>4. ASSUME NEW t \in Threads, NEW q \in Places, Walks(t, q) PROVE NoticeInv'
  <2>1. /\ \A s \in Threads : s # t => pc'[s] = pc[s]
        /\ UNCHANGED item /\ Edge(t, pc[t], q)
    BY <1>0, <1>4 DEF Walks
  <2>2. t \in Callers => pc[t] # "idle"
    BY <2>1 DEF Edge, Closing
  <2> QED
    BY <1>1, <2>1, <2>2
<1>5. ASSUME NEW t \in Threads, NEW c \in Conns, NEW q \in Places, Aims(t, c, q) PROVE NoticeInv'
  <2>1. /\ \A s \in Threads : s # t => pc'[s] = pc[s] /\ item'[s] = item[s]
        /\ t \in Callers => item'[t] \in Messages
    BY <1>0, <1>5 DEF Aims
  <2> QED
    BY <2>1 DEF NoticeInv
<1>6. ASSUME NEW c \in Conns, Establish(c) \/ EstablishFails(c) PROVE NoticeInv'
  BY <1>1, <1>6 DEF Establish, EstablishFails, threadVars
<1>7. ASSUME NEW c \in Conns, Receive(c) PROVE NoticeInv'
  <2>1. \A s \in Threads : s # Service => pc'[s] = pc[s] /\ item'[s] = item[s]
    BY <1>0, <1>7 DEF Receive, Goto
  <2> QED
    BY <1>2, <2>1
<1>8. ASSUME NEW t \in {Service, Stopper}, (Dispatch /\ t = Service) \/ ConnectionDestroy(t)
      PROVE  NoticeInv'
  <2>1. \A s \in Threads : s # t => pc'[s] = pc[s] /\ item'[s] = item[s]
    BY <1>0, <1>8 DEF Dispatch, ConnectionDestroy, Goto
  <2> QED
    BY <1>2, <2>1
<1>9. ASSUME NEW t \in Threads, DecreaseRefCount(t) PROVE NoticeInv'
  <2>1. /\ \A s \in Threads : s # t => pc'[s] = pc[s]
        /\ UNCHANGED item /\ pc[t] = "release"
    BY <1>0, <1>9 DEF DecreaseRefCount, At, Goto
  <2> QED
    BY <1>1, <2>1
<1>10. ASSUME NEW w \in Workers, inbox[w] # << >> /\ contexts # "freed" /\ TakeMessage(w)
       PROVE  NoticeInv'
  BY <1>2, <1>10, TakeFacts
<1> QED
  BY <1>3, <1>4, <1>5, <1>6, <1>7, <1>8, <1>9, <1>10 DEF Kinds

(* What a step may do to the memory of the connections...                  *)
HeapKinds ==
  \/ UNCHANGED heap
  \/ \E c \in Conns : Establish(c)
  \/ \E t \in {Service, Stopper} : DestroyQueue(t) \/ ConnectionDestroy(t)
  \/ \E t \in Threads : Frees(t)

(* ...to their queues and writable callbacks...                            *)
Queues(t) == /\ pc[t] = "locked" /\ "state" \in heap[on[t]]
             /\ SendMessageToQueue(t, on[t])
             /\ UNCHANGED wsi /\ Sent(t) /\ UNCHANGED on

SendKinds ==
  \/ UNCHANGED sendVars
  \/ \E c \in Conns : Writable(c)
  \/ HandleNextMessage
  \/ \E t \in {Service, Stopper} : DestroyQueuedMessages(t) \/ ConnectionDestroy(t)
  \/ \E t \in Threads : Queues(t)

(* ...and to the contexts of the workers.                                  *)
ContextKinds == UNCHANGED contexts \/ contexts' \in {"cancelled", "freed"}

Frames == HeapKinds /\ SendKinds /\ ContextKinds

(* Every step is of one of these kinds.                                    *)
LEMMA FramesStep ==
  ASSUME [Next]_vars
  PROVE  Frames
<1>1. ASSUME UNCHANGED <<heap, sendVars, contexts>> PROVE Frames
  BY <1>1 DEF Frames, HeapKinds, SendKinds, ContextKinds
<1>2. ASSUME Still \/ UNCHANGED vars PROVE Frames
  BY <1>1, <1>2 DEF Still, vars, connVars, poolVars
<1>3. ASSUME NEW c \in Conns, Establish(c) PROVE Frames
  BY <1>3 DEF Establish, Frames, HeapKinds, SendKinds, ContextKinds, poolVars
<1>4. ASSUME NEW c \in Conns, EstablishFails(c) \/ Receive(c) \/ PeerCloses(c) PROVE Frames
  BY <1>1, <1>4 DEF EstablishFails, Receive, PeerCloses, connVars, poolVars
<1>5. ASSUME NEW c \in Conns, EstablishRefused(c) PROVE Frames
  BY <1>2, <1>5, FaultKind DEF EstablishRefused
<1>6. ASSUME NEW c \in Conns, Writable(c) PROVE Frames
  BY <1>6 DEF Writable, Frames, HeapKinds, SendKinds, ContextKinds, connVars, poolVars
<1>7. ASSUME HandleNextMessage PROVE Frames
  BY <1>7 DEF HandleNextMessage, Frames, HeapKinds, SendKinds, ContextKinds, connVars, poolVars
<1>8. ASSUME Dispatch \/ LoopCheck \/ ServiceFails PROVE Frames
  BY <1>1, <1>8 DEF Dispatch, LoopCheck, ServiceFails, connVars, poolVars
<1>9. ASSUME NEW t \in Threads, MarkConnAsClose(t) \/ DecreaseRefCount(t) PROVE Frames
  BY <1>1, <1>9 DEF MarkConnAsClose, DecreaseRefCount, connVars, poolVars
<1>10. ASSUME NEW t \in Threads, DestroyQueuedMessages(t) PROVE Frames
  BY <1>10 DEF DestroyQueuedMessages, Closing, Frames, HeapKinds, SendKinds, ContextKinds,
               connVars, poolVars
<1>11. ASSUME NEW t \in Threads, DestroyQueue(t) PROVE Frames
  BY <1>11 DEF DestroyQueue, Closing, Frames, HeapKinds, SendKinds, ContextKinds, poolVars
<1>12. ASSUME NEW t \in Threads, ConnectionDestroy(t) PROVE Frames
  BY <1>12 DEF ConnectionDestroy, Closing, Frames, HeapKinds, SendKinds, ContextKinds, poolVars
<1>13. ASSUME NEW t \in Threads, TryDestroySharedObject(t) PROVE Frames
  <2>1. CASE "state" \in heap[on[t]]
    <3>1. Frees(t) /\ UNCHANGED <<sendVars, contexts>>
      BY <1>13, <2>1 DEF TryDestroySharedObject, Frees, poolVars
    <3> QED
      BY <3>1 DEF Frames, HeapKinds, SendKinds, ContextKinds
  <2>2. CASE "state" \notin heap[on[t]]
    BY <1>2, <1>13, <2>2, FaultKind DEF TryDestroySharedObject
  <2> QED
    BY <2>1, <2>2
<1>14. ASSUME NEW t \in Threads, DoSend(t) \/ ReadConnection(t) PROVE Frames
  <2>1. Still \/ UNCHANGED <<heap, sendVars, contexts>>
    BY <1>14, FaultKind DEF DoSend, ReadConnection, Using, connVars, poolVars
  <2> QED
    BY <1>1, <1>2, <2>1
<1>15. ASSUME NEW t \in Threads, SendMessageToConnection(t) PROVE Frames
  <2>1. \/ Still
        \/ UNCHANGED <<heap, sendVars, contexts>>
        \/ Queues(t) /\ UNCHANGED <<heap, contexts>>
    <3>1. CASE Still
      BY <3>1
    <3>2. CASE ~Still
      <4>1. /\ pc[t] = "locked" /\ "state" \in heap[on[t]]
            /\ UNCHANGED <<connVars, poolVars, on>>
            /\ UNCHANGED sendVars \/ (SendMessageToQueue(t, on[t]) /\ Sent(t))
        BY <1>15, <3>2, FaultKind DEF SendMessageToConnection, At
      <4> QED
        BY <4>1 DEF Queues, connVars, poolVars
    <3> QED
      BY <3>1, <3>2
  <2>2. CASE Queues(t) /\ UNCHANGED <<heap, contexts>>
    BY <2>2 DEF Frames, HeapKinds, SendKinds, ContextKinds
  <2> QED
    BY <1>1, <1>2, <2>1, <2>2
<1>16. ASSUME NEW w \in Workers, WorkerStep(w) PROVE Frames
  <2>1. Still \/ UNCHANGED <<heap, sendVars, contexts>>
    BY <1>16, FaultKind DEF WorkerStep, TakeMessage, DoAsyncRequest, AsyncRequest, FinishRequest,
                            WorkerExits, Using, connVars, poolVars
  <2> QED
    BY <1>1, <1>2, <2>1
<1>17. ASSUME NEW t \in Callers, NEW c \in Conns, SendNotice(t, c) PROVE Frames
  BY <1>1, <1>17 DEF SendNotice, connVars, poolVars
<1>18. ASSUME (\E kind \in StopKinds : StopRequest(kind)) \/ StopPending \/ StopWaited \/ CloseNext
       PROVE  Frames
  BY <1>1, <1>18 DEF StopRequest, StopPending, StopWaited, CloseNext, connVars, poolVars
<1>19. ASSUME CancelWorkers \/ DestroyThreadContexts PROVE Frames
  BY <1>19 DEF CancelWorkers, DestroyThreadContexts, Frames, HeapKinds, SendKinds, ContextKinds,
               connVars
<1> QED
  BY <1>2, <1>3, <1>4, <1>5, <1>6, <1>7, <1>8, <1>9, <1>10, <1>11, <1>12, <1>13, <1>14, <1>15,
     <1>16, <1>17, <1>18, <1>19
  DEF Next, ServiceStep, CloseStep, RefStep, SendStep, StopStep

(* A request is not lost on its way before the workers are cancelled.      *)
LEMMA ReleasedStep ==
  ASSUME Typed, PlacesInv, StopInv, OwnInv, HeldInv, Released, Kinds, ContextKinds
  PROVE  Released'
<1> USE ThreadFacts
<1>0. /\ pc \in [Threads -> Places] /\ on \in [Threads -> Conns \cup {NoConn}]
      /\ item \in [Threads -> Messages \cup {0}]
      /\ DOMAIN holders = Conns /\ \A w \in Workers : Len(inbox[w]) \in Nat
  BY DEF Typed
<1>1. SUFFICES ASSUME contexts = "live", NEW c \in Conns, NEW i \in holders'[c] \ {0}
               PROVE  OnItsWay(c, i)'
  BY DEF Released, ContextKinds
<1>2. i \in holders[c] => OnItsWay(c, i)
  BY <1>1 DEF Released
<1>3. ASSUME i \in holders[c], UNCHANGED <<on, item, inbox>>, Dispatching => Dispatching',
             \A w \in Workers : Carries(w) => Carries(w)'
      PROVE  OnItsWay(c, i)'
  BY <1>2, <1>3 DEF OnItsWay
<1>4. CASE Stays
  BY <1>3, <1>4 DEF Stays, refVars, Dispatching, Carries
<1>5. ASSUME NEW t \in Threads, NEW q \in Places, Walks(t, q) PROVE OnItsWay(c, i)'
  <2>1. /\ pc'[t] = q /\ \A s \in Threads : s # t => pc'[s] = pc[s]
        /\ UNCHANGED <<on, item, inbox, holders>> /\ Edge(t, pc[t], q)
    BY <1>0, <1>5 DEF Walks, refVars
  <2>2. Dispatching => Dispatching'
    BY <2>1 DEF Edge, Dispatching, Closing
  <2>3. \A w \in Workers : Carries(w) => Carries(w)'
    BY <1>1, <2>1 DEF Edge, Carries, Closing, CarryPlaces
  <2> QED
    BY <1>3, <2>1, <2>2, <2>3
<1>6. ASSUME NEW t \in Threads, t \notin Workers, ~Dispatching \/ t # Service, UNCHANGED inbox,
             \A s \in Threads : s # t => pc'[s] = pc[s] /\ on'[s] = on[s] /\ item'[s] = item[s],
             i \in holders[c]
      PROVE  OnItsWay(c, i)'
  <2>1. /\ Dispatching => /\ Dispatching' /\ on'[Service] = on[Service]
                          /\ item'[Service] = item[Service]
        /\ \A w \in Workers : on'[w] = on[w] /\ item'[w] = item[w] /\ (Carries(w) => Carries(w)')
    BY <1>6 DEF Dispatching, Carries
  <2> QED
    BY <1>2, <1>6, <2>1 DEF OnItsWay
<1>7. ASSUME NEW t \in Threads, NEW d \in Conns, NEW q \in Places, Aims(t, d, q)
      PROVE  OnItsWay(c, i)'
  <2>1. /\ t \notin Workers /\ (~Dispatching \/ t # Service) /\ UNCHANGED <<inbox, holders>>
        /\ \A s \in Threads : s # t => pc'[s] = pc[s] /\ on'[s] = on[s] /\ item'[s] = item[s]
    BY <1>0, <1>7 DEF Aims, refVars, Dispatching
  <2> QED
    BY <1>6, <2>1
<1>8. ASSUME NEW d \in Conns, Establish(d) \/ EstablishFails(d) PROVE OnItsWay(c, i)'
  <2>1. UNCHANGED <<pc, on, item, inbox>> /\ i \in holders[c]
    BY <1>0, <1>8 DEF Establish, EstablishFails, threadVars, refVars, poolVars
  <2> QED
    BY <1>3, <2>1 DEF Dispatching, Carries
<1>9. ASSUME NEW d \in Conns, Receive(d) PROVE OnItsWay(c, i)'
  <2>1. /\ pc'[Service] = "dispatch" /\ on'[Service] = d /\ item'[Service] = received + 1
        /\ pc[Service] = "poll" /\ UNCHANGED inbox
        /\ \A s \in Threads : s # Service => /\ pc'[s] = pc[s] /\ on'[s] = on[s]
                                            /\ item'[s] = item[s]
        /\ i \in holders[c] \/ (c = d /\ i = received + 1)
    BY <1>0, <1>9 DEF Receive, Polling, At, Goto, poolVars
  <2>2. CASE i \in holders[c]
    BY <1>6, <2>1, <2>2 DEF Dispatching
  <2>3. CASE c = d /\ i = received + 1
    BY <2>1, <2>3 DEF OnItsWay, Dispatching
  <2> QED
    BY <2>1, <2>2, <2>3
<1>10. ASSUME Dispatch PROVE OnItsWay(c, i)'
  <2> DEFINE w == curr_thread_index
  <2>1. /\ w \in Workers /\ UNCHANGED <<on, item, holders>>
        /\ \A s \in Threads : s # Service => pc'[s] = pc[s]
        /\ Len(inbox[w]) \in Nat /\ Len(inbox'[w]) = Len(inbox[w]) + 1
        /\ \A k \in 1 .. Len(inbox[w]) : inbox'[w][k] = inbox[w][k]
        /\ inbox'[w][Len(inbox[w]) + 1] = <<on[Service], item[Service]>>
        /\ \A v \in Workers : v # w => inbox'[v] = inbox[v]
    BY <1>0, <1>10, DispatchFacts DEF refVars
  <2> HIDE DEF w
  <2>2. \A v \in Workers : \A k \in 1 .. Len(inbox[v]) :
          k \in 1 .. Len(inbox'[v]) /\ inbox'[v][k] = inbox[v][k]
    BY <2>1
  <2>3. Len(inbox[w]) + 1 \in 1 .. Len(inbox'[w])
    BY <2>1
  <2>4. \A v \in Workers : Carries(v) => Carries(v)'
    BY <2>1 DEF Carries
  <2>5. CASE on[Service] = c /\ item[Service] = i
    BY <2>1, <2>3, <2>5 DEF OnItsWay
  <2>6. CASE ~(on[Service] = c /\ item[Service] = i)
    <3>1. ASSUME NEW v \in Workers, \E k \in 1 .. Len(inbox[v]) : inbox[v][k] = <<c, i>>
          PROVE  \E k \in 1 .. Len(inbox'[v]) : inbox'[v][k] = <<c, i>>
      BY <2>2, <3>1
    <3>2. ASSUME NEW v \in Workers, Carries(v) /\ on[v] = c /\ item[v] = i
          PROVE  Carries(v)' /\ on'[v] = c /\ item'[v] = i
      BY <2>1, <2>4, <3>2
    <3>3. OnItsWay(c, i)
      BY <1>2, <2>1
    <3> QED
      BY <2>6, <3>1, <3>2, <3>3 DEF OnItsWay
  <2> QED
    BY <2>5, <2>6
<1>11. ASSUME NEW t \in {Service, Stopper}, ConnectionDestroy(t) PROVE OnItsWay(c, i)'
  <2>1. /\ \A s \in Threads : s # t => pc'[s] = pc[s]
        /\ pc[t] = "object" /\ UNCHANGED <<on, item, inbox, holders>>
    BY <1>0, <1>11 DEF ConnectionDestroy, At, Goto, refVars, poolVars
  <2> QED
    BY <1>6, <2>1 DEF Dispatching
<1>12. ASSUME NEW t \in Threads, DecreaseRefCount(t) PROVE OnItsWay(c, i)'
  <2>1. /\ pc[t] = "release" /\ \A s \in Threads : s # t => pc'[s] = pc[s]
        /\ UNCHANGED <<on, item, inbox>>
        /\ t \in Workers => Reference(t) = item[t]
        /\ holders'[on[t]] = holders[on[t]] \ {Reference(t)}
        /\ \A d \in Conns : d # on[t] => holders'[d] = holders[d]
    BY <1>12, DecreaseFacts
  <2>2. i \in holders[c] /\ (on[t] = c => i # Reference(t))
    BY <2>1
  <2>3. Dispatching => Dispatching'
    BY <2>1 DEF Dispatching
  <2>4. \A w \in Workers : Carries(w) /\ on[w] = c /\ item[w] = i => Carries(w)'
    BY <2>1, <2>2 DEF Carries
  <2> QED
    BY <1>2, <2>1, <2>2, <2>3, <2>4 DEF OnItsWay
<1>13. ASSUME NEW w \in Workers, inbox[w] # << >> /\ contexts # "freed" /\ TakeMessage(w)
       PROVE  OnItsWay(c, i)'
  <2>0. inbox[w] # << >> /\ contexts # "freed" /\ TakeMessage(w)
    BY <1>13
  <2>1. /\ pc[w] = "idle" /\ pc'[w] = "check" /\ on'[w] = inbox[w][1][1]
        /\ item'[w] = inbox[w][1][2] /\ UNCHANGED holders
        /\ \A s \in Threads : s # w => pc'[s] = pc[s] /\ on'[s] = on[s] /\ item'[s] = item[s]
    BY <1>0, <2>0, TakeFacts DEF refVars
  <2>2. /\ Len(inbox[w]) \in Nat \ {0} /\ Len(inbox'[w]) = Len(inbox[w]) - 1
        /\ \A k \in 1 .. Len(inbox[w]) - 1 : inbox'[w][k] = inbox[w][k + 1]
        /\ \A v \in Workers : v # w => inbox'[v] = inbox[v]
    BY <2>0, TakeFacts
  <2>3. \A v \in Workers : \A k \in 1 .. Len(inbox[v]) :
          \/ v = w /\ k = 1
          \/ \E j \in 1 .. Len(inbox'[v]) : inbox'[v][j] = inbox[v][k]
    <3> SUFFICES ASSUME NEW k \in 1 .. Len(inbox[w]), k # 1
                 PROVE  \E j \in 1 .. Len(inbox'[w]) : inbox'[w][j] = inbox[w][k]
      BY <2>2
    <3>1. k - 1 \in 1 .. Len(inbox'[w]) /\ inbox'[w][k - 1] = inbox[w][k]
      BY <2>2
    <3> QED
      BY <3>1
  <2>4. Carries(w)' /\ ~Carries(w) /\ \A v \in Workers : v # w => (Carries(v) => Carries(v)')
    BY <2>1 DEF Carries, CarryPlaces
  <2>5. Dispatching => Dispatching'
    BY <2>1 DEF Dispatching
  <2>6. CASE inbox[w][1] = <<c, i>>
    BY <2>1, <2>4, <2>6 DEF OnItsWay
  <2>7. CASE inbox[w][1] # <<c, i>>
    <3>1. CASE Dispatching /\ on[Service] = c /\ item[Service] = i
      BY <2>1, <2>5, <3>1 DEF OnItsWay
    <3>2. ASSUME NEW v \in Workers, \E k \in 1 .. Len(inbox[v]) : inbox[v][k] = <<c, i>>
          PROVE  \E j \in 1 .. Len(inbox'[v]) : inbox'[v][j] = <<c, i>>
      <4>1. PICK k \in 1 .. Len(inbox[v]) : inbox[v][k] = <<c, i>>
        BY <3>2
      <4>2. ~(v = w /\ k = 1)
        BY <2>7, <4>1
      <4>3. PICK j \in 1 .. Len(inbox'[v]) : inbox'[v][j] = inbox[v][k]
        BY <2>3, <4>2
      <4> QED
        BY <4>1, <4>3
    <3>3. ASSUME NEW v \in Workers, Carries(v) /\ on[v] = c /\ item[v] = i
          PROVE  Carries(v)' /\ on'[v] = c /\ item'[v] = i
      BY <2>1, <2>4, <3>3
    <3>4. OnItsWay(c, i)
      BY <1>2, <2>1
    <3> QED
      BY <3>1, <3>2, <3>3, <3>4 DEF OnItsWay
  <2> QED
    BY <2>6, <2>7
<1> QED
  BY <1>4, <1>5, <1>7, <1>8, <1>9, <1>10, <1>11, <1>12, <1>13 DEF Kinds
-----------------------------------------------------------------------------
(* Who changes the references and the socket of a connection...            *)
LEMMA ConnFacts ==
  ASSUME Typed, PlacesInv, StopInv, OwnInv, HeldInv, Kinds, NEW c \in Conns
  PROVE  /\ \/ holders'[c] = holders[c]
            \/ Establish(c) \/ Receive(c)
            \/ \E t \in Threads : DecreaseRefCount(t) /\ on[t] = c
         /\ wsi'[c] = wsi[c] \/ Establish(c) \/ wsi'[c] = "gone"
<1>0. wsi \in [Conns -> {"none", "open", "gone"}] /\ DOMAIN holders = Conns
  BY DEF Typed
<1>1. ASSUME UNCHANGED <<wsi, refVars>> PROVE holders'[c] = holders[c] /\ wsi'[c] = wsi[c]
  BY <1>1 DEF refVars
<1>2. ASSUME NEW d \in Conns, Establish(d)
      PROVE  Establish(c) \/ (holders'[c] = holders[c] /\ wsi'[c] = wsi[c])
  BY <1>0, <1>2 DEF Establish
<1>3. ASSUME NEW d \in Conns, EstablishFails(d)
      PROVE  holders'[c] = holders[c] /\ (wsi'[c] = wsi[c] \/ wsi'[c] = "gone")
  BY <1>0, <1>3 DEF EstablishFails, refVars
<1>4. ASSUME NEW d \in Conns, Receive(d)
      PROVE  (Receive(c) \/ holders'[c] = holders[c]) /\ wsi'[c] = wsi[c]
  BY <1>0, <1>4 DEF Receive, connVars
<1>5. ASSUME Dispatch PROVE holders'[c] = holders[c] /\ wsi'[c] = wsi[c]
  BY <1>1, <1>5 DEF Dispatch, connVars
<1>6. ASSUME NEW t, ConnectionDestroy(t)
      PROVE  holders'[c] = holders[c] /\ (wsi'[c] = wsi[c] \/ wsi'[c] = "gone")
  BY <1>0, <1>6 DEF ConnectionDestroy, refVars
<1>7. ASSUME NEW t \in Threads, DecreaseRefCount(t)
      PROVE  (on[t] = c \/ holders'[c] = holders[c]) /\ wsi'[c] = wsi[c]
  BY <1>7, DecreaseFacts
<1>8. ASSUME NEW w \in Workers, inbox[w] # << >> /\ contexts # "freed" /\ TakeMessage(w)
      PROVE  holders'[c] = holders[c] /\ wsi'[c] = wsi[c]
  <2>1. UNCHANGED <<connVars, refVars>>
    BY <1>8, TakeFacts
  <2> QED
    BY <1>1, <2>1 DEF connVars
<1>9. ASSUME \/ Stays
             \/ \E t \in Threads, q \in Places : Walks(t, q)
             \/ \E t \in Threads, d \in Conns, q \in Places : Aims(t, d, q)
      PROVE  holders'[c] = holders[c] /\ wsi'[c] = wsi[c]
  BY <1>1, <1>9 DEF Stays, Walks, Aims
<1> QED
  BY <1>2, <1>3, <1>4, <1>5, <1>6, <1>7, <1>8, <1>9 DEF Kinds

(* ...and its memory.                                                      *)
LEMMA HeapFacts ==
  ASSUME Typed, HeapKinds, NEW c \in Conns
  PROVE  \/ Establish(c)
         \/ heap'[c] \subseteq heap[c] /\ ("state" \in heap'[c] <=> "state" \in heap[c])
         \/ \E t \in Threads : /\ Frees(t) /\ on[t] = c /\ reference_count[c] = 0
                               /\ heap'[c] = heap[c] \ {"state"} /\ UNCHANGED refVars
<1>0. DOMAIN heap = Conns
  BY DEF Typed
<1>1. ASSUME NEW d \in Conns, Establish(d) PROVE Establish(c) \/ heap'[c] = heap[c]
  BY <1>0, <1>1 DEF Establish
<1>2. ASSUME NEW t, DestroyQueue(t) \/ ConnectionDestroy(t)
      PROVE  heap'[c] \subseteq heap[c] /\ ("state" \in heap'[c] <=> "state" \in heap[c])
  BY <1>0, <1>2 DEF DestroyQueue, ConnectionDestroy
<1>3. ASSUME NEW t \in Threads, Frees(t)
      PROVE  \/ heap'[c] = heap[c]
             \/ /\ on[t] = c /\ reference_count[c] = 0
                /\ heap'[c] = heap[c] \ {"state"} /\ UNCHANGED refVars
  BY <1>0, <1>3 DEF Frees, TryDestroySharedObject, LastReference
<1> QED
  BY <1>1, <1>2, <1>3 DEF HeapKinds

(* The state is freed only when the count is zero.                         *)
LEMMA HeldStateAliveStep ==
  ASSUME Typed, PlacesInv, StopInv, OwnInv, HeldInv, CountInv, HeldStateAlive, Kinds, HeapKinds
  PROVE  HeldStateAlive'
<1> SUFFICES ASSUME NEW c \in Conns, holders'[c] # {} PROVE "state" \in heap'[c]
  BY DEF HeldStateAlive
<1>1. CASE Establish(c)
  BY <1>1 DEF Establish, Typed
<1>2. CASE ~Establish(c)
  <2>1. holders[c] # {}
    <3>1. CASE Receive(c)
      <4>1. wsi[c] = "open" /\ pc[Service] = "poll"
        BY <3>1 DEF Receive, Polling, At
      <4>2. pc[Stopper] \notin {"try", "object"}
        BY <4>1, OneCloses
      <4> QED
        BY <4>1, <4>2 DEF OwnInv
    <3>2. ASSUME NEW t \in Threads, DecreaseRefCount(t), on[t] = c PROVE holders[c] # {}
      BY <3>2, DecreaseFacts
    <3> QED
      BY <1>2, <3>1, <3>2, ConnFacts
  <2>2. "state" \in heap[c] /\ reference_count[c] # 0
    BY <2>1, HoldersFinite DEF HeldStateAlive
  <2> QED
    BY <1>2, <2>2, HeapFacts
<1> QED
  BY <1>1, <1>2

(* A thread that is about to look at the count looks at it.                *)
LEMMA TryStays ==
  ASSUME Typed, PlacesInv, StopInv, OwnInv, HeldInv, Kinds, NEW t \in Threads, pc[t] = "try"
  PROVE  (pc'[t] = "try" /\ on'[t] = on[t]) \/ Frees(t)
<1> USE ThreadFacts
<1>0. pc \in [Threads -> Places] /\ on \in [Threads -> Conns \cup {NoConn}]
  BY DEF Typed
<1>1. ASSUME NEW s \in Threads, NEW q \in Places, Walks(s, q)
      PROVE  (pc'[t] = "try" /\ on'[t] = on[t]) \/ Frees(t)
  <2>1. CASE s # t
    BY <1>0, <1>1, <2>1 DEF Walks
  <2>2. CASE s = t
    BY <1>1, <2>2 DEF Walks, Edge, CarryPlaces
  <2> QED
    BY <2>1, <2>2
<1>2. ASSUME NEW s \in Threads, NEW c \in Conns, NEW q \in Places, Aims(s, c, q)
      PROVE  pc'[t] = "try" /\ on'[t] = on[t]
  BY <1>0, <1>2 DEF Aims
<1>3. ASSUME NEW c \in Conns, Establish(c) \/ EstablishFails(c) \/ Receive(c)
      PROVE  pc'[t] = "try" /\ on'[t] = on[t]
  BY <1>0, <1>3 DEF Establish, EstablishFails, Receive, Polling, At, Goto, threadVars
<1>4. ASSUME Dispatch \/ (\E s \in {Service, Stopper} : ConnectionDestroy(s))
      PROVE  pc'[t] = "try" /\ on'[t] = on[t]
  BY <1>0, <1>4 DEF Dispatch, ConnectionDestroy, At, Goto
<1>5. ASSUME NEW s \in Threads, DecreaseRefCount(s) PROVE pc'[t] = "try" /\ on'[t] = on[t]
  BY <1>5, DecreaseFacts
<1>6. ASSUME NEW w \in Workers, inbox[w] # << >> /\ contexts # "freed" /\ TakeMessage(w)
      PROVE  pc'[t] = "try" /\ on'[t] = on[t]
  BY <1>6, TakeFacts
<1>7. CASE Stays
  BY <1>7 DEF Stays
<1> QED
  BY <1>1, <1>2, <1>3, <1>4, <1>5, <1>6, <1>7 DEF Kinds

(* The last holder goes on to look at the count.                           *)
LEMMA StateReclaimedStep ==
  ASSUME Typed, PlacesInv, StopInv, OwnInv, HeldInv, CountInv, StateReclaimed, Kinds, HeapKinds
  PROVE  StateReclaimed'
<1> SUFFICES ASSUME NEW c \in Conns, "state" \in heap'[c], holders'[c] = {}
             PROVE  \E t \in Threads : pc'[t] = "try" /\ on'[t] = c
  BY DEF StateReclaimed
<1>1. ~Establish(c) /\ ~Receive(c)
  <2>1. DOMAIN holders = Conns
    BY DEF Typed
  <2>2. Establish(c) => 0 \in holders'[c]
    BY <2>1 DEF Establish
  <2>3. Receive(c) => received + 1 \in holders'[c]
    BY <2>1 DEF Receive
  <2> QED
    BY <2>2, <2>3
<1>2. "state" \in heap[c]
  BY <1>1, HeapFacts
<1>3. ASSUME NEW t \in Threads, DecreaseRefCount(t), on[t] = c
      PROVE  \E s \in Threads : pc'[s] = "try" /\ on'[s] = c
  BY <1>3, DecreaseFacts
<1>4. CASE holders[c] = {}
  <2>1. PICK t \in Threads : pc[t] = "try" /\ on[t] = c
    BY <1>2, <1>4 DEF StateReclaimed
  <2>2. CASE Frees(t)
    <3>1. reference_count[c] = 0
      BY <1>4, HoldersFinite
    <3>2. "state" \notin heap'[c]
      BY <2>1, <2>2, <3>1 DEF Frees, TryDestroySharedObject, LastReference, Typed
    <3> QED
      BY <3>2
  <2> QED
    BY <2>1, <2>2, TryStays
<1> QED
  BY <1>1, <1>3, <1>4, ConnFacts

(* A message enters a queue only of a connection that was established.     *)
LEMMA FreshStep ==
  ASSUME Typed, PlacesInv, StopInv, FreshInv, OwnInv, HeldInv, Kinds, HeapKinds, SendKinds
  PROVE  FreshInv'
<1> SUFFICES ASSUME NEW c \in Conns, wsi'[c] = "none"
             PROVE  heap'[c] = {} /\ holders'[c] = {} /\ queue'[c] = << >>
  BY DEF FreshInv
<1>1. ~Establish(c)
  BY DEF Establish, Typed
<1>2. wsi[c] = "none"
  BY <1>1, ConnFacts
<1>3. heap[c] = {} /\ holders[c] = {} /\ queue[c] = << >>
  BY <1>2 DEF FreshInv
<1>4. heap'[c] = {}
  BY <1>1, <1>3, HeapFacts
<1>5. holders'[c] = {}
  <2>1. ~Receive(c)
    BY <1>2 DEF Receive
  <2>2. \A t \in Threads : DecreaseRefCount(t) => on[t] # c
    BY <1>3, DecreaseFacts
  <2> QED
    BY <1>1, <1>3, <2>1, <2>2, ConnFacts
<1>6. queue'[c] = queue[c]
  <2>0. DOMAIN queue = Conns
    BY DEF Typed
  <2>1. ASSUME NEW d \in Conns, Writable(d) PROVE queue'[c] = queue[c]
    BY <1>2, <2>0, <2>1 DEF Writable
  <2>2. ASSUME NEW t, DestroyQueuedMessages(t) PROVE queue'[c] = queue[c]
    BY <1>3, <2>0, <2>2 DEF DestroyQueuedMessages
  <2>3. ASSUME NEW t \in Threads, Queues(t) PROVE queue'[c] = queue[c]
    BY <1>3, <2>0, <2>3 DEF Queues, SendMessageToQueue
  <2>4. ASSUME HandleNextMessage \/ UNCHANGED sendVars PROVE queue'[c] = queue[c]
    BY <2>4 DEF HandleNextMessage, sendVars
  <2>5. ASSUME NEW t, ConnectionDestroy(t) PROVE queue'[c] = queue[c]
    BY <2>5 DEF ConnectionDestroy
  <2> QED
    BY <2>1, <2>2, <2>3, <2>4, <2>5 DEF SendKinds
<1> QED
  BY <1>3, <1>4, <1>5, <1>6

(* Between callback_writable's write and handle_next_message.              *)
LEMMA NextStays ==
  ASSUME Typed, PlacesInv, Kinds, pc[Service] = "next", ~HandleNextMessage
  PROVE  pc'[Service] = "next" /\ on'[Service] = on[Service]
<1> USE ThreadFacts
<1>0. pc \in [Threads -> Places] /\ on \in [Threads -> Conns \cup {NoConn}]
  BY DEF Typed
<1>1. ASSUME NEW t \in Threads, t # Service, NEW q, pc' = [pc EXCEPT ![t] = q],
             on'[Service] = on[Service]
      PROVE  pc'[Service] = "next" /\ on'[Service] = on[Service]
  BY <1>0, <1>1
<1>2. ASSUME NEW t \in Threads, NEW q \in Places, Walks(t, q)
      PROVE  pc'[Service] = "next" /\ on'[Service] = on[Service]
  <2>1. t # Service
    BY <1>2 DEF Walks, Edge, Closing
  <2> QED
    BY <1>1, <1>2, <2>1 DEF Walks
<1>3. ASSUME NEW t \in Threads, NEW c \in Conns, NEW q \in Places, Aims(t, c, q)
      PROVE  pc'[Service] = "next" /\ on'[Service] = on[Service]
  <2>1. t # Service /\ on'[Service] = on[Service]
    BY <1>0, <1>3 DEF Aims
  <2> QED
    BY <1>1, <1>3, <2>1 DEF Aims
<1>4. ASSUME NEW c \in Conns, Establish(c) \/ EstablishFails(c) \/ Receive(c) PROVE FALSE
  BY <1>4 DEF Establish, EstablishFails, Receive, Polling, At
<1>5. ~Dispatch
  BY DEF Dispatch, At
<1>6. ASSUME NEW t \in {Service, Stopper}, ConnectionDestroy(t)
      PROVE  pc'[Service] = "next" /\ on'[Service] = on[Service]
  BY <1>1, <1>6 DEF ConnectionDestroy, At, Goto
<1>7. ASSUME NEW t \in Threads, DecreaseRefCount(t)
      PROVE  pc'[Service] = "next" /\ on'[Service] = on[Service]
  BY <1>1, <1>7 DEF DecreaseRefCount, At, Goto
<1>8. ASSUME NEW w \in Workers, inbox[w] # << >> /\ contexts # "freed" /\ TakeMessage(w)
      PROVE  pc'[Service] = "next" /\ on'[Service] = on[Service]
  BY <1>8, TakeFacts
<1>9. CASE Stays
  BY <1>9 DEF Stays
<1> QED
  BY <1>2, <1>3, <1>4, <1>5, <1>6, <1>7, <1>8, <1>9 DEF Kinds

(* Whoever leaves a message in a queue asks for the callback.              *)
LEMMA WakeupStep ==
  ASSUME Typed, PlacesInv, StopInv, FreshInv, OwnInv, HeldInv, WakeupNotLost, Kinds, SendKinds
  PROVE  WakeupNotLost'
<1> SUFFICES ASSUME NEW c \in Conns, wsi'[c] = "open", queue'[c] # << >>
             PROVE  c \in wantWrite' \/ (pc'[Service] = "next" /\ on'[Service] = c)
  BY DEF WakeupNotLost
<1>0. /\ DOMAIN queue = Conns /\ DOMAIN wsi = Conns /\ DOMAIN pc = Threads
      /\ DOMAIN on = Threads /\ Service \in Threads
  BY ThreadFacts DEF Typed
<1>1. ~Establish(c)
  <2>1. Establish(c) => wsi[c] = "none" /\ queue'[c] = queue[c]
    BY DEF Establish, sendVars
  <2> QED
    BY <2>1 DEF FreshInv
<1>2. wsi[c] = "open"
  BY <1>1, ConnFacts
<1>3. queue[c] # << >> => \/ c \in wantWrite
                          \/ pc[Service] = "next" /\ on[Service] = c
  BY <1>2 DEF WakeupNotLost
<1>4. ASSUME queue[c] # << >>, ~HandleNextMessage, c \in wantWrite => c \in wantWrite'
      PROVE  c \in wantWrite' \/ (pc'[Service] = "next" /\ on'[Service] = c)
  BY <1>3, <1>4, NextStays
<1>5. CASE HandleNextMessage
  <2>1. /\ queue'[c] = queue[c]
        /\ wantWrite' = IF queue[on[Service]] = << >> THEN wantWrite
                                                      ELSE wantWrite \cup {on[Service]}
    BY <1>5 DEF HandleNextMessage, NoMessage
  <2> QED
    BY <1>3, <2>1
<1>6. ASSUME NEW d \in Conns, Writable(d), ~HandleNextMessage
      PROVE  c \in wantWrite' \/ (pc'[Service] = "next" /\ on'[Service] = c)
  <2>1. CASE d # c
    <3>1. queue'[c] = queue[c] /\ wantWrite' = wantWrite \ {d}
      BY <1>0, <1>6, <2>1 DEF Writable
    <3> QED
      BY <1>4, <1>6, <2>1, <3>1
  <2>2. CASE d = c
    BY <1>0, <1>6, <2>2 DEF Writable, Goto
  <2> QED
    BY <2>1, <2>2
<1>7. ASSUME NEW t \in {Service, Stopper}, DestroyQueuedMessages(t), ~HandleNextMessage
      PROVE  c \in wantWrite' \/ (pc'[Service] = "next" /\ on'[Service] = c)
  <2>1. queue[c] # << >> /\ wantWrite' = wantWrite
    BY <1>0, <1>7 DEF DestroyQueuedMessages
  <2> QED
    BY <1>4, <1>7, <2>1
<1>8. ASSUME NEW t \in {Service, Stopper}, ConnectionDestroy(t), ~HandleNextMessage
      PROVE  c \in wantWrite' \/ (pc'[Service] = "next" /\ on'[Service] = c)
  <2>1. queue'[c] = queue[c] /\ c # on[t] /\ wantWrite' = wantWrite \ {on[t]}
    BY <1>0, <1>8 DEF ConnectionDestroy
  <2> QED
    BY <1>4, <1>8, <2>1
<1>9. ASSUME NEW t \in Threads, Queues(t), ~HandleNextMessage
      PROVE  c \in wantWrite' \/ (pc'[Service] = "next" /\ on'[Service] = c)
  <2>1. wantWrite' = wantWrite \cup {on[t]} /\ (c # on[t] => queue'[c] = queue[c])
    BY <1>0, <1>9 DEF Queues, SendMessageToQueue
  <2> QED
    BY <1>4, <1>9, <2>1
<1>10. ASSUME UNCHANGED sendVars, ~HandleNextMessage
       PROVE  c \in wantWrite' \/ (pc'[Service] = "next" /\ on'[Service] = c)
  BY <1>4, <1>10 DEF sendVars
<1> QED
  BY <1>5, <1>6, <1>7, <1>8, <1>9, <1>10 DEF SendKinds
-----------------------------------------------------------------------------
(* Types, first of what the references depend on...                        *)
LEMMA KindsTyped ==
  ASSUME Typed, PlacesInv, StopInv, OwnInv, HeldInv, CountInv, CountInv', Kinds
  PROVE  /\ wsi' \in [Conns -> {"none", "open", "gone"}]
         /\ reference_count' \in [Conns -> Nat]
         /\ holders' \in [Conns -> SUBSET (0 .. MaxRequests)]
         /\ inbox' \in [Workers -> Seq(Conns \X Requests)]
         /\ pc' \in [Threads -> Places]
         /\ on' \in [Threads -> Conns \cup {NoConn}]
         /\ item' \in [Threads -> Messages \cup {0}]
         /\ received' \in 0 .. MaxRequests
<1> DEFINE Rest == /\ wsi' \in [Conns -> {"none", "open", "gone"}]
                   /\ inbox' \in [Workers -> Seq(Conns \X Requests)]
                   /\ pc' \in [Threads -> Places]
                   /\ on' \in [Threads -> Conns \cup {NoConn}]
                   /\ item' \in [Threads -> Messages \cup {0}]
                   /\ received' \in 0 .. MaxRequests
           Refs == /\ reference_count' = [c \in Conns |-> reference_count'[c]]
                   /\ holders' = [c \in Conns |-> holders'[c]]
<1> USE ThreadFacts
<1>0. /\ wsi \in [Conns -> {"none", "open", "gone"}]
      /\ reference_count = [c \in Conns |-> reference_count[c]]
      /\ holders = [c \in Conns |-> holders[c]]
      /\ inbox \in [Workers -> Seq(Conns \X Requests)]
      /\ pc \in [Threads -> Places]
      /\ on \in [Threads -> Conns \cup {NoConn}]
      /\ item \in [Threads -> Messages \cup {0}]
      /\ received \in 0 .. MaxRequests /\ MaxRequests \in Nat
  BY EventLoopAssumption DEF Typed
<1>1. Rest /\ Refs
  <2>1. ASSUME \/ Stays
               \/ \E t \in Threads, q \in Places : Walks(t, q)
        PROVE  Rest /\ Refs
    <3>1. /\ pc' \in [Threads -> Places]
          /\ UNCHANGED <<wsi, refVars, inbox, on, item, received>>
      BY <1>0, <2>1 DEF Stays, Walks
    <3> QED
      BY <1>0, <3>1 DEF refVars
  <2>2. ASSUME NEW t \in Threads, NEW c \in Conns, NEW q \in Places, Aims(t, c, q)
        PROVE  Rest /\ Refs
    BY <1>0, <2>2 DEF Aims, refVars
  <2>3. ASSUME NEW c \in Conns, Establish(c) \/ EstablishFails(c) PROVE Rest /\ Refs
    <3>1. Rest
      BY <1>0, <2>3 DEF Establish, EstablishFails, poolVars, threadVars, countVars
    <3>2. Refs
      BY <1>0, <2>3 DEF Establish, EstablishFails, refVars
    <3> QED
      BY <3>1, <3>2
  <2>4. ASSUME NEW c \in Conns, Receive(c) PROVE Rest /\ Refs
    <3>1. received + 1 \in 0 .. MaxRequests /\ received + 1 \in Messages /\ "dispatch" \in Places
      BY <1>0, <2>4, EventLoopAssumption DEF Receive, Messages, Places
    <3> QED
      BY <1>0, <2>4, <3>1 DEF Receive, CopySharedPtr, Goto, connVars, poolVars
  <2>5. ASSUME Dispatch PROVE Rest /\ Refs
    <3>1. /\ pc' = [pc EXCEPT ![Service] = "poll"]
          /\ inbox' \in [Workers -> Seq(Conns \X Requests)]
          /\ UNCHANGED <<on, item, refVars, wsi, received>>
      BY <2>5, DispatchFacts
    <3> QED
      BY <1>0, <3>1 DEF refVars, Places
  <2>6. ASSUME NEW t \in {Service, Stopper}, ConnectionDestroy(t) PROVE Rest /\ Refs
    BY <1>0, <2>6 DEF ConnectionDestroy, Goto, Places, refVars, poolVars, countVars
  <2>7. ASSUME NEW t \in Threads, DecreaseRefCount(t) PROVE Rest /\ Refs
    BY <1>0, <2>7 DEF DecreaseRefCount, Goto, Places, connVars, poolVars, countVars
  <2>8. ASSUME NEW w \in Workers, inbox[w] # << >> /\ contexts # "freed" /\ TakeMessage(w)
        PROVE  Rest /\ Refs
    <3>1. \A i \in Requests : i \in Messages
      BY EventLoopAssumption DEF Requests, Messages
    <3>2. inbox' \in [Workers -> Seq(Conns \X Requests)] /\ UNCHANGED <<connVars, refVars, received>>
      BY <2>8, TakeFacts
    <3>3. /\ pc' = [pc EXCEPT ![w] = "check"]
          /\ on' = [on EXCEPT ![w] = inbox[w][1][1]] /\ inbox[w][1][1] \in Conns
          /\ item' = [item EXCEPT ![w] = inbox[w][1][2]] /\ inbox[w][1][2] \in Requests
      BY <2>8, TakeFacts
    <3> QED
      BY <1>0, <3>1, <3>2, <3>3 DEF Places, connVars, refVars
  <2> QED
    BY <2>1, <2>2, <2>3, <2>4, <2>5, <2>6, <2>7, <2>8 DEF Kinds
<1>2. received' \in Nat /\ 0 .. received' \subseteq 0 .. MaxRequests
  BY <1>0, <1>1
<1>3. \A c \in Conns : /\ holders'[c] \in SUBSET (0 .. MaxRequests)
                       /\ reference_count'[c] \in Nat
  <2> TAKE c \in Conns
  <2>1. holders'[c] \subseteq 0 .. received' /\ reference_count'[c] = Cardinality(holders'[c])
    BY DEF CountInv
  <2>2. IsFiniteSet(0 .. received')
    BY <1>2, FS_Interval
  <2>3. IsFiniteSet(holders'[c])
    BY <2>1, <2>2, FS_Subset
  <2> QED
    BY <1>2, <2>1, <2>3, FS_CardinalityType
<1> QED
  BY <1>1, <1>3

(* ...then of the memory, the queues and the contexts...                   *)
LEMMA FramesTyped ==
  ASSUME Typed, PlacesInv, HeldInv, NoticeInv, Frames
  PROVE  /\ wantWrite' \subseteq Conns
         /\ heap' \in [Conns -> SUBSET {"queue", "state", "object"}]
         /\ queue' \in [Conns -> Seq(Messages)]
         /\ contexts' \in {"live", "cancelled", "freed"}
<1> USE ThreadFacts
<1>0. /\ wantWrite \subseteq Conns
      /\ heap \in [Conns -> SUBSET {"queue", "state", "object"}]
      /\ queue \in [Conns -> Seq(Messages)]
  BY DEF Typed
<1>1. heap' \in [Conns -> SUBSET {"queue", "state", "object"}]
  <2>1. ASSUME NEW c \in Conns, Establish(c)
        PROVE  heap' \in [Conns -> SUBSET {"queue", "state", "object"}]
    BY <1>0, <2>1 DEF Establish
  <2>2. ASSUME NEW t, DestroyQueue(t) \/ ConnectionDestroy(t)
        PROVE  heap' \in [Conns -> SUBSET {"queue", "state", "object"}]
    BY <1>0, <2>2 DEF DestroyQueue, ConnectionDestroy
  <2>3. ASSUME NEW t, Frees(t)
        PROVE  heap' \in [Conns -> SUBSET {"queue", "state", "object"}]
    BY <1>0, <2>3 DEF Frees, TryDestroySharedObject
  <2> QED
    BY <1>0, <2>1, <2>2, <2>3 DEF Frames, HeapKinds
<1>2. \A c \in Conns : queue[c] # << >> => Tail(queue[c]) \in Seq(Messages)
  BY <1>0
<1>3. wantWrite' \subseteq Conns /\ queue' \in [Conns -> Seq(Messages)]
  <2>1. ASSUME NEW c \in Conns, Writable(c)
        PROVE  wantWrite' \subseteq Conns /\ queue' \in [Conns -> Seq(Messages)]
    BY <1>0, <1>2, <2>1 DEF Writable
  <2>2. ASSUME HandleNextMessage
        PROVE  wantWrite' \subseteq Conns /\ queue' \in [Conns -> Seq(Messages)]
    BY <1>0, <2>2 DEF HandleNextMessage, At, PlacesInv, ServicePlaces
  <2>3. ASSUME NEW t \in {Service, Stopper}, DestroyQueuedMessages(t)
        PROVE  wantWrite' \subseteq Conns /\ queue' \in [Conns -> Seq(Messages)]
    <3>1. on[t] \in Conns
      BY <2>3 DEF DestroyQueuedMessages, At, PlacesInv, ServicePlaces, ClosePlaces
    <3> QED
      BY <1>0, <1>2, <2>3, <3>1 DEF DestroyQueuedMessages
  <2>4. ASSUME NEW t, ConnectionDestroy(t)
        PROVE  wantWrite' \subseteq Conns /\ queue' \in [Conns -> Seq(Messages)]
    BY <1>0, <2>4 DEF ConnectionDestroy
  <2>5. ASSUME NEW t \in Threads, Queues(t)
        PROVE  wantWrite' \subseteq Conns /\ queue' \in [Conns -> Seq(Messages)]
    <3>1. on[t] \in Conns /\ item[t] \in Messages
      <4>1. pc[t] = "locked" /\ Requests \subseteq Messages
        BY <2>5, EventLoopAssumption DEF Queues, Requests, Messages
      <4>2. CASE t \in Workers
        BY <4>1, <4>2 DEF PlacesInv, HeldInv, Carries, CarryPlaces
      <4>3. CASE t \in Callers
        BY <4>1, <4>3 DEF PlacesInv, NoticeInv
      <4> QED
        BY <4>1, <4>2, <4>3 DEF PlacesInv, ServicePlaces, StopperPlaces, ClosePlaces
    <3>2. Append(queue[on[t]], item[t]) \in Seq(Messages)
      BY <1>0, <3>1
    <3> QED
      BY <1>0, <2>5, <3>1, <3>2 DEF Queues, SendMessageToQueue
  <2> QED
    BY <1>0, <2>1, <2>2, <2>3, <2>4, <2>5 DEF Frames, SendKinds, sendVars
<1>4. contexts' \in {"live", "cancelled", "freed"}
  BY DEF Typed, Frames, ContextKinds
<1> QED
  BY <1>1, <1>3, <1>4

Faults == {"missing", "object", "state", "queue", "count", "context"}

(* ...of the pool, the stop flag, the notices and the fault...             *)
LEMMA OthersTyped ==
  ASSUME Typed, [Next]_vars
  PROVE  /\ curr_thread_index' \in Workers /\ started' \subseteq Workers
         /\ stop' \in {"none", "request", "force"}
         /\ noticed' \in 0 .. MaxNotices
         /\ fault' \in {"none"} \cup Faults
<1> DEFINE Others == /\ curr_thread_index' \in Workers /\ started' \subseteq Workers
                     /\ stop' \in {"none", "request", "force"}
                     /\ noticed' \in 0 .. MaxNotices
                     /\ fault' \in {"none"} \cup Faults
           pool == <<curr_thread_index, started>>
<1>0. /\ curr_thread_index \in Workers /\ started \subseteq Workers
      /\ stop \in {"none", "request", "force"}
      /\ noticed \in 0 .. MaxNotices /\ fault \in {"none"} \cup Faults
  BY DEF Typed, Faults
<1>1. ASSUME UNCHANGED <<pool, stop, noticed>>, fault' = fault \/ fault' \in Faults PROVE Others
  BY <1>0, <1>1
<1>2. ASSUME NEW what \in Faults, Fault(what) PROVE Others
  BY <1>1, <1>2 DEF Fault, poolVars, stopVars, countVars
<1>3. ASSUME NEW c \in Conns, \/ Establish(c) \/ EstablishFails(c) \/ Receive(c) \/ Writable(c)
                              \/ PeerCloses(c)
      PROVE  Others
  BY <1>1, <1>3 DEF Establish, EstablishFails, Receive, Writable, PeerCloses, poolVars, stopVars,
                    countVars
<1>4. ASSUME NEW c \in Conns, EstablishRefused(c) PROVE Others
  BY <1>2, <1>4 DEF EstablishRefused, Faults
<1>5. ASSUME Dispatch PROVE Others
  <2>1. ScheduleThreadData(curr_thread_index) \in Workers
    BY <1>0, EventLoopAssumption DEF ScheduleThreadData, Workers
  <2> QED
    BY <1>0, <1>5, <2>1 DEF Dispatch, stopVars, countVars
<1>6. ASSUME HandleNextMessage \/ ServiceFails PROVE Others
  BY <1>1, <1>6 DEF HandleNextMessage, ServiceFails, poolVars, stopVars, countVars
<1>7. ASSUME LoopCheck PROVE Others
  BY <1>0, <1>7 DEF LoopCheck, poolVars, countVars
<1>8. ASSUME NEW t \in Threads, CloseStep(t) \/ DecreaseRefCount(t) PROVE Others
  BY <1>1, <1>8 DEF CloseStep, MarkConnAsClose, DestroyQueuedMessages, DestroyQueue,
                    ConnectionDestroy, DecreaseRefCount, poolVars, stopVars, countVars
<1>9. ASSUME NEW t \in Threads, TryDestroySharedObject(t) PROVE Others
  BY <1>1, <1>2, <1>9 DEF TryDestroySharedObject, Faults, poolVars, stopVars, countVars
<1>10. ASSUME NEW w \in Workers, TakeMessage(w) \/ WorkerExits(w) PROVE Others
  BY <1>1, <1>2, <1>10 DEF TakeMessage, WorkerExits, Faults, poolVars, stopVars, countVars
<1>11. ASSUME NEW w \in Workers, DoAsyncRequest(w) \/ AsyncRequest(w) \/ FinishRequest(w)
       PROVE  Others
  <2>1. UNCHANGED <<poolVars, stopVars, countVars, fault>> \/ \E what \in Faults : Fault(what)
    BY <1>11 DEF DoAsyncRequest, AsyncRequest, FinishRequest, Using, Faults
  <2> QED
    BY <1>1, <1>2, <2>1 DEF poolVars, stopVars, countVars
<1>12. ASSUME NEW t \in Threads, SendStep(t) PROVE Others
  <2>1. UNCHANGED <<poolVars, stopVars, countVars, fault>> \/ \E what \in Faults : Fault(what)
    BY <1>12 DEF SendStep, DoSend, ReadConnection, SendMessageToConnection, Using, Faults
  <2> QED
    BY <1>1, <1>2, <2>1 DEF poolVars, stopVars, countVars
<1>13. ASSUME NEW t \in Callers, NEW c \in Conns, SendNotice(t, c) PROVE Others
  <2>1. noticed + 1 \in 0 .. MaxNotices
    BY <1>0, <1>13, EventLoopAssumption DEF SendNotice
  <2> QED
    BY <1>0, <1>13, <2>1 DEF SendNotice, poolVars, stopVars
<1>14. ASSUME NEW kind \in StopKinds, StopRequest(kind) PROVE Others
  BY <1>0, <1>14, EventLoopAssumption DEF StopRequest, poolVars, countVars
<1>15. ASSUME StopPending \/ StopWaited \/ CloseNext \/ CancelWorkers \/ DestroyThreadContexts
       PROVE  Others
  BY <1>1, <1>15 DEF StopPending, StopWaited, CloseNext, CancelWorkers, DestroyThreadContexts,
                     poolVars, stopVars, countVars
<1>16. ASSUME UNCHANGED vars PROVE Others
  BY <1>1, <1>16 DEF vars, poolVars, stopVars, countVars
<1>17. Others
  BY <1>3, <1>4, <1>5, <1>6, <1>7, <1>8, <1>9, <1>10, <1>11, <1>12, <1>13, <1>14, <1>15, <1>16
  DEF Next, ServiceStep, RefStep, WorkerStep, StopStep
<1> QED
  BY <1>17

(* ...and of the Boolean ones.                                             *)
Flags == is_pending_stop \in BOOLEAN /\ is_data_sending \in BOOLEAN

FlagKinds ==
  /\ \/ UNCHANGED p_connection
     \/ \E c \in Conns : \/ p_connection' = [p_connection EXCEPT ![c] = TRUE]
                         \/ p_connection' = [p_connection EXCEPT ![c] = FALSE]
  /\ \/ UNCHANGED found
     \/ \E t \in Threads : /\ found' = [found EXCEPT ![t] = p_connection[on[t]]]
                           /\ on[t] \in Conns
  /\ UNCHANGED is_pending_stop \/ is_pending_stop' = TRUE
  /\ UNCHANGED is_data_sending \/ is_data_sending' = TRUE \/ is_data_sending' = FALSE

(* Every step changes the Boolean variables in one of these ways.          *)
LEMMA FlagKindsStep ==
  ASSUME Typed, PlacesInv, [Next]_vars
  PROVE  FlagKinds
<1> USE ThreadFacts
<1>1. ASSUME UNCHANGED <<p_connection, found, is_pending_stop, is_data_sending>> PROVE FlagKinds
  BY <1>1 DEF FlagKinds
<1>2. ASSUME UNCHANGED <<connVars, found, stopVars>> PROVE FlagKinds
  BY <1>1, <1>2 DEF connVars, stopVars
<1>3. ASSUME Still \/ UNCHANGED vars PROVE FlagKinds
  BY <1>2, <1>3 DEF Still, vars, threadVars
<1>4. ASSUME NEW c \in Conns, Establish(c) PROVE FlagKinds
  BY <1>4 DEF Establish, FlagKinds, threadVars, stopVars
<1>5. ASSUME NEW c \in Conns, EstablishFails(c) \/ Receive(c) \/ PeerCloses(c) PROVE FlagKinds
  BY <1>1, <1>5 DEF EstablishFails, Receive, PeerCloses, connVars, threadVars, stopVars
<1>6. ASSUME NEW c \in Conns, EstablishRefused(c) PROVE FlagKinds
  BY <1>3, <1>6, FaultKind DEF EstablishRefused
<1>7. ASSUME (\E c \in Conns : Writable(c)) \/ LoopCheck PROVE FlagKinds
  BY <1>7 DEF Writable, LoopCheck, FlagKinds, connVars
<1>8. ASSUME Dispatch \/ HandleNextMessage \/ ServiceFails PROVE FlagKinds
  BY <1>2, <1>8 DEF Dispatch, HandleNextMessage, ServiceFails
<1>9. ASSUME NEW t \in Threads, MarkConnAsClose(t) PROVE FlagKinds
  <2>1. on[t] \in Conns
    BY <1>9 DEF MarkConnAsClose, At, Closing, PlacesInv, ServicePlaces, ClosePlaces
  <2> QED
    BY <1>9, <2>1 DEF MarkConnAsClose, FlagKinds, stopVars
<1>10. ASSUME NEW t \in Threads, DestroyQueuedMessages(t) \/ DestroyQueue(t) \/ ConnectionDestroy(t)
                                 \/ DecreaseRefCount(t)
       PROVE  FlagKinds
  BY <1>1, <1>10 DEF DestroyQueuedMessages, DestroyQueue, ConnectionDestroy, DecreaseRefCount,
                     connVars, stopVars
<1>11. ASSUME NEW t \in Threads, TryDestroySharedObject(t) PROVE FlagKinds
  <2>1. Still \/ UNCHANGED <<p_connection, found, stopVars>>
    BY <1>11, FaultKind DEF TryDestroySharedObject
  <2> QED
    BY <1>1, <1>3, <2>1 DEF stopVars
<1>12. ASSUME NEW t \in Threads, DoSend(t) \/ SendMessageToConnection(t) PROVE FlagKinds
  <2>1. Still \/ UNCHANGED <<connVars, found, stopVars>>
    BY <1>12, FaultKind DEF DoSend, SendMessageToConnection, Using
  <2> QED
    BY <1>2, <1>3, <2>1
<1>13. ASSUME NEW t \in Threads, ReadConnection(t) PROVE FlagKinds
  <2>1. \/ Still
        \/ UNCHANGED <<connVars, stopVars>> /\ found' = [found EXCEPT ![t] = p_connection[on[t]]]
    BY <1>13, FaultKind DEF ReadConnection, Using
  <2>2. on[t] \in Conns
    BY <1>13 DEF ReadConnection, At, PlacesInv, CarryPlaces, ServicePlaces, StopperPlaces,
                 ClosePlaces
  <2> QED
    BY <1>3, <2>1, <2>2 DEF FlagKinds, connVars, stopVars
<1>14. ASSUME NEW w \in Workers, WorkerStep(w) PROVE FlagKinds
  <2>1. Still \/ UNCHANGED <<connVars, found, stopVars>>
    BY <1>14, FaultKind DEF WorkerStep, TakeMessage, DoAsyncRequest, AsyncRequest, FinishRequest,
                            WorkerExits, Using
  <2> QED
    BY <1>2, <1>3, <2>1
<1>15. ASSUME NEW t \in Callers, NEW c \in Conns, SendNotice(t, c) PROVE FlagKinds
  BY <1>2, <1>15 DEF SendNotice
<1>16. ASSUME (\E kind \in StopKinds : StopRequest(kind)) \/ StopWaited \/ CloseNext
              \/ CancelWorkers \/ DestroyThreadContexts
       PROVE  FlagKinds
  BY <1>1, <1>16 DEF StopRequest, StopWaited, CloseNext, CancelWorkers, DestroyThreadContexts,
                     connVars, stopVars
<1>17. ASSUME StopPending PROVE FlagKinds
  BY <1>17 DEF StopPending, FlagKinds, connVars
<1> QED
  BY <1>3, <1>4, <1>5, <1>6, <1>7, <1>8, <1>9, <1>10, <1>11, <1>12, <1>13, <1>14, <1>15, <1>16,
     <1>17
  DEF Next, ServiceStep, CloseStep, RefStep, SendStep, StopStep

(* The flags stay Boolean...                                               *)
LEMMA FlagsStep ==
  ASSUME Flags, FlagKinds
  PROVE  Flags'
BY Zenon DEF Flags, FlagKinds

(* ...and so do p_connection and what was read of it.                      *)
LEMMA FoundTyped ==
  ASSUME Typed, FlagKinds
  PROVE  p_connection' \in [Conns -> BOOLEAN] /\ found' \in [Threads -> BOOLEAN]
<1>0. TRUE \in BOOLEAN /\ FALSE \in BOOLEAN
  BY Zenon
<1>1. p_connection \in [Conns -> BOOLEAN] /\ found \in [Threads -> BOOLEAN]
  BY Zenon DEF Typed
<1>2. ASSUME NEW c \in Conns, NEW b \in BOOLEAN, p_connection' = [p_connection EXCEPT ![c] = b]
      PROVE  p_connection' \in [Conns -> BOOLEAN]
  BY <1>1, <1>2
<1>3. ASSUME NEW t \in Threads, NEW b \in BOOLEAN, found' = [found EXCEPT ![t] = b]
      PROVE  found' \in [Threads -> BOOLEAN]
  BY <1>1, <1>3
<1>4. \A c \in Conns : p_connection[c] \in BOOLEAN
  BY <1>1, Zenon
<1>5. p_connection' \in [Conns -> BOOLEAN]
  BY <1>0, <1>1, <1>2, Zenon DEF FlagKinds
<1>6. found' \in [Threads -> BOOLEAN]
  BY <1>1, <1>3, <1>4, Zenon DEF FlagKinds
<1> QED
  BY <1>5, <1>6
-----------------------------------------------------------------------------
(* The invariant holds of a loop that nobody is connected to.              *)
LEMMA Initially == Init => Inv /\ Flags
<1> SUFFICES ASSUME Init PROVE Inv /\ Flags
  OBVIOUS
<1> USE ThreadFacts, EventLoopAssumption
<1>1. Flags
  BY Zenon DEF Init, Flags
<1>2. p_connection \in [Conns -> BOOLEAN] /\ found \in [Threads -> BOOLEAN]
  BY Zenon DEF Init
<1>3. /\ queue \in [Conns -> Seq(Messages)] /\ inbox \in [Workers -> Seq(Conns \X Requests)]
      /\ curr_thread_index \in Workers
  BY DEF Init, Workers
<1>4. /\ reference_count \in [Conns -> Nat] /\ holders \in [Conns -> SUBSET (0 .. MaxRequests)]
      /\ pc \in [Threads -> Places] /\ on \in [Threads -> Conns \cup {NoConn}]
      /\ item \in [Threads -> Messages \cup {0}]
  BY DEF Init, Places
<1>5. Typed
  BY <1>2, <1>3, <1>4 DEF Init, Typed
<1>6. /\ pc[Service] = "poll" /\ \A t \in Threads : t # Service => pc[t] = "idle"
      /\ stop = "none" /\ received = 0
      /\ \A w \in Workers : inbox[w] = << >>
      /\ \A c \in Conns : /\ wsi[c] = "none" /\ heap[c] = {} /\ holders[c] = {}
                          /\ queue[c] = << >> /\ reference_count[c] = 0
  BY DEF Init
<1>7. PlacesInv
  BY <1>6 DEF PlacesInv, ServicePlaces, StopperPlaces, WorkerPlaces, CallerPlaces, ClosePlaces,
              CarryPlaces
<1>8. StopInv /\ FreshInv /\ NoticeInv
  BY <1>6 DEF StopInv, FreshInv, NoticeInv
<1>9. CountInv
  BY <1>6, FS_EmptySet DEF CountInv
<1>10. OwnInv /\ HeldStateAlive /\ StateReclaimed /\ WakeupNotLost /\ Released
  BY <1>6 DEF OwnInv, HeldStateAlive, StateReclaimed, WakeupNotLost, Released
<1>11. HeldInv /\ OnceInv
  BY <1>6 DEF HeldInv, OnceInv, Dispatching, Carries, CarryPlaces
<1> QED
  BY <1>1, <1>5, <1>7, <1>8, <1>9, <1>10, <1>11 DEF Inv

(* Every step keeps the invariant.                                         *)
LEMMA InvStep ==
  ASSUME Inv, [Next]_vars
  PROVE  Inv'
<1>1. /\ Typed /\ PlacesInv /\ StopInv /\ FreshInv /\ CountInv /\ OwnInv /\ NoticeInv
      /\ HeldInv /\ OnceInv /\ HeldStateAlive /\ StateReclaimed /\ WakeupNotLost /\ Released
  BY DEF Inv
<1>2. Kinds
  BY <1>1, KindsStep
<1>3. Frames
  BY FramesStep
<1>4. HeapKinds /\ SendKinds /\ ContextKinds
  BY <1>3 DEF Frames
<1>5. FlagKinds
  BY <1>1, FlagKindsStep
<1>6. PlacesInv' /\ StopInv'
  BY <1>1, <1>2, PlacesStep, StopStepInv
<1>7. CountInv' /\ OwnInv'
  BY <1>1, <1>2, CountStep, OwnStep
<1>8. FreshInv' /\ NoticeInv'
  BY <1>1, <1>2, <1>4, FreshStep, NoticeStep
<1>9. HeldInv' /\ OnceInv'
  BY <1>1, <1>2, HeldStep, OnceStep
<1>10. HeldStateAlive' /\ StateReclaimed'
  BY <1>1, <1>2, <1>4, HeldStateAliveStep, StateReclaimedStep
<1>11. WakeupNotLost' /\ Released'
  BY <1>1, <1>2, <1>4, WakeupStep, ReleasedStep
<1>12. Typed'
  <2>1. /\ wsi' \in [Conns -> {"none", "open", "gone"}]
        /\ reference_count' \in [Conns -> Nat]
        /\ holders' \in [Conns -> SUBSET (0 .. MaxRequests)]
        /\ inbox' \in [Workers -> Seq(Conns \X Requests)]
        /\ pc' \in [Threads -> Places]
        /\ on' \in [Threads -> Conns \cup {NoConn}]
        /\ item' \in [Threads -> Messages \cup {0}]
        /\ received' \in 0 .. MaxRequests
    BY <1>1, <1>2, <1>7, KindsTyped
  <2>2. /\ wantWrite' \subseteq Conns
        /\ heap' \in [Conns -> SUBSET {"queue", "state", "object"}]
        /\ queue' \in [Conns -> Seq(Messages)]
        /\ contexts' \in {"live", "cancelled", "freed"}
    BY <1>1, <1>3, FramesTyped
  <2>3. /\ curr_thread_index' \in Workers /\ started' \subseteq Workers
        /\ stop' \in {"none", "request", "force"}
        /\ noticed' \in 0 .. MaxNotices
        /\ fault' \in {"none", "missing", "object", "state", "queue", "count", "context"}
    BY <1>1, OthersTyped DEF Faults
  <2>4. p_connection' \in [Conns -> BOOLEAN] /\ found' \in [Threads -> BOOLEAN]
    BY <1>1, <1>5, FoundTyped
  <2> QED
    BY <2>1, <2>2, <2>3, <2>4, Zenon DEF Typed
<1> QED
  BY <1>6, <1>7, <1>8, <1>9, <1>10, <1>11, <1>12 DEF Inv

(* The invariant, with the types of the Boolean variables.                 *)
LEMMA InvHolds == Spec => [](Inv /\ Flags)
<1>1. ASSUME Inv, Flags, [Next]_vars PROVE (Inv /\ Flags)'
  <2>1. Inv'
    BY <1>1, InvStep
  <2>2. Flags'
    <3>1. Typed /\ PlacesInv
      BY <1>1 DEF Inv
    <3>2. FlagKinds
      BY <1>1, <3>1, FlagKindsStep
    <3> QED
      BY <1>1, <3>2, FlagsStep
  <2> QED
    BY <2>1, <2>2, Zenon
<1> QED
  BY <1>1, Initially, PTL DEF Spec

(* shared_ptr.c: while anybody counts on the shared state of a connection, *)
(* it is not freed, whatever the workers, the loop and the thread that     *)
(* stops the server do, and for any number of them.                        *)
THEOREM HeldStateAliveHolds == Spec => []HeldStateAlive
BY InvHolds, PTL DEF Inv

(* The last one through destroy_shared_ptr frees it: no shared state is    *)
(* left that nobody counts on and nobody is about to look at.              *)
THEOREM StateReclaimedHolds == Spec => []StateReclaimed
BY InvHolds, PTL DEF Inv

(* No message of an open connection is left in its queue without a request *)
(* for the writable callback.                                              *)
THEOREM WakeupNotLostHolds == Spec => []WakeupNotLost
BY InvHolds, PTL DEF Inv

(* Until the workers are cancelled, every reference that callback_receive  *)
(* took is with a request that is still in the service thread, a worker's  *)
(* queue or a worker.                                                      *)
THEOREM RequestsReleaseHolds == Spec => []RequestsRelease
<1>1. Inv /\ Flags => RequestsRelease
  <2> SUFFICES ASSUME Inv, Flags PROVE RequestsRelease
    OBVIOUS
  <2>1. TypeOK
    BY Zenon DEF Inv, Typed, Flags, TypeOK
  <2>2. Released
    BY DEF Inv
  <2> QED
    BY <2>1, <2>2 DEF Released, OnItsWay, RequestsRelease, Dispatching, Carries, CarryPlaces
<1> QED
  BY <1>1, InvHolds, PTL
=============================================================================
