--------------------------- MODULE RpcServerProofs ---------------------------
(***************************************************************************)
(* Proofs about RpcServer, for any clients, any number of connections, of  *)
(* notices, of copies of a request and of clients that die.                *)
(***************************************************************************)
EXTENDS RpcServer, SequenceTheorems, WellFoundedInduction, TLAPS

(* The types, without the Boolean variables.                               *)
Typed ==
  /\ count \in 0 .. MaxConns
  /\ opened \in [Conns -> Opened \cup {NoRequest}]
  /\ link \in [Conns -> {"none", "open", "closed", "gone"}]
  /\ handling \in [Conns -> {"none", "sent", "dropped", "received",
                             "registered", "handled"}]
  /\ answers \in [Conns -> Seq(0 .. MaxConns)]
  /\ taken \in [Conns -> 0 .. MaxConns]
  /\ ids \in [Clients -> Nat] /\ alive \subseteq Clients /\ crashes \in 0 .. MaxCrashes
  /\ queue \in Seq(Message)
  /\ \A i \in DOMAIN msg_conn_maps : i \in Nat /\ msg_conn_maps[i] \in Entry
  /\ m_p_connect_ref \in 0 .. MaxConns
  /\ target \in Seq([conn : Conns, of : 0 .. MaxConns]) /\ Len(target) <= 1
  /\ posts \in 0 .. MaxPosts

Known == 1 .. count

(* Connections are used in the order of their numbers; a request for a     *)
(* module has an id that is not 0.                                         *)
Numbered ==
  /\ \A k \in Conns : handling[k] # "none" <=> k \in Known
  /\ \A k \in Known : opened[k].type = "monitor" => opened[k].id # 0
  /\ \A c \in alive : ids[c] # 0

SameId(j, k) == /\ j \in Known /\ k \in Known
                /\ opened[j].id = opened[k].id /\ opened[j].id # 0

(* A message carries the id of the request that it is about.               *)
GoodMessage ==
  { m \in Message :
      /\ m.kind \in {"request", "result"} =>
           m.of \in Known /\ opened[m.of].id = m.id /\ m.id # 0
      /\ m.kind \in {"notice", "scanned"} => m.of = NoConn }

(* What may be sent on a connection: an answer to its own request, to one  *)
(* with the same id, or a notice.                                          *)
GoodAnswer(k) == { j \in 0 .. MaxConns : j = k \/ j = NoConn \/ SameId(j, k) }

(* An entry of the table is a connection whose request has its id.         *)
Filed ==
  \A i \in DOMAIN msg_conn_maps :
    LET k == msg_conn_maps[i].conn IN k # NoConn => k \in Known /\ opened[k].id = i

Routed ==
  /\ queue \in Seq(GoodMessage)
  /\ \A k \in Conns :
       /\ answers[k] \in Seq(GoodAnswer(k)) /\ taken[k] \in GoodAnswer(k)
       /\ target # << >> /\ target[1].conn = k => target[1].of \in GoodAnswer(k)

(* No client has died and the server is not being stopped.                 *)
Calm == crashes = 0 /\ stopPc \notin {"stopping", "returned"}

(* The worker is past the point where it registers the connection.         *)
Past(k) == handling[k] \in {"registered", "handled"}

Current ==
  /\ \A k \in Conns : answers[k] # << >> \/ link[k] \in {"closed", "gone"} => Past(k)
  /\ \A i \in DOMAIN msg_conn_maps :
       LET k == msg_conn_maps[i].conn IN k # NoConn => Past(k) /\ link[k] # "gone"
  /\ m_p_connect_ref # NoConn => Past(m_p_connect_ref) /\ link[m_p_connect_ref] # "gone"
  /\ target # << >> => Past(target[1].conn)

Inv == /\ Typed /\ Numbered /\ Filed /\ Routed
       /\ Calm => Current

(* The ids of a single client, as long as it lives.                        *)
Distinct ==
  /\ \A c \in Clients : c \notin alive => count = 0
  /\ \A k \in Known, c \in Clients : opened[k].id < ids[c]
  /\ \A j, k \in Known : SameId(j, k) => j = k

OneClient == \A c, d \in Clients : c = d
-----------------------------------------------------------------------------
(* What the parts of the actions do.                                       *)
LEMMA OpenFacts ==
  ASSUME Typed, NEW c \in Clients, NEW type \in AllTypes, NEW id \in Nat,
         Open(c, type, id)
  PROVE  /\ count' = count + 1 /\ count' \in Conns /\ count \in Nat
         /\ opened' \in [Conns -> Opened \cup {NoRequest}]
         /\ link' \in [Conns -> {"none", "open", "closed", "gone"}]
         /\ handling' \in [Conns -> {"none", "sent", "dropped", "received",
                                     "registered", "handled"}]
         /\ opened'[count'].id = id /\ opened'[count'].type = type
         /\ opened'[count'].client = c
         /\ link'[count'] = "open" /\ handling'[count'] = "sent"
         /\ \A k \in Conns : k # count' =>
              opened'[k] = opened[k] /\ link'[k] = link[k] /\ handling'[k] = handling[k]
<1>1. count \in Nat /\ MaxConns \in Nat /\ count' = count + 1 /\ count' \in Conns
  BY RpcServerAssumption DEF Typed, Open, Conns
<1>2. /\ opened' = [opened EXCEPT ![count'] = [client |-> c, id |-> id, type |-> type]]
      /\ link' = [link EXCEPT ![count'] = "open"]
      /\ handling' = [handling EXCEPT ![count'] = "sent"]
  BY <1>1 DEF Open
<1>3. [client |-> c, id |-> id, type |-> type] \in Opened
  BY DEF Opened
<1> QED
  BY <1>1, <1>2, <1>3 DEF Typed

(* SendResponse adds one answer to one connection.                         *)
LEMMA SendFacts ==
  ASSUME Typed, NEW k \in Conns, NEW j \in 0 .. MaxConns, SendResponse(k, j)
  PROVE  /\ answers' \in [Conns -> Seq(0 .. MaxConns)]
         /\ \A i \in Conns : \/ answers'[i] = answers[i]
                             \/ i = k /\ answers'[i] = Append(answers[i], j)
<1>1. answers' = answers \/ answers' = [answers EXCEPT ![k] = Append(answers[k], j)]
  BY DEF SendResponse
<1>2. answers \in [Conns -> Seq(0 .. MaxConns)]
  BY DEF Typed
<1>3. Append(answers[k], j) \in Seq(0 .. MaxConns)
  BY <1>2
<1> QED
  BY <1>1, <1>2, <1>3

(* Where an answer goes to, and what it answers.                           *)
LEMMA TargetFacts ==
  ASSUME Typed, target # << >>
  PROVE  target[1].conn \in Conns /\ target[1].of \in 0 .. MaxConns
<1>1. target \in Seq([conn : Conns, of : 0 .. MaxConns]) /\ target # << >>
  BY DEF Typed
<1>2. Head(target) = target[1]
  BY <1>1
<1>3. Head(target) \in [conn : Conns, of : 0 .. MaxConns]
  BY <1>1, HeadTailProperties
<1> QED
  BY <1>2, <1>3

(* Handling a request moves it on.                                         *)
LEMMA HandledFacts ==
  ASSUME Typed, NEW k \in Conns,
         NEW place \in {"none", "sent", "dropped", "received", "registered", "handled"},
         Handled(k, place)
  PROVE  /\ handling' \in [Conns -> {"none", "sent", "dropped", "received",
                                     "registered", "handled"}]
         /\ handling'[k] = place
         /\ \A i \in Conns : i # k => handling'[i] = handling[i]
BY DEF Typed, Handled

(* The steps of run and stop.                                              *)
LifeNext == RunStep \/ StopFlag \/ StopWaited \/ StopReturned

(* Starting and stopping leave the requests alone.                         *)
LEMMA LifeFacts ==
  ASSUME LifeNext
  PROVE  /\ UNCHANGED <<connVars, clientVars, queue, serverVars, target, posts>>
         /\ Calm' => Calm
<1>1. UNCHANGED <<connVars, clientVars, queue, serverVars, target, posts>>
  BY DEF LifeNext, RunStep, RunServer, RunFlag, RunRunning, RunEnds, StopFlag, StopWaited,
         StopReturned, LifeStep
<1>2. stopPc' = stopPc \/ stopPc = "idle" \/ stopPc' \in {"stopping", "returned"}
  BY DEF LifeNext, RunStep, RunServer, RunFlag, RunRunning, RunEnds, StopFlag, StopWaited,
         StopReturned
<1> QED
  BY <1>1, <1>2 DEF Calm, clientVars

(* A set of numbers has a least one.                                       *)
LEMMA LeastNumber ==
  ASSUME NEW S, S \subseteq Nat, S # {}
  PROVE  \E i \in S : \A j \in S : i <= j
<1>1. PICK i \in S : \A j \in S : ~(<<j, i>> \in OpToRel(<, Nat))
  BY NatLessThanWellFounded, WFMin
<1>2. \A j \in S : <<j, i>> \in OpToRel(<, Nat) <=> j < i
  BY DEF OpToRel
<1>3. \A j \in S : ~(j < i)
  BY <1>1, <1>2
<1> QED
  BY <1>3

(* The entries and the queue after Assign, and after SetConnection.        *)
LEMMA AssignFacts ==
  ASSUME Typed, Assign
  PROVE  /\ Head(queue) \in Message /\ queue' = Tail(queue) /\ queue' \in Seq(Message)
         /\ \A i \in DOMAIN msg_conn_maps' :
              \/ i \in DOMAIN msg_conn_maps /\ msg_conn_maps'[i] = msg_conn_maps[i]
              \/ i = Head(queue).id /\ msg_conn_maps'[i] = [conn |-> NoConn, type |-> "none"]
<1>1. queue \in Seq(Message) /\ queue # << >>
  BY DEF Typed, Assign
<1>2. Head(queue) \in Message /\ queue' = Tail(queue) /\ Tail(queue) \in Seq(Message)
  BY <1>1, HeadTailProperties DEF Assign
<1> DEFINE m == Head(queue)
           new == [i \in DOMAIN msg_conn_maps \cup {m.id} |->
                     IF i = m.id THEN [conn |-> NoConn, type |-> "none"]
                     ELSE msg_conn_maps[i]]
<1>3. msg_conn_maps' = msg_conn_maps \/ msg_conn_maps' = new
  BY DEF Assign
<1> QED
  BY <1>2, <1>3

(* An answer goes to a connection of the table that its message fits.      *)
LEMMA FindFacts ==
  ASSUME Typed, Assign, NEW m, m = Head(queue)
  PROVE  \/ target' = << >>
         \/ \E k \in Conns :
              /\ target' = << [conn |-> k, of |-> m.of] >>
              /\ \/ m.kind = "scanned" /\ k = m_p_connect_ref
                 \/ m.kind # "scanned" /\ m.id # 0
                      /\ m.id \in DOMAIN msg_conn_maps /\ k = msg_conn_maps[m.id].conn
                 \/ m.kind # "scanned" /\ m.id = 0
                      /\ \E i \in DOMAIN msg_conn_maps : k = msg_conn_maps[i].conn
<1> DEFINE k == FindConnection(m)
<1>1. target' = IF k = NoConn THEN << >> ELSE << [conn |-> k, of |-> m.of] >>
  BY DEF Assign
<1>2. \/ m.kind = "scanned" /\ k = m_p_connect_ref
      \/ m.kind # "scanned" /\ m.id # 0
           /\ m.id \in DOMAIN msg_conn_maps /\ k = msg_conn_maps[m.id].conn
      \/ k = NoConn
      \/ m.kind # "scanned" /\ m.id = 0 /\ k = FindTask("post")
  <2>1. CASE m.kind = "scanned"
    BY <2>1 DEF FindConnection
  <2>2. CASE m.kind # "scanned" /\ m.id # 0
    BY <2>2 DEF FindConnection
  <2>3. CASE m.kind # "scanned" /\ m.id = 0
    BY <2>3 DEF FindConnection
  <2> QED
    BY <2>1, <2>2, <2>3
<1>3. \/ FindTask("post") = NoConn
      \/ \E i \in DOMAIN msg_conn_maps : FindTask("post") = msg_conn_maps[i].conn
  <2> DEFINE S == { i \in DOMAIN msg_conn_maps : msg_conn_maps[i].type = "post" }
  <2>1. CASE S = {}
    BY <2>1 DEF FindTask
  <2>2. CASE S # {}
    <3>1. S \subseteq Nat
      BY DEF Typed
    <3>2. \E i \in S : \A j \in S : i <= j
      BY <2>2, <3>1, LeastNumber
    <3> DEFINE least == CHOOSE i \in S : \A j \in S : i <= j
    <3>3. least \in S
      BY <3>2
    <3>4. FindTask("post") = msg_conn_maps[least].conn
      BY <2>2 DEF FindTask
    <3> QED
      BY <3>3, <3>4
  <2> QED
    BY <2>1, <2>2
<1> HIDE DEF k
<1>4. k \in 0 .. MaxConns
  <2>1. /\ m_p_connect_ref \in 0 .. MaxConns /\ NoConn \in 0 .. MaxConns
        /\ \A i \in DOMAIN msg_conn_maps : msg_conn_maps[i].conn \in 0 .. MaxConns
    BY RpcServerAssumption DEF Typed, Entry, NoConn
  <2> QED
    BY <1>2, <1>3, <2>1
<1>5. CASE k = NoConn
  BY <1>1, <1>5
<1>6. CASE k # NoConn
  <2>1. k \in Conns /\ target' = << [conn |-> k, of |-> m.of] >>
    BY <1>1, <1>4, <1>6, RpcServerAssumption DEF Conns, NoConn
  <2> QED
    BY <2>1, <1>2, <1>3, <1>6
<1> QED
  BY <1>5, <1>6
-----------------------------------------------------------------------------
(* The types are kept.                                                     *)
LEMMA TypedStep == ASSUME Typed, [Next]_vars PROVE Typed'
<1>0. /\ MaxConns \in Nat /\ MaxPosts \in Nat /\ MaxCrashes \in Nat /\ Copies \in Nat
      /\ Types \subseteq AllTypes
      /\ \A k \in Conns : k \in 0 .. MaxConns
  BY RpcServerAssumption DEF Conns
<1>1. ASSUME NEW c \in Clients, InitializeEngine(c) PROVE Typed'
  <2>1. Open(c, "post", 0) /\ "post" \in AllTypes /\ 0 \in Nat
    BY <1>1 DEF InitializeEngine, AllTypes
  <2>2. /\ count' \in 0 .. MaxConns /\ opened' \in [Conns -> Opened \cup {NoRequest}]
        /\ link' \in [Conns -> {"none", "open", "closed", "gone"}]
        /\ handling' \in [Conns -> {"none", "sent", "dropped", "received",
                                    "registered", "handled"}]
    BY <1>0, <2>1, OpenFacts
  <2> QED
    BY <1>1, <2>1, <2>2 DEF Typed, InitializeEngine, Open, serverVars
<1>2. ASSUME NEW c \in Clients, NEW type \in Types, RequestSync(c, type) PROVE Typed'
  <2>1. Open(c, type, ids[c]) /\ type \in AllTypes /\ ids[c] \in Nat
    BY <1>0, <1>2 DEF RequestSync, Typed
  <2>2. /\ count' \in 0 .. MaxConns /\ opened' \in [Conns -> Opened \cup {NoRequest}]
        /\ link' \in [Conns -> {"none", "open", "closed", "gone"}]
        /\ handling' \in [Conns -> {"none", "sent", "dropped", "received",
                                    "registered", "handled"}]
    BY <1>0, <2>1, OpenFacts
  <2> QED
    BY <1>2, <2>1, <2>2, SMTT(30) DEF Typed, RequestSync, NextId, Open, serverVars
<1>3. ASSUME NEW c \in Clients, NEW type \in Types, SdkCommand(c, type) PROVE Typed'
  <2>1. Open(c, type, 0) /\ type \in AllTypes /\ 0 \in Nat
    BY <1>0, <1>3 DEF SdkCommand
  <2>2. /\ count' \in 0 .. MaxConns /\ opened' \in [Conns -> Opened \cup {NoRequest}]
        /\ link' \in [Conns -> {"none", "open", "closed", "gone"}]
        /\ handling' \in [Conns -> {"none", "sent", "dropped", "received",
                                    "registered", "handled"}]
    BY <1>0, <2>1, OpenFacts
  <2> QED
    BY <1>3, <2>1, <2>2 DEF Typed, SdkCommand, Open, serverVars, clientVars
<1>4. ASSUME NEW c \in Clients, Crash(c) PROVE Typed'
  <2>1. link' \in [Conns -> {"none", "open", "closed", "gone"}]
    BY <1>4 DEF Typed, Crash
  <2>2. crashes' \in 0 .. MaxCrashes /\ alive' \subseteq Clients
    BY <1>0, <1>4 DEF Typed, Crash
  <2> QED
    BY <1>4, <2>1, <2>2 DEF Typed, Crash, serverVars
<1>5. ASSUME NEW k \in Conns, TakeAnswer(k) PROVE Typed'
  <2>1. /\ Tail(answers[k]) \in Seq(0 .. MaxConns) /\ Head(answers[k]) \in 0 .. MaxConns
    BY <1>5, HeadTailProperties DEF Typed, TakeAnswer
  <2>2. /\ answers' = [answers EXCEPT ![k] = Tail(answers[k])]
        /\ \/ UNCHANGED <<taken, link>>
           \/ /\ taken' = [taken EXCEPT ![k] = Head(answers[k])]
              /\ link' = [link EXCEPT ![k] = "closed"]
    BY <1>5 DEF TakeAnswer
  <2>3. /\ answers' \in [Conns -> Seq(0 .. MaxConns)]
        /\ taken' \in [Conns -> 0 .. MaxConns]
        /\ link' \in [Conns -> {"none", "open", "closed", "gone"}]
    BY <2>1, <2>2 DEF Typed
  <2> QED
    BY <1>5, <2>3 DEF Typed, TakeAnswer, serverVars, clientVars
<1>6. ASSUME NEW k \in Conns, OnReceive(k) PROVE Typed'
  <2>1. \/ Handled(k, "dropped") \/ Handled(k, "received")
    BY <1>6 DEF OnReceive
  <2>2. handling' \in [Conns -> {"none", "sent", "dropped", "received",
                                "registered", "handled"}]
    BY <2>1, HandledFacts
  <2> QED
    BY <1>6, <2>2 DEF Typed, OnReceive, serverVars, clientVars
<1>7. ASSUME NEW k \in Conns, RefuseRequest(k) PROVE Typed'
  <2>1. handling' \in [Conns -> {"none", "sent", "dropped", "received",
                                "registered", "handled"}]
    BY <1>7, HandledFacts DEF RefuseRequest
  <2>2. answers' \in [Conns -> Seq(0 .. MaxConns)]
    BY <1>0, <1>7, SendFacts DEF RefuseRequest
  <2> QED
    BY <1>7, <2>1, <2>2 DEF Typed, RefuseRequest, serverVars, clientVars
<1>8. ASSUME NEW k \in Conns, SetConnection(k) PROVE Typed'
  <2>1. handling' \in [Conns -> {"none", "sent", "dropped", "received",
                                "registered", "handled"}]
    BY <1>8, HandledFacts DEF SetConnection
  <2>2. opened[k].id \in Nat /\ opened[k].type \in AllTypes
    BY <1>8 DEF Typed, SetConnection, Opened, NoRequest, AllTypes
  <2>3. [conn |-> k, type |-> opened[k].type] \in Entry
    BY <1>0, <2>2 DEF Entry
  <2>4. \A i \in DOMAIN msg_conn_maps' : i \in Nat /\ msg_conn_maps'[i] \in Entry
    BY <1>8, <2>2, <2>3 DEF Typed, SetConnection
  <2> QED
    BY <1>8, <2>1, <2>4 DEF Typed, SetConnection, clientVars
<1>9. ASSUME NEW k \in Conns, KVEngineDoNotify(k) PROVE Typed'
  <2>1. handling' \in [Conns -> {"none", "sent", "dropped", "received",
                                "registered", "handled"}]
    BY <1>9, HandledFacts DEF KVEngineDoNotify
  <2>2. answers' \in [Conns -> Seq(0 .. MaxConns)]
    <3>1. SendResponse(k, k) \/ UNCHANGED answers
      BY <1>9 DEF KVEngineDoNotify
    <3> QED
      BY <1>0, <3>1, SendFacts DEF Typed
  <2>3. opened[k].id \in Nat
    BY DEF Typed, Opened, NoRequest
  <2>4. Msg("request", opened[k].id, k) \in Message
    BY <1>0, <2>3 DEF Msg, Message
  <2>5. queue' \in Seq(Message)
    BY <1>9, <2>4 DEF Typed, KVEngineDoNotify
  <2> QED
    BY <1>9, <2>1, <2>2, <2>5 DEF Typed, KVEngineDoNotify, serverVars, clientVars
<1>10. ASSUME NEW k \in Conns, OnDataRecv(k) PROVE Typed'
  <2>1. handling' \in [Conns -> {"none", "sent", "dropped", "received",
                                "registered", "handled"}]
    BY <1>10, HandledFacts DEF OnDataRecv
  <2>2. answers' \in [Conns -> Seq(0 .. MaxConns)]
    <3>1. SendResponse(k, k) \/ UNCHANGED answers
      BY <1>10 DEF OnDataRecv
    <3> QED
      BY <1>0, <3>1, SendFacts DEF Typed
  <2>3. Msg("target", 0, k) \in Message
    BY <1>0 DEF Msg, Message
  <2>4. queue' \in Seq(Message) /\ m_p_connect_ref' \in 0 .. MaxConns
    <3>1. /\ queue' = queue \/ queue' = Append(queue, Msg("target", 0, k))
          /\ m_p_connect_ref' = m_p_connect_ref \/ m_p_connect_ref' = k
      BY <1>10 DEF OnDataRecv
    <3>2. queue \in Seq(Message) /\ m_p_connect_ref \in 0 .. MaxConns
      BY DEF Typed
    <3> QED
      BY <1>0, <2>3, <3>1, <3>2, SMTT(30)
  <2> QED
    BY <1>10, <2>1, <2>2, <2>4 DEF Typed, OnDataRecv, clientVars
<1>11. ASSUME NEW k \in Conns, OnClose(k) PROVE Typed'
  <2>1. link' \in [Conns -> {"none", "open", "closed", "gone"}]
    BY <1>11 DEF Typed, OnClose
  <2>2. \A i \in DOMAIN msg_conn_maps' : i \in Nat /\ msg_conn_maps'[i] \in Entry
    BY <1>11 DEF Typed, OnClose
  <2>3. Msg("target", 0, NoConn) \in Message /\ NoConn \in 0 .. MaxConns
    BY <1>0 DEF Msg, Message, NoConn
  <2>4. queue' \in Seq(Message) /\ m_p_connect_ref' \in 0 .. MaxConns
    <3>1. /\ queue' = queue \/ queue' = Append(queue, Msg("target", 0, NoConn))
          /\ m_p_connect_ref' = m_p_connect_ref \/ m_p_connect_ref' = NoConn
      BY <1>11 DEF OnClose
    <3>2. queue \in Seq(Message) /\ m_p_connect_ref \in 0 .. MaxConns
      BY DEF Typed
    <3> QED
      BY <2>3, <3>1, <3>2, SMTT(30)
  <2> QED
    BY <1>11, <2>1, <2>2, <2>4 DEF Typed, OnClose, clientVars
<1>12. ASSUME HandleByModule PROVE Typed'
  <2>1. Head(queue) \in Message /\ Tail(queue) \in Seq(Message)
    BY <1>12, HeadTailProperties DEF Typed, HandleByModule
  <2> DEFINE r == [Head(queue) EXCEPT !.kind = "result"]
             results == [i \in 1 .. Copies |-> r]
  <2>2. r \in Message
    BY <2>1 DEF Message
  <2>3. results \in Seq(Message)
    BY <1>0, <2>2
  <2>4. queue' = Tail(queue) \/ queue' = Tail(queue) \o results
    BY <1>12 DEF HandleByModule
  <2> HIDE DEF results
  <2>5. queue' \in Seq(Message)
    BY <2>1, <2>3, <2>4, ConcatProperties
  <2> QED
    BY <1>12, <2>5 DEF Typed, HandleByModule, connVars, clientVars, serverVars
<1>13. ASSUME Assign PROVE Typed'
  <2>1. Head(queue) \in Message /\ queue' \in Seq(Message)
    BY <1>13, AssignFacts
  <2>2. Head(queue).id \in Nat /\ Head(queue).of \in 0 .. MaxConns
    BY <2>1 DEF Message
  <2>3. [conn |-> NoConn, type |-> "none"] \in Entry
    BY <1>0 DEF Entry, NoConn
  <2>4. \A i \in DOMAIN msg_conn_maps' : i \in Nat /\ msg_conn_maps'[i] \in Entry
    BY <1>13, <2>2, <2>3, AssignFacts DEF Typed
  <2>5. \/ target' = << >>
        \/ \E k \in Conns : target' = << [conn |-> k, of |-> Head(queue).of] >>
    BY <1>13, FindFacts
  <2>6. target' \in Seq([conn : Conns, of : 0 .. MaxConns]) /\ Len(target') <= 1
    <3>1. CASE target' = << >>
      BY <3>1
    <3>2. CASE \E k \in Conns : target' = << [conn |-> k, of |-> Head(queue).of] >>
      <4>1. PICK k \in Conns : target' = << [conn |-> k, of |-> Head(queue).of] >>
        BY <3>2
      <4>2. [conn |-> k, of |-> Head(queue).of] \in [conn : Conns, of : 0 .. MaxConns]
        BY <2>2
      <4> QED
        BY <4>1, <4>2
    <3> QED
      BY <2>5, <3>1, <3>2
  <2> QED
    BY <1>13, <2>1, <2>4, <2>6 DEF Typed, Assign, connVars, clientVars
<1>14. ASSUME KVEngineDoResponse PROVE Typed'
  <2>1. target[1].conn \in Conns /\ target[1].of \in 0 .. MaxConns
    BY <1>14, TargetFacts DEF KVEngineDoResponse
  <2>2. answers' \in [Conns -> Seq(0 .. MaxConns)]
    BY <1>14, <2>1, SendFacts DEF KVEngineDoResponse
  <2>3. target' \in Seq([conn : Conns, of : 0 .. MaxConns]) /\ Len(target') <= 1
    BY <1>14 DEF KVEngineDoResponse
  <2> QED
    BY <1>14, <2>2, <2>3 DEF Typed, KVEngineDoResponse, clientVars, serverVars
<1>15. ASSUME NEW kind \in {"notice", "scanned"}, Post(kind) PROVE Typed'
  <2>1. Msg(kind, 0, NoConn) \in Message
    BY <1>0 DEF Msg, Message, NoConn
  <2>2. queue' \in Seq(Message) /\ posts' \in 0 .. MaxPosts
    BY <1>0, <1>15, <2>1 DEF Typed, Post
  <2> QED
    BY <1>15, <2>2 DEF Typed, Post, connVars, clientVars, serverVars
<1>16. ASSUME LifeNext PROVE Typed'
  BY <1>16, LifeFacts DEF Typed, connVars, clientVars, serverVars
<1>17. ASSUME UNCHANGED vars PROVE Typed'
  BY <1>17 DEF Typed, vars, connVars, clientVars, serverVars
<1> QED
  BY <1>1, <1>2, <1>3, <1>4, <1>5, <1>6, <1>7, <1>8, <1>9, <1>10, <1>11, <1>12, <1>13, <1>14,
     <1>15, <1>16, <1>17
  DEF Next, ClientStep, ConnStep, MainStep, LifeNext
-----------------------------------------------------------------------------
(* The steps that open a connection.                                       *)
OpenNext == \E c \in Clients : \/ InitializeEngine(c)
                              \/ \E type \in Types : RequestSync(c, type) \/ SdkCommand(c, type)

(* A client opens a connection with an id it has not used.                 *)
LEMMA OpenNextFacts ==
  ASSUME Typed, Numbered, OpenNext
  PROVE  \E c \in Clients, type \in AllTypes, id \in Nat :
           /\ Open(c, type, id) /\ (type = "monitor" => id # 0)
           /\ crashes' = crashes /\ c \in alive' /\ alive' = alive \cup {c}
           /\ id < ids'[c] /\ ids[c] \in Nat /\ ids'[c] \in Nat
           /\ c \notin alive => id = 0
           /\ c \in alive => ids[c] <= ids'[c] /\ (id # 0 => id = ids[c])
           /\ \A d \in Clients : d # c => ids'[d] = ids[d]
<1>0. Types \subseteq AllTypes
  BY RpcServerAssumption
<1>1. ASSUME NEW c \in Clients, InitializeEngine(c)
      PROVE  /\ Open(c, "post", 0) /\ crashes' = crashes /\ c \in alive'
             /\ alive' = alive \cup {c} /\ 0 < ids'[c] /\ ids[c] \in Nat /\ ids'[c] \in Nat
             /\ c \notin alive /\ \A d \in Clients : d # c => ids'[d] = ids[d]
  BY <1>1 DEF InitializeEngine, Typed
<1>2. ASSUME NEW c \in Clients, NEW type \in Types, RequestSync(c, type)
      PROVE  /\ Open(c, type, ids[c]) /\ crashes' = crashes /\ c \in alive' /\ c \in alive
             /\ alive' = alive \cup {c} /\ ids'[c] = ids[c] + 1 /\ ids[c] \in Nat /\ ids[c] # 0
             /\ \A d \in Clients : d # c => ids'[d] = ids[d]
  BY <1>2 DEF RequestSync, NextId, Typed, Numbered
<1>3. ASSUME NEW c \in Clients, NEW type \in Types, SdkCommand(c, type)
      PROVE  /\ Open(c, type, 0) /\ crashes' = crashes /\ c \in alive' /\ c \in alive
             /\ alive' = alive \cup {c} /\ ids'[c] = ids[c] /\ ids[c] \in Nat /\ ids[c] # 0
             /\ type # "monitor" /\ \A d \in Clients : d # c => ids'[d] = ids[d]
  BY <1>3 DEF SdkCommand, clientVars, Typed, Numbered
<1>4. CASE \E c \in Clients : InitializeEngine(c)
  <2>1. PICK c \in Clients : InitializeEngine(c)
    BY <1>4
  <2>2. "post" \in AllTypes /\ 0 \in Nat /\ "post" # "monitor"
    BY DEF AllTypes
  <2> QED
    BY <1>1, <2>1, <2>2
<1>5. CASE \E c \in Clients, type \in Types : RequestSync(c, type)
  <2>1. PICK c \in Clients, type \in Types : RequestSync(c, type)
    BY <1>5
  <2>2. ids[c] < ids'[c] /\ ids[c] <= ids'[c] /\ ids'[c] \in Nat
    BY <1>2, <2>1
  <2> QED
    BY <1>0, <1>2, <2>1, <2>2
<1>6. CASE \E c \in Clients, type \in Types : SdkCommand(c, type)
  <2>1. PICK c \in Clients, type \in Types : SdkCommand(c, type)
    BY <1>6
  <2>2. 0 < ids'[c] /\ ids[c] <= ids'[c] /\ ids'[c] \in Nat /\ 0 \in Nat
    BY <1>3, <2>1
  <2> QED
    BY <1>0, <1>3, <2>1, <2>2
<1> QED
  BY <1>4, <1>5, <1>6 DEF OpenNext

(* All others: they leave the requests as they are.                        *)
LEMMA OpenOrNot ==
  ASSUME [Next]_vars
  PROVE  \/ OpenNext
         \/ \E c \in Clients : Crash(c)
         \/ UNCHANGED <<count, opened, ids, alive, crashes>>
<1>1. ASSUME NEW k \in Conns, TakeAnswer(k) \/ ConnStep(k) \/ OnClose(k)
      PROVE  UNCHANGED <<count, opened, ids, alive, crashes>>
  BY <1>1 DEF TakeAnswer, ConnStep, OnReceive, RefuseRequest, SetConnection,
              KVEngineDoNotify, OnDataRecv, OnClose, clientVars
<1>2. ASSUME MainStep PROVE UNCHANGED <<count, opened, ids, alive, crashes>>
  BY <1>2 DEF MainStep, HandleByModule, Assign, KVEngineDoResponse, connVars, clientVars
<1>3. ASSUME NEW kind, Post(kind) PROVE UNCHANGED <<count, opened, ids, alive, crashes>>
  BY <1>3 DEF Post, connVars, clientVars
<1>4. ASSUME LifeNext PROVE UNCHANGED <<count, opened, ids, alive, crashes>>
  BY <1>4, LifeFacts DEF connVars, clientVars
<1>5. ASSUME UNCHANGED vars PROVE UNCHANGED <<count, opened, ids, alive, crashes>>
  BY <1>5 DEF vars, connVars, clientVars
<1> QED
  BY <1>1, <1>2, <1>3, <1>4, <1>5 DEF Next, ClientStep, LifeNext, OpenNext

(* A request, once made, is not changed.                                   *)
LEMMA Grows ==
  ASSUME Typed, Numbered, [Next]_vars
  PROVE  /\ Known \subseteq Known' /\ Known \subseteq Conns
         /\ \A k \in Known : opened'[k] = opened[k]
<1>1. Known \subseteq Conns /\ count \in Nat
  BY RpcServerAssumption DEF Known, Conns, Typed
<1>2. CASE OpenNext
  <2>1. PICK c \in Clients, type \in AllTypes, id \in Nat : Open(c, type, id)
    BY <1>2, OpenNextFacts
  <2>2. /\ count' = count + 1
        /\ \A k \in Conns : k # count' => opened'[k] = opened[k]
    BY <2>1, OpenFacts
  <2> QED
    BY <1>1, <2>2 DEF Known
<1>3. CASE UNCHANGED <<count, opened>>
  BY <1>1, <1>3 DEF Known
<1>4. ASSUME NEW c \in Clients, Crash(c) PROVE UNCHANGED <<count, opened>>
  BY <1>4 DEF Crash
<1> QED
  BY <1>2, <1>3, <1>4, OpenOrNot

(* The ids of a client stay below its counter.                             *)
LEMMA NumberedStep == ASSUME Typed, Numbered, [Next]_vars PROVE Numbered'
<1>1. CASE OpenNext
  <2>1. PICK c \in Clients, type \in AllTypes, id \in Nat :
          /\ Open(c, type, id) /\ (type = "monitor" => id # 0)
          /\ alive' = alive \cup {c} /\ id < ids'[c] /\ ids'[c] \in Nat
          /\ \A d \in Clients : d # c => ids'[d] = ids[d]
    BY <1>1, OpenNextFacts
  <2>2. /\ count' = count + 1 /\ count' \in Conns /\ count \in Nat
        /\ opened'[count'].id = id /\ opened'[count'].type = type
        /\ handling'[count'] = "sent"
        /\ \A k \in Conns : k # count' =>
             opened'[k] = opened[k] /\ handling'[k] = handling[k]
    BY <2>1, OpenFacts
  <2>3. Known' = Known \cup {count'} /\ count' \notin Known /\ Known' \subseteq Conns
    BY <2>2, RpcServerAssumption DEF Known, Conns
  <2>4. \A d \in alive' : ids'[d] # 0
    BY <2>1 DEF Numbered, Typed
  <2>5. \A k \in Conns : handling'[k] # "none" <=> k \in Known'
    BY <2>2, <2>3 DEF Numbered
  <2>6. \A k \in Known' : opened'[k].type = "monitor" => opened'[k].id # 0
    BY <2>1, <2>2, <2>3 DEF Numbered
  <2> QED
    BY <2>4, <2>5, <2>6 DEF Numbered
<1>2. ASSUME UNCHANGED <<count, opened, handling, ids>>, alive' \subseteq alive
      PROVE  Numbered'
  BY <1>2 DEF Numbered, Known
<1>3. ASSUME NEW c \in Clients, Crash(c) PROVE Numbered'
  BY <1>2, <1>3 DEF Crash
<1>4. ASSUME NEW k \in Conns, ConnStep(k) PROVE Numbered'
  <2>1. UNCHANGED <<count, opened, ids, alive>> /\ handling[k] # "none"
    BY <1>4 DEF ConnStep, OnReceive, RefuseRequest, SetConnection, KVEngineDoNotify,
                OnDataRecv, clientVars
  <2>2. PICK place \in {"dropped", "received", "registered", "handled"} : Handled(k, place)
    BY <1>4 DEF ConnStep, OnReceive, RefuseRequest, SetConnection, KVEngineDoNotify,
                OnDataRecv
  <2>3. handling'[k] = place /\ \A i \in Conns : i # k => handling'[i] = handling[i]
    BY <2>2, HandledFacts
  <2>4. \A i \in Conns : handling'[i] # "none" <=> handling[i] # "none"
    BY <2>1, <2>3
  <2> QED
    BY <2>1, <2>4 DEF Numbered, Known
<1>5. ASSUME NEW k \in Conns, TakeAnswer(k) \/ OnClose(k) PROVE Numbered'
  BY <1>2, <1>5 DEF TakeAnswer, OnClose, clientVars
<1>6. ASSUME MainStep PROVE Numbered'
  BY <1>2, <1>6 DEF MainStep, HandleByModule, Assign, KVEngineDoResponse, connVars, clientVars
<1>7. ASSUME NEW kind, Post(kind) PROVE Numbered'
  BY <1>2, <1>7 DEF Post, connVars, clientVars
<1>8. ASSUME LifeNext PROVE Numbered'
  BY <1>2, <1>8, LifeFacts DEF connVars, clientVars
<1>9. ASSUME UNCHANGED vars PROVE Numbered'
  BY <1>2, <1>9 DEF vars, connVars, clientVars
<1> QED
  BY <1>1, <1>3, <1>4, <1>5, <1>6, <1>7, <1>8, <1>9
  DEF Next, ClientStep, LifeNext, OpenNext
-----------------------------------------------------------------------------
(* Entries, messages and answers stay with the ids of their requests.      *)
LEMMA FiledStep == ASSUME Typed, Numbered, Filed, [Next]_vars PROVE Filed'
<1>0. /\ Known \subseteq Known' /\ Known \subseteq Conns
      /\ \A k \in Known : opened'[k] = opened[k]
  BY Grows
<1>1. ASSUME \A i \in DOMAIN msg_conn_maps' :
               \/ i \in DOMAIN msg_conn_maps /\ msg_conn_maps'[i] = msg_conn_maps[i]
               \/ msg_conn_maps'[i].conn = NoConn
               \/ msg_conn_maps'[i].conn \in Known /\ opened[msg_conn_maps'[i].conn].id = i
      PROVE  Filed'
  BY <1>0, <1>1 DEF Filed
<1>2. ASSUME UNCHANGED msg_conn_maps PROVE Filed'
  BY <1>1, <1>2
<1>3. ASSUME NEW k \in Conns, SetConnection(k) PROVE Filed'
  <2>1. k \in Known
    BY <1>3 DEF SetConnection, Numbered
  <2>2. \A i \in DOMAIN msg_conn_maps' :
          \/ i = opened[k].id /\ msg_conn_maps'[i] = [conn |-> k, type |-> opened[k].type]
          \/ i \in DOMAIN msg_conn_maps /\ msg_conn_maps'[i] = msg_conn_maps[i]
    BY <1>3 DEF SetConnection
  <2> QED
    BY <1>1, <2>1, <2>2
<1>4. ASSUME NEW k \in Conns, OnClose(k) PROVE Filed'
  BY <1>1, <1>4 DEF OnClose
<1>5. ASSUME Assign PROVE Filed'
  BY <1>1, <1>5, AssignFacts
<1>6. ASSUME NEW c \in Clients,
             \/ InitializeEngine(c) \/ Crash(c)
             \/ \E type \in Types : RequestSync(c, type) \/ SdkCommand(c, type)
      PROVE  Filed'
  BY <1>2, <1>6 DEF InitializeEngine, Crash, RequestSync, SdkCommand, Open, serverVars
<1>7. ASSUME NEW k \in Conns,
             \/ TakeAnswer(k) \/ OnReceive(k) \/ RefuseRequest(k) \/ KVEngineDoNotify(k)
             \/ OnDataRecv(k)
      PROVE  Filed'
  BY <1>2, <1>7 DEF TakeAnswer, OnReceive, RefuseRequest, KVEngineDoNotify, OnDataRecv,
                    serverVars
<1>8. ASSUME HandleByModule \/ KVEngineDoResponse PROVE Filed'
  BY <1>2, <1>8 DEF HandleByModule, KVEngineDoResponse, serverVars
<1>9. ASSUME NEW kind, Post(kind) PROVE Filed'
  BY <1>2, <1>9 DEF Post, serverVars
<1>10. ASSUME LifeNext PROVE Filed'
  BY <1>2, <1>10, LifeFacts DEF serverVars
<1>11. ASSUME UNCHANGED vars PROVE Filed'
  BY <1>2, <1>11 DEF vars, serverVars
<1> QED
  BY <1>3, <1>4, <1>5, <1>6, <1>7, <1>8, <1>9, <1>10, <1>11
  DEF Next, ClientStep, ConnStep, MainStep, LifeNext

(* A sequence over a set is one over a larger set.                         *)
LEMMA LargerSet ==
  ASSUME NEW S, NEW T, S \subseteq T, NEW s \in Seq(S)
  PROVE  s \in Seq(T)
  OBVIOUS

(* What was a good message or answer stays one.                            *)
LEMMA GoodGrows ==
  ASSUME Typed, Numbered, [Next]_vars
  PROVE  /\ GoodMessage \subseteq GoodMessage'
         /\ \A k \in Conns : GoodAnswer(k) \subseteq GoodAnswer(k)'
<1>0. /\ Known \subseteq Known'
      /\ \A k \in Known : opened'[k] = opened[k]
  BY Grows
<1>1. GoodMessage \subseteq GoodMessage'
  BY <1>0 DEF GoodMessage, Message
<1>2. \A j, k : SameId(j, k) => SameId(j, k)'
  BY <1>0 DEF SameId
<1> QED
  BY <1>1, <1>2 DEF GoodAnswer

(* Only good messages are queued.                                          *)
LEMMA QueueStep ==
  ASSUME Typed, Numbered, queue \in Seq(GoodMessage), [Next]_vars
  PROVE  queue' \in Seq(GoodMessage')
<1>0. MaxConns \in Nat /\ NoConn \in 0 .. MaxConns /\ \A k \in Conns : k \in 0 .. MaxConns
  BY RpcServerAssumption DEF NoConn, Conns
<1>1. ASSUME queue' \in Seq(GoodMessage) PROVE queue' \in Seq(GoodMessage')
  BY <1>1, GoodGrows, LargerSet
<1>2. ASSUME NEW m \in GoodMessage, queue' = queue \/ queue' = Append(queue, m)
      PROVE  queue' \in Seq(GoodMessage')
  BY <1>1, <1>2
<1>3. ASSUME UNCHANGED queue PROVE queue' \in Seq(GoodMessage')
  BY <1>1, <1>3
<1>4. \A j \in 0 .. MaxConns : Msg("target", 0, j) \in GoodMessage
  BY DEF Msg, Message, GoodMessage
<1>5. ASSUME NEW k \in Conns, KVEngineDoNotify(k) PROVE queue' \in Seq(GoodMessage')
  <2>1. k \in Known
    BY <1>5 DEF KVEngineDoNotify, Numbered
  <2>2. CASE opened[k].type = "monitor"
    <3>1. opened[k].id # 0 /\ opened[k].id \in Nat
      BY <2>1, <2>2 DEF Numbered, Typed, Opened, NoRequest
    <3>2. Msg("request", opened[k].id, k) \in GoodMessage
      BY <1>0, <2>1, <3>1 DEF Msg, Message, GoodMessage
    <3> QED
      BY <1>2, <1>5, <3>2 DEF KVEngineDoNotify
  <2>3. CASE opened[k].type # "monitor"
    BY <1>3, <1>5, <2>3 DEF KVEngineDoNotify, NeedsModule
  <2> QED
    BY <2>2, <2>3
<1>6. ASSUME NEW k \in Conns, OnDataRecv(k) \/ OnClose(k) PROVE queue' \in Seq(GoodMessage')
  <2>1. \/ queue' = queue \/ queue' = Append(queue, Msg("target", 0, k))
        \/ queue' = Append(queue, Msg("target", 0, NoConn))
    BY <1>6 DEF OnDataRecv, OnClose
  <2> QED
    BY <1>0, <1>2, <1>4, <2>1
<1>7. ASSUME HandleByModule PROVE queue' \in Seq(GoodMessage')
  <2>1. Head(queue) \in GoodMessage /\ Tail(queue) \in Seq(GoodMessage)
    BY <1>7, HeadTailProperties DEF HandleByModule
  <2>2. Copies \in Nat
    BY RpcServerAssumption
  <2> DEFINE r == [Head(queue) EXCEPT !.kind = "result"]
             results == [i \in 1 .. Copies |-> r]
  <2>3. CASE Head(queue).kind = "target"
    BY <1>1, <1>7, <2>1, <2>3 DEF HandleByModule
  <2>4. CASE Head(queue).kind = "request"
    <3>1. r \in GoodMessage
      BY <2>1, <2>4 DEF GoodMessage, Message
    <3>2. results \in Seq(GoodMessage)
      BY <2>2, <3>1
    <3>3. queue' = Tail(queue) \o results
      BY <1>7, <2>4 DEF HandleByModule
    <3> HIDE DEF results
    <3>4. queue' \in Seq(GoodMessage)
      BY <2>1, <3>2, <3>3, ConcatProperties
    <3> QED
      BY <1>1, <3>4
  <2> QED
    BY <1>7, <2>3, <2>4 DEF HandleByModule
<1>8. ASSUME Assign PROVE queue' \in Seq(GoodMessage')
  <2>1. queue' = Tail(queue) /\ queue # << >>
    BY <1>8 DEF Assign
  <2>2. Tail(queue) \in Seq(GoodMessage)
    BY <2>1, HeadTailProperties
  <2> QED
    BY <1>1, <2>1, <2>2
<1>9. ASSUME NEW kind \in {"notice", "scanned"}, Post(kind) PROVE queue' \in Seq(GoodMessage')
  <2>1. Msg(kind, 0, NoConn) \in GoodMessage
    BY <1>0 DEF Msg, Message, GoodMessage
  <2> QED
    BY <1>2, <1>9, <2>1 DEF Post
<1>10. ASSUME NEW c \in Clients,
              \/ InitializeEngine(c) \/ Crash(c)
              \/ \E type \in Types : RequestSync(c, type) \/ SdkCommand(c, type)
       PROVE  queue' \in Seq(GoodMessage')
  BY <1>3, <1>10 DEF InitializeEngine, Crash, RequestSync, SdkCommand, Open
<1>11. ASSUME NEW k \in Conns,
              TakeAnswer(k) \/ OnReceive(k) \/ RefuseRequest(k) \/ SetConnection(k)
       PROVE  queue' \in Seq(GoodMessage')
  BY <1>3, <1>11 DEF TakeAnswer, OnReceive, RefuseRequest, SetConnection
<1>12. ASSUME KVEngineDoResponse PROVE queue' \in Seq(GoodMessage')
  BY <1>3, <1>12 DEF KVEngineDoResponse
<1>13. ASSUME LifeNext PROVE queue' \in Seq(GoodMessage')
  BY <1>3, <1>13, LifeFacts
<1>14. ASSUME UNCHANGED vars PROVE queue' \in Seq(GoodMessage')
  BY <1>3, <1>14 DEF vars
<1> QED
  BY <1>5, <1>6, <1>7, <1>8, <1>9, <1>10, <1>11, <1>12, <1>13, <1>14
  DEF Next, ClientStep, ConnStep, MainStep, LifeNext

(* Only good answers are sent and taken.                                   *)
LEMMA AnswersStep ==
  ASSUME Typed, Numbered, Filed, Routed, [Next]_vars, NEW k \in Conns
  PROVE  /\ answers'[k] \in Seq(GoodAnswer(k)') /\ taken'[k] \in GoodAnswer(k)'
         /\ target' # << >> /\ target'[1].conn = k => target'[1].of \in GoodAnswer(k)'
<1> DEFINE Sent == answers'[k] \in Seq(GoodAnswer(k)')
           Taken == taken'[k] \in GoodAnswer(k)'
           Aimed == target' # << >> /\ target'[1].conn = k => target'[1].of \in GoodAnswer(k)'
<1>0. /\ GoodAnswer(k) \subseteq GoodAnswer(k)' /\ k \in GoodAnswer(k)
      /\ answers[k] \in Seq(GoodAnswer(k)) /\ taken[k] \in GoodAnswer(k)
      /\ target # << >> /\ target[1].conn = k => target[1].of \in GoodAnswer(k)
      /\ NoConn \in GoodAnswer(k)
  BY GoodGrows, RpcServerAssumption, SMTT(30) DEF Routed, GoodAnswer, Conns, NoConn
<1>1. ASSUME answers'[k] \in Seq(GoodAnswer(k)) PROVE Sent
  BY <1>0, <1>1, LargerSet
<1>2. ASSUME UNCHANGED answers PROVE Sent
  BY <1>0, <1>1, <1>2
<1>3. ASSUME UNCHANGED taken PROVE Taken
  BY <1>0, <1>3
<1>4. ASSUME UNCHANGED target PROVE Aimed
  BY <1>0, <1>4
<1>5. ASSUME NEW j \in Conns, SendResponse(j, j) PROVE Sent
  <2>0. j \in 0 .. MaxConns
    BY RpcServerAssumption DEF Conns
  <2>1. answers'[k] = answers[k] \/ (j = k /\ answers'[k] = Append(answers[k], j))
    BY <1>5, <2>0, SendFacts
  <2>2. answers'[k] \in Seq(GoodAnswer(k))
    BY <1>0, <2>1, SMTT(30)
  <2> QED
    BY <1>1, <2>2
<1>6. ASSUME UNCHANGED <<answers, taken, target>> PROVE Sent /\ Taken /\ Aimed
  BY <1>2, <1>3, <1>4, <1>6
<1>7. ASSUME NEW c \in Clients,
             \/ InitializeEngine(c) \/ Crash(c)
             \/ \E type \in Types : RequestSync(c, type) \/ SdkCommand(c, type)
      PROVE  Sent /\ Taken /\ Aimed
  <2>1. UNCHANGED <<answers, taken, target>>
    BY <1>7 DEF InitializeEngine, Crash, RequestSync, SdkCommand, Open
  <2> QED
    BY <1>6, <2>1
<1>8. ASSUME NEW j \in Conns, TakeAnswer(j) PROVE Sent /\ Taken /\ Aimed
  <2>1. CASE j # k
    <3>1. answers'[k] = answers[k] /\ taken'[k] = taken[k] /\ target' = target
      BY <1>8, <2>1 DEF TakeAnswer, Typed
    <3> QED
      BY <1>0, <1>1, <1>4, <3>1
  <2>2. CASE j = k
    <3>1. answers[k] # << >> /\ target' = target
      BY <1>8, <2>2 DEF TakeAnswer
    <3>2. /\ Head(answers[k]) \in GoodAnswer(k) /\ Tail(answers[k]) \in Seq(GoodAnswer(k))
      BY <1>0, <3>1, HeadTailProperties
    <3>3. /\ answers'[k] = Tail(answers[k])
          /\ taken'[k] = taken[k] \/ taken'[k] = Head(answers[k])
      BY <1>8, <2>2 DEF TakeAnswer, Typed
    <3> QED
      BY <1>0, <1>1, <1>4, <3>1, <3>2, <3>3
  <2> QED
    BY <2>1, <2>2
<1>9. ASSUME NEW j \in Conns,
             RefuseRequest(j) \/ KVEngineDoNotify(j) \/ OnDataRecv(j)
      PROVE  Sent /\ Taken /\ Aimed
  <2>1. UNCHANGED <<taken, target>> /\ (SendResponse(j, j) \/ UNCHANGED answers)
    BY <1>9 DEF RefuseRequest, KVEngineDoNotify, OnDataRecv
  <2> QED
    BY <1>2, <1>3, <1>4, <1>5, <2>1
<1>10. ASSUME NEW j \in Conns, OnReceive(j) \/ SetConnection(j) \/ OnClose(j)
       PROVE  Sent /\ Taken /\ Aimed
  <2>1. UNCHANGED <<answers, taken, target>>
    BY <1>10 DEF OnReceive, SetConnection, OnClose
  <2> QED
    BY <1>6, <2>1
<1>11. ASSUME Assign PROVE Sent /\ Taken /\ Aimed
  <2>0. UNCHANGED <<answers, taken>>
    BY <1>11 DEF Assign, connVars
  <2> DEFINE m == Head(queue)
  <2>1. m \in GoodMessage /\ m.kind \in {"result", "notice", "scanned"}
    BY <1>11, HeadTailProperties DEF Assign, Routed
  <2>2. ASSUME target' # << >> /\ target'[1].conn = k
        PROVE  target'[1].of \in GoodAnswer(k)'
    <3>1. /\ target'[1].of = m.of
          /\ \/ m.kind = "scanned"
             \/ m.kind # "scanned" /\ m.id # 0
                  /\ m.id \in DOMAIN msg_conn_maps /\ k = msg_conn_maps[m.id].conn
             \/ m.kind # "scanned" /\ m.id = 0
      BY <1>11, <2>2, FindFacts
    <3>2. CASE m.kind \in {"notice", "scanned"}
      <4>1. m.of = NoConn
        BY <2>1, <3>2 DEF GoodMessage
      <4> QED
        BY <1>0, <3>1, <4>1
    <3>3. CASE m.kind = "result"
      <4>1. m.of \in Known /\ opened[m.of].id = m.id /\ m.id # 0 /\ m.of \in 0 .. MaxConns
        BY <2>1, <3>3 DEF GoodMessage, Message
      <4>2. m.id \in DOMAIN msg_conn_maps /\ k = msg_conn_maps[m.id].conn
        BY <3>1, <3>3, <4>1
      <4>3. k # NoConn
        BY DEF Conns, NoConn
      <4>4. k \in Known /\ opened[k].id = m.id
        BY <4>2, <4>3 DEF Filed
      <4>5. m.of \in GoodAnswer(k)
        BY <4>1, <4>4 DEF GoodAnswer, SameId
      <4> QED
        BY <1>0, <3>1, <4>5
    <3> QED
      BY <2>1, <3>2, <3>3
  <2>3. Aimed
    BY <2>2
  <2> QED
    BY <1>2, <1>3, <2>0, <2>3
<1>12. ASSUME KVEngineDoResponse PROVE Sent /\ Taken /\ Aimed
  <2>1. UNCHANGED taken /\ target' = << >> /\ target # << >>
    BY <1>12 DEF KVEngineDoResponse
  <2>2. target[1].conn \in Conns /\ target[1].of \in 0 .. MaxConns
    BY <2>1, TargetFacts
  <2>3. \/ answers'[k] = answers[k]
        \/ k = target[1].conn /\ answers'[k] = Append(answers[k], target[1].of)
    BY <1>12, <2>2, SendFacts DEF KVEngineDoResponse
  <2>4. answers'[k] \in Seq(GoodAnswer(k))
    BY <1>0, <2>1, <2>3, SMTT(30)
  <2> QED
    BY <1>1, <1>3, <2>1, <2>4
<1>13. ASSUME NEW kind, HandleByModule \/ Post(kind) \/ LifeNext \/ UNCHANGED vars
       PROVE  Sent /\ Taken /\ Aimed
  <2>1. UNCHANGED <<answers, taken, target>>
    BY <1>13, LifeFacts DEF HandleByModule, Post, vars, connVars
  <2> QED
    BY <1>6, <2>1
<1> QED
  BY <1>7, <1>8, <1>9, <1>10, <1>11, <1>12, <1>13
  DEF Next, ClientStep, ConnStep, MainStep, LifeNext

(* Messages and answers stay good.                                         *)
LEMMA RoutedStep == ASSUME Typed, Numbered, Filed, Routed, [Next]_vars PROVE Routed'
<1>1. queue' \in Seq(GoodMessage')
  BY QueueStep DEF Routed
<1> QED
  BY <1>1, AnswersStep DEF Routed
-----------------------------------------------------------------------------
(* While no client dies and the server is not stopped, a connection closes *)
(* only after it was answered, that is after it was registered.            *)
LEMMA CurrentStep ==
  ASSUME Typed, Numbered, Current, Calm, Calm', [Next]_vars
  PROVE  Current'
<1>0. /\ MaxConns \in Nat /\ NoConn \notin Conns
      /\ \A k \in 0 .. MaxConns : k # NoConn => k \in Conns
      /\ \A i \in DOMAIN msg_conn_maps : msg_conn_maps[i].conn \in 0 .. MaxConns
      /\ m_p_connect_ref \in 0 .. MaxConns
      /\ target # << >> => target[1].conn \in Conns
  <2>1. /\ MaxConns \in Nat /\ NoConn \notin Conns
        /\ \A k \in 0 .. MaxConns : k # NoConn => k \in Conns
    BY RpcServerAssumption DEF Conns, NoConn
  <2>2. /\ \A i \in DOMAIN msg_conn_maps : msg_conn_maps[i].conn \in 0 .. MaxConns
        /\ m_p_connect_ref \in 0 .. MaxConns
    BY DEF Typed, Entry
  <2> QED
    BY <2>1, <2>2, TargetFacts
<1>1. CASE OpenNext
  <2>1. PICK c \in Clients, type \in AllTypes, id \in Nat : Open(c, type, id)
    BY <1>1, OpenNextFacts
  <2>2. /\ count' \in Conns /\ count' \notin Known
        /\ link'[count'] = "open"
        /\ \A k \in Conns : k # count' => link'[k] = link[k] /\ handling'[k] = handling[k]
    BY <2>1, OpenFacts DEF Known
  <2>3. UNCHANGED <<answers, msg_conn_maps, m_p_connect_ref, target>>
    BY <2>1 DEF Open, serverVars
  <2>4. ~Past(count')
    BY <2>2 DEF Numbered, Past
  <2>5. answers[count'] = << >>
    BY <2>2, <2>4 DEF Current
  <2>6. \A k \in Conns : Past(k) => k # count' /\ Past(k)' /\ link'[k] = link[k]
    BY <2>2, <2>4 DEF Past
  <2>7. \A k \in Conns : answers'[k] # << >> \/ link'[k] \in {"closed", "gone"} => Past(k)'
    BY <2>2, <2>3, <2>5, <2>6 DEF Current
  <2> QED
    BY <1>0, <2>3, <2>6, <2>7 DEF Current, Past
<1>2. ASSUME NEW c \in Clients, Crash(c) PROVE Current'
  BY <1>2 DEF Calm, Crash
<1>3. ASSUME NEW k \in Conns, TakeAnswer(k) PROVE Current'
  <2>1. /\ UNCHANGED <<handling, msg_conn_maps, m_p_connect_ref, target>>
        /\ answers[k] # << >> /\ link[k] = "open"
        /\ \A j \in Conns : j # k => answers'[j] = answers[j] /\ link'[j] = link[j]
        /\ link'[k] = link[k] \/ link'[k] = "closed"
    BY <1>3 DEF TakeAnswer, Typed, serverVars
  <2>2. Past(k)
    BY <2>1 DEF Current
  <2> QED
    BY <1>0, <2>1, <2>2 DEF Current, Past
<1>4. ASSUME NEW k \in Conns, OnReceive(k) PROVE Current'
  <2>1. /\ UNCHANGED <<link, answers, msg_conn_maps, m_p_connect_ref, target>>
        /\ handling[k] = "sent"
        /\ \A j \in Conns : j # k => handling'[j] = handling[j]
    BY <1>4 DEF OnReceive, Handled, Typed, serverVars
  <2>2. \A j \in Conns : Past(j) => Past(j)'
    BY <2>1 DEF Past
  <2> QED
    BY <1>0, <2>1, <2>2 DEF Current, Past
<1>5. ASSUME NEW k \in Conns, RefuseRequest(k) \/ KVEngineDoNotify(k) PROVE Current'
  <2>1. /\ UNCHANGED <<link, msg_conn_maps, m_p_connect_ref, target>>
        /\ Handled(k, "handled") /\ (SendResponse(k, k) \/ UNCHANGED answers)
    BY <1>5 DEF RefuseRequest, KVEngineDoNotify, serverVars
  <2>2. handling'[k] = "handled" /\ \A j \in Conns : j # k => handling'[j] = handling[j]
    BY <2>1, HandledFacts
  <2>3. k \in 0 .. MaxConns
    BY <1>0 DEF Conns
  <2>4. \A j \in Conns : j # k => answers'[j] = answers[j]
    BY <2>1, <2>3, SendFacts
  <2>5. Past(k)' /\ \A j \in Conns : Past(j) => Past(j)'
    BY <2>2 DEF Past
  <2> QED
    BY <1>0, <2>1, <2>4, <2>5 DEF Current, Past
<1>6. ASSUME NEW k \in Conns, SetConnection(k) PROVE Current'
  <2>1. /\ UNCHANGED <<link, answers, m_p_connect_ref, target>>
        /\ handling[k] = "received" /\ Handled(k, "registered")
    BY <1>6 DEF SetConnection, serverVars
  <2>2. handling'[k] = "registered" /\ \A j \in Conns : j # k => handling'[j] = handling[j]
    BY <2>1, HandledFacts
  <2>3. Past(k)' /\ ~Past(k) /\ \A j \in Conns : Past(j) => Past(j)'
    BY <2>1, <2>2 DEF Past
  <2>4. link[k] # "gone"
    BY <2>3 DEF Current
  <2>5. \A i \in DOMAIN msg_conn_maps' :
          \/ msg_conn_maps'[i].conn = k
          \/ i \in DOMAIN msg_conn_maps /\ msg_conn_maps'[i] = msg_conn_maps[i]
    BY <1>6 DEF SetConnection
  <2>6. \A i \in DOMAIN msg_conn_maps' :
          LET j == msg_conn_maps'[i].conn
          IN  j # NoConn => handling'[j] \in {"registered", "handled"} /\ link'[j] # "gone"
    BY <1>0, <2>1, <2>3, <2>4, <2>5 DEF Current, Past
  <2> QED
    BY <1>0, <2>1, <2>3, <2>6 DEF Current, Past
<1>7. ASSUME NEW k \in Conns, OnDataRecv(k) PROVE Current'
  <2>1. /\ UNCHANGED <<link, msg_conn_maps, target>>
        /\ handling[k] = "received" /\ Handled(k, "handled")
        /\ SendResponse(k, k) \/ UNCHANGED answers
        /\ m_p_connect_ref' = k \/ m_p_connect_ref' = m_p_connect_ref
    BY <1>7 DEF OnDataRecv
  <2>2. handling'[k] = "handled" /\ \A j \in Conns : j # k => handling'[j] = handling[j]
    BY <2>1, HandledFacts
  <2>3. Past(k)' /\ ~Past(k) /\ \A j \in Conns : Past(j) => Past(j)'
    BY <2>1, <2>2 DEF Past
  <2>4. link[k] # "gone"
    BY <2>3 DEF Current
  <2>5. k \in 0 .. MaxConns
    BY <1>0 DEF Conns
  <2>6. \A j \in Conns : j # k => answers'[j] = answers[j]
    BY <2>1, <2>5, SendFacts
  <2> QED
    BY <1>0, <2>1, <2>3, <2>4, <2>6 DEF Current, Past
<1>8. ASSUME NEW k \in Conns, OnClose(k) PROVE Current'
  <2>1. /\ UNCHANGED <<handling, answers, target>>
        /\ link[k] = "closed"
        /\ \A j \in Conns : j # k => link'[j] = link[j]
        /\ m_p_connect_ref' # k /\ m_p_connect_ref' \in {NoConn, m_p_connect_ref}
    BY <1>0, <1>8 DEF OnClose, Calm, Typed
  <2>2. Past(k)
    BY <2>1 DEF Current
  <2>3. \A i \in DOMAIN msg_conn_maps' :
          /\ i \in DOMAIN msg_conn_maps /\ msg_conn_maps'[i] = msg_conn_maps[i]
          /\ msg_conn_maps[i].conn # k
    BY <1>8 DEF OnClose, Erased
  <2> QED
    BY <1>0, <2>1, <2>2, <2>3 DEF Current, Past
<1>9. ASSUME Assign PROVE Current'
  <2>1. UNCHANGED <<handling, link, answers, m_p_connect_ref>>
    BY <1>9 DEF Assign, connVars
  <2>2. \A i \in DOMAIN msg_conn_maps' :
          \/ i \in DOMAIN msg_conn_maps /\ msg_conn_maps'[i] = msg_conn_maps[i]
          \/ msg_conn_maps'[i].conn = NoConn
    BY <1>9, AssignFacts
  <2>3. \/ target' = << >>
        \/ \E k \in Conns :
             /\ target'[1].conn = k
             /\ \/ k = m_p_connect_ref
                \/ \E i \in DOMAIN msg_conn_maps : k = msg_conn_maps[i].conn
    BY <1>9, FindFacts
  <2>4. target' # << >> => Past(target'[1].conn)
    BY <1>0, <2>3 DEF Current
  <2> QED
    BY <1>0, <2>1, <2>2, <2>4 DEF Current, Past
<1>10. ASSUME KVEngineDoResponse PROVE Current'
  <2>1. /\ UNCHANGED <<handling, link, msg_conn_maps, m_p_connect_ref>>
        /\ target' = << >> /\ target # << >>
    BY <1>10 DEF KVEngineDoResponse, serverVars
  <2>2. target[1].conn \in Conns /\ target[1].of \in 0 .. MaxConns /\ Past(target[1].conn)
    BY <2>1, TargetFacts DEF Current
  <2>3. \A k \in Conns : answers'[k] = answers[k] \/ k = target[1].conn
    BY <1>10, <2>2, SendFacts DEF KVEngineDoResponse
  <2> QED
    BY <1>0, <2>1, <2>2, <2>3 DEF Current, Past
<1>11. ASSUME NEW kind, HandleByModule \/ Post(kind) \/ LifeNext \/ UNCHANGED vars
       PROVE  Current'
  <2>1. UNCHANGED <<handling, link, answers, msg_conn_maps, m_p_connect_ref, target>>
    BY <1>11, LifeFacts DEF HandleByModule, Post, vars, connVars, serverVars
  <2> QED
    BY <2>1 DEF Current, Past
<1> QED
  BY <1>1, <1>2, <1>3, <1>4, <1>5, <1>6, <1>7, <1>8, <1>9, <1>10, <1>11
  DEF Next, ClientStep, OpenNext, ConnStep, MainStep, LifeNext

(* Once a client has died or the server is being stopped, it stays so.     *)
LEMMA CalmBefore == ASSUME Typed, [Next]_vars, Calm' PROVE Calm
<1>1. \/ \E c \in Clients : Crash(c)
      \/ crashes' = crashes
  BY OpenOrNot DEF OpenNext, InitializeEngine, RequestSync, SdkCommand, clientVars
<1>2. crashes = 0
  BY <1>1 DEF Calm, Typed, Crash
<1>3. CASE LifeNext
  BY <1>3, LifeFacts
<1>4. CASE UNCHANGED stopPc
  BY <1>2, <1>4 DEF Calm
<1>5. ASSUME NEW c \in Clients,
             \/ InitializeEngine(c) \/ Crash(c)
             \/ \E type \in Types : RequestSync(c, type) \/ SdkCommand(c, type)
      PROVE  UNCHANGED stopPc
  BY <1>5 DEF InitializeEngine, Crash, RequestSync, SdkCommand, Open, lifeVars
<1>6. ASSUME NEW k \in Conns, TakeAnswer(k) \/ ConnStep(k) \/ OnClose(k)
      PROVE  UNCHANGED stopPc
  BY <1>6 DEF TakeAnswer, ConnStep, OnReceive, RefuseRequest, SetConnection,
              KVEngineDoNotify, OnDataRecv, OnClose, lifeVars
<1>7. ASSUME NEW kind, MainStep \/ Post(kind) \/ UNCHANGED vars PROVE UNCHANGED stopPc
  BY <1>7 DEF MainStep, HandleByModule, Assign, KVEngineDoResponse, Post, vars, lifeVars
<1> QED
  BY <1>3, <1>4, <1>5, <1>6, <1>7 DEF Next, ClientStep, LifeNext

(* A single client that has not died has given each id once.               *)
LEMMA DistinctStep ==
  ASSUME OneClient, Typed, Numbered, Distinct, [Next]_vars, crashes' = 0
  PROVE  Distinct'
<1>0. /\ count \in Nat /\ Known \subseteq Conns
      /\ \A k \in Known : opened[k].id \in Nat
  <2>1. count \in Nat /\ Known \subseteq Conns
    BY RpcServerAssumption DEF Typed, Known, Conns
  <2>2. \A k \in Conns : opened[k].id \in Nat
    BY DEF Typed, Opened, NoRequest
  <2> QED
    BY <2>1, <2>2
<1>1. CASE OpenNext
  <2>1. PICK c \in Clients, type \in AllTypes, id \in Nat :
          /\ Open(c, type, id) /\ alive' = alive \cup {c}
          /\ id < ids'[c] /\ ids[c] \in Nat /\ ids'[c] \in Nat
          /\ c \notin alive => id = 0
          /\ c \in alive => ids[c] <= ids'[c] /\ (id # 0 => id = ids[c])
    BY <1>1, OpenNextFacts
  <2>2. /\ count' = count + 1 /\ count' \in Conns
        /\ opened'[count'].id = id
        /\ \A k \in Conns : k # count' => opened'[k] = opened[k]
    BY <2>1, OpenFacts
  <2>3. /\ Known' = Known \cup {count'} /\ count' \notin Known
        /\ \A k \in Known : opened'[k] = opened[k]
    BY <1>0, <2>2 DEF Known
  <2>4. \A d \in Clients : d = c
    BY DEF OneClient
  <2>5. \A d \in Clients : d \in alive'
    BY <2>1, <2>4
  <2>6. c \notin alive => Known = {}
    BY <1>0 DEF Distinct, Known
  <2>7. \A k \in Known : opened[k].id < ids[c]
    BY DEF Distinct
  <2>8. \A k \in Known : opened'[k].id < ids'[c]
    BY <1>0, <2>1, <2>3, <2>6, <2>7
  <2>9. \A k \in Known : opened'[k].id # id \/ id = 0
    BY <1>0, <2>1, <2>3, <2>6, <2>7
  <2>10. \A k \in Known', d \in Clients : opened'[k].id < ids'[d]
    BY <2>1, <2>2, <2>3, <2>4, <2>8
  <2>11. \A j, k \in Known' : SameId(j, k)' => j = k
    BY <2>2, <2>3, <2>9 DEF Distinct, SameId
  <2> QED
    BY <2>5, <2>10, <2>11 DEF Distinct
<1>2. ASSUME NEW c \in Clients, Crash(c) PROVE Distinct'
  BY <1>2 DEF Typed, Crash
<1>3. CASE UNCHANGED <<count, opened, ids, alive, crashes>>
  BY <1>3 DEF Distinct, SameId, Known
<1> QED
  BY <1>1, <1>2, <1>3, OpenOrNot
-----------------------------------------------------------------------------
(* The invariant holds before anybody connects.                            *)
LEMMA Initially == Init => Inv /\ Distinct
<1> SUFFICES ASSUME Init PROVE Inv /\ Distinct
  OBVIOUS
<1>0. /\ MaxConns \in Nat /\ MaxPosts \in Nat /\ MaxCrashes \in Nat
      /\ Known = {} /\ DOMAIN msg_conn_maps = {}
      /\ NoConn \in 0 .. MaxConns
  BY RpcServerAssumption DEF Init, Known, NoConn
<1>1. Typed
  BY <1>0 DEF Init, Typed
<1>2. Numbered /\ Filed
  BY <1>0 DEF Init, Numbered, Filed
<1>3. Routed
  BY <1>0 DEF Init, Routed, GoodAnswer
<1>4. Current
  BY <1>0 DEF Init, Current
<1>5. Distinct
  BY <1>0 DEF Init, Distinct
<1> QED
  BY <1>1, <1>2, <1>3, <1>4, <1>5 DEF Inv

(* Every step keeps the invariant.                                         *)
LEMMA InvStep == ASSUME Inv, [Next]_vars PROVE Inv'
<1>1. ASSUME Calm' PROVE Current'
  BY <1>1, CalmBefore, CurrentStep DEF Inv
<1> QED
  BY <1>1, TypedStep, NumberedStep, FiledStep, RoutedStep DEF Inv

Flags == m_Flag \in BOOLEAN /\ m_Running \in BOOLEAN /\ fault \in BOOLEAN

(* The Boolean variables keep their types.                                 *)
LEMMA FlagsStep == ASSUME Flags, [Next]_vars PROVE Flags'
<1>1. ASSUME NEW c \in Clients,
             \/ InitializeEngine(c) \/ Crash(c)
             \/ \E type \in Types : RequestSync(c, type) \/ SdkCommand(c, type)
      PROVE  Flags'
  BY <1>1, Zenon DEF Flags, InitializeEngine, Crash, RequestSync, SdkCommand, Open, lifeVars
<1>2. ASSUME NEW k, NEW j, SendResponse(k, j) PROVE fault' \in BOOLEAN
  BY <1>2, Zenon DEF Flags, SendResponse
<1>3. ASSUME NEW k \in Conns, TakeAnswer(k) \/ ConnStep(k) \/ OnClose(k)
      PROVE  Flags'
  <2>1. UNCHANGED lifeVars /\ (fault' = fault \/ SendResponse(k, k))
    BY <1>3, Zenon DEF TakeAnswer, ConnStep, OnReceive, RefuseRequest, SetConnection,
                KVEngineDoNotify, OnDataRecv, OnClose
  <2> QED
    BY <1>2, <2>1, Zenon DEF Flags, lifeVars
<1>4. ASSUME NEW kind, MainStep \/ Post(kind) \/ UNCHANGED vars PROVE Flags'
  <2>1. /\ UNCHANGED lifeVars
        /\ fault' = fault \/ SendResponse(target[1].conn, target[1].of)
    BY <1>4, Zenon DEF MainStep, HandleByModule, Assign, KVEngineDoResponse, Post, vars
  <2> QED
    BY <1>2, <2>1, Zenon DEF Flags, lifeVars
<1>5. ASSUME LifeNext PROVE Flags'
  BY <1>5, Zenon DEF Flags, LifeNext, RunStep, RunServer, RunFlag, RunRunning, RunEnds,
                     StopFlag, StopWaited, StopReturned, LifeStep
<1> QED
  BY <1>1, <1>3, <1>4, <1>5, Zenon DEF Next, ClientStep, LifeNext

(* The invariant, with the types of the Boolean variables.                 *)
LEMMA InvHolds == Spec => [](Inv /\ Flags)
<1>1. Init => Flags
  BY Zenon DEF Init, Flags
<1>2. Inv /\ Flags /\ [Next]_vars => (Inv /\ Flags)'
  BY InvStep, FlagsStep, Zenon
<1> QED
  BY <1>1, <1>2, Initially, PTL DEF Spec

(* For any clients and whatever fails: the table names no destroyed        *)
(* connection as long as no client has died and no stop is under way, so   *)
(* it is the death of a client, and nothing else, that lets a worker       *)
(* register a connection that is gone.                                     *)
THEOREM TableIsCurrentHolds == Spec => []TableIsCurrent
<1>1. Inv /\ Flags => TypeOK
  <2> SUFFICES ASSUME Inv, Flags PROVE TypeOK
    OBVIOUS
  <2>1. Typed
    BY DEF Inv
  <2> QED
    BY <2>1, Zenon DEF Typed, Flags, TypeOK
<1>2. Inv => (Calm => /\ \A i \in DOMAIN msg_conn_maps :
                           LET k == msg_conn_maps[i].conn
                           IN  k # NoConn => link[k] # "gone"
                      /\ m_p_connect_ref # NoConn => link[m_p_connect_ref] # "gone")
  BY DEF Inv, Current
<1>3. Inv /\ Flags => TableIsCurrent
  BY <1>1, <1>2 DEF TableIsCurrent, Calm
<1> QED
  BY <1>3, InvHolds, PTL

(* What a client takes for its answer belongs to a request with the id     *)
(* that it has sent.                                                       *)
AnswerHasTheId ==
  \A k \in Conns : taken[k] # NoConn => opened[taken[k]].id = opened[k].id

(* FindConnection goes by the id, for any number of clients, of which any  *)
(* may die and come back.                                                  *)
THEOREM AnswerHasTheIdHolds == Spec => []AnswerHasTheId
<1>1. Inv => AnswerHasTheId
  BY DEF Inv, Routed, GoodAnswer, SameId, AnswerHasTheId
<1> QED
  BY <1>1, InvHolds, PTL

(* With a single client, it is the answer to its own request, until that   *)
(* client has died once.                                                   *)
THEOREM OwnAnswerHolds == ASSUME OneClient PROVE Spec => []OwnAnswer
<1>1. Init => (crashes = 0 => Distinct)
  BY Initially
<1>2. Inv /\ (crashes = 0 => Distinct) /\ [Next]_vars => (crashes = 0 => Distinct)'
  <2> SUFFICES ASSUME Inv, crashes = 0 => Distinct, [Next]_vars, crashes' = 0
               PROVE  Distinct'
    OBVIOUS
  <2>1. crashes = 0
    <3>1. (\E c \in Clients : Crash(c)) \/ crashes' = crashes
      BY OpenOrNot DEF OpenNext, InitializeEngine, RequestSync, SdkCommand, clientVars
    <3> QED
      BY <3>1 DEF Inv, Typed, Crash
  <2> QED
    BY <2>1, DistinctStep DEF Inv
<1>3. Inv /\ (crashes = 0 => Distinct) => OwnAnswer
  <2> SUFFICES ASSUME Inv, crashes = 0 => Distinct, NEW k \in Conns, taken[k] # NoConn
               PROVE  /\ opened[taken[k]].id = opened[k].id
                      /\ crashes = 0 => taken[k] = k
    BY DEF OwnAnswer
  <2>1. taken[k] = k \/ SameId(taken[k], k)
    BY DEF Inv, Routed, GoodAnswer
  <2>2. SameId(taken[k], k) /\ crashes = 0 => taken[k] = k
    BY DEF SameId, Distinct
  <2> QED
    BY <2>1, <2>2 DEF SameId
<1> QED
  BY <1>1, <1>2, <1>3, InvHolds, PTL DEF Spec
=============================================================================
