-------------------------- MODULE SchedulerProofs --------------------------
(***************************************************************************)
(* Proofs about the scheduler, for every set of modules, any settings and  *)
(* tables, number of threads that call stop, and bounds: first about the   *)
(* scheduler that runs (Scheduler), then about its tables (ModuleLoader).  *)
(***************************************************************************)
EXTENDS Scheduler, ModuleLoader, WellFoundedInduction, FiniteSetTheorems,
        FunctionTheorems, SequenceTheorems, TLAPS

(***************************************************************************)
(* The inductive invariant.                                                *)
(***************************************************************************)

LoopPlaces == {"created", "runModules", "run", "pop", "take", "dispatch", "check"}
AfterPlaces == {"ended", "destroyModules", "gone"}
StoppingPlaces == {"stopModules", "stop", "destroy", "nullify", "stopped"}

(* The main thread is in its loop while continued is set (it is in         *)
(* destroy_module on both sides of the loop's end); whoever waits in stop  *)
(* still sees the flag up, or the loop has ended; whoever has gone past    *)
(* the wait knows that the loop has ended.                                 *)
ControlInv ==
  /\ pc[Main] \in LoopPlaces \cup {"destroy", "nullify"} \cup AfterPlaces
  /\ pc[Main] \in LoopPlaces => continued
  /\ pc[Main] \in AfterPlaces => ~ continued
  /\ \A t \in Stoppers :
       /\ pc[t] \in {"idle", "request", "wait"} \cup StoppingPlaces
       /\ pc[t] = "wait" => pendingStop \/ ~ continued
       /\ pc[t] \in StoppingPlaces => ~ continued

(* Notification n of module m is in the queue, or about to be appended.    *)
Queued(m, n) == \E i \in DOMAIN messages : messages[i].src = m /\ messages[i].n = n
Pushed(m, n) == pushing # << >> /\ pushing[1].msg.src = m /\ pushing[1].msg.n = n

(* The queued notifications of m go on from the dispatched ones, in order  *)
(* and without a gap.                                                      *)
Ahead(m) ==
  \A i \in DOMAIN messages : messages[i].src = m =>
    Len(taken[m]) < messages[i].n /\ messages[i].n =< sent[m]

Ordered(m) ==
  \A i, j \in DOMAIN messages :
    j < i /\ messages[i].src = m /\ messages[j].src = m => messages[j].n < messages[i].n

Gapless(m) ==
  \A i \in DOMAIN messages :
    messages[i].src = m /\ messages[i].n > Len(taken[m]) + 1 =>
      \E j \in DOMAIN messages :
        j < i /\ messages[j].src = m /\ messages[j].n = messages[i].n - 1

QueueInv(m) == Ahead(m) /\ Ordered(m) /\ Gapless(m)

(* The notification about to be appended is the last one and goes on from  *)
(* the queued ones.                                                        *)
PushInv(m) ==
  pushing # << >> /\ pushing[1].msg.src = m =>
    /\ pushing[1].msg.n = sent[m]
    /\ Len(taken[m]) < sent[m]
    /\ \A i \in DOMAIN messages : messages[i].src = m => messages[i].n < sent[m]
    /\ sent[m] > Len(taken[m]) + 1 => Queued(m, sent[m] - 1)

(* Until a stop is pending, no notification has been dropped.              *)
LastInv(m) ==
  ~ pendingStop =>
    sent[m] = Len(taken[m]) \/ Pushed(m, sent[m]) \/ Queued(m, sent[m])

FlowInv(m) ==
  /\ Len(taken[m]) =< sent[m]
  /\ continued => QueueInv(m) /\ PushInv(m) /\ LastInv(m)

Inv ==
  /\ TypeOK
  /\ PopFindsMessage
  /\ ControlInv
  /\ DispatchedIsPrefix
  /\ \A m \in Modules : FlowInv(m)
-----------------------------------------------------------------------------
(***************************************************************************)
(* Lookup: a rule leads to modules of the lists.                           *)
(***************************************************************************)

(* The lowest bit of a mask that is not empty is one of its bits.          *)
LEMMA CategoryIndexInMask ==
  ASSUME NEW mask \in Mask, mask # {}
  PROVE  CategoryIndex(mask) \in mask
<1> DEFINE R == { ss \in Nat \X Nat : ss[1] < ss[2] }
<1>1. mask \subseteq Nat
  BY CategoriesAssumption DEF Mask
<1>2. IsWellFoundedOn(R, Nat)
  BY NatLessThanWellFounded DEF OpToRel
<1> HIDE DEF R
<1>3. PICK x \in mask : \A y \in mask : ~ (<<y, x>> \in R)
  BY <1>1, <1>2, WFMin, Zenon
<1>4. ASSUME NEW y \in mask
      PROVE  x =< y
  <2>1. <<y, x>> \notin R
    BY <1>3
  <2>2. <<y, x>> \in Nat \X Nat /\ x \in Nat /\ y \in Nat
    BY <1>1
  <2>3. <<y, x>>[1] = y /\ <<y, x>>[2] = x
    OBVIOUS
  <2>4. ~ (y < x)
    BY <2>1, <2>2, <2>3, Zenon DEF R
  <2>5. QED
    BY <2>2, <2>4
<1>5. QED
  BY <1>4 DEF CategoryIndex

(* The targets of a rule are modules.                                      *)
LEMMA RuleTargetsType ==
  ASSUME NEW lists \in ModuleInfoLists, NEW rule \in Rule
  PROVE  RuleTargets(lists, rule) \in Seq(Modules)
<1>1. CASE rule.to = {}
  BY <1>1 DEF RuleTargets
<1>2. CASE rule.to # {}
  <2>1. rule.to \in Mask
    BY DEF Rule
  <2>2. CategoryIndex(rule.to) \in Categories
    BY <1>2, <2>1, CategoryIndexInMask DEF Mask
  <2>3. lists[CategoryIndex(rule.to)] \in Seq(Modules)
    BY <2>2 DEF ModuleInfoLists
  <2>4. QED
    BY <1>2, <2>3 DEF RuleTargets
<1>3. QED
  BY <1>1, <1>2

(* A call is a pair of positions, and its target a module.                 *)
LEMMA CallsType ==
  ASSUME NEW lists \in ModuleInfoLists, NEW rules \in Seq(Rule)
  PROVE  /\ Calls(lists, rules) \subseteq Nat \X Nat
         /\ \A c \in Calls(lists, rules) : CallTarget(lists, rules, c) \in Modules
<1>1. \A r \in DOMAIN rules : RuleTargets(lists, rules[r]) \in Seq(Modules)
  BY RuleTargetsType
<1>2. ASSUME NEW c \in Calls(lists, rules)
      PROVE  /\ c \in Nat \X Nat
             /\ CallTarget(lists, rules, c) \in Modules
  <2>1. PICK r \in DOMAIN rules : c \in {r} \X DOMAIN RuleTargets(lists, rules[r])
    BY <1>2 DEF Calls
  <2>2. QED
    BY <1>1, <2>1 DEF CallTarget
<1>3. QED
  BY <1>2

(* Whichever table they come from, a message's rules are rules.            *)
LEMMA RulesOfType ==
  ASSUME NEW msg \in Message
  PROVE  RulesOf(msg) \in Seq(Rule)
<1> DEFINE configured == FindInConfigMessageRules(ConfigRules, msg.category, msg.id)
<1>1. configured \in Seq(Rule)
  BY SchedulerAssumption DEF FindInConfigMessageRules, RulesAt
<1>2. RulesAt(OriginalRules, msg.id) \in Seq(Rule)
  BY SchedulerAssumption DEF RulesAt
<1>3. QED
  BY <1>1, <1>2 DEF RulesOf, FindMessageRule

(* Every message a thread can push is a message.                           *)
LEMMA MessagesType ==
  ASSUME TypeOK
  PROVE  /\ messages \in Seq(Message) /\ Len(messages) \in Nat
         /\ DOMAIN messages = 1 .. Len(messages)
         /\ \A i \in DOMAIN messages : messages[i].n \in Nat
<1>1. messages \in Seq(Message)
  BY DEF TypeOK
<1>2. \A i \in DOMAIN messages : messages[i] \in Message
  BY <1>1
<1>3. QED
  BY <1>1, <1>2 DEF Message

(* An entry of the module lists is a module.                               *)
LEMMA ModuleAtType ==
  ASSUME NEW p \in Positions
  PROVE  ModuleAt(p) \in Modules
<1>1. PICK c \in Categories : p \in {c} \X DOMAIN ModuleInfos[c]
  BY DEF Positions, PositionsOf
<1>2. ModuleInfos[c] \in Seq(Modules)
  BY SchedulerAssumption DEF ModuleInfoLists
<1>3. QED
  BY <1>1, <1>2 DEF ModuleAt

(* A log message of the scheduler is a message.                            *)
LEMMA LogMessageType == LogMessage \in Message
  BY SchedulerAssumption DEF LogMessage, Message, Mask

-----------------------------------------------------------------------------
(***************************************************************************)
(* Types.                                                                  *)
(***************************************************************************)

PushingType == pushing \in Seq([by : Threads, msg : Message]) /\ Len(pushing) =< 1

(* push_module_message leaves at most one holder of the lock.              *)
LEMMA PushKeepsType ==
  ASSUME PushingType, NEW t \in Threads, NEW msg \in Message,
         PushModuleMessage(t, msg)
  PROVE  PushingType'
<1>1. [by |-> t, msg |-> msg] \in [by : Threads, msg : Message]
  OBVIOUS
<1>2. << [by |-> t, msg |-> msg] >> \in Seq([by : Threads, msg : Message])
      /\ Len(<< [by |-> t, msg |-> msg] >>) =< 1
  BY <1>1
<1>3. << >> \in Seq([by : Threads, msg : Message]) /\ Len(<< >>) =< 1
  BY EmptySeq
<1>4. pushing' = << >> \/ pushing' = << [by |-> t, msg |-> msg] >>
  BY DEF PushModuleMessage
<1>5. QED
  BY <1>2, <1>3, <1>4, Zenon DEF PushingType

(* The same for a log message.                                             *)
LEMMA LogKeepsType ==
  ASSUME PushingType, NEW t \in Threads, GenerateLogMessage(t)
  PROVE  PushingType'
  BY PushKeepsType, LogMessageType DEF GenerateLogMessage

(* A thread executes the code of a module or of none.                      *)
LEMMA ExecutesType ==
  ASSUME TypeOK, NEW t \in Threads
  PROVE  Executes(t) \in Modules \cup {None}
<1>1. CASE calls[t] # << >>
  <2>1. calls[t] \in Seq(Frame) /\ Len(calls[t]) \in 1 .. Len(calls[t])
    BY <1>1 DEF TypeOK
  <2>2. Top(t) \in Frame
    BY <2>1 DEF Top
  <2>3. Top(t).in \in Modules \cup {None}
    BY <2>2 DEF Frame
  <2>4. Executes(t) = Top(t).in
    BY <1>1 DEF Executes
  <2>5. QED
    BY <2>3, <2>4
<1>2. CASE calls[t] = << >>
  BY <1>2 DEF Executes, TypeOK
<1>3. QED
  BY <1>1, <1>2

(* Changing the innermost frame keeps the frames frames.                   *)
LEMMA SetTopType ==
  ASSUME TypeOK, NEW t \in Threads, calls[t] # << >>, NEW f \in Frame, SetTop(t, f)
  PROVE  calls' \in [Threads -> Seq(Frame)]
<1>1. calls[t] \in Seq(Frame) /\ Len(calls[t]) \in 1 .. Len(calls[t])
  BY DEF TypeOK
<1>2. [calls[t] EXCEPT ![Len(calls[t])] = f] \in Seq(Frame)
  BY <1>1, ExceptSeq
<1>3. QED
  BY <1>2 DEF SetTop, TypeOK

(* The innermost message being handed over is a frame.                     *)
LEMMA TopType ==
  ASSUME TypeOK, NEW t \in Threads, calls[t] # << >>
  PROVE  Top(t) \in Frame
<1>1. calls[t] \in Seq(Frame) /\ Len(calls[t]) \in 1 .. Len(calls[t])
  BY DEF TypeOK
<1>2. QED
  BY <1>1 DEF Top

(* The state after the constructor has its types.                          *)
LEMMA InitType == Init => TypeOK
<1> SUFFICES ASSUME Init PROVE TypeOK
  OBVIOUS
<1>1. messages \in Seq(Message)
  <2>1. CreationLog \in Seq({LogMessage}) /\ {LogMessage} \subseteq Message
    BY SchedulerAssumption, LogMessageType
  <2>2. QED
    BY <2>1, SeqMonotonic DEF Init
<1>2. pc \in [Threads -> Places]
  BY DEF Init, Threads, Places
<1>3. << >> \in Seq(Frame) /\ << >> \in Seq(Nat)
      /\ << >> \in Seq([by : Threads, msg : Message]) /\ Len(<< >>) = 0
  BY EmptySeq
<1>4. pushing \in Seq([by : Threads, msg : Message]) /\ Len(pushing) =< 1
  BY <1>3 DEF Init
<1>5. calls \in [Threads -> Seq(Frame)] /\ taken \in [Modules -> Seq(Nat)]
  BY <1>3 DEF Init
<1>6. QED
  BY <1>1, <1>2, <1>4, <1>5 DEF Init, TypeOK

(* Every step keeps the types.                                             *)
LEMMA TypeStep ==
  ASSUME TypeOK, PopFindsMessage, [Next]_vars
  PROVE  TypeOK'
<1> USE DEF queueVars, countVars
<1>a. PushingType /\ Main \in Threads /\ Stoppers \subseteq Threads /\ RunThreads \subseteq Threads
  BY DEF TypeOK, PushingType, Threads
<1>b. ASSUME NEW m \in Modules PROVE Entered(m) \in Modules \cup {None}
  BY DEF Entered
<1>c. ASSUME NEW t \in Threads PROVE Returns(t) \in Places
  BY DEF Returns, Places, Threads
<1>1. CASE PushEnd
  <2>1. pushing # << >> /\ pushing \in Seq([by : Threads, msg : Message])
    BY <1>1 DEF PushEnd, TypeOK
  <2>2. pushing[1] \in [by : Threads, msg : Message]
    <3>1. Len(pushing) \in Nat \ {0}
      BY <2>1, EmptySeq
    <3>2. 1 \in 1 .. Len(pushing)
      BY <3>1
    <3>3. QED
      BY <2>1, <3>2, ElementOfSeq
  <2>3. Append(messages, pushing[1].msg) \in Seq(Message)
    BY <2>2 DEF TypeOK
  <2>4. << >> \in Seq([by : Threads, msg : Message]) /\ Len(<< >>) = 0
    BY EmptySeq
  <2>5. QED
    BY <1>1, <2>3, <2>4 DEF PushEnd, TypeOK
<1>2. ASSUME NEW t \in Threads, Assign(t)
      PROVE  TypeOK'
  <2>1. Top(t) \in Frame
    BY <1>2, TopType DEF Assign
  <2>2. PICK c \in CallsLeft(Top(t)) :
          SetTop(t, [Top(t) EXCEPT
                       !.done = @ \cup {c},
                       !.in = Entered(CallTarget(ModuleInfos, RulesOf(Top(t).msg), c))])
    BY <1>2 DEF Assign
  <2>3. RulesOf(Top(t).msg) \in Seq(Rule)
    BY <2>1, RulesOfType DEF Frame
  <2>4. c \in Nat \X Nat /\ CallTarget(ModuleInfos, RulesOf(Top(t).msg), c) \in Modules
    BY <2>2, <2>3, CallsType, SchedulerAssumption DEF CallsLeft
  <2>5. [Top(t) EXCEPT
           !.done = @ \cup {c},
           !.in = Entered(CallTarget(ModuleInfos, RulesOf(Top(t).msg), c))] \in Frame
    BY <2>1, <2>4, <1>b DEF Frame
  <2>6. calls' \in [Threads -> Seq(Frame)]
    BY <1>2, <2>2, <2>5, SetTopType DEF Assign
  <2>7. QED
    BY <1>2, <2>6 DEF Assign, TypeOK
<1>3. ASSUME NEW t \in Threads, AssignReturns(t)
      PROVE  TypeOK'
  <2>1. [Top(t) EXCEPT !.in = None] \in Frame
    BY <1>3, TopType DEF AssignReturns, Frame
  <2>2. calls' \in [Threads -> Seq(Frame)]
    BY <1>3, <2>1, SetTopType DEF AssignReturns
  <2>3. QED
    BY <1>3, <2>2 DEF AssignReturns, TypeOK
<1>4. ASSUME NEW t \in Threads, HandleFinished(t)
      PROVE  TypeOK'
  <2>1. SubSeq(calls[t], 1, Len(calls[t]) - 1) \in Seq(Frame)
    BY <1>4 DEF TypeOK
  <2>2. QED
    BY <1>4, <2>1 DEF HandleFinished, TypeOK
<1>5. ASSUME NEW t \in Threads, NotifyAsync(t)
      PROVE  TypeOK'
  <2>1. Executes(t) \in Modules
    BY <1>5, ExecutesType DEF NotifyAsync
  <2>2. PICK s \in Sends[Executes(t)] :
          PushModuleMessage(t, [category |-> s[1], id |-> s[2],
                                src |-> Executes(t), n |-> sent[Executes(t)] + 1])
    BY <1>5 DEF NotifyAsync
  <2>3. s \in Mask \X MsgIds
    BY <2>1, <2>2, SchedulerAssumption
  <2>4. [category |-> s[1], id |-> s[2],
         src |-> Executes(t), n |-> sent[Executes(t)] + 1] \in Message
    BY <2>1, <2>3 DEF Message, TypeOK
  <2>5. PushingType'
    BY <1>a, <2>2, <2>4, PushKeepsType
  <2>6. sent' \in [Modules -> Nat]
    BY <1>5, <2>1 DEF NotifyAsync, TypeOK
  <2>7. QED
    BY <1>5, <2>5, <2>6 DEF NotifyAsync, TypeOK, PushingType
<1>m. ASSUME NEW t \in Threads, NotifyMore(t)
      PROVE  TypeOK'
  <2>1. Executes(t) \in Modules
    BY <1>m, ExecutesType DEF NotifyMore
  <2>2. PICK s \in Sends[Executes(t)] :
          PushModuleMessage(t, [category |-> s[1], id |-> s[2], src |-> None, n |-> 0])
    BY <1>m DEF NotifyMore
  <2>3. s \in Mask \X MsgIds
    BY <2>1, <2>2, SchedulerAssumption
  <2>4. [category |-> s[1], id |-> s[2], src |-> None, n |-> 0] \in Message
    BY <2>3 DEF Message
  <2>5. PushingType'
    BY <1>a, <2>2, <2>4, PushKeepsType
  <2>6. QED
    BY <1>m, <2>5 DEF NotifyMore, TypeOK, PushingType
<1>6. ASSUME NEW t \in Threads, NotifySync(t)
      PROVE  TypeOK'
  <2>1. Executes(t) \in Modules
    BY <1>6, ExecutesType DEF NotifySync
  <2>2. PICK s \in Sends[Executes(t)] :
          calls' = [calls EXCEPT ![t] =
                      Append(@, [msg |-> [category |-> s[1], id |-> s[2],
                                          src |-> None, n |-> 0],
                                 done |-> {}, in |-> None])]
    BY <1>6 DEF NotifySync
  <2>3. s \in Mask \X MsgIds
    BY <2>1, <2>2, SchedulerAssumption
  <2>4. [msg |-> [category |-> s[1], id |-> s[2], src |-> None, n |-> 0],
         done |-> {}, in |-> None] \in Frame
    BY <2>3 DEF Message, Frame
  <2>5. calls' \in [Threads -> Seq(Frame)]
    BY <2>2, <2>4 DEF TypeOK
  <2>6. asked' \in [Modules -> Nat]
    BY <1>6, <2>1 DEF NotifySync, TypeOK
  <2>7. QED
    BY <1>6, <2>5, <2>6 DEF NotifySync, TypeOK
<1>7. ASSUME NEW t \in Threads, DestroyingModule(t)
      PROVE  TypeOK'
  <2>1. CASE DestroyObject(t)
    BY <2>1 DEF DestroyObject, Goto, TypeOK, Places
  <2>2. CASE DestroyPointer(t)
    <3>1. PushingType'
      BY <1>a, <2>2, LogKeepsType DEF DestroyPointer
    <3>2. QED
      BY <1>c, <2>2, <3>1 DEF DestroyPointer, Goto, TypeOK, PushingType
  <2>3. QED
    BY <1>7, <2>1, <2>2 DEF DestroyingModule
<1>8. ASSUME NEW t \in Threads, NEW called, ModuleReturns(t, called)
      PROVE  TypeOK'
  <2>1. PushingType'
    BY <1>a, <1>8, LogKeepsType DEF ModuleReturns
  <2>2. pc' \in [Threads -> Places]
    BY <1>c, <1>8 DEF ModuleReturns, Goto, TypeOK, Places
  <2>3. op' \in [Threads -> Modules \cup {None}]
    BY <1>8 DEF ModuleReturns, TypeOK
  <2>4. QED
    BY <1>8, <2>1, <2>2, <2>3 DEF ModuleReturns, TypeOK, PushingType
<1>9. CASE Run
  <2>1. PushingType'
    BY <1>a, <1>9, LogKeepsType DEF Run
  <2>2. QED
    BY <1>9, <2>1 DEF Run, Goto, TypeOK, PushingType, Places
<1>10. ASSUME NEW p \in Positions, RunModule(p)
       PROVE  TypeOK'
  <2>1. Entered(ModuleAt(p)) \in Modules \cup {None}
    BY <1>b, ModuleAtType
  <2>2. QED
    BY <1>a, <1>10, <2>1 DEF RunModule, Visit, Goto, TypeOK, Places
<1>11. CASE RunModulesFinished
  BY <1>11 DEF RunModulesFinished, Goto, TypeOK, Places
<1>12. CASE PopModuleMessage
  BY <1>12 DEF PopModuleMessage, Goto, TypeOK, Places
<1>13. CASE TakeModuleMessage
  <2>1. messages \in Seq(Message) /\ messages # << >>
    BY <1>13 DEF TakeModuleMessage, PopFindsMessage, TypeOK
  <2>2. Head(messages) \in Message /\ Tail(messages) \in Seq(Message)
    BY <2>1
  <2>3. [msg |-> Head(messages), done |-> {}, in |-> None] \in Frame
    BY <2>2 DEF Frame
  <2>4. calls' \in [Threads -> Seq(Frame)]
    <3>1. << [msg |-> Head(messages), done |-> {}, in |-> None] >> \in Seq(Frame)
      BY <2>3
    <3>2. QED
      BY <1>13, <3>1 DEF TakeModuleMessage, TypeOK
  <2>5. taken' \in [Modules -> Seq(Nat)]
    BY <1>13, <2>2 DEF TakeModuleMessage, TypeOK, Message
  <2>6. QED
    BY <1>13, <2>2, <2>4, <2>5 DEF TakeModuleMessage, Goto, TypeOK, Places
<1>14. CASE DispatchFinished
  <2>1. << >> \in Seq(Frame)
    BY EmptySeq
  <2>2. QED
    BY <1>a, <1>14, <2>1 DEF DispatchFinished, Goto, TypeOK, Places
<1>15. CASE CheckStop
  BY <1>15 DEF CheckStop, Goto, TypeOK, Places
<1>16. CASE Destroy
  BY <1>16 DEF Destroy, Goto, TypeOK, Places
<1>17. ASSUME NEW p \in Positions, DestroyModule(p)
       PROVE  TypeOK'
  <2>1. Entered(ModuleAt(p)) \in Modules \cup {None}
    BY <1>b, ModuleAtType
  <2>2. QED
    BY <1>a, <1>17, <2>1 DEF DestroyModule, Visit, Goto, TypeOK, Places
<1>18. CASE DestroyFinished
  <2>1. << >> \in Seq(Message)
    BY EmptySeq
  <2>2. QED
    BY <1>a, <1>18, <2>1 DEF DestroyFinished, Goto, TypeOK, Places
<1>19. ASSUME NEW t \in Stoppers, Stop(t)
       PROVE  TypeOK'
  <2>1. PushingType'
    BY <1>a, <1>19, LogKeepsType DEF Stop
  <2>2. QED
    BY <1>19, <2>1 DEF Stop, Goto, TypeOK, PushingType, Places
<1>20. ASSUME NEW t \in Stoppers, RequestStop(t)
       PROVE  TypeOK'
  BY <1>20 DEF RequestStop, Goto, TypeOK, Places
<1>21. ASSUME NEW t \in Stoppers, StopWaited(t)
       PROVE  TypeOK'
  BY <1>21 DEF StopWaited, Goto, TypeOK, Places
<1>22. ASSUME NEW t \in Stoppers, NEW p \in Positions, StopModule(t, p)
       PROVE  TypeOK'
  <2>1. Entered(ModuleAt(p)) \in Modules \cup {None}
    BY <1>b, ModuleAtType
  <2>2. QED
    BY <1>a, <1>22, <2>1 DEF StopModule, Visit, Goto, TypeOK, Places
<1>23. ASSUME NEW t \in Stoppers, StopFinished(t)
       PROVE  TypeOK'
  BY <1>23 DEF StopFinished, Goto, TypeOK, Places
<1>24. CASE UNCHANGED vars
  BY <1>24 DEF vars, TypeOK
<1>25. QED
  BY <1>a, <1>1, <1>2, <1>3, <1>4, <1>5, <1>m, <1>6, <1>7, <1>8, <1>9, <1>10, <1>11,
     <1>12, <1>13, <1>14, <1>15, <1>16, <1>17, <1>18, <1>19, <1>20, <1>21,
     <1>22, <1>23, <1>24
     DEF Next, MainStep, StopperStep, RunThreadStep, HandOver, RunModuleInternal,
         StopModuleReturns, Exited

-----------------------------------------------------------------------------
(***************************************************************************)
(* Control.                                                                *)
(***************************************************************************)

(* The three kinds of thread are different threads.                        *)
LEMMA ThreadsDiffer ==
  /\ Main \notin Stoppers
  /\ Main \notin RunThreads
  /\ \A t \in Stoppers : t \notin RunThreads
  BY SchedulerAssumption DEF RunThreads

(* Every step keeps the control invariant.                                 *)
LEMMA ControlStep ==
  ASSUME TypeOK, ControlInv, [Next]_vars
  PROVE  ControlInv'
<1> USE DEF queueVars, countVars, LoopPlaces, AfterPlaces, StoppingPlaces
<1>a. pc \in [Threads -> Places] /\ pendingStop \in BOOLEAN /\ continued \in BOOLEAN
  BY DEF TypeOK
<1>b. Main \in Threads /\ Stoppers \subseteq Threads /\ RunThreads \subseteq Threads
  BY DEF Threads
<1>1. ASSUME UNCHANGED <<pc, pendingStop, continued>>
      PROVE  ControlInv'
  BY <1>1 DEF ControlInv
(* A thread of a module moves: nothing that the invariant mentions does.   *)
<1>2. ASSUME NEW t \in RunThreads, NEW place, Goto(t, place),
             UNCHANGED <<pendingStop, continued>>
      PROVE  ControlInv'
  BY <1>a, <1>b, <1>2, ThreadsDiffer DEF ControlInv, Goto
(* The main thread moves.                                                  *)
<1>3. ASSUME NEW place, Goto(Main, place), UNCHANGED <<pendingStop, continued>>,
             place \in LoopPlaces \cup {"destroy", "nullify"} \cup AfterPlaces,
             place \in LoopPlaces => continued,
             place \in AfterPlaces => ~ continued
      PROVE  ControlInv'
  BY <1>a, <1>b, <1>3, ThreadsDiffer DEF ControlInv, Goto
(* A caller of stop moves.                                                 *)
<1>4. ASSUME NEW t \in Stoppers, NEW place, Goto(t, place),
             UNCHANGED <<pendingStop, continued>>,
             place \in {"idle", "request"} \cup StoppingPlaces,
             place \in StoppingPlaces => ~ continued
      PROVE  ControlInv'
  BY <1>a, <1>b, <1>4, ThreadsDiffer DEF ControlInv, Goto
<1>5. CASE PushEnd
  BY <1>1, <1>5 DEF PushEnd
<1>6. ASSUME NEW t \in Threads,
             HandOver(t) \/ NotifyAsync(t) \/ NotifyMore(t) \/ NotifySync(t)
      PROVE  ControlInv'
  BY <1>1, <1>6 DEF HandOver, Assign, AssignReturns, HandleFinished, NotifyAsync,
                    NotifyMore, NotifySync
<1>7. ASSUME NEW t \in RunThreads, RunModuleInternal(t) \/ DestroyingModule(t)
      PROVE  ControlInv'
  BY <1>2, <1>7 DEF RunModuleInternal, ModuleReturns, DestroyingModule,
                    DestroyObject, DestroyPointer
<1>8. CASE Run
  BY <1>3, <1>8 DEF Run, ControlInv
<1>9. ASSUME NEW p \in Positions, RunModule(p)
      PROVE  ControlInv'
  <2>1. CASE p \in RunThreads
    BY <1>2, <1>9, <2>1 DEF RunModule
  <2>2. CASE p \notin RunThreads
    BY <1>3, <1>9, <2>2 DEF RunModule, ControlInv
  <2>3. QED
    BY <2>1, <2>2
<1>10. CASE RunModuleInternal(Main)
  BY <1>3, <1>10, ThreadsDiffer
     DEF RunModuleInternal, ModuleReturns, Returns, ControlInv
<1>11. CASE RunModulesFinished
  BY <1>3, <1>11 DEF RunModulesFinished, ControlInv
<1>12. CASE PopModuleMessage
  BY <1>3, <1>12 DEF PopModuleMessage, ControlInv
<1>13. CASE TakeModuleMessage
  BY <1>3, <1>13 DEF TakeModuleMessage, ControlInv
<1>14. CASE DispatchFinished
  BY <1>3, <1>14 DEF DispatchFinished, IsDispatch, ControlInv
<1>15. CASE CheckStop
  <2>1. CASE pendingStop
    BY <1>a, <1>b, <1>15, <2>1, ThreadsDiffer DEF CheckStop, Goto, ControlInv
  <2>2. CASE ~ pendingStop
    BY <1>3, <1>15, <2>2 DEF CheckStop, ControlInv
  <2>3. QED
    BY <2>1, <2>2
<1>16. CASE Destroy
  BY <1>3, <1>16 DEF Destroy, ControlInv
<1>17. ASSUME NEW p \in Positions, DestroyModule(p)
       PROVE  ControlInv'
  BY <1>3, <1>17 DEF DestroyModule
<1>18. CASE DestroyingModule(Main)
  BY <1>3, <1>18, ThreadsDiffer
     DEF DestroyingModule, DestroyObject, DestroyPointer, Returns
<1>19. CASE DestroyFinished
  BY <1>3, <1>19 DEF DestroyFinished, ControlInv
<1>20. ASSUME NEW t \in Stoppers, Stop(t)
       PROVE  ControlInv'
  BY <1>4, <1>20 DEF Stop
<1>21. ASSUME NEW t \in Stoppers, RequestStop(t)
       PROVE  ControlInv'
  BY <1>a, <1>b, <1>21, ThreadsDiffer DEF RequestStop, Goto, ControlInv
<1>22. ASSUME NEW t \in Stoppers, StopWaited(t)
       PROVE  ControlInv'
  BY <1>4, <1>22 DEF StopWaited, ControlInv
<1>23. ASSUME NEW t \in Stoppers, NEW p \in Positions, StopModule(t, p)
       PROVE  ControlInv'
  BY <1>4, <1>23 DEF StopModule, ControlInv
<1>24. ASSUME NEW t \in Stoppers, StopModuleReturns(t)
       PROVE  ControlInv'
  BY <1>4, <1>24, ThreadsDiffer
     DEF StopModuleReturns, ModuleReturns, Returns, ControlInv
<1>25. ASSUME NEW t \in Stoppers, DestroyingModule(t)
       PROVE  ControlInv'
  BY <1>4, <1>25, ThreadsDiffer
     DEF DestroyingModule, DestroyObject, DestroyPointer, Returns, ControlInv
<1>26. ASSUME NEW t \in Stoppers, StopFinished(t)
       PROVE  ControlInv'
  BY <1>4, <1>26 DEF StopFinished, ControlInv
<1>27. CASE UNCHANGED vars
  BY <1>1, <1>27 DEF vars
<1>28. QED
  BY <1>b, <1>5, <1>6, <1>7, <1>8, <1>9, <1>10, <1>11, <1>12, <1>13, <1>14,
     <1>15, <1>16, <1>17, <1>18, <1>19, <1>20, <1>21, <1>22, <1>23, <1>24,
     <1>25, <1>26, <1>27
     DEF Next, MainStep, StopperStep, RunThreadStep, Exited

-----------------------------------------------------------------------------
(***************************************************************************)
(* The queue.                                                              *)
(***************************************************************************)

(* The queue, its history and the counts stay, and nothing but a message   *)
(* that is not counted starts to be pushed.                                *)
Quiet ==
  /\ UNCHANGED <<messages, sent, taken>>
  /\ continued' => continued
  /\ continued' /\ pendingStop => pendingStop'
  /\ \/ pushing' = pushing
     \/ pushing = << >> /\ pushing' = << >>
     \/ pushing = << >> /\ \E b : pushing' = << b >> /\ b.msg.src = None

(* Pushing a log message disturbs no module's messages.                    *)
LEMMA LogIsQuiet ==
  ASSUME NEW t \in Threads, GenerateLogMessage(t),
         UNCHANGED <<pendingStop, continued, messages, sent, taken>>
  PROVE  Quiet
<1>1. LogMessage.src = None
  BY DEF LogMessage
<1>2. QED
  BY <1>1 DEF GenerateLogMessage, PushModuleMessage, Quiet

(* Nor does pushing a notification that is not counted.                    *)
LEMMA MoreIsQuiet ==
  ASSUME NEW t \in Threads, NotifyMore(t)
  PROVE  Quiet
<1>1. PICK s : PushModuleMessage(t, [category |-> s[1], id |-> s[2], src |-> None, n |-> 0])
  BY DEF NotifyMore
<1>2. QED
  BY <1>1 DEF NotifyMore, PushModuleMessage, Quiet

(* A quiet step keeps what is known of a module's messages.                *)
LEMMA QuietKeepsFlow ==
  ASSUME NEW m \in Modules, FlowInv(m), Quiet,
         continued \in BOOLEAN, pendingStop \in BOOLEAN,
         continued' \in BOOLEAN, pendingStop' \in BOOLEAN
  PROVE  FlowInv(m)'
<1>1. CASE pushing' = pushing
  BY <1>1 DEF Quiet, FlowInv, QueueInv, Ahead, Ordered, Gapless, PushInv,
                LastInv, Queued, Pushed
<1>2. CASE pushing = << >> /\ pushing' = << >>
  BY <1>2 DEF Quiet, FlowInv, QueueInv, Ahead, Ordered, Gapless, PushInv,
                LastInv, Queued, Pushed
<1>3. ASSUME NEW b, pushing = << >>, pushing' = << b >>, b.msg.src = None
      PROVE  FlowInv(m)'
  <2>1. pushing'[1].msg.src # m
    BY <1>3, SchedulerAssumption
  <2>2. ~ Pushed(m, sent[m]) /\ PushInv(m)'
    BY <1>3, <2>1 DEF Pushed, PushInv
  <2>3. QED
    BY <2>2 DEF Quiet, FlowInv, QueueInv, Ahead, Ordered, Gapless, LastInv,
                Queued
<1>4. QED
  BY <1>1, <1>2, <1>3 DEF Quiet

(* Every step other than the end of a push, an asynchronous notification,  *)
(* a pop and the end of the destructor is quiet.                           *)
LEMMA OtherStepsAreQuiet ==
  ASSUME TypeOK, [Next]_vars
  PROVE  \/ Quiet
         \/ PushEnd
         \/ \E t \in Threads : NotifyAsync(t)
         \/ TakeModuleMessage
         \/ DestroyFinished
<1> USE DEF queueVars, countVars
<1>b. Main \in Threads /\ Stoppers \subseteq Threads /\ RunThreads \subseteq Threads
  BY DEF Threads
<1>1. ASSUME UNCHANGED <<pendingStop, continued, messages, pushing, sent, taken>>
      PROVE  Quiet
  BY <1>1 DEF Quiet
<1>2. ASSUME NEW t \in Threads, HandOver(t) \/ NotifyMore(t) \/ NotifySync(t)
      PROVE  Quiet
  BY <1>1, <1>2, MoreIsQuiet DEF HandOver, Assign, AssignReturns, HandleFinished, NotifySync
<1>3. ASSUME NEW t \in Threads, NEW called, ModuleReturns(t, called)
      PROVE  Quiet
  BY <1>3, LogIsQuiet DEF ModuleReturns
<1>4. ASSUME NEW t \in Threads, DestroyingModule(t)
      PROVE  Quiet
  BY <1>1, <1>4, LogIsQuiet DEF DestroyingModule, DestroyObject, DestroyPointer
<1>5. ASSUME Run \/ \E t \in Stoppers : Stop(t)
      PROVE  Quiet
  BY <1>b, <1>5, LogIsQuiet DEF Run, Stop
<1>6. ASSUME NEW p \in Positions,
             \/ RunModule(p) \/ DestroyModule(p)
             \/ \E t \in Stoppers : StopModule(t, p)
      PROVE  Quiet
  BY <1>1, <1>6 DEF RunModule, DestroyModule, StopModule
<1>7. ASSUME RunModulesFinished \/ PopModuleMessage \/ DispatchFinished \/ Destroy
      PROVE  Quiet
  BY <1>1, <1>7 DEF RunModulesFinished, PopModuleMessage, DispatchFinished, Destroy
<1>8. ASSUME CheckStop
      PROVE  Quiet
  BY <1>8 DEF CheckStop, Quiet, TypeOK
<1>9. ASSUME NEW t \in Stoppers, RequestStop(t)
      PROVE  Quiet
  BY <1>9 DEF RequestStop, Quiet
<1>10. ASSUME NEW t \in Stoppers, StopWaited(t) \/ StopFinished(t)
       PROVE  Quiet
  BY <1>1, <1>10 DEF StopWaited, StopFinished
<1>11. CASE UNCHANGED vars
  BY <1>1, <1>11 DEF vars
<1>12. QED
  BY <1>b, <1>2, <1>3, <1>4, <1>5, <1>6, <1>7, <1>8, <1>9, <1>10, <1>11
     DEF Next, MainStep, StopperStep, RunThreadStep, RunModuleInternal,
         StopModuleReturns, Exited

(* What is about to be appended is appended.                               *)
LEMMA PushEndKeepsFlow ==
  ASSUME TypeOK, PushEnd, NEW m \in Modules, FlowInv(m)
  PROVE  FlowInv(m)'
<1> DEFINE msg == pushing[1].msg
           N == Len(messages)
<1>1. /\ messages \in Seq(Message) /\ N \in Nat /\ DOMAIN messages = 1 .. N
      /\ \A i \in 1 .. N : messages[i].n \in Nat
  BY MessagesType
<1>2. /\ messages' = Append(messages, msg) /\ pushing' = << >> /\ pushing # << >>
      /\ UNCHANGED <<pendingStop, continued, taken, sent>>
  BY DEF PushEnd
<1>3. /\ DOMAIN messages' = 1 .. N + 1
      /\ \A i \in 1 .. N : messages'[i] = messages[i]
      /\ messages'[N + 1] = msg
  BY <1>1, <1>2
<1>4. Len(taken[m]) \in Nat /\ sent[m] \in Nat
  BY DEF TypeOK
<1> HIDE DEF msg, N
<1>5. SUFFICES ASSUME continued
               PROVE  QueueInv(m)' /\ PushInv(m)' /\ LastInv(m)'
  BY <1>2 DEF FlowInv
<1>6. QueueInv(m) /\ PushInv(m) /\ LastInv(m)
  BY <1>5 DEF FlowInv
<1>7. \A n : Queued(m, n) => Queued(m, n)'
  BY <1>1, <1>3 DEF Queued
<1>p. msg.src = m =>
        /\ msg.n = sent[m]
        /\ Len(taken[m]) < sent[m]
        /\ \A i \in 1 .. N : messages[i].src = m => messages[i].n < sent[m]
        /\ sent[m] > Len(taken[m]) + 1 =>
             \E j \in 1 .. N : messages[j].src = m /\ messages[j].n = sent[m] - 1
  BY <1>1, <1>2, <1>6 DEF PushInv, Queued, msg
<1>i. /\ \A i \in 1 .. N + 1 : i \in 1 .. N \/ i = N + 1
      /\ \A i \in 1 .. N + 1 : \A j \in 1 .. N + 1 : j < i => j \in 1 .. N
      /\ \A j \in 1 .. N : j \in 1 .. N + 1 /\ j < N + 1
  BY <1>1
<1>8. QueueInv(m)'
  <2>1. Ahead(m)'
    <3>1. ASSUME NEW i \in 1 .. N + 1, messages'[i].src = m
          PROVE  Len(taken[m]) < messages'[i].n /\ messages'[i].n =< sent[m]
      <4>1. CASE i \in 1 .. N
        BY <1>1, <1>3, <1>6, <3>1, <4>1 DEF QueueInv, Ahead
      <4>2. CASE i = N + 1
        BY <1>3, <1>4, <1>p, <3>1, <4>2
      <4>3. QED
        BY <1>i, <4>1, <4>2
    <3>2. QED
      BY <1>2, <1>3, <3>1 DEF Ahead
  <2>2. Ordered(m)'
    <3>1. ASSUME NEW i \in 1 .. N + 1, NEW j \in 1 .. N + 1, j < i,
                 messages'[i].src = m, messages'[j].src = m
          PROVE  messages'[j].n < messages'[i].n
      <4>1. j \in 1 .. N /\ messages'[j] = messages[j]
        BY <1>3, <1>i, <3>1
      <4>2. CASE i \in 1 .. N
        BY <1>1, <1>3, <1>6, <3>1, <4>1, <4>2 DEF QueueInv, Ordered
      <4>3. CASE i = N + 1
        BY <1>3, <1>p, <3>1, <4>1, <4>3
      <4>4. QED
        BY <1>i, <4>2, <4>3
    <3>2. QED
      BY <1>2, <1>3, <3>1 DEF Ordered
  <2>3. Gapless(m)'
    <3>1. ASSUME NEW i \in 1 .. N + 1, messages'[i].src = m,
                 messages'[i].n > Len(taken[m]) + 1
          PROVE  \E j \in 1 .. N + 1 :
                   /\ j < i /\ messages'[j].src = m
                   /\ messages'[j].n = messages'[i].n - 1
      <4>1. CASE i \in 1 .. N
        <5>1. PICK j \in 1 .. N :
                j < i /\ messages[j].src = m /\ messages[j].n = messages[i].n - 1
          BY <1>1, <1>3, <1>6, <3>1, <4>1 DEF QueueInv, Gapless
        <5>2. QED
          BY <1>3, <1>i, <4>1, <5>1
      <4>2. CASE i = N + 1
        <5>1. PICK j \in 1 .. N : messages[j].src = m /\ messages[j].n = sent[m] - 1
          BY <1>3, <1>p, <3>1, <4>2
        <5>2. QED
          BY <1>3, <1>i, <1>p, <3>1, <4>2, <5>1
      <4>3. QED
        BY <1>i, <4>1, <4>2
    <3>2. QED
      BY <1>2, <1>3, <3>1 DEF Gapless
  <2>4. QED
    BY <2>1, <2>2, <2>3 DEF QueueInv
<1>9. PushInv(m)'
  BY <1>2 DEF PushInv
<1>10. LastInv(m)'
  <2>1. Pushed(m, sent[m]) => Queued(m, sent[m])'
    <3>1. N + 1 \in DOMAIN messages' /\ messages'[N + 1] = pushing[1].msg
      BY <1>1, <1>3 DEF msg
    <3>2. QED
      BY <1>2, <3>1 DEF Pushed, Queued
  <2>2. QED
    BY <1>2, <1>6, <1>7, <2>1 DEF LastInv
<1>11. QED
  BY <1>8, <1>9, <1>10

(* An asynchronous notification is accepted only after all earlier ones    *)
(* have been.                                                              *)
LEMMA NotifyKeepsFlow ==
  ASSUME TypeOK, NEW t \in Threads, NotifyAsync(t), NEW m \in Modules, FlowInv(m)
  PROVE  FlowInv(m)'
<1> DEFINE e == Executes(t)
<1>1. e \in Modules /\ sent \in [Modules -> Nat] /\ Len(taken[m]) \in Nat
  BY ExecutesType DEF NotifyAsync, TypeOK
<1>2. PICK s : PushModuleMessage(t, [category |-> s[1], id |-> s[2],
                                     src |-> e, n |-> sent[e] + 1])
  BY DEF NotifyAsync
<1>3. /\ sent' = [sent EXCEPT ![e] = @ + 1]
      /\ UNCHANGED <<pendingStop, continued, messages, taken>>
  BY DEF NotifyAsync
<1>4. \A i \in DOMAIN messages : messages[i].n \in Nat
  BY MessagesType
<1> HIDE DEF e
<1>5. SUFFICES ASSUME continued
               PROVE  QueueInv(m)' /\ PushInv(m)' /\ LastInv(m)'
  BY <1>1, <1>3 DEF FlowInv
<1>6. QueueInv(m) /\ PushInv(m) /\ LastInv(m) /\ Len(taken[m]) =< sent[m]
  BY <1>5 DEF FlowInv
<1>7. QueueInv(m)'
  BY <1>1, <1>3, <1>4, <1>6 DEF QueueInv, Ahead, Ordered, Gapless
<1>8. CASE pendingStop
  <2>1. pushing' = << >>
    BY <1>2, <1>8 DEF PushModuleMessage
  <2>2. QED
    BY <1>3, <1>7, <1>8, <2>1 DEF PushInv, LastInv
<1>9. CASE ~ pendingStop
  <2>1. /\ pushing = << >>
        /\ pushing' = << [by |-> t, msg |-> [category |-> s[1], id |-> s[2],
                                             src |-> e, n |-> sent[e] + 1]] >>
    BY <1>2, <1>9 DEF PushModuleMessage
  <2>2. /\ pushing' # << >>
        /\ pushing'[1].msg.src = e /\ pushing'[1].msg.n = sent[e] + 1
    BY <2>1
  <2>3. sent[m] = Len(taken[m]) \/ Queued(m, sent[m])
    BY <1>6, <1>9, <2>1 DEF LastInv, Pushed
  <2>4. CASE e # m
    BY <1>1, <1>3, <1>7, <2>2, <2>3, <2>4 DEF PushInv, LastInv, Queued
  <2>5. CASE e = m
    <3>1. sent'[m] = sent[m] + 1
      BY <1>1, <1>3, <2>5
    <3>2. PushInv(m)'
      <4>1. \A i \in DOMAIN messages' : messages'[i].src = m => messages'[i].n < sent'[m]
        BY <1>1, <1>3, <1>4, <1>6, <3>1 DEF QueueInv, Ahead
      <4>2. sent'[m] - 1 = sent[m] /\ Len(taken'[m]) < sent'[m]
        BY <1>1, <1>3, <1>6, <3>1
      <4>3. sent'[m] > Len(taken'[m]) + 1 =>
              \E i \in DOMAIN messages : messages[i].src = m /\ messages[i].n = sent[m]
        BY <1>1, <1>3, <2>3, <3>1 DEF Queued
      <4>4. QED
        BY <1>3, <2>2, <2>5, <3>1, <4>1, <4>2, <4>3 DEF PushInv, Queued
    <3>3. LastInv(m)'
      BY <2>2, <2>5, <3>1 DEF LastInv, Pushed
    <3>4. QED
      BY <1>7, <3>2, <3>3
  <2>6. QED
    BY <2>4, <2>5
<1>10. QED
  BY <1>8, <1>9

(* The oldest message of a module is the next one to dispatch.             *)
LEMMA TakeKeepsFlow ==
  ASSUME TypeOK, PopFindsMessage, ControlInv, TakeModuleMessage,
         NEW m \in Modules, FlowInv(m), taken[m] = [i \in 1 .. Len(taken[m]) |-> i]
  PROVE  /\ FlowInv(m)'
         /\ taken'[m] = [i \in 1 .. Len(taken'[m]) |-> i]
<1> DEFINE msg == Head(messages)
           N == Len(messages)
           T == Len(taken[m])
<1>1. /\ messages \in Seq(Message) /\ messages # << >>
      /\ DOMAIN messages = 1 .. N /\ N \in Nat \ {0} /\ msg = messages[1]
      /\ \A i \in 1 .. N : messages[i].n \in Nat
  <2>1. messages # << >>
    BY DEF TakeModuleMessage, PopFindsMessage
  <2>2. QED
    BY <2>1, MessagesType, EmptySeq
<1>2. /\ messages' = Tail(messages)
      /\ taken'[m] = IF m = msg.src THEN Append(taken[m], msg.n) ELSE taken[m]
      /\ UNCHANGED <<pendingStop, continued, pushing, sent>>
  BY DEF TakeModuleMessage, countVars
<1>3. /\ DOMAIN messages' = 1 .. N - 1
      /\ \A i \in 1 .. N - 1 : messages'[i] = messages[i + 1]
      /\ \A i \in 2 .. N : i - 1 \in 1 .. N - 1 /\ messages'[i - 1] = messages[i]
  <2>1. /\ DOMAIN messages' = 1 .. N - 1
        /\ \A i \in 1 .. N - 1 : messages'[i] = messages[i + 1]
    BY <1>1, <1>2
  <2>2. \A i \in 2 .. N : i - 1 \in 1 .. N - 1 /\ (i - 1) + 1 = i
    BY <1>1
  <2>3. QED
    BY <2>1, <2>2
<1>4. T \in Nat /\ sent[m] \in Nat /\ taken[m] \in Seq(Nat)
  BY DEF TypeOK
<1>5. continued
  BY DEF TakeModuleMessage, ControlInv, LoopPlaces
<1>6. QueueInv(m) /\ PushInv(m) /\ LastInv(m) /\ T =< sent[m]
  BY <1>5 DEF FlowInv
<1> HIDE DEF msg, N, T
<1>q. /\ \A i \in 1 .. N : messages[i].src = m => T < messages[i].n /\ messages[i].n =< sent[m]
      /\ \A i, j \in 1 .. N :
           j < i /\ messages[i].src = m /\ messages[j].src = m =>
             messages[j].n < messages[i].n
      /\ \A i \in 1 .. N : messages[i].src = m /\ messages[i].n > T + 1 =>
           \E j \in 1 .. N :
             j < i /\ messages[j].src = m /\ messages[j].n = messages[i].n - 1
  BY <1>1, <1>6 DEF QueueInv, Ahead, Ordered, Gapless, T
<1>o. Ordered(m)'
  <2>1. ASSUME NEW i \in 1 .. N - 1, NEW j \in 1 .. N - 1, j < i,
               messages'[i].src = m, messages'[j].src = m
        PROVE  messages'[j].n < messages'[i].n
    <3>1. i + 1 \in 1 .. N /\ j + 1 \in 1 .. N /\ j + 1 < i + 1
      BY <1>1, <2>1
    <3>2. QED
      BY <1>3, <1>q, <2>1, <3>1
  <2>2. QED
    BY <1>3, <2>1 DEF Ordered
<1>7. CASE msg.src # m
  <2>1. taken'[m] = taken[m] /\ messages[1].src # m
    BY <1>1, <1>2, <1>7
  <2>2. \A i \in 1 .. N : messages[i].src = m => i \in 2 .. N
    BY <1>1, <2>1
  <2>3. \A n : Queued(m, n) => Queued(m, n)'
    BY <1>1, <1>3, <2>2 DEF Queued
  <2>4. \A i \in 1 .. N - 1 : i + 1 \in 1 .. N
    BY <1>1
  <2>5. Ahead(m)'
    <3>1. ASSUME NEW i \in 1 .. N - 1, messages'[i].src = m
          PROVE  T < messages'[i].n /\ messages'[i].n =< sent[m]
      BY <1>3, <1>q, <2>4, <3>1
    <3>2. QED
      BY <1>2, <1>3, <2>1, <3>1 DEF Ahead, T
  <2>6. Gapless(m)'
    <3>1. ASSUME NEW i \in 1 .. N - 1, messages'[i].src = m, messages'[i].n > T + 1
          PROVE  \E j \in 1 .. N - 1 :
                   /\ j < i /\ messages'[j].src = m
                   /\ messages'[j].n = messages'[i].n - 1
      <4>1. PICK k \in 1 .. N :
              /\ k < i + 1 /\ messages[k].src = m
              /\ messages[k].n = messages'[i].n - 1
        BY <1>3, <1>q, <2>4, <3>1
      <4>2. k - 1 \in 1 .. N - 1 /\ k - 1 < i /\ messages'[k - 1] = messages[k]
        BY <1>1, <1>3, <2>2, <4>1
      <4>3. QED
        BY <4>1, <4>2
    <3>2. QED
      BY <1>3, <2>1, <3>1 DEF Gapless, T
  <2>7. PushInv(m)'
    BY <1>1, <1>2, <1>3, <1>6, <2>1, <2>3, <2>4 DEF PushInv
  <2>8. LastInv(m)'
    BY <1>2, <1>6, <2>1, <2>3 DEF LastInv, Pushed
  <2>9. QED
    BY <1>2, <1>6, <1>o, <2>1, <2>5, <2>6, <2>7, <2>8 DEF FlowInv, QueueInv, T
<1>8. CASE msg.src = m
  <2>1. messages[1].n = T + 1
    <3>1. T < messages[1].n
      BY <1>1, <1>8, <1>q
    <3>2. ~ (messages[1].n > T + 1)
      BY <1>1, <1>8, <1>q
    <3>3. QED
      BY <1>1, <1>4, <3>1, <3>2
  <2>2. taken'[m] = Append(taken[m], T + 1)
    BY <1>1, <1>2, <1>8, <2>1
  <2>3. Len(taken'[m]) = T + 1
    BY <1>4, <2>2 DEF T
  <2>4. taken'[m] = [i \in 1 .. T + 1 |-> i]
    BY <1>4, <2>2 DEF T
  <2>5. \A i \in 1 .. N : messages[i].src = m /\ messages[i].n > T + 1 => i \in 2 .. N
    BY <1>1, <1>4, <2>1
  <2>6. \A n \in Nat : n > T + 1 /\ Queued(m, n) => Queued(m, n)'
    BY <1>1, <1>3, <2>5 DEF Queued
  <2>7. \A i \in 1 .. N - 1 : i + 1 \in 1 .. N /\ 1 < i + 1
    BY <1>1
  <2>8. Ahead(m)'
    <3>1. ASSUME NEW i \in 1 .. N - 1, messages'[i].src = m
          PROVE  T + 1 < messages'[i].n /\ messages'[i].n =< sent[m]
      <4>1. /\ messages[i + 1].src = m /\ messages'[i].n = messages[i + 1].n
            /\ i + 1 \in 1 .. N /\ 1 \in 1 .. N /\ 1 < i + 1 /\ messages[1].src = m
        BY <1>1, <1>3, <1>8, <2>7, <3>1
      <4>2. QED
        BY <1>q, <2>1, <4>1
    <3>2. QED
      BY <1>2, <1>3, <2>3, <3>1 DEF Ahead
  <2>9. Gapless(m)'
    <3>1. ASSUME NEW i \in 1 .. N - 1, messages'[i].src = m, messages'[i].n > T + 1 + 1
          PROVE  \E j \in 1 .. N - 1 :
                   /\ j < i /\ messages'[j].src = m
                   /\ messages'[j].n = messages'[i].n - 1
      <4>1. i + 1 \in 1 .. N /\ messages'[i] = messages[i + 1] /\ messages[i + 1].n \in Nat
        BY <1>1, <1>3, <2>7
      <4>2. messages[i + 1].n > T + 1 /\ messages[i + 1].n - 1 > T + 1
        BY <1>4, <3>1, <4>1
      <4>3. PICK k \in 1 .. N :
              /\ k < i + 1 /\ messages[k].src = m
              /\ messages[k].n = messages[i + 1].n - 1
        BY <1>q, <3>1, <4>1, <4>2
      <4>4. k \in 2 .. N
        BY <2>5, <4>2, <4>3
      <4>5. k - 1 \in 1 .. N - 1 /\ k - 1 < i /\ messages'[k - 1] = messages[k]
        BY <1>1, <1>3, <4>3, <4>4
      <4>6. QED
        BY <4>1, <4>3, <4>5
    <3>2. QED
      BY <1>3, <2>3, <3>1 DEF Gapless
  <2>10. PushInv(m)'
    <3>1. SUFFICES ASSUME pushing # << >>, pushing[1].msg.src = m
                   PROVE  /\ pushing[1].msg.n = sent[m]
                          /\ T + 1 < sent[m]
                          /\ \A i \in 1 .. N - 1 :
                               messages'[i].src = m => messages'[i].n < sent[m]
                          /\ sent[m] > T + 1 + 1 => Queued(m, sent[m] - 1)'
      BY <1>2, <1>3, <2>3 DEF PushInv
    <3>2. /\ pushing[1].msg.n = sent[m]
          /\ \A i \in 1 .. N : messages[i].src = m => messages[i].n < sent[m]
          /\ sent[m] > T + 1 => Queued(m, sent[m] - 1)
      BY <1>1, <1>6, <3>1 DEF PushInv, T
    <3>3. T + 1 < sent[m]
      BY <1>1, <1>8, <2>1, <3>2, SMTT(30)
    <3>4. sent[m] > T + 1 + 1 => Queued(m, sent[m] - 1)'
      <4>1. SUFFICES ASSUME sent[m] > T + 1 + 1
                     PROVE  Queued(m, sent[m] - 1)'
        OBVIOUS
      <4>2. sent[m] - 1 \in Nat /\ sent[m] - 1 > T + 1 /\ sent[m] > T + 1
        BY <1>4, <4>1
      <4>3. PICK i \in 1 .. N : messages[i].src = m /\ messages[i].n = sent[m] - 1
        BY <1>1, <3>2, <4>2 DEF Queued
      <4>4. i - 1 \in 1 .. N - 1 /\ messages'[i - 1] = messages[i]
        BY <1>3, <2>5, <4>2, <4>3
      <4>5. sent'[m] = sent[m] /\ DOMAIN messages' = 1 .. N - 1
        BY <1>2, <1>3
      <4>6. QED
        BY <4>3, <4>4, <4>5 DEF Queued
    <3>5. QED
      BY <1>3, <2>7, <3>2, <3>3, <3>4
  <2>11. T + 1 =< sent[m]
    BY <1>1, <1>8, <1>q, <2>1
  <2>12. LastInv(m)'
    <3>1. SUFFICES ASSUME ~ pendingStop, sent[m] # T + 1, ~ Pushed(m, sent[m])
                   PROVE  Queued(m, sent[m])'
      BY <1>2, <2>3 DEF LastInv, Pushed
    <3>2. sent[m] > T + 1 /\ sent[m] # T
      BY <1>4, <2>11, <3>1
    <3>3. Queued(m, sent[m])
      BY <1>6, <3>1, <3>2 DEF LastInv, T
    <3>4. QED
      BY <1>2, <1>4, <2>6, <3>2, <3>3
  <2>13. QED
    BY <1>2, <1>o, <2>3, <2>4, <2>8, <2>9, <2>10, <2>11, <2>12 DEF FlowInv, QueueInv
<1>9. QED
  BY <1>7, <1>8

-----------------------------------------------------------------------------
(***************************************************************************)
(* The theorems.                                                           *)
(***************************************************************************)

(* The invariant holds after the constructor.                              *)
LEMMA InitInv == Init => Inv
<1> SUFFICES ASSUME Init PROVE Inv
  OBVIOUS
<1>1. TypeOK
  BY InitType
<1>2. PopFindsMessage /\ ControlInv
  <2>1. pc[Main] = "created" /\ continued /\ \A t \in Stoppers : pc[t] = "idle"
    BY ThreadsDiffer DEF Init, Threads
  <2>2. QED
    BY <2>1 DEF PopFindsMessage, ControlInv, LoopPlaces, AfterPlaces, StoppingPlaces
<1>3. ASSUME NEW m \in Modules
      PROVE  /\ FlowInv(m)
             /\ taken[m] = [i \in 1 .. Len(taken[m]) |-> i]
  <2>1. taken[m] = << >> /\ Len(taken[m]) = 0 /\ sent[m] = 0 /\ pushing = << >>
    BY <1>3 DEF Init
  <2>2. \A i \in DOMAIN messages : messages[i].src # m
    <3>1. \A i \in DOMAIN CreationLog : CreationLog[i] = LogMessage
      BY SchedulerAssumption
    <3>2. QED
      BY <1>3, <3>1, SchedulerAssumption DEF Init, LogMessage
  <2>3. QueueInv(m)
    BY <2>2 DEF QueueInv, Ahead, Ordered, Gapless
  <2>4. PushInv(m) /\ LastInv(m)
    BY <2>1 DEF PushInv, LastInv
  <2>5. FlowInv(m)
    BY <2>1, <2>3, <2>4 DEF FlowInv
  <2>6. taken[m] = [i \in 1 .. Len(taken[m]) |-> i]
    BY <2>1
  <2>7. QED
    BY <2>5, <2>6
<1>4. QED
  BY <1>1, <1>2, <1>3 DEF Inv, DispatchedIsPrefix

(* The queue is emptied by the main thread only.                           *)
LEMMA PopStep ==
  ASSUME TypeOK, PopFindsMessage, [Next]_vars
  PROVE  PopFindsMessage'
<1> USE DEF PopFindsMessage
<1>a. pc \in [Threads -> Places] /\ Main \in Threads
  BY DEF TypeOK, Threads
<1>1. CASE PushEnd
  <2>1. messages' # << >>
    BY <1>1, MessagesType DEF PushEnd
  <2>2. QED
    BY <2>1
<1>2. CASE TakeModuleMessage \/ DestroyFinished
  BY <1>a, <1>2 DEF TakeModuleMessage, DestroyFinished, Goto
<1>3. CASE PopModuleMessage
  BY <1>a, <1>3 DEF PopModuleMessage, Goto, queueVars
<1>4. ASSUME messages' = messages, pushing' = pushing \/ pushing = << >>,
             pc'[Main] = "take" => pc[Main] = "take"
      PROVE  PopFindsMessage'
  BY <1>4
<1>5. ASSUME NEW t \in Threads, NEW place, Goto(t, place), place # "take"
      PROVE  pc'[Main] = "take" => pc[Main] = "take"
  BY <1>a, <1>5 DEF Goto
<1> HIDE DEF PopFindsMessage
<1>b. Stoppers \subseteq Threads /\ RunThreads \subseteq Threads
  BY DEF Threads
<1>c. \A t \in Threads : Returns(t) # "take"
  BY DEF Returns, Threads
<1>6. ASSUME NEW t \in Threads,
             HandOver(t) \/ NotifyAsync(t) \/ NotifyMore(t) \/ NotifySync(t)
      PROVE  PopFindsMessage'
  BY <1>4, <1>6 DEF HandOver, Assign, AssignReturns, HandleFinished, NotifyAsync,
                    NotifyMore, NotifySync, PushModuleMessage, queueVars
<1>7. ASSUME NEW t \in Threads, NEW called, ModuleReturns(t, called)
      PROVE  PopFindsMessage'
  BY <1>4, <1>5, <1>7, <1>c DEF ModuleReturns, GenerateLogMessage, PushModuleMessage
<1>8. ASSUME NEW t \in Threads, DestroyingModule(t)
      PROVE  PopFindsMessage'
  BY <1>4, <1>5, <1>8, <1>c DEF DestroyingModule, DestroyObject, DestroyPointer,
                                GenerateLogMessage, PushModuleMessage, queueVars
<1>9. ASSUME Run \/ RunModulesFinished \/ DispatchFinished \/ Destroy
      PROVE  PopFindsMessage'
  BY <1>4, <1>5, <1>9, <1>a DEF Run, RunModulesFinished, DispatchFinished, Destroy,
                                GenerateLogMessage, PushModuleMessage, queueVars
<1>10. CASE CheckStop
  BY <1>4, <1>5, <1>10, <1>a DEF CheckStop
<1>11. ASSUME NEW p \in Positions, RunModule(p) \/ DestroyModule(p)
       PROVE  PopFindsMessage'
  BY <1>4, <1>5, <1>11, <1>a, <1>b DEF RunModule, DestroyModule, queueVars
<1>12. ASSUME NEW t \in Stoppers,
              \/ Stop(t) \/ RequestStop(t) \/ StopWaited(t) \/ StopFinished(t)
              \/ \E p \in Positions : StopModule(t, p)
       PROVE  PopFindsMessage'
  BY <1>4, <1>5, <1>12, <1>b
     DEF Stop, RequestStop, StopWaited, StopFinished, StopModule,
         GenerateLogMessage, PushModuleMessage, queueVars
<1>13. CASE UNCHANGED vars
  BY <1>4, <1>13 DEF vars
<1>14. QED
  BY <1>a, <1>b, <1>1, <1>2, <1>3, <1>6, <1>7, <1>8, <1>9, <1>10, <1>11, <1>12, <1>13
     DEF Next, MainStep, StopperStep, RunThreadStep, RunModuleInternal,
         StopModuleReturns, Exited

(* Every step keeps the invariant.                                         *)
LEMMA NextInv ==
  ASSUME Inv, [Next]_vars
  PROVE  Inv'
<1>a. TypeOK /\ PopFindsMessage /\ ControlInv
  BY DEF Inv
<1>1. TypeOK' /\ PopFindsMessage' /\ ControlInv'
  BY <1>a, TypeStep, PopStep, ControlStep
<1>2. ASSUME NEW m \in Modules
      PROVE  /\ FlowInv(m)'
             /\ taken'[m] = [i \in 1 .. Len(taken'[m]) |-> i]
  <2>1. FlowInv(m) /\ taken[m] = [i \in 1 .. Len(taken[m]) |-> i]
    BY DEF Inv, DispatchedIsPrefix
  <2>2. CASE Quiet
    <3>1. /\ continued \in BOOLEAN /\ pendingStop \in BOOLEAN
          /\ continued' \in BOOLEAN /\ pendingStop' \in BOOLEAN
      BY <1>a, <1>1 DEF TypeOK
    <3>2. FlowInv(m)'
      BY <2>1, <2>2, <3>1, QuietKeepsFlow
    <3>3. taken'[m] = taken[m]
      BY <2>2 DEF Quiet
    <3>4. QED
      BY <2>1, <3>2, <3>3
  <2>3. CASE PushEnd
    <3>1. FlowInv(m)' /\ taken' = taken
      BY <1>a, <2>1, <2>3, PushEndKeepsFlow DEF PushEnd
    <3>2. QED
      BY <2>1, <3>1
  <2>4. ASSUME NEW t \in Threads, NotifyAsync(t)
        PROVE  FlowInv(m)' /\ taken'[m] = [i \in 1 .. Len(taken'[m]) |-> i]
    <3>1. FlowInv(m)' /\ taken' = taken
      BY <1>a, <2>1, <2>4, NotifyKeepsFlow DEF NotifyAsync
    <3>2. QED
      BY <2>1, <3>1
  <2>5. CASE TakeModuleMessage
    BY <1>a, <2>1, <2>5, TakeKeepsFlow
  <2>6. CASE DestroyFinished
    <3>1. ~ continued'
      BY <1>a, <2>6 DEF DestroyFinished, ControlInv, AfterPlaces
    <3>2. taken' = taken /\ sent' = sent
      BY <2>6 DEF DestroyFinished, countVars
    <3>3. QED
      BY <2>1, <3>1, <3>2 DEF FlowInv
  <2>7. QED
    BY <1>a, <2>2, <2>3, <2>4, <2>5, <2>6, OtherStepsAreQuiet
<1>3. QED
  BY <1>1, <1>2 DEF Inv, DispatchedIsPrefix

(***************************************************************************)
(* The invariant holds in every state of the running scheduler.            *)
(***************************************************************************)
THEOREM Invariance == Spec => []Inv
<1>1. Init => Inv
  BY InitInv
<1>2. Inv /\ [Next]_vars => Inv'
  BY NextInv
<1>3. QED
  BY <1>1, <1>2, PTL DEF Spec

(***************************************************************************)
(* The state keeps its types.                                              *)
(***************************************************************************)
THEOREM TypeCorrect == Spec => []TypeOK
<1>1. Inv => TypeOK
  BY DEF Inv
<1>2. QED
  BY <1>1, Invariance, PTL

(***************************************************************************)
(* pop_module_message, which reads the size without the lock, never pops   *)
(* from an empty queue, whatever the other threads push.                   *)
(***************************************************************************)
THEOREM PopSafe == Spec => []PopFindsMessage
<1>1. Inv => PopFindsMessage
  BY DEF Inv
<1>2. QED
  BY <1>1, Invariance, PTL

(***************************************************************************)
(* The dispatched messages of a module are its first notifications, each   *)
(* once and in order, whenever and however often stop is called.           *)
(***************************************************************************)
THEOREM PrefixDispatched == Spec => []DispatchedIsPrefix
<1>1. Inv => DispatchedIsPrefix
  BY DEF Inv
<1>2. QED
  BY <1>1, Invariance, PTL

(***************************************************************************)
(* stop reaches the modules only after the main loop has ended.            *)
(***************************************************************************)
THEOREM StopsAfterLoop == Spec => []StoppingAfterLoop
<1>1. Inv => StoppingAfterLoop
  BY DEF Inv, ControlInv, StoppingAfterLoop, LoopPlaces, AfterPlaces, StoppingPlaces
<1>2. QED
  BY <1>1, Invariance, PTL
-----------------------------------------------------------------------------
(***************************************************************************)
(* The tables.  Both properties of ModuleLoader count: the rules of a row, *)
(* and the calls that a message makes.  What is counted is compared        *)
(* through bijections: between the rows of the table and the rules of the  *)
(* reference, and between the calls to a module and the rules that reach   *)
(* it.                                                                     *)
(***************************************************************************)

(* What a bijection is.                                                    *)
LEMMA BijectionFacts ==
  ASSUME NEW A, NEW B, NEW f
  PROVE  f \in Bijection(A, B) <=>
           /\ f \in [A -> B]
           /\ \A a \in A, b \in A : f[a] = f[b] => a = b
           /\ \A b \in B : \E a \in A : f[a] = b
BY DEF Bijection, Injection, Surjection, IsInjective

(* The elements that are mapped into a set are as many as the set has.     *)
LEMMA SameCount ==
  ASSUME NEW A, NEW B, NEW f \in Bijection(A, B), IsFiniteSet(A), NEW C \in SUBSET B,
         NEW D, \A a : a \in D <=> a \in A /\ f[a] \in C
  PROVE  IsFiniteSet(C) /\ IsFiniteSet(D) /\ Cardinality(D) = Cardinality(C)
<1> DEFINE g == [a \in D |-> f[a]]
<1>1. IsFiniteSet(D)
  BY FS_Subset
<1>2. g \in Bijection(D, C)
  <2>1. g \in [D -> C] /\ \A a \in D, b \in D : g[a] = g[b] => a = b
    BY BijectionFacts
  <2>2. \A c \in C : \E a \in D : g[a] = c
    BY BijectionFacts
  <2> QED
    BY <2>1, <2>2, BijectionFacts
<1>3. ExistsBijection(D, C)
  BY <1>2 DEF ExistsBijection
<1> QED
  BY <1>1, <1>3, FS_Bijection

(* InTurn visits every element once, where before is a strict total order. *)
LEMMA InTurnVisits ==
  ASSUME NEW S, IsFiniteSet(S), NEW before \in [S -> SUBSET S],
         \A t \in S : t \notin before[t],
         \A t \in S, u \in S : t # u => t \in before[u] \/ u \in before[t],
         \A t \in S, u \in S : t \in before[u] => before[t] \subseteq before[u]
  PROVE  InTurn(before) \in Bijection(1 .. Cardinality(S), S)
<1> DEFINE n == Cardinality(S)
           rank(t) == Cardinality(before[t])
           place == [t \in S |-> rank(t) + 1]
<1>1. n \in Nat /\ IsFiniteSet(1 .. n) /\ Cardinality(1 .. n) = n
  BY FS_CardinalityType, FS_Interval
<1>2. ASSUME NEW t \in S
      PROVE  IsFiniteSet(before[t]) /\ rank(t) \in 0 .. n - 1
  <2>1. before[t] \in SUBSET (S \ {t})
    OBVIOUS
  <2>2. IsFiniteSet(S \ {t}) /\ Cardinality(S \ {t}) = n - 1
    BY FS_RemoveElement
  <2>3. IsFiniteSet(before[t]) /\ rank(t) <= n - 1
    BY <2>1, <2>2, FS_Subset
  <2> QED
    BY <1>1, <2>3, FS_CardinalityType
<1>3. ASSUME NEW t \in S, NEW u \in S, t \in before[u]
      PROVE  rank(t) < rank(u)
  <2>1. before[t] \in SUBSET (before[u] \ {t})
    BY <1>3
  <2>2. IsFiniteSet(before[u] \ {t}) /\ Cardinality(before[u] \ {t}) = rank(u) - 1
    BY <1>2, <1>3, FS_RemoveElement
  <2>3. rank(t) <= rank(u) - 1
    BY <2>1, <2>2, FS_Subset
  <2> QED
    BY <1>1, <1>2, <2>3
<1> HIDE DEF n, rank
<1>4. place \in Injection(S, 1 .. n)
  <2>1. place \in [S -> 1 .. n]
    BY <1>1, <1>2
  <2>2. ASSUME NEW t \in S, NEW u \in S, place[t] = place[u]
        PROVE  t = u
    <3>1. rank(t) = rank(u) /\ rank(t) \in Nat
      BY <1>1, <1>2, <2>2
    <3> QED
      BY <1>3, <3>1
  <2> QED
    BY <2>1, <2>2 DEF Injection, IsInjective
<1>5. place \in Bijection(S, 1 .. n)
  BY <1>1, <1>4, FS_Injection DEF Bijection, n
<1> HIDE DEF place
<1>11. \A i \in 1 .. n : \E t \in S : place[t] = i
  BY <1>5 DEF Bijection, Surjection
<1> USE DEF place
<1> DEFINE s == InTurn(before)
<1>6. s = [i \in 1 .. n |-> CHOOSE t \in S : rank(t) = i - 1]
  BY DEF InTurn, n, rank
<1>7. ASSUME NEW i \in 1 .. n
      PROVE  s[i] \in S /\ rank(s[i]) = i - 1
  <2>1. PICK t \in S : place[t] = i
    BY <1>11
  <2>2. rank(t) = i - 1
    BY <1>1, <1>2, <2>1
  <2> QED
    BY <1>6, <2>2
<1> HIDE DEF s
<1>8. s \in [1 .. n -> S]
  BY <1>6, <1>7
<1>9. \A i \in 1 .. n, j \in 1 .. n : s[i] = s[j] => i = j
  BY <1>1, <1>7
<1>10. ASSUME NEW t \in S
       PROVE  \E i \in 1 .. n : s[i] = t
  <2>1. place[t] \in 1 .. n /\ place[t] = rank(t) + 1 /\ rank(t) \in Nat
    BY <1>1, <1>2
  <2>2. s[place[t]] \in S /\ rank(s[place[t]]) = rank(t)
    BY <1>7, <2>1
  <2>3. s[place[t]] = t
    BY <1>3, <2>1, <2>2
  <2> QED
    BY <2>1, <2>3
<1> QED
  BY <1>8, <1>9, <1>10, BijectionFacts DEF s, n

(* What is listed once by two lists one after the other.                   *)
LEMMA ListedTogether ==
  ASSUME NEW A, NEW B, A \cap B = {}, NEW a \in Nat, NEW b \in Nat,
         NEW f \in Bijection(1 .. a, A), NEW g \in Bijection(1 .. b, B)
  PROVE  [i \in 1 .. a + b |-> IF i <= a THEN f[i] ELSE g[i - a]]
           \in Bijection(1 .. a + b, A \cup B)
<1>1. f \in [1 .. a -> A] /\ (\A i \in 1 .. a, j \in 1 .. a : f[i] = f[j] => i = j)
      /\ \A t \in A : \E i \in 1 .. a : f[i] = t
  BY BijectionFacts
<1>2. g \in [1 .. b -> B] /\ (\A i \in 1 .. b, j \in 1 .. b : g[i] = g[j] => i = j)
      /\ \A t \in B : \E i \in 1 .. b : g[i] = t
  BY BijectionFacts
<1> DEFINE h == [i \in 1 .. a + b |-> IF i <= a THEN f[i] ELSE g[i - a]]
<1>3. ASSUME NEW i \in 1 .. a + b
      PROVE  \/ i \in 1 .. a /\ h[i] = f[i] /\ h[i] \in A /\ h[i] \notin B
             \/ /\ i \notin 1 .. a /\ i - a \in 1 .. b
                /\ h[i] = g[i - a] /\ h[i] \in B /\ h[i] \notin A
  <2>1. CASE i <= a
    BY <1>1, <2>1
  <2>2. CASE ~(i <= a)
    <3>1. i - a \in 1 .. b /\ h[i] = g[i - a]
      BY <2>2
    <3> QED
      BY <1>2, <2>2, <3>1
  <2> QED
    BY <2>1, <2>2
<1>4. ASSUME NEW t \in A \cup B
      PROVE  \E i \in 1 .. a + b : h[i] = t
  <2>1. CASE t \in A
    <3>1. PICK i \in 1 .. a : f[i] = t
      BY <1>1, <2>1
    <3> QED
      BY <3>1
  <2>2. CASE t \in B
    <3>1. PICK i \in 1 .. b : g[i] = t
      BY <1>2, <2>2
    <3>2. i + a \in 1 .. a + b /\ ~(i + a <= a) /\ (i + a) - a = i
      OBVIOUS
    <3>3. h[i + a] = t
      BY <3>1, <3>2
    <3> QED
      BY <3>2, <3>3
  <2> QED
    BY <2>1, <2>2
<1>5. h = [i \in 1 .. a + b |-> h[i]]
  OBVIOUS
<1> HIDE DEF h
<1>6. h \in [1 .. a + b -> A \cup B]
  BY <1>3, <1>5
<1>7. ASSUME NEW i \in 1 .. a + b, NEW j \in 1 .. a + b, h[i] = h[j]
      PROVE  i = j
  <2>1. CASE i \in 1 .. a
    BY <1>1, <1>3, <1>7, <2>1
  <2>2. CASE i \notin 1 .. a
    <3>1. i - a \in 1 .. b /\ j - a \in 1 .. b /\ g[i - a] = g[j - a]
      BY <1>3, <1>7, <2>2
    <3>2. i - a = j - a
      BY <1>2, <3>1
    <3> QED
      BY <3>2
  <2> QED
    BY <2>1, <2>2
<1>8. h \in Bijection(1 .. a + b, A \cup B)
  BY <1>4, <1>6, <1>7 DEF Bijection, Injection, Surjection, IsInjective
<1> QED
  BY <1>8 DEF h

(* A union of finitely many finite sets is finite.                         *)
LEMMA FiniteUnion ==
  ASSUME NEW S, IsFiniteSet(S), NEW F, \A t \in S : IsFiniteSet(F[t])
  PROVE  IsFiniteSet(UNION {F[t] : t \in S})
<1> DEFINE T == {F[t] : t \in S}
           f == [t \in S |-> F[t]]
<1>1. f \in Surjection(S, T)
  BY DEF Surjection
<1>2. IsFiniteSet(T)
  BY <1>1, FS_Surjection
<1> QED
  BY <1>2, FS_UNION
-----------------------------------------------------------------------------
(* The categories are finitely many.                                       *)
LEMMA FiniteMasks == \A mask \in Mask : IsFiniteSet(mask) /\ mask \subseteq Int
<1>1. \A i, j \in Int : IsFiniteSet(i .. j)
  BY FS_Interval
<1>5. PICK i \in Int, j \in Int : i = 0 /\ j = 31
  OBVIOUS
<1>2. IsFiniteSet(i .. j) /\ i .. j \subseteq Int
  BY <1>1
<1>3. ASSUME NEW mask \in Mask
      PROVE  mask \in SUBSET (i .. j)
  BY <1>5, CategoriesAssumption DEF Mask
<1>4. ASSUME NEW mask \in Mask
      PROVE  IsFiniteSet(mask)
  BY <1>2, <1>3, FS_Subset
<1> QED
  BY <1>2, <1>3, <1>4

(* A module is found by its name, and so is its place in the settings.     *)
LEMMA Found ==
  ASSUME NEW s \in DOMAIN Settings
  PROVE  /\ s \in Nat \ {0}
         /\ Setting(Settings[s].module) = Settings[s]
         /\ LoadIndex(Settings[s].module) = s
         /\ Settings[s].module \in Modules /\ Settings[s].category \in Mask
         /\ Settings[s].imt \in Seq(MsgIds)
<1> DEFINE T == [module : Modules, category : Mask, load : BOOLEAN, imt : Seq(MsgIds)]
<1>3. Settings \in Seq(T)
  BY SettingsAssumption
<1>4. Settings[s] \in T /\ s \in Nat \ {0}
  <2> HIDE DEF T
  <2> QED
    BY <1>3
<1>1. /\ Settings[s] \in [module : Modules, category : Mask, load : BOOLEAN, imt : Seq(MsgIds)]
      /\ s \in Nat \ {0}
  BY <1>4
<1>2. (CHOOSE i \in DOMAIN Settings : Settings[i].module = Settings[s].module) = s
  BY SettingsAssumption
<1> QED
  BY <1>1, <1>2 DEF Setting, LoadIndex

-----------------------------------------------------------------------------
(* The lists that loading builds: only modules of the settings, each in    *)
(* the list of every category of its own and in no other list, and in each *)
(* list in the order in which they were loaded.                            *)
InOrderOfLoading(lists) ==
  /\ lists \in ModuleInfoLists
  /\ \A c \in Categories : \A i \in DOMAIN lists[c] :
       \E s \in DOMAIN Settings : lists[c][i] = Settings[s].module /\ c \in Settings[s].category
  /\ \A c \in Categories : \A i, j \in DOMAIN lists[c] :
       i < j => LoadIndex(lists[c][i]) < LoadIndex(lists[c][j])
  /\ \A c \in Categories : \A i \in DOMAIN lists[c] :
       \A d \in Setting(lists[c][i]).category :
         \E j \in DOMAIN lists[d] : lists[d][j] = lists[c][i]

(* The modules that are in some list.                                      *)
Listed(lists) == { lists[p[1]][p[2]] : p \in PositionsOf(lists) }

(* A position is a category and an index.                                  *)
LEMMA PositionFacts ==
  ASSUME NEW lists \in ModuleInfoLists
  PROVE  /\ \A p \in PositionsOf(lists) :
              /\ p = <<p[1], p[2]>> /\ p[1] \in Categories /\ p[2] \in DOMAIN lists[p[1]]
              /\ p[1] \in Int /\ p[2] \in Int
         /\ \A c \in Categories : \A i \in DOMAIN lists[c] : <<c, i>> \in PositionsOf(lists)
         /\ IsFiniteSet(PositionsOf(lists))
<1>1. \A c \in Categories : c \in Int
  BY CategoriesAssumption
<1>2. \A c \in Categories : DOMAIN lists[c] = 1 .. Len(lists[c]) /\ Len(lists[c]) \in Nat
  BY DEF ModuleInfoLists
<1>3. \A p \in PositionsOf(lists) :
         /\ p = <<p[1], p[2]>> /\ p[1] \in Categories /\ p[2] \in DOMAIN lists[p[1]]
         /\ p[1] \in Int /\ p[2] \in Int
  BY <1>1, <1>2 DEF PositionsOf
<1>4. \A c \in Categories : \A i \in DOMAIN lists[c] : <<c, i>> \in PositionsOf(lists)
  BY DEF PositionsOf
<1> DEFINE F == [c \in Categories |-> {c} \X DOMAIN lists[c]]
<1>5. \A c \in Categories : IsFiniteSet(F[c])
  <2> TAKE c \in Categories
  <2>2. \A i, j \in Int : IsFiniteSet(i .. j)
    BY FS_Interval
  <2>3. IsFiniteSet({c})
    BY FS_Singleton
  <2>1. IsFiniteSet({c}) /\ IsFiniteSet(1 .. Len(lists[c]))
    BY <1>2, <2>2, <2>3
  <2> QED
    BY <1>2, <2>1, FS_Product
<1>6. IsFiniteSet(Categories)
  BY FiniteMasks DEF Mask
<1>7. IsFiniteSet(UNION {F[c] : c \in Categories})
  <2> HIDE DEF F
  <2> QED
    BY <1>5, <1>6, FiniteUnion
<1>8. PositionsOf(lists) = UNION {F[c] : c \in Categories}
  BY DEF PositionsOf
<1> QED
  BY <1>3, <1>4, <1>7, <1>8

(* What is known of a module in a list.                                    *)
LEMMA ListedFacts ==
  ASSUME NEW lists, InOrderOfLoading(lists), NEW c \in Categories, NEW i \in DOMAIN lists[c]
  PROVE  LET m == lists[c][i]
         IN  /\ m \in Listed(lists) /\ c \in Setting(m).category
             /\ \E s \in DOMAIN Settings : m = Settings[s].module /\ LoadIndex(m) = s
                                           /\ Setting(m) = Settings[s]
             /\ m \in Modules /\ Setting(m).category \in Mask /\ Setting(m).imt \in Seq(MsgIds)
             /\ LoadIndex(m) \in Nat
<1>1. PICK s \in DOMAIN Settings :
        lists[c][i] = Settings[s].module /\ c \in Settings[s].category
  BY DEF InOrderOfLoading
<1>2. <<c, i>> \in PositionsOf(lists)
  BY PositionFacts DEF InOrderOfLoading
<1> QED
  BY <1>1, <1>2, Found DEF Listed

(* A module is in a list once, and in the list of each of its categories.  *)
LEMMA ListedOnce ==
  ASSUME NEW lists, InOrderOfLoading(lists)
  PROVE  /\ \A c \in Categories : \A i, j \in DOMAIN lists[c] :
              lists[c][i] = lists[c][j] => i = j
         /\ \A m \in Listed(lists) : \A d \in Categories :
              d \in Setting(m).category <=> \E j \in DOMAIN lists[d] : lists[d][j] = m
<1>1. ASSUME NEW c \in Categories, NEW i \in DOMAIN lists[c], NEW j \in DOMAIN lists[c],
             lists[c][i] = lists[c][j]
      PROVE  i = j
  <2>1. i \in Int /\ j \in Int
    BY DEF InOrderOfLoading, ModuleInfoLists
  <2>2. LoadIndex(lists[c][i]) \in Nat /\ LoadIndex(lists[c][j]) = LoadIndex(lists[c][i])
    BY <1>1, ListedFacts
  <2>3. ~(i < j) /\ ~(j < i)
    BY <2>2 DEF InOrderOfLoading
  <2> QED
    BY <2>1, <2>3
<1>2. ASSUME NEW m \in Listed(lists), NEW d \in Categories
      PROVE  d \in Setting(m).category <=> \E j \in DOMAIN lists[d] : lists[d][j] = m
  <2>1. PICK p \in PositionsOf(lists) : m = lists[p[1]][p[2]]
    BY DEF Listed
  <2>2. p[1] \in Categories /\ p[2] \in DOMAIN lists[p[1]]
    BY PositionFacts DEF InOrderOfLoading
  <2>3. d \in Setting(m).category => \E j \in DOMAIN lists[d] : lists[d][j] = m
    BY <2>1, <2>2 DEF InOrderOfLoading
  <2>4. ASSUME NEW j \in DOMAIN lists[d], lists[d][j] = m
        PROVE  d \in Setting(m).category
    BY <2>4, ListedFacts
  <2> QED
    BY <2>3, <2>4
<1> QED
  BY <1>1, <1>2

(* A module is listed at a position.                                       *)
LEMMA ListedSomewhere ==
  ASSUME NEW lists, InOrderOfLoading(lists), NEW m \in Listed(lists)
  PROVE  \E c \in Categories : \E i \in DOMAIN lists[c] : lists[c][i] = m
<1>1. PICK p \in PositionsOf(lists) : m = lists[p[1]][p[2]]
  BY DEF Listed
<1>2. p[1] \in Categories /\ p[2] \in DOMAIN lists[p[1]]
  BY PositionFacts DEF InOrderOfLoading
<1> QED
  BY <1>1, <1>2

(* Storing the next module keeps the lists in order, and adds that module  *)
(* to what is listed unless it is in no category.                          *)
LEMMA Stored ==
  ASSUME NEW lists, InOrderOfLoading(lists), NEW s \in DOMAIN Settings,
         \A m \in Listed(lists) : LoadIndex(m) < s
  PROVE  LET stored == StoreModuleInfo(lists, Settings[s])
         IN  /\ InOrderOfLoading(stored)
             /\ Listed(stored) = Listed(lists) \cup (IF Settings[s].category = {} THEN {}
                                                     ELSE {Settings[s].module})
<1> DEFINE n == Settings[s].module
           mask == Settings[s].category
           stored == StoreModuleInfo(lists, Settings[s])
<1>1. /\ n \in Modules /\ mask \in Mask /\ s \in Nat
      /\ Setting(n) = Settings[s] /\ LoadIndex(n) = s
  BY Found
<1>2. lists \in [Categories -> Seq(Modules)]
  BY DEF InOrderOfLoading, ModuleInfoLists
<1>3. ASSUME NEW c \in Categories
      PROVE  /\ stored[c] \in Seq(Modules)
             /\ DOMAIN lists[c] \subseteq DOMAIN stored[c]
             /\ Len(lists[c]) \in Nat /\ DOMAIN lists[c] = 1 .. Len(lists[c])
             /\ \A i \in DOMAIN lists[c] : stored[c][i] = lists[c][i]
             /\ \A i \in DOMAIN stored[c] :
                  \/ i \in DOMAIN lists[c]
                  \/ c \in mask /\ stored[c][i] = n /\ i = Len(lists[c]) + 1
             /\ c \in mask => \E i \in DOMAIN stored[c] : stored[c][i] = n
  <2>1. lists[c] \in Seq(Modules)
    BY <1>2
  <2>2. CASE c \in mask
    <3>1. stored[c] = Append(lists[c], n)
      BY <2>2 DEF StoreModuleInfo
    <3> HIDE DEF stored, n, mask
    <3>2. /\ stored[c] \in Seq(Modules) /\ Len(lists[c]) \in Nat
          /\ DOMAIN lists[c] = 1 .. Len(lists[c]) /\ DOMAIN stored[c] = 1 .. Len(lists[c]) + 1
          /\ \A i \in DOMAIN lists[c] : stored[c][i] = lists[c][i]
          /\ stored[c][Len(lists[c]) + 1] = n
      BY <1>1, <2>1, <3>1
    <3>3. \A i \in DOMAIN stored[c] : i \in DOMAIN lists[c] \/ i = Len(lists[c]) + 1
      BY <3>2
    <3>4. DOMAIN lists[c] \subseteq DOMAIN stored[c] /\ Len(lists[c]) + 1 \in DOMAIN stored[c]
      BY <3>2
    <3> QED
      BY <2>2, <3>2, <3>3, <3>4, Zenon
  <2>3. CASE c \notin mask
    <3>1. stored[c] = lists[c]
      BY <2>3 DEF StoreModuleInfo
    <3> HIDE DEF stored, n, mask
    <3>2. Len(lists[c]) \in Nat /\ DOMAIN lists[c] = 1 .. Len(lists[c])
      BY <2>1
    <3> QED
      BY <2>1, <2>3, <3>1, <3>2, Zenon
  <2> QED
    BY <2>2, <2>3
<1>4. stored \in ModuleInfoLists
  <2>1. stored = [c \in Categories |-> stored[c]]
    BY DEF StoreModuleInfo
  <2> HIDE DEF stored
  <2> QED
    BY <1>3, <2>1 DEF ModuleInfoLists
<1> HIDE DEF stored, n, mask
<1> USE DEF n, mask
<1>5. ASSUME NEW c \in Categories, NEW i \in DOMAIN stored[c]
      PROVE  \E t \in DOMAIN Settings : stored[c][i] = Settings[t].module
                                        /\ c \in Settings[t].category
  <2>1. CASE i \in DOMAIN lists[c]
    BY <1>3, <2>1 DEF InOrderOfLoading
  <2>2. CASE c \in mask /\ stored[c][i] = n
    BY <2>2
  <2> QED
    BY <1>3, <2>1, <2>2
<1>6. ASSUME NEW c \in Categories, NEW i \in DOMAIN stored[c], NEW j \in DOMAIN stored[c], i < j
      PROVE  LoadIndex(stored[c][i]) < LoadIndex(stored[c][j])
  <2>1. CASE i \in DOMAIN lists[c] /\ j \in DOMAIN lists[c]
    BY <1>3, <1>6, <2>1 DEF InOrderOfLoading
  <2>2. CASE i \in DOMAIN lists[c] /\ j \notin DOMAIN lists[c]
    <3>1. stored[c][j] = n /\ stored[c][i] = lists[c][i]
      BY <1>3, <2>2
    <3>2. lists[c][i] \in Listed(lists)
      BY <2>2, ListedFacts
    <3> QED
      BY <1>1, <3>1, <3>2
  <2>3. CASE i \notin DOMAIN lists[c]
    <3>1. i = Len(lists[c]) + 1 /\ (j \in DOMAIN lists[c] \/ j = Len(lists[c]) + 1)
      BY <1>3, <2>3
    <3> QED
      BY <1>3, <1>6, <3>1
  <2> QED
    BY <2>1, <2>2, <2>3
<1>7. ASSUME NEW c \in Categories, NEW i \in DOMAIN stored[c],
             NEW d \in Setting(stored[c][i]).category
      PROVE  \E j \in DOMAIN stored[d] : stored[d][j] = stored[c][i]
  <2>1. CASE i \in DOMAIN lists[c]
    <3>1. stored[c][i] = lists[c][i] /\ d \in Setting(lists[c][i]).category
      BY <1>3, <1>7, <2>1
    <3>2. Setting(lists[c][i]).category \in Mask
      BY <2>1, ListedFacts
    <3>3. d \in Categories
      BY <3>1, <3>2 DEF Mask
    <3>4. PICK j \in DOMAIN lists[d] : lists[d][j] = lists[c][i]
      BY <2>1, <3>1 DEF InOrderOfLoading
    <3> QED
      BY <1>3, <3>1, <3>3, <3>4
  <2>2. CASE stored[c][i] = n
    <3>1. d \in mask /\ d \in Categories
      BY <1>1, <1>7, <2>2 DEF Mask
    <3> QED
      BY <1>3, <2>2, <3>1
  <2> QED
    BY <1>3, <2>1, <2>2
<1>8. InOrderOfLoading(stored)
  BY <1>4, <1>5, <1>6, <1>7 DEF InOrderOfLoading
<1>9. ASSUME NEW m
      PROVE  m \in Listed(stored) <=> m \in Listed(lists) \/ (mask # {} /\ m = n)
  <2>1. ASSUME m \in Listed(stored)
        PROVE  m \in Listed(lists) \/ (mask # {} /\ m = n)
    <3>4. PICK c \in Categories : \E i \in DOMAIN stored[c] : stored[c][i] = m
      BY <1>8, <2>1, ListedSomewhere
    <3>1. PICK i \in DOMAIN stored[c] : stored[c][i] = m
      BY <3>4
    <3>2. CASE i \in DOMAIN lists[c]
      BY <1>3, <3>1, <3>2, ListedFacts
    <3>3. CASE c \in mask /\ stored[c][i] = n
      BY <3>1, <3>3
    <3> QED
      BY <1>3, <3>2, <3>3
  <2>2. ASSUME m \in Listed(lists)
        PROVE  m \in Listed(stored)
    <3>4. PICK c \in Categories : \E i \in DOMAIN lists[c] : lists[c][i] = m
      BY <1>8, <2>2, ListedSomewhere
    <3>1. PICK i \in DOMAIN lists[c] : lists[c][i] = m
      BY <3>4
    <3>2. i \in DOMAIN stored[c] /\ stored[c][i] = m
      BY <1>3, <3>1
    <3> QED
      BY <1>8, <3>2, ListedFacts
  <2>3. ASSUME mask # {}
        PROVE  n \in Listed(stored)
    <3>1. PICK c \in Categories : c \in mask
      BY <1>1, <2>3 DEF Mask
    <3>2. PICK i \in DOMAIN stored[c] : stored[c][i] = n
      BY <1>3, <3>1
    <3> QED
      BY <1>8, <3>2, ListedFacts
  <2> QED
    BY <2>1, <2>2, <2>3
<1>10. Listed(stored) = Listed(lists) \cup (IF mask = {} THEN {} ELSE {n})
  BY <1>9
<1> QED
  BY <1>8, <1>10 DEF stored
-----------------------------------------------------------------------------
(* The rules that a load adds for id are made from finitely many readings. *)
LEMMA ReadingFacts ==
  ASSUME NEW lists, InOrderOfLoading(lists), NEW id
  PROVE  /\ IsFiniteSet(Readings(lists, id))
         /\ \A v \in Readings(lists, id) :
              /\ v = <<v[1], v[2]>>
              /\ v[1] = <<v[1][1], v[1][2]>> /\ v[2] = <<v[2][1], v[2][2]>>
              /\ v[1][1] \in Categories /\ v[1][2] \in DOMAIN lists[v[1][1]]
              /\ v[1][1] \in Int /\ v[1][2] \in Int /\ v[2][1] \in Int /\ v[2][2] \in Int
              /\ v[2][1] \in Declared(lists[v[1][1]][v[1][2]], id)
              /\ v[2][2] \in Setting(lists[v[1][1]][v[1][2]]).category
         /\ \A c \in Categories : \A i \in DOMAIN lists[c] :
              \A k \in Declared(lists[c][i], id) : \A d \in Setting(lists[c][i]).category :
                <<<<c, i>>, <<k, d>>>> \in Readings(lists, id)
<1> DEFINE P == PositionsOf(lists)
           F == [p \in P |-> LoadImt(lists, p, id)]
<1>1. ASSUME NEW p \in P
      PROVE  LET m == lists[p[1]][p[2]]
             IN  /\ p = <<p[1], p[2]>> /\ p[1] \in Categories /\ p[2] \in DOMAIN lists[p[1]]
                 /\ p[1] \in Int /\ p[2] \in Int
                 /\ LoadImt(lists, p, id) = {p} \X (Declared(m, id) \X Setting(m).category)
                 /\ IsFiniteSet(Declared(m, id)) /\ IsFiniteSet(Setting(m).category)
                 /\ Declared(m, id) \subseteq Int /\ Setting(m).category \subseteq Int
  <2> DEFINE m == lists[p[1]][p[2]]
  <2>1. p = <<p[1], p[2]>> /\ p[1] \in Categories /\ p[2] \in DOMAIN lists[p[1]]
        /\ p[1] \in Int /\ p[2] \in Int
    BY PositionFacts DEF InOrderOfLoading
  <2>2. Setting(m).category \in Mask /\ Setting(m).imt \in Seq(MsgIds)
    BY <2>1, ListedFacts
  <2>3. LoadImt(lists, p, id) = {p} \X (Declared(m, id) \X Setting(m).category)
    BY DEF LoadImt, Declared
  <2>4. IsFiniteSet(Setting(m).category) /\ Setting(m).category \subseteq Int
    BY <2>2, FiniteMasks
  <2> DEFINE imt == Setting(m).imt
  <2>5. DOMAIN imt = 1 .. Len(imt) /\ Len(imt) \in Nat
    <3> HIDE DEF imt
    <3> QED
      BY <2>2 DEF imt
  <2>6. \A i, j \in Int : IsFiniteSet(i .. j)
    BY FS_Interval
  <2>7. IsFiniteSet(DOMAIN imt) /\ DOMAIN imt \subseteq Int
    BY <2>5, <2>6
  <2>8. Declared(m, id) \in SUBSET DOMAIN imt
    BY DEF Declared
  <2>9. IsFiniteSet(Declared(m, id)) /\ Declared(m, id) \subseteq Int
    BY <2>7, <2>8, FS_Subset
  <2> QED
    BY <2>1, <2>3, <2>4, <2>9
<1>2. ASSUME NEW p \in P
      PROVE  IsFiniteSet(F[p])
  <2> DEFINE D == Declared(lists[p[1]][p[2]], id)
             E == Setting(lists[p[1]][p[2]]).category
  <2>1. F[p] = {p} \X (D \X E) /\ IsFiniteSet(D) /\ IsFiniteSet(E)
    BY <1>1
  <2> HIDE DEF D, E, F
  <2>2. IsFiniteSet({p})
    BY FS_Singleton
  <2>3. IsFiniteSet(D \X E)
    BY <2>1, FS_Product
  <2>4. IsFiniteSet({p} \X (D \X E))
    BY <2>2, <2>3, FS_Product
  <2> QED
    BY <2>1, <2>4
<1>3. IsFiniteSet(P)
  BY PositionFacts DEF InOrderOfLoading
<1>4. IsFiniteSet(UNION {F[p] : p \in P})
  <2> HIDE DEF F, P
  <2> QED
    BY <1>2, <1>3, FiniteUnion
<1>5. Readings(lists, id) = UNION {F[p] : p \in P}
  BY DEF Readings
<1>6. IsFiniteSet(Readings(lists, id))
  BY <1>4, <1>5
<1>7. ASSUME NEW v \in Readings(lists, id)
      PROVE  /\ v = <<v[1], v[2]>> /\ v[1] = <<v[1][1], v[1][2]>> /\ v[2] = <<v[2][1], v[2][2]>>
             /\ v[1][1] \in Categories /\ v[1][2] \in DOMAIN lists[v[1][1]]
             /\ v[1][1] \in Int /\ v[1][2] \in Int /\ v[2][1] \in Int /\ v[2][2] \in Int
             /\ v[2][1] \in Declared(lists[v[1][1]][v[1][2]], id)
             /\ v[2][2] \in Setting(lists[v[1][1]][v[1][2]]).category
  <2>1. PICK p \in P : v \in LoadImt(lists, p, id)
    BY DEF Readings
  <2> DEFINE D == Declared(lists[p[1]][p[2]], id)
             E == Setting(lists[p[1]][p[2]]).category
  <2>2. /\ p = <<p[1], p[2]>> /\ p[1] \in Categories /\ p[2] \in DOMAIN lists[p[1]]
        /\ p[1] \in Int /\ p[2] \in Int /\ v \in {p} \X (D \X E)
        /\ D \subseteq Int /\ E \subseteq Int
    BY <1>1, <2>1
  <2> HIDE DEF D, E
  <2>3. v = <<v[1], v[2]>> /\ v[1] = p /\ v[2] = <<v[2][1], v[2][2]>>
        /\ v[2][1] \in D /\ v[2][2] \in E
    BY <2>2
  <2> QED
    BY <2>2, <2>3 DEF D, E
<1>8. ASSUME NEW c \in Categories, NEW i \in DOMAIN lists[c],
             NEW k \in Declared(lists[c][i], id), NEW d \in Setting(lists[c][i]).category
      PROVE  <<<<c, i>>, <<k, d>>>> \in Readings(lists, id)
  <2>1. <<c, i>> \in P
    BY PositionFacts DEF InOrderOfLoading
  <2>2. <<<<c, i>>, <<k, d>>>> \in LoadImt(lists, <<c, i>>, id)
    BY DEF LoadImt, Declared
  <2> QED
    BY <2>1, <2>2 DEF Readings
<1> QED
  BY <1>6, <1>7, <1>8

(* The order in which a load reads the declarations of id.                 *)
ReadingTurns(lists, id) ==
  InTurn([v \in Readings(lists, id) |-> { u \in Readings(lists, id) : ReadBefore(u, v) }])

(* Every reading has its turn.                                             *)
LEMMA EveryReadingInTurn ==
  ASSUME NEW lists, InOrderOfLoading(lists), NEW id
  PROVE  /\ Cardinality(Readings(lists, id)) \in Nat
         /\ ReadingTurns(lists, id)
              \in Bijection(1 .. Cardinality(Readings(lists, id)), Readings(lists, id))
<1> DEFINE R == Readings(lists, id)
           before == [v \in R |-> {u \in R : ReadBefore(u, v)}]
<1>1. IsFiniteSet(R)
  BY ReadingFacts
<1>2. \A v \in R : /\ v = <<v[1], v[2]>>
                   /\ v[1] = <<v[1][1], v[1][2]>> /\ v[2] = <<v[2][1], v[2][2]>>
                   /\ v[1][1] \in Int /\ v[1][2] \in Int /\ v[2][1] \in Int /\ v[2][2] \in Int
  BY ReadingFacts
<1> HIDE DEF R
<1>3. before \in [R -> SUBSET R]
  OBVIOUS
<1>4. \A v \in R : v \notin before[v]
  BY <1>2 DEF ReadBefore, Before
<1>5. ASSUME NEW u \in R, NEW v \in R, u # v
      PROVE  u \in before[v] \/ v \in before[u]
  <2>1. \/ u[1][1] # v[1][1] \/ u[1][2] # v[1][2] \/ u[2][1] # v[2][1] \/ u[2][2] # v[2][2]
    BY <1>2, <1>5
  <2>2. ReadBefore(u, v) \/ ReadBefore(v, u)
    <3>1. CASE u[1][1] # v[1][1]
      BY <1>2, <3>1 DEF ReadBefore, Before
    <3>2. CASE u[1][1] = v[1][1] /\ u[1][2] # v[1][2]
      BY <1>2, <3>2 DEF ReadBefore, Before
    <3>3. CASE u[1][1] = v[1][1] /\ u[1][2] = v[1][2]
      <4>1. u[1] = v[1]
        BY <1>2, <3>3
      <4> QED
        BY <1>2, <2>1, <3>3, <4>1 DEF ReadBefore, Before
    <3> QED
      BY <3>1, <3>2, <3>3
  <2> QED
    BY <2>2
<1>6. ASSUME NEW t \in R, NEW u \in R, NEW v \in R, ReadBefore(t, u), ReadBefore(u, v)
      PROVE  ReadBefore(t, v)
  BY <1>2, <1>6 DEF ReadBefore, Before
<1>7. \A u \in R, v \in R : u \in before[v] => before[u] \subseteq before[v]
  BY <1>6
<1> HIDE DEF before
<1>8. InTurn(before) \in Bijection(1 .. Cardinality(R), R)
  BY <1>1, <1>3, <1>4, <1>5, <1>7, InTurnVisits
<1>9. Cardinality(R) \in Nat
  BY <1>1, FS_CardinalityType
<1> QED
  BY <1>8, <1>9 DEF ReadingTurns, R, before

-----------------------------------------------------------------------------
(* The rules for id when the modules of L have been loaded, and what the   *)
(* load of n adds to them.                                                 *)
RulesWhenLoaded(L, id) ==
  UNION { {m} \X Setting(m).category \X Declared(m, id)
              \X { n \in L : LoadIndex(n) >= LoadIndex(m) } \X Setting(m).category : m \in L }

RulesFromLoad(L, n, id) == { r \in RulesWhenLoaded(L, id) : r[4] = n }

(* What a rule consists of.                                                *)
LEMMA RuleParts ==
  ASSUME NEW L, NEW id
  PROVE  /\ \A r \in RulesWhenLoaded(L, id) :
              /\ r = <<r[1], r[2], r[3], r[4], r[5]>>
              /\ r[1] \in L /\ r[2] \in Setting(r[1]).category /\ r[3] \in Declared(r[1], id)
              /\ r[4] \in L /\ LoadIndex(r[4]) >= LoadIndex(r[1])
              /\ r[5] \in Setting(r[1]).category
         /\ \A m, n \in L : LoadIndex(n) >= LoadIndex(m) =>
              \A d, c \in Setting(m).category : \A k \in Declared(m, id) :
                <<m, d, k, n, c>> \in RulesWhenLoaded(L, id)
<1> DEFINE After(m) == { n \in L : LoadIndex(n) >= LoadIndex(m) }
           F(m) == {m} \X Setting(m).category \X Declared(m, id) \X After(m)
                     \X Setting(m).category
<1>1. \A r : r \in RulesWhenLoaded(L, id) <=> \E m \in L : r \in F(m)
  BY DEF RulesWhenLoaded
<1>2. ASSUME NEW m, NEW r \in F(m)
      PROVE  /\ r = <<r[1], r[2], r[3], r[4], r[5]>> /\ r[1] = m
             /\ r[2] \in Setting(m).category /\ r[3] \in Declared(m, id)
             /\ r[4] \in After(m) /\ r[5] \in Setting(m).category
  <2> HIDE DEF After
  <2> QED
    OBVIOUS
<1>3. ASSUME NEW m, NEW d \in Setting(m).category, NEW c \in Setting(m).category,
             NEW k \in Declared(m, id), NEW n \in After(m)
      PROVE  <<m, d, k, n, c>> \in F(m)
  <2> HIDE DEF After
  <2> QED
    OBVIOUS
<1> HIDE DEF F
<1>4. ASSUME NEW r \in RulesWhenLoaded(L, id)
      PROVE  /\ r = <<r[1], r[2], r[3], r[4], r[5]>>
             /\ r[1] \in L /\ r[2] \in Setting(r[1]).category /\ r[3] \in Declared(r[1], id)
             /\ r[4] \in L /\ LoadIndex(r[4]) >= LoadIndex(r[1])
             /\ r[5] \in Setting(r[1]).category
  <2>1. PICK m \in L : r \in F(m)
    BY <1>1
  <2> QED
    BY <1>2, <2>1
<1>5. ASSUME NEW m \in L, NEW n \in L, LoadIndex(n) >= LoadIndex(m),
             NEW d \in Setting(m).category, NEW c \in Setting(m).category,
             NEW k \in Declared(m, id)
      PROVE  <<m, d, k, n, c>> \in RulesWhenLoaded(L, id)
  <2>1. n \in After(m)
    BY <1>5
  <2> QED
    BY <1>1, <1>3, <2>1
<1> QED
  BY <1>4, <1>5

(* Loading n leaves the rules that there are and adds rules of its own.    *)
LEMMA RulesGrow ==
  ASSUME NEW L, NEW n, n \notin L, \A m \in L : LoadIndex(m) \in Nat, LoadIndex(n) \in Nat,
         \A m \in L : LoadIndex(m) < LoadIndex(n), NEW id
  PROVE  /\ RulesWhenLoaded(L \cup {n}, id)
              = RulesWhenLoaded(L, id) \cup RulesFromLoad(L \cup {n}, n, id)
         /\ RulesWhenLoaded(L, id) \cap RulesFromLoad(L \cup {n}, n, id) = {}
<1>1. ASSUME NEW r \in RulesWhenLoaded(L, id)
      PROVE  r \in RulesWhenLoaded(L \cup {n}, id) /\ r[4] # n
  <2>1. /\ r = <<r[1], r[2], r[3], r[4], r[5]>>
        /\ r[1] \in L /\ r[2] \in Setting(r[1]).category /\ r[3] \in Declared(r[1], id)
        /\ r[4] \in L /\ LoadIndex(r[4]) >= LoadIndex(r[1])
        /\ r[5] \in Setting(r[1]).category
    BY RuleParts
  <2>2. r[1] \in L \cup {n} /\ r[4] \in L \cup {n}
    BY <2>1
  <2>3. <<r[1], r[2], r[3], r[4], r[5]>> \in RulesWhenLoaded(L \cup {n}, id)
    BY <2>1, <2>2, RuleParts
  <2> QED
    BY <2>1, <2>3
<1>2. ASSUME NEW r \in RulesWhenLoaded(L \cup {n}, id), r[4] # n
      PROVE  r \in RulesWhenLoaded(L, id)
  <2>1. /\ r = <<r[1], r[2], r[3], r[4], r[5]>>
        /\ r[1] \in L \cup {n} /\ r[2] \in Setting(r[1]).category /\ r[3] \in Declared(r[1], id)
        /\ r[4] \in L \cup {n} /\ LoadIndex(r[4]) >= LoadIndex(r[1])
        /\ r[5] \in Setting(r[1]).category
    BY RuleParts
  <2>2. r[4] \in L /\ r[1] \in L
    <3>1. r[4] \in L
      BY <1>2, <2>1
    <3>2. LoadIndex(r[4]) < LoadIndex(n) /\ LoadIndex(r[4]) \in Nat
      BY <3>1
    <3>3. r[1] # n
      BY <2>1, <3>2
    <3> QED
      BY <2>1, <3>1, <3>3
  <2>3. <<r[1], r[2], r[3], r[4], r[5]>> \in RulesWhenLoaded(L, id)
    BY <2>1, <2>2, RuleParts
  <2> QED
    BY <2>1, <2>3
<1> QED
  BY <1>1, <1>2 DEF RulesFromLoad

(* What is read at the load of n, the last one, are the rules that it adds.*)
LEMMA ReadingsMakeRules ==
  ASSUME NEW lists, InOrderOfLoading(lists), NEW n \in Listed(lists),
         \A m \in Listed(lists) : LoadIndex(m) =< LoadIndex(n), NEW id
  PROVE  [v \in Readings(lists, id) |->
            <<lists[v[1][1]][v[1][2]], v[1][1], v[2][1], n, v[2][2]>>]
              \in Bijection(Readings(lists, id), RulesFromLoad(Listed(lists), n, id))
<1> DEFINE L == Listed(lists)
           R == Readings(lists, id)
           N == RulesFromLoad(L, n, id)
           mod(v) == lists[v[1][1]][v[1][2]]
           h == [v \in R |-> <<mod(v), v[1][1], v[2][1], n, v[2][2]>>]
<1>1. ASSUME NEW v \in R
      PROVE  /\ v = <<v[1], v[2]>> /\ v[1] = <<v[1][1], v[1][2]>> /\ v[2] = <<v[2][1], v[2][2]>>
             /\ v[1][1] \in Categories /\ v[1][2] \in DOMAIN lists[v[1][1]]
             /\ v[2][1] \in Declared(mod(v), id) /\ v[2][2] \in Setting(mod(v)).category
             /\ mod(v) \in L /\ v[1][1] \in Setting(mod(v)).category
             /\ LoadIndex(mod(v)) \in Nat
  <2>1. /\ v = <<v[1], v[2]>> /\ v[1] = <<v[1][1], v[1][2]>> /\ v[2] = <<v[2][1], v[2][2]>>
        /\ v[1][1] \in Categories /\ v[1][2] \in DOMAIN lists[v[1][1]]
        /\ v[2][1] \in Declared(mod(v), id) /\ v[2][2] \in Setting(mod(v)).category
    BY ReadingFacts
  <2>2. mod(v) \in L /\ v[1][1] \in Setting(mod(v)).category /\ LoadIndex(mod(v)) \in Nat
    BY <2>1, ListedFacts
  <2> QED
    BY <2>1, <2>2
<1>2. ASSUME NEW v \in R
      PROVE  h[v] \in N
  <2>1. LoadIndex(n) >= LoadIndex(mod(v))
    BY <1>1
  <2> HIDE DEF L
  <2>2. <<mod(v), v[1][1], v[2][1], n, v[2][2]>> \in RulesWhenLoaded(L, id)
    <3>1. n \in L
      BY DEF L
    <3> HIDE DEF mod, R
    <3> QED
      BY <1>1, <2>1, <3>1, RuleParts
  <2> QED
    BY <2>2 DEF RulesFromLoad
<1>3. h \in [R -> N]
  BY <1>2
<1>4. ASSUME NEW u \in R, NEW v \in R, h[u] = h[v]
      PROVE  u = v
  <2>1. mod(u) = mod(v) /\ u[1][1] = v[1][1] /\ u[2][1] = v[2][1] /\ u[2][2] = v[2][2]
    BY <1>4
  <2>2. u[1][2] = v[1][2]
    BY <1>1, <2>1, ListedOnce
  <2> QED
    BY <1>1, <2>1, <2>2
<1>5. ASSUME NEW r \in N
      PROVE  \E v \in R : h[v] = r
  <2>1. /\ r = <<r[1], r[2], r[3], n, r[5]>>
        /\ r[1] \in L /\ r[2] \in Setting(r[1]).category /\ r[3] \in Declared(r[1], id)
        /\ r[5] \in Setting(r[1]).category
    BY RuleParts DEF RulesFromLoad
  <2>2. r[2] \in Categories
    <3>1. PICK c \in Categories : \E i \in DOMAIN lists[c] : lists[c][i] = r[1]
      BY <2>1, ListedSomewhere
    <3>2. Setting(r[1]).category \in Mask
      BY <3>1, ListedFacts
    <3> QED
      BY <2>1, <3>2 DEF Mask
  <2>3. PICK j \in DOMAIN lists[r[2]] : lists[r[2]][j] = r[1]
    BY <2>1, <2>2, ListedOnce
  <2> DEFINE v == <<<<r[2], j>>, <<r[3], r[5]>>>>
  <2>4. v \in R
    BY <2>1, <2>2, <2>3, ReadingFacts
  <2>5. mod(v) = r[1] /\ v[1][1] = r[2] /\ v[2][1] = r[3] /\ v[2][2] = r[5]
    BY <2>3
  <2>6. h[v] = <<mod(v), v[1][1], v[2][1], n, v[2][2]>>
    BY <2>4
  <2> HIDE DEF v, h, mod
  <2>7. h[v] = <<r[1], r[2], r[3], n, r[5]>>
    BY <2>5, <2>6
  <2> QED
    BY <2>1, <2>4, <2>7
<1> QED
  <2> HIDE DEF h, N, R
  <2>1. h \in Bijection(R, N)
    BY <1>3, <1>4, <1>5 DEF Bijection, Injection, Surjection, IsInjective
  <2> QED
    BY <2>1 DEF h, N, R
-----------------------------------------------------------------------------
(* A row of the rule table holds a broadcast rule for each of a set of     *)
(* rules, in some order.                                                   *)
Tabled(row, rules) ==
  /\ row \in Seq(Rule)
  /\ \E f \in Bijection(1 .. Len(row), rules) :
       \A i \in 1 .. Len(row) : row[i] = [to |-> {f[i][5]}, broadcast |-> TRUE]

(* What loading a module appends to the row of id.                         *)
NewRules(lists, id) ==
  [i \in DOMAIN ReadingTurns(lists, id) |->
     [to |-> {ReadingTurns(lists, id)[i][2][2]}, broadcast |-> TRUE]]

(* A load appends to each row what it reads, in that order.                *)
LEMMA AppendedRow ==
  ASSUME NEW lists, NEW table, NEW id \in MsgIds
  PROVE  LoadModuleImt(lists, table)[id] = table[id] \o NewRules(lists, id)
BY DEF LoadModuleImt, NewRules, ReadingTurns

(* The rules that the load of n, the last one, appends.                    *)
LEMMA NewRulesTabled ==
  ASSUME NEW lists, InOrderOfLoading(lists), NEW n \in Listed(lists),
         \A m \in Listed(lists) : LoadIndex(m) =< LoadIndex(n), NEW id
  PROVE  Tabled(NewRules(lists, id), RulesFromLoad(Listed(lists), n, id))
<1> DEFINE R == Readings(lists, id)
           t == ReadingTurns(lists, id)
           b == Cardinality(R)
           N == RulesFromLoad(Listed(lists), n, id)
           h == [v \in R |-> <<lists[v[1][1]][v[1][2]], v[1][1], v[2][1], n, v[2][2]>>]
           row == NewRules(lists, id)
           f == [i \in 1 .. b |-> h[t[i]]]
<1>1. b \in Nat /\ t \in Bijection(1 .. b, R)
  BY EveryReadingInTurn
<1>2. h \in Bijection(R, N)
  BY ReadingsMakeRules
<1>3. \A v \in R : v[2][2] \in Categories
  <2> TAKE v \in R
  <2>1. v[1][1] \in Categories /\ v[1][2] \in DOMAIN lists[v[1][1]]
        /\ v[2][2] \in Setting(lists[v[1][1]][v[1][2]]).category
    BY ReadingFacts
  <2>2. Setting(lists[v[1][1]][v[1][2]]).category \in Mask
    BY <2>1, ListedFacts
  <2> QED
    BY <2>1, <2>2 DEF Mask
<1>4. \A v \in R : h[v][5] = v[2][2]
  OBVIOUS
<1> HIDE DEF R, N, h
<1>5. f \in Bijection(1 .. b, N)
  <2> HIDE DEF t, b
  <2> QED
    BY <1>1, <1>2, Fun_BijTransitive
<1>6. t \in [1 .. b -> R]
  BY <1>1 DEF Bijection, Injection
<1>7. row = [i \in 1 .. b |-> [to |-> {t[i][2][2]}, broadcast |-> TRUE]]
  BY <1>6 DEF NewRules
<1>8. \A i \in 1 .. b : t[i] \in R /\ f[i][5] = t[i][2][2] /\ t[i][2][2] \in Categories
  BY <1>3, <1>4, <1>6
<1> HIDE DEF t, f, b, row
<1>9. \A i \in 1 .. b : [to |-> {t[i][2][2]}, broadcast |-> TRUE] \in Rule
  BY <1>8 DEF Rule, Mask
<1>10. row \in Seq(Rule) /\ Len(row) = b
  <2>1. row \in [1 .. b -> Rule]
    BY <1>7, <1>9
  <2> QED
    BY <1>1, <2>1, SeqDef, LenProperties
<1>11. \A i \in 1 .. b : row[i] = [to |-> {f[i][5]}, broadcast |-> TRUE]
  BY <1>7, <1>8
<1>12. Tabled(row, N)
  BY <1>5, <1>10, <1>11 DEF Tabled
<1> QED
  BY <1>12 DEF row, N

(* A row that another is appended to.                                      *)
LEMMA TabledTogether ==
  ASSUME NEW row, NEW A, Tabled(row, A), NEW more, NEW B, Tabled(more, B), A \cap B = {}
  PROVE  Tabled(row \o more, A \cup B)
<1> DEFINE a == Len(row)
           b == Len(more)
           all == row \o more
<1>1. PICK f \in Bijection(1 .. a, A) :
         \A i \in 1 .. a : row[i] = [to |-> {f[i][5]}, broadcast |-> TRUE]
  BY DEF Tabled
<1>2. PICK g \in Bijection(1 .. b, B) :
         \A i \in 1 .. b : more[i] = [to |-> {g[i][5]}, broadcast |-> TRUE]
  BY DEF Tabled
<1>3. row \in Seq(Rule) /\ more \in Seq(Rule) /\ a \in Nat /\ b \in Nat
  BY DEF Tabled
<1>4. /\ all \in Seq(Rule) /\ Len(all) = a + b
      /\ \A i \in 1 .. a + b : all[i] = IF i <= a THEN row[i] ELSE more[i - a]
  BY <1>3, ConcatProperties
<1> HIDE DEF a, b, all
<1> DEFINE e == [i \in 1 .. a + b |-> IF i <= a THEN f[i] ELSE g[i - a]]
<1>5. e \in Bijection(1 .. a + b, A \cup B)
  BY <1>3, ListedTogether
<1>6. ASSUME NEW i \in 1 .. a + b
      PROVE  all[i] = [to |-> {e[i][5]}, broadcast |-> TRUE]
  <2>1. CASE i <= a
    <3>1. i \in 1 .. a /\ all[i] = row[i] /\ e[i] = f[i]
      BY <1>3, <1>4, <2>1
    <3> QED
      BY <1>1, <3>1
  <2>2. CASE ~(i <= a)
    <3>1. i - a \in 1 .. b /\ all[i] = more[i - a] /\ e[i] = g[i - a]
      BY <1>3, <1>4, <2>2
    <3> QED
      BY <1>2, <3>1
  <2> QED
    BY <2>1, <2>2
<1> HIDE DEF e
<1> QED
  BY <1>4, <1>5, <1>6 DEF Tabled, all

(* The table after the load of n.                                          *)
LEMMA TableGrows ==
  ASSUME NEW lists, InOrderOfLoading(lists), NEW L, NEW n, n \notin L,
         Listed(lists) = L \cup {n}, \A m \in L : LoadIndex(m) < LoadIndex(n),
         NEW table, NEW id \in MsgIds, Tabled(table[id], RulesWhenLoaded(L, id))
  PROVE  Tabled(LoadModuleImt(lists, table)[id], RulesWhenLoaded(Listed(lists), id))
<1>1. \A m \in Listed(lists) : LoadIndex(m) \in Nat
  <2> TAKE m \in Listed(lists)
  <2>1. PICK c \in Categories : \E i \in DOMAIN lists[c] : lists[c][i] = m
    BY ListedSomewhere
  <2> QED
    BY <2>1, ListedFacts
<1>2. n \in Listed(lists) /\ \A m \in Listed(lists) : LoadIndex(m) =< LoadIndex(n)
  BY <1>1
<1>3. Tabled(NewRules(lists, id), RulesFromLoad(Listed(lists), n, id))
  BY <1>2, NewRulesTabled
<1>4. /\ RulesWhenLoaded(L \cup {n}, id)
           = RulesWhenLoaded(L, id) \cup RulesFromLoad(L \cup {n}, n, id)
      /\ RulesWhenLoaded(L, id) \cap RulesFromLoad(L \cup {n}, n, id) = {}
  BY <1>1, RulesGrow
<1>5. Tabled(table[id] \o NewRules(lists, id),
             RulesWhenLoaded(L, id) \cup RulesFromLoad(Listed(lists), n, id))
  BY <1>3, <1>4, TabledTogether
<1> QED
  BY <1>4, <1>5, AppendedRow

-----------------------------------------------------------------------------
(* The inductive invariant of the tables.                                  *)
TablesInv ==
  /\ next \in 1 .. Len(Settings) + 1
  /\ logs \in Nat
  /\ phase \in {"loading", "ready", "failed"}
  /\ InOrderOfLoading(infos)
  /\ \A m \in Listed(infos) : LoadIndex(m) < next
  /\ original = [id \in MsgIds |-> original[id]]
  /\ \A id \in MsgIds : Tabled(original[id], RulesWhenLoaded(Listed(infos), id))

(* Nothing is listed when loading starts.                                  *)
LEMMA InitTables == LoaderInit => TablesInv
<1> SUFFICES ASSUME LoaderInit PROVE TablesInv
  OBVIOUS
<1>1. /\ next \in 1 .. Len(Settings) + 1 /\ logs \in Nat
      /\ phase \in {"loading", "ready", "failed"}
  BY SettingsAssumption DEF LoaderInit
<1>2. \A c \in Categories : infos[c] = << >>
  BY DEF LoaderInit
<1>3. infos \in ModuleInfoLists
  BY DEF LoaderInit, ModuleInfoLists
<1>4. InOrderOfLoading(infos)
  BY <1>2, <1>3 DEF InOrderOfLoading
<1>5. Listed(infos) = {}
  <2>1. PositionsOf(infos) = {}
    BY <1>2, <1>3, PositionFacts
  <2> QED
    BY <2>1 DEF Listed
<1>6. ASSUME NEW id \in MsgIds
      PROVE  Tabled(original[id], RulesWhenLoaded(Listed(infos), id))
  <2>1. RulesWhenLoaded(Listed(infos), id) = {}
    BY <1>5 DEF RulesWhenLoaded
  <2>2. original[id] = << >>
    BY DEF LoaderInit
  <2>3. << >> \in Seq(Rule) /\ Len(<< >>) = 0 /\ 1 .. 0 = {}
    OBVIOUS
  <2>4. << >> \in Bijection(1 .. 0, {})
    BY <2>3 DEF Bijection, Injection, Surjection, IsInjective
  <2> QED
    BY <2>1, <2>2, <2>3, <2>4 DEF Tabled
<1>7. original = [id \in MsgIds |-> original[id]]
  BY DEF LoaderInit
<1> QED
  BY <1>1, <1>4, <1>5, <1>6, <1>7 DEF TablesInv

(* Every step keeps the tables as they should be.                          *)
LEMMA NextTables == TablesInv /\ [LoaderNext]_loaderVars => TablesInv'
<1> SUFFICES ASSUME TablesInv, [LoaderNext]_loaderVars PROVE TablesInv'
  OBVIOUS
<1>1. ASSUME UNCHANGED <<next, infos, original, logs, phase>>
      PROVE  TablesInv'
  BY <1>1 DEF TablesInv
<1>2. Len(Settings) \in Nat /\ DOMAIN Settings = 1 .. Len(Settings)
  <2> DEFINE T == [module : Modules, category : Mask, load : BOOLEAN, imt : Seq(MsgIds)]
  <2>1. Settings \in Seq(T)
    BY SettingsAssumption
  <2> HIDE DEF T
  <2> QED
    BY <2>1
<1>3. ASSUME next \in DOMAIN Settings
      PROVE  next + 1 \in 1 .. Len(Settings) + 1
  BY <1>2, <1>3
<1>4. \A m \in Listed(infos) : LoadIndex(m) \in Nat
  <2> TAKE m \in Listed(infos)
  <2>1. InOrderOfLoading(infos)
    BY DEF TablesInv
  <2>2. PICK c \in Categories : \E i \in DOMAIN infos[c] : infos[c][i] = m
    BY <2>1, ListedSomewhere
  <2> QED
    BY <2>1, <2>2, ListedFacts
<1>5. ASSUME next \in DOMAIN Settings, next' = next + 1, logs' \in Nat,
             UNCHANGED <<infos, original, phase>>
      PROVE  TablesInv'
  <2>1. next' \in 1 .. Len(Settings) + 1
    BY <1>3, <1>5
  <2>2. \A m \in Listed(infos) : LoadIndex(m) < next + 1
    BY <1>2, <1>4, <1>5 DEF TablesInv
  <2> QED
    BY <1>5, <2>1, <2>2 DEF TablesInv
<1>6. CASE SkipModule
  BY <1>5, <1>6 DEF SkipModule, TablesInv
<1>7. CASE LoadFails
  BY <1>5, <1>7 DEF LoadFails, TablesInv
<1>8. CASE LoadModule
  <2>1. /\ next \in DOMAIN Settings /\ next' = next + 1 /\ logs' = logs + 1 /\ phase' = phase
        /\ infos' = StoreModuleInfo(infos, Settings[next])
        /\ original' = IF Settings[next].category # {}
                       THEN LoadModuleImt(infos', original) ELSE original
    BY <1>8 DEF LoadModule
  <2>2. PICK s \in DOMAIN Settings : s = next
    BY <2>1
  <2>3. PICK lists : lists = infos
    OBVIOUS
  <2>4. PICK stored : stored = infos'
    OBVIOUS
  <2>5. PICK table : table = original
    OBVIOUS
  <2> DEFINE n == Settings[s].module
             L == Listed(lists)
  <2>6. /\ InOrderOfLoading(lists) /\ \A m \in L : LoadIndex(m) < s
        /\ \A id \in MsgIds : Tabled(table[id], RulesWhenLoaded(L, id))
        /\ stored = StoreModuleInfo(lists, Settings[s])
    BY <2>1, <2>2, <2>3, <2>4, <2>5 DEF TablesInv
  <2>7. /\ InOrderOfLoading(stored)
        /\ Listed(stored) = L \cup (IF Settings[s].category = {} THEN {} ELSE {n})
    BY <2>6, Stored
  <2>8. LoadIndex(n) = s /\ s \in Nat
    BY Found
  <2>9. n \notin L /\ \A m \in L : LoadIndex(m) < LoadIndex(n)
    BY <2>6, <2>8
  <2>10. \A m \in Listed(stored) : LoadIndex(m) < s + 1
    <3>1. \A m \in L : LoadIndex(m) < s + 1
      BY <1>4, <2>3, <2>6, <2>8
    <3> QED
      BY <2>7, <2>8, <3>1
  <2>11. ASSUME NEW id \in MsgIds
         PROVE  Tabled(original'[id], RulesWhenLoaded(Listed(stored), id))
    <3>1. CASE Settings[s].category = {}
      <4>1. original' = table /\ Listed(stored) = L
        BY <2>1, <2>2, <2>5, <2>7, <3>1
      <4> QED
        BY <2>6, <4>1
    <3>2. CASE Settings[s].category # {}
      <4>1. original' = LoadModuleImt(stored, table) /\ Listed(stored) = L \cup {n}
        BY <2>1, <2>2, <2>4, <2>5, <2>7, <3>2
      <4> HIDE DEF L, n
      <4>2. Tabled(LoadModuleImt(stored, table)[id], RulesWhenLoaded(Listed(stored), id))
        BY <2>6, <2>7, <2>9, <4>1, TableGrows
      <4> QED
        BY <4>1, <4>2
    <3> QED
      BY <3>1, <3>2
  <2>12. original' = [id \in MsgIds |-> original'[id]]
    BY <2>1 DEF TablesInv, LoadModuleImt
  <2>13. (\A m \in Listed(infos) : LoadIndex(m) < next)'
    BY <2>1, <2>2, <2>4, <2>10
  <2>14. InOrderOfLoading(infos)'
    BY <2>4, <2>7
  <2>15. (\A id \in MsgIds : Tabled(original[id], RulesWhenLoaded(Listed(infos), id)))'
    BY <2>4, <2>11
  <2>16. /\ next' \in 1 .. Len(Settings) + 1 /\ logs' \in Nat
         /\ phase' \in {"loading", "ready", "failed"}
    BY <1>3, <2>1 DEF TablesInv
  <2> QED
    BY <2>12, <2>13, <2>14, <2>15, <2>16 DEF TablesInv
<1>9. CASE LoadFinished
  <2>1. UNCHANGED <<next, infos, original>> /\ logs' \in Nat
        /\ phase' \in {"loading", "ready", "failed"}
    BY <1>9 DEF LoadFinished, TablesInv
  <2> QED
    BY <2>1 DEF TablesInv
<1>10. CASE RouteLog
  BY <1>1, <1>10 DEF RouteLog
<1>11. CASE Route
  BY <1>1, <1>11 DEF Route
<1>12. CASE Failed
  BY <1>1, <1>12 DEF Failed, loaderVars
<1>13. CASE UNCHANGED loaderVars
  BY <1>1, <1>13 DEF loaderVars
<1> QED
  BY <1>6, <1>7, <1>8, <1>9, <1>10, <1>11, <1>12, <1>13 DEF LoaderNext
-----------------------------------------------------------------------------
(* The reference names what the lists hold.                                *)
LEMMA LoadedAreListed ==
  /\ Loaded = Listed(infos)
  /\ \A id : DeclaredRules(id) = RulesWhenLoaded(Listed(infos), id)
<1>1. Loaded = Listed(infos)
  BY DEF Loaded, Listed
<1> QED
  BY <1>1 DEF DeclaredRules, RulesWhenLoaded, LoadedFrom

(* Of these rules, those that are for a category of to.                    *)
RulesFor(rules, to) == { r \in rules : r[5] \in to }

(* The places of a row whose rule is for a category of to...               *)
InRowTo(row, category, to) == { i \in DOMAIN row : category[i] \in to }

(* ...are as many as these rules, in a row of broadcasts to a category.    *)
RowAgrees(row, rules, to) ==
  /\ \A i \in DOMAIN row : row[i].broadcast = TRUE
  /\ \E g \in [DOMAIN row -> Categories] :
       /\ \A i \in DOMAIN row : row[i].to = {g[i]}
       /\ Cardinality(InRowTo(row, g, to)) = Cardinality(RulesFor(rules, to))

(* The rules of a row that are for a category of a set are as many as the  *)
(* rules to them.                                                          *)
LEMMA RowCount ==
  ASSUME NEW row, NEW rules, Tabled(row, rules), NEW to
  PROVE  RowAgrees(row, rules, to)
<1>1. PICK f \in Bijection(1 .. Len(row), rules) :
         \A i \in 1 .. Len(row) : row[i] = [to |-> {f[i][5]}, broadcast |-> TRUE]
  BY DEF Tabled
<1>2. row \in Seq(Rule) /\ DOMAIN row = 1 .. Len(row) /\ Len(row) \in Nat
  BY DEF Tabled
<1> DEFINE n == Len(row)
           C == RulesFor(rules, to)
           g == [i \in 1 .. n |-> f[i][5]]
<1>3. ASSUME NEW i \in 1 .. n
      PROVE  row[i].to = {g[i]} /\ row[i].broadcast = TRUE /\ g[i] \in Categories
  <2>1. row[i] \in Rule /\ row[i].to = {f[i][5]} /\ row[i].broadcast = TRUE
    BY <1>1, <1>2
  <2> QED
    BY <2>1 DEF Rule, Mask
<1>4. g \in [1 .. n -> Categories]
  BY <1>3
<1>5. \A i, j \in Int : IsFiniteSet(i .. j)
  BY FS_Interval
<1>6. IsFiniteSet(1 .. n)
  BY <1>2, <1>5
<1>7. C \in SUBSET rules
  BY DEF RulesFor
<1>9. f \in [1 .. n -> rules]
  BY <1>1 DEF Bijection, Injection
<1>10. \A i \in 1 .. n : f[i] \in C <=> g[i] \in to
  BY <1>9 DEF RulesFor
<1> HIDE DEF g, C
<1>11. \A i \in DOMAIN row : row[i].to = {g[i]} /\ row[i].broadcast = TRUE
  BY <1>2, <1>3
<1>12. g \in [DOMAIN row -> Categories]
  BY <1>2, <1>4
<1>13. Cardinality(InRowTo(row, g, to)) = Cardinality(C)
  <2> DEFINE A == 1 .. n
             D == InRowTo(row, g, to)
  <2>1. f \in Bijection(A, rules) /\ IsFiniteSet(A)
    BY <1>1, <1>6
  <2>2. \A i : i \in D <=> i \in A /\ f[i] \in C
    BY <1>2, <1>10 DEF InRowTo
  <2> HIDE DEF A, D
  <2>3. Cardinality(D) = Cardinality(C)
    BY <1>7, <2>1, <2>2, SameCount
  <2> QED
    BY <2>3 DEF D
<1> QED
  BY <1>11, <1>12, <1>13 DEF C, RowAgrees

-----------------------------------------------------------------------------
(* A mask with a bit has a lowest one.                                     *)
LEMMA LowestCategory ==
  ASSUME NEW mask \in Mask, mask # {}
  PROVE  CategoryIndex(mask) \in mask /\ \A j \in mask : CategoryIndex(mask) =< j
<1>1. mask \subseteq Nat
  BY CategoriesAssumption DEF Mask
<1>2. \E i \in mask : \A j \in mask : ~ (<<j, i>> \in OpToRel(<, Nat))
  BY <1>1, NatLessThanWellFounded, WFMin
<1>3. \E i \in mask : \A j \in mask : i =< j
  <2>1. PICK i \in mask : \A j \in mask : ~ (<<j, i>> \in OpToRel(<, Nat))
    BY <1>2
  <2>2. \A j \in mask : ~(j < i)
    BY <1>1, <2>1 DEF OpToRel
  <2> QED
    BY <1>1, <2>2
<1> QED
  BY <1>3 DEF CategoryIndex

(* The modules that a rule reaches.                                        *)
Reached(lists, rule, m) ==
  \E k \in DOMAIN RuleTargets(lists, rule) : RuleTargets(lists, rule)[k] = m

(* A rule hands a message to modules of one list, to each of them once.    *)
LEMMA TargetFacts ==
  ASSUME NEW lists, InOrderOfLoading(lists), NEW rule \in Rule
  PROVE  LET targets == RuleTargets(lists, rule)
         IN  /\ \A k \in DOMAIN targets : targets[k] \in Listed(lists) /\ targets[k] \in Modules
             /\ \A j, k \in DOMAIN targets : targets[j] = targets[k] => j = k
<1> DEFINE targets == RuleTargets(lists, rule)
           c == CategoryIndex(rule.to)
           list == lists[c]
<1>1. CASE rule.to = {}
  BY <1>1 DEF RuleTargets
<1>2. CASE rule.to # {}
  <2>1. rule.to \in Mask
    BY DEF Rule
  <2>2. c \in Categories
    BY <1>2, <2>1, LowestCategory DEF Mask
  <2>3. list \in Seq(Modules)
    BY <2>2 DEF InOrderOfLoading, ModuleInfoLists
  <2>4. \A k \in DOMAIN list : list[k] \in Listed(lists) /\ list[k] \in Modules
    BY <2>2, ListedFacts
  <2>5. \A j, k \in DOMAIN list : list[j] = list[k] => j = k
    BY <2>2, ListedOnce
  <2>6. targets = IF rule.broadcast \/ list = << >> THEN list ELSE << Head(list) >>
    BY <1>2 DEF RuleTargets
  <2> HIDE DEF list, targets
  <2>7. CASE targets = list
    BY <2>4, <2>5, <2>7 DEF targets
  <2>8. CASE targets # list
    <3>1. targets = << Head(list) >> /\ list # << >>
      BY <2>6, <2>8
    <3>2. 1 \in DOMAIN list /\ Head(list) = list[1]
      BY <2>3, <3>1
    <3>3. DOMAIN targets = {1} /\ targets[1] = list[1]
      BY <3>1, <3>2
    <3> QED
      BY <2>4, <3>2, <3>3 DEF targets
  <2> QED
    BY <2>7, <2>8
<1> QED
  BY <1>1, <1>2

(* The modules that a rule reaches are those that the reference names.     *)
LEMMA ReachedByEntry ==
  ASSUME InOrderOfLoading(infos), NEW rule \in Rule, NEW m
  PROVE  Reached(infos, rule, m) <=> m \in Loaded /\ EntryReaches(rule, m)
<1> DEFINE c == CategoryIndex(rule.to)
           list == infos[c]
           members(d) == { n \in Loaded : d \in Setting(n).category }
<1>1. rule.to \in Mask /\ rule.broadcast \in BOOLEAN
  BY DEF Rule
<1>2. CASE rule.to = {}
  BY <1>2 DEF Reached, RuleTargets, EntryReaches
<1>3. CASE rule.to # {}
  <2>1. c \in rule.to /\ c \in Categories /\ \A j \in rule.to : c =< j
    BY <1>1, <1>3, LowestCategory DEF Mask
  <2>2. \A d \in rule.to : (\A j \in rule.to : d =< j) => d = c
    <3>1. rule.to \subseteq Int
      BY <1>1, FiniteMasks
    <3> HIDE DEF c
    <3> QED
      BY <2>1, <3>1
  <2>3. EntryReaches(rule, m) <=>
           m \in members(c)
           /\ (rule.broadcast \/ \A n \in members(c) : LoadIndex(m) =< LoadIndex(n))
    BY <2>1, <2>2 DEF EntryReaches
  <2>4. \A n : n \in members(c) <=> \E k \in DOMAIN list : list[k] = n
    BY <2>1, LoadedAreListed, ListedOnce, ListedFacts
  <2>5. list \in Seq(Modules)
    BY <2>1 DEF InOrderOfLoading, ModuleInfoLists
  <2>6. \A k \in DOMAIN list : LoadIndex(list[k]) \in Nat
    BY <2>1, ListedFacts
  <2>7. \A i, j \in DOMAIN list : i < j => LoadIndex(list[i]) < LoadIndex(list[j])
    BY <2>1 DEF InOrderOfLoading
  <2>8. RuleTargets(infos, rule)
          = IF rule.broadcast \/ list = << >> THEN list ELSE << Head(list) >>
    BY <1>3 DEF RuleTargets
  <2> DEFINE lowest == \A n \in members(c) : LoadIndex(m) =< LoadIndex(n)
             reached == Reached(infos, rule, m)
  <2>9. m \in members(c) => m \in Loaded
    OBVIOUS
  <2> HIDE DEF list, members
  <2>10. CASE rule.broadcast \/ list = << >>
    <3>1. reached <=> \E k \in DOMAIN list : list[k] = m
      BY <2>8, <2>10 DEF Reached
    <3>2. CASE rule.broadcast
      BY <2>3, <2>4, <2>9, <3>1, <3>2
    <3>3. CASE list = << >>
      <4>1. DOMAIN list = {}
        BY <3>3
      <4> QED
        BY <2>3, <2>4, <3>1, <4>1
    <3> QED
      BY <2>10, <3>2, <3>3
  <2>11. CASE ~(rule.broadcast \/ list = << >>)
    <3>1. RuleTargets(infos, rule) = << Head(list) >>
      BY <2>8, <2>11
    <3>2. 1 \in DOMAIN list /\ Head(list) = list[1] /\ \A k \in DOMAIN list : k = 1 \/ 1 < k
      BY <2>5, <2>11
    <3>3. reached <=> m = list[1]
      BY <3>1, <3>2 DEF Reached
    <3>4. m = list[1] => m \in members(c) /\ lowest
      BY <2>4, <2>6, <2>7, <3>2
    <3>5. ASSUME m \in members(c), lowest
          PROVE  m = list[1]
      <4>1. PICK k \in DOMAIN list : list[k] = m
        BY <2>4, <3>5
      <4>2. LoadIndex(m) =< LoadIndex(list[1])
        BY <2>4, <3>2, <3>5
      <4> QED
        BY <2>6, <2>7, <3>2, <4>1, <4>2
    <3> HIDE DEF lowest
    <3>6. EntryReaches(rule, m) <=> m \in members(c) /\ lowest
      BY <2>3, <2>11 DEF lowest
    <3> QED
      BY <2>9, <3>3, <3>4, <3>5, <3>6
  <2> QED
    BY <2>10, <2>11
<1> QED
  BY <1>2, <1>3

(* The rules that reach m, and the calls that are made to it.              *)
Reaching(lists, rules, m) == { r \in DOMAIN rules : Reached(lists, rules[r], m) }

MadeTo(lists, rules, m) ==
  { call \in Calls(lists, rules) : CallTarget(lists, rules, call) = m }

(* A module gets a call for each rule that reaches it.                     *)
LEMMA CallsByRules ==
  ASSUME NEW lists, InOrderOfLoading(lists), NEW rules \in Seq(Rule), NEW m
  PROVE  Cardinality(MadeTo(lists, rules, m)) = Cardinality(Reaching(lists, rules, m))
<1> DEFINE targets(r) == RuleTargets(lists, rules[r])
           reaching == Reaching(lists, rules, m)
           made == MadeTo(lists, rules, m)
           at(r) == CHOOSE k \in DOMAIN targets(r) : targets(r)[k] = m
           h == [r \in reaching |-> <<r, at(r)>>]
<1>1. /\ DOMAIN rules = 1 .. Len(rules) /\ Len(rules) \in Nat
      /\ \A r \in DOMAIN rules : rules[r] \in Rule
  OBVIOUS
<1>2. IsFiniteSet(reaching)
  <2>1. \A i, j \in Int : IsFiniteSet(i .. j)
    BY FS_Interval
  <2>2. IsFiniteSet(DOMAIN rules)
    BY <1>1, <2>1
  <2>3. reaching \in SUBSET DOMAIN rules
    BY DEF Reaching
  <2> QED
    BY <2>2, <2>3, FS_Subset
<1>3. ASSUME NEW r \in reaching
      PROVE  r \in DOMAIN rules /\ at(r) \in DOMAIN targets(r) /\ targets(r)[at(r)] = m
  BY DEF Reaching, Reached
<1>4. ASSUME NEW r \in DOMAIN rules, NEW j \in DOMAIN targets(r), NEW k \in DOMAIN targets(r),
             targets(r)[j] = targets(r)[k]
      PROVE  j = k
  BY <1>1, <1>4, TargetFacts
<1>5. \A call : call \in made <=> /\ call = <<call[1], call[2]>> /\ call[1] \in DOMAIN rules
                                  /\ call[2] \in DOMAIN targets(call[1])
                                  /\ targets(call[1])[call[2]] = m
  BY DEF MadeTo, Calls, CallTarget
<1> HIDE DEF targets, at, made
<1>6. ASSUME NEW r \in reaching
      PROVE  h[r] \in made
  <2> DEFINE call == <<r, at(r)>>
  <2>1. call[1] = r /\ call[2] = at(r) /\ h[r] = call
    OBVIOUS
  <2> HIDE DEF call, h
  <2>2. call = <<call[1], call[2]>>
    BY <2>1 DEF call
  <2> QED
    BY <1>3, <1>5, <2>1, <2>2
<1>7. ASSUME NEW call \in made
      PROVE  \E r \in reaching : h[r] = call
  <2>1. call[1] \in reaching
    BY <1>5 DEF Reaching, Reached, targets
  <2>2. at(call[1]) = call[2]
    BY <1>3, <1>4, <1>5, <2>1
  <2> QED
    BY <1>5, <2>1, <2>2
<1>8. \A r \in reaching, s \in reaching : h[r] = h[s] => r = s
  OBVIOUS
<1>9. h \in [reaching -> made]
  BY <1>6
<1> HIDE DEF h, reaching
<1>10. h \in Bijection(reaching, made)
  BY <1>7, <1>8, <1>9 DEF Bijection, Injection, Surjection, IsInjective
<1>11. ExistsBijection(reaching, made)
  BY <1>10 DEF ExistsBijection
<1>12. Cardinality(made) = Cardinality(reaching)
  BY <1>2, <1>11, FS_Bijection
<1> QED
  BY <1>12 DEF made, reaching

-----------------------------------------------------------------------------
(* The rules of the entries t[1] .. t[n].                                  *)
RulesOfEntries(n, t) ==
  [k \in 1 .. n |-> [to |-> Entries[t[k]].to, broadcast |-> Entries[t[k]].broadcast]]

(* The rules that are looked up: those of the entries, in their order, and *)
(* where there is no entry the ones that were declared.                    *)
LEMMA RulesLookedUp ==
  ASSUME NEW table, NEW mask, NEW id
  PROVE  LET rules == FindMessageRule(ConfigMessageRules, table, mask, id)
             chosen == EntriesFor(<<mask, id>>)
         IN  /\ IsFiniteSet(chosen)
             /\ \A i \in chosen : Entries[i].to \in Mask /\ Entries[i].broadcast \in BOOLEAN
             /\ chosen = {} => rules = RulesAt(table, id)
             /\ chosen # {} =>
                  \E n \in Nat : \E t \in Bijection(1 .. n, chosen) :
                    rules = RulesOfEntries(n, t)
<1> DEFINE key == <<mask, id>>
           chosen == EntriesFor(key)
           config == ConfigMessageRules
           before == [i \in chosen |-> { j \in chosen : j < i }]
           t == InTurn(before)
           n == Cardinality(chosen)
           rules == FindMessageRule(config, table, mask, id)
           listed == RulesOfEntries(n, t)
<1>1. DOMAIN Entries = 1 .. Len(Entries) /\ Len(Entries) \in Nat
      /\ \A i \in DOMAIN Entries : Entries[i].to \in Mask /\ Entries[i].broadcast \in BOOLEAN
  <2> DEFINE T == [from : Mask, command : STRING, to : Mask, broadcast : BOOLEAN]
  <2>1. Entries \in Seq(T)
    BY SettingsAssumption
  <2>2. \A e \in T : e.to \in Mask /\ e.broadcast \in BOOLEAN
    OBVIOUS
  <2> HIDE DEF T
  <2> QED
    BY <2>1, <2>2
<1>2. \A i, j \in Int : IsFiniteSet(i .. j)
  BY FS_Interval
<1>3. IsFiniteSet(DOMAIN Entries)
  BY <1>1, <1>2
<1>4. chosen \in SUBSET DOMAIN Entries /\ \A i \in chosen : i \in Int
  BY <1>1 DEF EntriesFor
<1>5. IsFiniteSet(chosen)
  BY <1>3, <1>4, FS_Subset
<1>6. n \in Nat /\ (chosen # {} => n # 0)
  BY <1>5, FS_CardinalityType, FS_EmptySet
<1>7. t \in Bijection(1 .. n, chosen)
  <2> HIDE DEF chosen
  <2>1. before \in [chosen -> SUBSET chosen]
    OBVIOUS
  <2>2. \A i \in chosen : i \notin before[i]
    BY <1>4
  <2>3. \A i \in chosen, j \in chosen : i # j => i \in before[j] \/ j \in before[i]
    BY <1>4
  <2>4. \A i \in chosen, j \in chosen : i \in before[j] => before[i] \subseteq before[j]
    BY <1>4
  <2> HIDE DEF before
  <2> QED
    BY <1>5, <2>1, <2>2, <2>3, <2>4, InTurnVisits
<1>8. DOMAIN t = 1 .. n
  BY <1>7 DEF Bijection, Injection
<1>9. key \in DOMAIN config.specific <=> chosen # {}
  BY DEF ConfigMessageRules, EntriesFor
<1>10. config.plain = << >>
  BY DEF ConfigMessageRules
<1>11. RulesAt(config.plain, id) = << >>
  BY <1>10 DEF RulesAt
<1>12. CASE chosen = {}
  <2>1. rules = RulesAt(table, id)
    BY <1>9, <1>11, <1>12 DEF FindMessageRule, FindInConfigMessageRules, RulesAt
  <2> QED
    BY <1>5, <1>12, <2>1
<1>13. CASE chosen # {}
  <2>1. key \in { Key(Entries[i]) : i \in DOMAIN Entries }
    BY <1>13 DEF EntriesFor
  <2>2. config.specific[key] = listed
    BY <1>8, <2>1 DEF ConfigMessageRules, RulesOfEntries
  <2>3. listed # << >>
    <3> HIDE DEF n, t
    <3>1. 1 \in DOMAIN listed
      BY <1>6, <1>13 DEF RulesOfEntries
    <3> HIDE DEF listed
    <3>2. DOMAIN << >> = {}
      OBVIOUS
    <3> QED
      BY <3>1, <3>2, Zenon
  <2> HIDE DEF listed, config, chosen
  <2>4. rules = listed
    BY <1>9, <1>13, <2>2, <2>3 DEF FindMessageRule, FindInConfigMessageRules, RulesAt
  <2> USE DEF listed, chosen
  <2>5. \A i \in chosen : Entries[i].to \in Mask /\ Entries[i].broadcast \in BOOLEAN
    BY <1>1, <1>4
  <2> HIDE DEF t, n
  <2> QED
    BY <1>5, <1>6, <1>7, <1>13, <2>4, <2>5 DEF config
<1> QED
  BY <1>12, <1>13
-----------------------------------------------------------------------------
(* The last routed message, once there is one.                             *)
RoutedInv ==
  \/ routed = NotRouted
  \/ /\ phase = "ready"
     /\ routed.mask \in Mask /\ routed.id \in MsgIds
     /\ routed.to = DispatchModuleMessage(routed.mask, routed.id)

LoaderInv == TablesInv /\ RoutedInv

(* A row of the table.                                                     *)
LEMMA RowOf ==
  ASSUME TablesInv, NEW id \in MsgIds
  PROVE  /\ original[id] \in Seq(Rule) /\ Tabled(original[id], DeclaredRules(id))
         /\ RulesAt(original, id) = original[id]
<1>1. Tabled(original[id], RulesWhenLoaded(Listed(infos), id))
  BY DEF TablesInv
<1>2. DeclaredRules(id) = RulesWhenLoaded(Listed(infos), id)
  BY LoadedAreListed
<1>3. id \in DOMAIN original
  BY DEF TablesInv
<1> QED
  BY <1>1, <1>2, <1>3 DEF Tabled, RulesAt

(* Messages are routed by rules.                                           *)
LEMMA RulesFound ==
  ASSUME TablesInv, NEW mask, NEW id \in MsgIds
  PROVE  FindMessageRule(ConfigMessageRules, original, mask, id) \in Seq(Rule)
<1> DEFINE rules == FindMessageRule(ConfigMessageRules, original, mask, id)
           chosen == EntriesFor(<<mask, id>>)
<1>1. CASE chosen = {}
  <2>1. rules = original[id]
    BY <1>1, RowOf, RulesLookedUp
  <2> QED
    BY <2>1, RowOf
<1>2. CASE chosen # {}
  <2>1. \A i \in chosen : Entries[i].to \in Mask /\ Entries[i].broadcast \in BOOLEAN
    BY RulesLookedUp
  <2>2. PICK n \in Nat : \E t \in Bijection(1 .. n, chosen) : rules = RulesOfEntries(n, t)
    BY <1>2, RulesLookedUp
  <2>3. PICK t \in Bijection(1 .. n, chosen) : rules = RulesOfEntries(n, t)
    BY <2>2
  <2> HIDE DEF chosen, rules
  <2>4. t \in [1 .. n -> chosen]
    BY DEF Bijection, Injection
  <2>5. \A k \in 1 .. n :
          [to |-> Entries[t[k]].to, broadcast |-> Entries[t[k]].broadcast] \in Rule
    BY <2>1, <2>4 DEF Rule
  <2>6. rules \in [1 .. n -> Rule]
    BY <2>3, <2>5 DEF RulesOfEntries
  <2> QED
    BY <2>6, SeqDef DEF rules
<1> QED
  BY <1>1, <1>2

(* Every call goes to a module.                                            *)
LEMMA CallsToModules ==
  ASSUME TablesInv, NEW mask, NEW id \in MsgIds
  PROVE  LET to == DispatchModuleMessage(mask, id)
         IN  \A call \in DOMAIN to : to[call] \in Modules
<1> DEFINE rules == FindMessageRule(ConfigMessageRules, original, mask, id)
           to == DispatchModuleMessage(mask, id)
<1>1. rules \in Seq(Rule) /\ InOrderOfLoading(infos)
  BY RulesFound DEF TablesInv
<1>2. to = [call \in Calls(infos, rules) |-> CallTarget(infos, rules, call)]
  BY DEF DispatchModuleMessage
<1> HIDE DEF rules, to
<1>3. ASSUME NEW call \in Calls(infos, rules)
      PROVE  CallTarget(infos, rules, call) \in Modules
  <2>1. call[1] \in DOMAIN rules /\ call[2] \in DOMAIN RuleTargets(infos, rules[call[1]])
    BY DEF Calls
  <2>2. rules[call[1]] \in Rule
    BY <1>1, <2>1
  <2> QED
    BY <1>1, <2>1, <2>2, TargetFacts DEF CallTarget
<1> QED
  BY <1>2, <1>3 DEF to

(* The invariant gives the types...                                        *)
LEMMA LoaderTypes == LoaderInv => LoaderTypeOK
<1> SUFFICES ASSUME LoaderInv PROVE LoaderTypeOK
  OBVIOUS
<1>1. infos \in ModuleInfoLists
  BY DEF LoaderInv, TablesInv, InOrderOfLoading
<1>2. original \in [MsgIds -> Seq(Rule)]
  <2>1. \A id \in MsgIds : original[id] \in Seq(Rule)
    BY RowOf DEF LoaderInv
  <2>2. original = [id \in MsgIds |-> original[id]]
    BY DEF LoaderInv, TablesInv
  <2> QED
    BY <2>1, <2>2
<1>3. \A call \in DOMAIN routed.to : routed.to[call] \in Modules
  <2>1. CASE routed = NotRouted
    <3>1. routed.to = << >>
      BY <2>1 DEF NotRouted
    <3>2. DOMAIN routed.to = {}
      BY <3>1
    <3> QED
      BY <3>2
  <2>2. CASE routed # NotRouted
    BY <2>2, CallsToModules DEF LoaderInv, RoutedInv
  <2> QED
    BY <2>1, <2>2
<1> QED
  BY <1>1, <1>2, <1>3 DEF LoaderTypeOK, LoaderInv, TablesInv

(* ...and the number of rules.                                             *)
LEMMA RulesCounted == LoaderInv => RulesFollowTheLoads
<1> SUFFICES ASSUME LoaderInv PROVE RulesFollowTheLoads
  OBVIOUS
<1>1. ASSUME NEW id \in MsgIds, NEW c \in Categories
      PROVE  Cardinality({ i \in DOMAIN original[id] : original[id][i].to = {c} })
               = Cardinality(RulesTo(id, {c}))
  <2> DEFINE row == original[id]
             rules == DeclaredRules(id)
  <2>1. Tabled(row, rules)
    BY RowOf DEF LoaderInv
  <2>2. RulesTo(id, {c}) = RulesFor(rules, {c})
    BY DEF RulesTo, RulesFor
  <2> HIDE DEF row, rules
  <2>3. PICK g \in [DOMAIN row -> Categories] :
          /\ \A i \in DOMAIN row : row[i].to = {g[i]}
          /\ Cardinality(InRowTo(row, g, {c})) = Cardinality(RulesFor(rules, {c}))
    BY <2>1, RowCount DEF RowAgrees
  <2>4. InRowTo(row, g, {c}) = { i \in DOMAIN row : row[i].to = {c} }
    BY <2>3 DEF InRowTo
  <2> QED
    BY <2>2, <2>3, <2>4 DEF row
<1> QED
  BY <1>1, LoaderTypes DEF RulesFollowTheLoads

(* The calls to m of a routed message, and the entries that name m.        *)
CallsTo(to, m) == { call \in DOMAIN to : to[call] = m }

EntriesTo(key, m) == { i \in EntriesFor(key) : EntryReaches(Entries[i], m) }

(* What reaches a module are the entries that name it, or else the types   *)
(* that were declared to its categories.                                   *)
LEMMA CallsCounted ==
  ASSUME TablesInv, NEW mask, NEW id \in MsgIds, NEW m
  PROVE  Cardinality(CallsTo(DispatchModuleMessage(mask, id), m)) =
           IF m \notin Loaded THEN 0
           ELSE IF EntriesFor(<<mask, id>>) # {} THEN Cardinality(EntriesTo(<<mask, id>>, m))
           ELSE Cardinality(RulesTo(id, Setting(m).category))
<1> DEFINE rules == FindMessageRule(ConfigMessageRules, original, mask, id)
           to == DispatchModuleMessage(mask, id)
           chosen == EntriesFor(<<mask, id>>)
           naming == EntriesTo(<<mask, id>>, m)
           reaching == Reaching(infos, rules, m)
<1>1. rules \in Seq(Rule) /\ InOrderOfLoading(infos)
  BY RulesFound DEF TablesInv
<1>2. CallsTo(to, m) = MadeTo(infos, rules, m)
  BY DEF DispatchModuleMessage, CallsTo, MadeTo
<1>3. Cardinality(CallsTo(to, m)) = Cardinality(reaching)
  <2> HIDE DEF rules, to
  <2> QED
    BY <1>1, <1>2, CallsByRules
<1>4. \A r \in DOMAIN rules : rules[r] \in Rule
  BY <1>1
<1>5. \A r : r \in reaching <=>
         r \in DOMAIN rules /\ m \in Loaded /\ EntryReaches(rules[r], m)
  <2> HIDE DEF rules
  <2>1. \A r \in DOMAIN rules :
          Reached(infos, rules[r], m) <=> m \in Loaded /\ EntryReaches(rules[r], m)
    BY <1>1, <1>4, ReachedByEntry
  <2> QED
    BY <2>1 DEF Reaching
<1>6. CASE m \notin Loaded
  <2>1. reaching = {}
    BY <1>5, <1>6
  <2> QED
    BY <1>3, <1>6, <2>1, FS_EmptySet
<1>7. CASE m \in Loaded /\ chosen # {}
  <2>1. PICK n \in Nat : \E t \in Bijection(1 .. n, chosen) : rules = RulesOfEntries(n, t)
    BY <1>7, RulesLookedUp
  <2>2. PICK t \in Bijection(1 .. n, chosen) : rules = RulesOfEntries(n, t)
    BY <2>1
  <2> DEFINE D == 1 .. n
  <2> HIDE DEF rules
  <2>3. DOMAIN rules = D /\ t \in Bijection(D, chosen)
    BY <2>2 DEF RulesOfEntries
  <2>4. t \in [D -> chosen]
    BY <2>3 DEF Bijection, Injection
  <2>5. \A r \in D : /\ rules[r].to = Entries[t[r]].to
                     /\ rules[r].broadcast = Entries[t[r]].broadcast
    BY <2>2 DEF RulesOfEntries
  <2>6. \A r \in D : EntryReaches(rules[r], m) <=> EntryReaches(Entries[t[r]], m)
    BY <2>5 DEF EntryReaches
  <2>7. \A r : r \in reaching <=> r \in D /\ t[r] \in naming
    BY <1>5, <1>7, <2>3, <2>4, <2>6 DEF EntriesTo
  <2>8. \A i, j \in Int : IsFiniteSet(i .. j)
    BY FS_Interval
  <2>9. IsFiniteSet(D) /\ naming \in SUBSET chosen
    BY <2>8 DEF EntriesTo
  <2> HIDE DEF D, chosen, naming, reaching
  <2>10. Cardinality(reaching) = Cardinality(naming)
    BY <2>3, <2>7, <2>9, SameCount
  <2> QED
    BY <1>3, <1>7, <2>10 DEF chosen, naming
<1>8. CASE m \in Loaded /\ chosen = {}
  <2> DEFINE mine == Setting(m).category
             declared == DeclaredRules(id)
  <2>1. rules = original[id] /\ Tabled(rules, declared)
    BY <1>8, RowOf, RulesLookedUp
  <2>2. RulesTo(id, mine) = RulesFor(declared, mine)
    BY DEF RulesTo, RulesFor
  <2> HIDE DEF rules, declared
  <2> HIDE DEF mine
  <2>3. RowAgrees(rules, declared, mine)
    BY <2>1, RowCount
  <2>4. PICK g \in [DOMAIN rules -> Categories] :
          /\ \A i \in DOMAIN rules : rules[i].to = {g[i]}
          /\ Cardinality(InRowTo(rules, g, mine)) = Cardinality(RulesFor(declared, mine))
    BY <2>3 DEF RowAgrees
  <2>5. \A c \in Categories : c \in Int
    BY CategoriesAssumption
  <2>6. ASSUME NEW r \in DOMAIN rules
        PROVE  EntryReaches(rules[r], m) <=> g[r] \in mine
    <3>1. rules[r].to = {g[r]} /\ rules[r].broadcast = TRUE /\ g[r] =< g[r]
      BY <2>3, <2>4, <2>5 DEF RowAgrees
    <3> QED
      BY <1>8, <3>1 DEF EntryReaches, mine
  <2>7. reaching = InRowTo(rules, g, mine)
    BY <1>5, <1>8, <2>6 DEF InRowTo
  <2> QED
    BY <1>3, <1>8, <2>2, <2>4, <2>7 DEF mine
<1> QED
  BY <1>6, <1>7, <1>8

(* The calls of the last routed message.                                   *)
LEMMA RoutedCounted == LoaderInv => RoutedByEntriesOrDeclarations
<1> SUFFICES ASSUME LoaderInv, routed # NotRouted, NEW m \in Modules
             PROVE  LET entries == EntriesFor(<<routed.mask, routed.id>>)
                    IN  Cardinality(CallsMade(m)) =
                          IF m \notin Loaded THEN 0
                          ELSE IF entries # {}
                          THEN Cardinality({ i \in entries : EntryReaches(Entries[i], m) })
                          ELSE Cardinality(RulesTo(routed.id, Setting(m).category))
  BY DEF RoutedByEntriesOrDeclarations
<1>1. /\ TablesInv /\ routed.id \in MsgIds
      /\ routed.to = DispatchModuleMessage(routed.mask, routed.id)
  BY DEF LoaderInv, RoutedInv
<1>2. CallsMade(m) = CallsTo(DispatchModuleMessage(routed.mask, routed.id), m)
  BY <1>1 DEF CallsMade, CallsTo
<1>3. Cardinality(CallsMade(m)) =
        IF m \notin Loaded THEN 0
        ELSE IF EntriesFor(<<routed.mask, routed.id>>) # {}
        THEN Cardinality(EntriesTo(<<routed.mask, routed.id>>, m))
        ELSE Cardinality(RulesTo(routed.id, Setting(m).category))
  BY <1>1, <1>2, CallsCounted
<1> QED
  BY <1>3 DEF EntriesTo

(* No message is routed when loading starts...                             *)
LEMMA InitLoader == LoaderInit => LoaderInv
BY InitTables DEF LoaderInit, LoaderInv, RoutedInv

(* ...and what was routed by the tables stays so, as they are complete.    *)
LEMMA NextLoader == LoaderInv /\ [LoaderNext]_loaderVars => LoaderInv'
<1> SUFFICES ASSUME LoaderInv, [LoaderNext]_loaderVars PROVE RoutedInv'
  BY NextTables DEF LoaderInv
<1>1. ASSUME routed' = routed, phase = "loading"
      PROVE  RoutedInv'
  BY <1>1 DEF LoaderInv, RoutedInv
<1>2. CASE SkipModule
  BY <1>1, <1>2 DEF SkipModule
<1>3. CASE LoadFails
  BY <1>1, <1>3 DEF LoadFails
<1>4. CASE LoadModule
  BY <1>1, <1>4 DEF LoadModule
<1>5. CASE LoadFinished
  BY <1>1, <1>5 DEF LoadFinished
<1>6. CASE RouteLog
  <2>1. /\ phase' = "ready" /\ infos' = infos /\ original' = original
        /\ routed' = [by |-> "scheduler", mask |-> {}, id |-> LogId,
                      to |-> DispatchModuleMessage({}, LogId)]
    BY <1>6 DEF RouteLog
  <2>2. {} \in Mask /\ LogId \in MsgIds
    BY SettingsAssumption DEF Mask
  <2>3. /\ routed'.mask = {} /\ routed'.id = LogId
        /\ routed'.to = DispatchModuleMessage({}, LogId)
    BY <2>1
  <2>4. DispatchModuleMessage({}, LogId)' = DispatchModuleMessage({}, LogId)
    BY <2>1 DEF DispatchModuleMessage
  <2> QED
    BY <2>1, <2>2, <2>3, <2>4 DEF RoutedInv
<1>7. CASE Route
  <2>1. PICK s \in SentAs :
          routed' = [by |-> s[1], mask |-> s[2], id |-> s[3],
                     to |-> DispatchModuleMessage(s[2], s[3])]
    BY <1>7 DEF Route
  <2>2. phase' = "ready" /\ infos' = infos /\ original' = original
    BY <1>7 DEF Route
  <2>3. s[2] \in Mask /\ s[3] \in MsgIds
    BY SettingsAssumption
  <2>4. /\ routed'.mask = s[2] /\ routed'.id = s[3]
        /\ routed'.to = DispatchModuleMessage(s[2], s[3])
    BY <2>1
  <2>5. DispatchModuleMessage(s[2], s[3])' = DispatchModuleMessage(s[2], s[3])
    BY <2>2 DEF DispatchModuleMessage
  <2> QED
    BY <2>2, <2>3, <2>4, <2>5 DEF RoutedInv
<1>8. CASE Failed \/ UNCHANGED loaderVars
  <2>1. UNCHANGED loaderVars
    BY <1>8 DEF Failed
  <2>2. phase' = phase /\ infos' = infos /\ original' = original /\ routed' = routed
    BY <2>1 DEF loaderVars
  <2>3. routed' # NotRouted =>
           DispatchModuleMessage(routed.mask, routed.id)'
             = DispatchModuleMessage(routed.mask, routed.id)
    BY <2>2 DEF DispatchModuleMessage
  <2> QED
    BY <2>2, <2>3 DEF LoaderInv, RoutedInv
<1> QED
  BY <1>2, <1>3, <1>4, <1>5, <1>6, <1>7, <1>8 DEF LoaderNext

(* The inductive invariant: the tables are those of the modules loaded so  *)
(* far, and what has been routed was routed by them.                       *)
THEOREM LoaderInvHolds == LoaderSpec => []LoaderInv
BY InitLoader, NextLoader, PTL DEF LoaderSpec

(* The rules are those of the modules loaded so far, with the repetitions  *)
(* that reading every list again at each load gives.                       *)
THEOREM RulesFollowTheLoadsHolds == LoaderSpec => []RulesFollowTheLoads
BY LoaderInvHolds, RulesCounted, PTL

(* A message is handed over as the entries say, or else the declarations.  *)
THEOREM RoutedByEntriesOrDeclarationsHolds == LoaderSpec => []RoutedByEntriesOrDeclarations
BY LoaderInvHolds, RoutedCounted, PTL
=============================================================================
