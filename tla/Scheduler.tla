------------------------------ MODULE Scheduler ------------------------------
(***************************************************************************)
(* The running scheduler of scheduler.cxx / cbd_scheduler.cxx, from the    *)
(* end of its constructor to the end of its destructor, as the daemon      *)
(* drives it: the main thread calls run and then destroy, another thread   *)
(* may call stop, and every module configured with isolation="yes" runs in *)
(* a thread of its own.  All of them push messages to the one queue that   *)
(* the main thread empties.                                                *)
(*                                                                         *)
(* A step is what a thread does between two points where another thread    *)
(* can make a difference: push_module_message is two steps, because stop   *)
(* writes _is_pending_stop without the lock; pop_module_message is two     *)
(* steps, because the size is read without the lock; a call into a module  *)
(* is entered and left in separate steps.                                  *)
(***************************************************************************)
EXTENDS MessageRules

CONSTANTS
  ModuleInfos,   \* _module_infos, as the constructor has left it
  OriginalRules, \* _original_message_rules, likewise
  ConfigRules,   \* [specific, plain]: _config_message_rules
  CreationLog,   \* what the constructor has pushed
  Isolated,      \* the modules with need_isolation
  Sends,         \* for each module, the <<mask, id>> it notifies the scheduler of
  Main,          \* the thread that calls run and destroy
  Stoppers,      \* the threads that call stop, once each
  None,          \* no module
  MaxNotify,     \* bound: asynchronous notifications per module
  MaxQueue,      \* bound: length of the queue up to which endless ones are sent
  MaxAsk,        \* bound: synchronous notifications per module
  MaxDepth       \* bound: nesting of synchronous notifications

(* A message: its sender's mask and id, and, to tell messages apart, which *)
(* module sent it and as which of its notifications (None and 0 for log    *)
(* messages of the scheduler, for synchronous messages and for the endless *)
(* ones).                                                                  *)
Message == [category : Mask, id : MsgIds, src : Modules \cup {None}, n : Nat]

LogMessage == [category |-> {}, id |-> LogId, src |-> None, n |-> 0]

Positions == PositionsOf(ModuleInfos)

ModuleAt(p) == ModuleInfos[p[1]][p[2]]

(* run_module creates one thread per list entry of an isolated module.     *)
RunThreads == { p \in Positions : ModuleAt(p) \in Isolated }

Threads == {Main} \cup Stoppers \cup RunThreads

(* A message being handed to modules: the calls already made and the       *)
(* module whose assign is running.                                         *)
Frame == [msg : Message, done : SUBSET (Nat \X Nat), in : Modules \cup {None}]

ASSUME SchedulerAssumption ==
  /\ ModuleInfos \in ModuleInfoLists
  /\ OriginalRules \in [MsgIds -> Seq(Rule)]
  /\ DOMAIN ConfigRules = {"specific", "plain"}
  /\ \A k \in DOMAIN ConfigRules.specific : ConfigRules.specific[k] \in Seq(Rule)
  /\ \A k \in DOMAIN ConfigRules.plain : ConfigRules.plain[k] \in Seq(Rule)
  /\ CreationLog \in Seq({LogMessage})
  /\ Isolated \subseteq Modules
  /\ Sends \in [Modules -> SUBSET (Mask \X MsgIds)]
  /\ LogId \in MsgIds
  /\ None \notin Modules
  /\ Main \notin Stoppers \cup Positions
  /\ Stoppers \cap Positions = {}
  /\ MaxNotify \in Nat /\ MaxQueue \in Nat /\ MaxAsk \in Nat /\ MaxDepth \in Nat

VARIABLES
  pendingStop, \* _is_pending_stop
  continued,   \* _is_continued
  messages,    \* _messages
  pushing,     \* the push that holds _lock: a sequence of at most one [by, msg]
  pc,          \* where each thread is
  op,          \* the module whose run, stop or destroy a thread has called
  calls,       \* per thread, the messages it is handing over, innermost last
  visited,     \* per thread, the entries its traversal has dealt with
  pModule,     \* p_module: "live", "freed" (still pointing at it) or "null"
  sent,        \* number of asynchronous notifications of each module
  asked,       \* number of synchronous notifications of each module
  taken        \* history: the messages of each module the main loop has popped

vars == <<pendingStop, continued, messages, pushing, pc, op, calls, visited,
          pModule, sent, asked, taken>>

queueVars == <<pendingStop, continued, messages, pushing, taken>>
countVars == <<sent, asked>>
-----------------------------------------------------------------------------
(* Thread t is not in the middle of push_module_message, and the process   *)
(* has not ended.                                                          *)
Free(t) ==
  /\ pc[Main] # "gone"
  /\ \A i \in DOMAIN pushing : pushing[i].by # t

Goto(t, place) == pc' = [pc EXCEPT ![t] = place]

(* Mutant: the lock is not waited for.                                     *)
PushModuleMessage_NoLock(t, msg) ==
  pushing' = IF pendingStop THEN pushing
             ELSE Append(pushing, [by |-> t, msg |-> msg])

(* Mutant: messages are accepted while a stop is pending.                  *)
PushModuleMessage_IgnoresStop(t, msg) ==
  /\ pushing = << >>
  /\ pushing' = << [by |-> t, msg |-> msg] >>

(* push_module_message: takes the lock and reads the stop flag...          *)
PushModuleMessage(t, msg) ==
  /\ pushing = << >>
  /\ pushing' = IF pendingStop THEN << >> ELSE << [by |-> t, msg |-> msg] >>

GenerateLogMessage(t) == PushModuleMessage(t, LogMessage)

(* ...and, when no stop was pending, appends the message and unlocks.      *)
PushEnd ==
  /\ pc[Main] # "gone"
  /\ pushing # << >>
  /\ messages' = Append(messages, pushing[1].msg)
  /\ pushing' = << >>
  /\ UNCHANGED <<pendingStop, continued, pc, op, calls, visited, pModule,
                 sent, asked, taken>>

(* The object that a call gets: none when p_module is NULL.                *)
Entered(m) == IF pModule[m] = "null" THEN None ELSE m

(* traverse_module_infos: the next entry that t has not visited.           *)
NextEntry(t, p) == IsFirst(p, Positions \ visited[t])

Visit(t, p) == visited' = [visited EXCEPT ![t] = @ \cup {p}]

(* Where a thread continues after run, stop or destroy_module.             *)
Returns(t) ==
  CASE t \in Stoppers   -> "stopModules"
    [] t \in RunThreads -> "ended"
    [] t = Main         -> IF continued THEN "runModules" ELSE "destroyModules"

-----------------------------------------------------------------------------
(* Handing a message over: dispatch_module_message on the main thread, and *)
(* handle_module_message on the thread of a module that notifies           *)
(* synchronously, possibly from inside an assign.                          *)

Top(t) == calls[t][Len(calls[t])]

SetTop(t, f) == calls' = [calls EXCEPT ![t] = [@ EXCEPT ![Len(@)] = f]]

RulesOf(msg) == FindMessageRule(ConfigRules, OriginalRules, msg.category, msg.id)

CallsLeft(f) == Calls(ModuleInfos, RulesOf(f.msg)) \ f.done

(* The next module is called, with whatever p_module is at this moment.    *)
Assign(t) ==
  /\ Free(t)
  /\ calls[t] # << >> /\ Top(t).in = None
  /\ \E c \in CallsLeft(Top(t)) :
       /\ IsFirst(c, CallsLeft(Top(t)))
       /\ SetTop(t, [Top(t) EXCEPT
                       !.done = @ \cup {c},
                       !.in = Entered(CallTarget(ModuleInfos, RulesOf(Top(t).msg), c))])
  /\ UNCHANGED <<queueVars, countVars, pc, op, visited, pModule>>

AssignReturns(t) ==
  /\ Free(t)
  /\ calls[t] # << >> /\ Top(t).in # None
  /\ SetTop(t, [Top(t) EXCEPT !.in = None])
  /\ UNCHANGED <<queueVars, countVars, pc, op, visited, pModule>>

(* The bottom frame of the main thread in its loop is the popped message;  *)
(* every other frame is a synchronous notification.                        *)
IsDispatch(t) == t = Main /\ pc[Main] = "dispatch" /\ Len(calls[t]) = 1

(* prepare_mdh_result: the results go back to the module that asked.       *)
HandleFinished(t) ==
  /\ Free(t)
  /\ calls[t] # << >> /\ ~ IsDispatch(t)
  /\ Top(t).in = None /\ CallsLeft(Top(t)) = {}
  /\ calls' = [calls EXCEPT ![t] = SubSeq(@, 1, Len(@) - 1)]
  /\ UNCHANGED <<queueVars, countVars, pc, op, visited, pModule>>

-----------------------------------------------------------------------------
(* notify_scheduler, called from the code of a module.                     *)

(* The module whose code thread t executes.                                *)
Executes(t) ==
  IF calls[t] # << >>
  THEN Top(t).in
  ELSE IF pc[t] \in {"run", "background", "stop"} THEN op[t] ELSE None

NotifyAsync(t) ==
  /\ Free(t)
  /\ Executes(t) # None
  /\ LET m == Executes(t)
     IN  /\ sent[m] < MaxNotify
         /\ \E s \in Sends[m] :
              PushModuleMessage(t, [category |-> s[1], id |-> s[2],
                                    src |-> m, n |-> sent[m] + 1])
         /\ sent' = [sent EXCEPT ![m] = @ + 1]
  /\ UNCHANGED <<pendingStop, continued, messages, pc, op, calls, visited,
                 pModule, asked, taken>>

(* Notifications that are not counted: modules may go on sending them for  *)
(* ever.                                                                   *)
NotifyMore(t) ==
  /\ Free(t)
  /\ Executes(t) # None
  /\ Len(messages) < MaxQueue
  /\ \E s \in Sends[Executes(t)] :
       PushModuleMessage(t, [category |-> s[1], id |-> s[2], src |-> None, n |-> 0])
  /\ UNCHANGED <<pendingStop, continued, messages, pc, op, calls, visited,
                 pModule, sent, asked, taken>>

NotifySync(t) ==
  /\ Free(t)
  /\ Executes(t) # None
  /\ Len(calls[t]) < MaxDepth
  /\ LET m == Executes(t)
     IN  /\ asked[m] < MaxAsk
         /\ \E s \in Sends[m] :
              LET msg == [category |-> s[1], id |-> s[2], src |-> None, n |-> 0]
              IN  calls' = [calls EXCEPT ![t] =
                              Append(@, [msg |-> msg, done |-> {}, in |-> None])]
         /\ asked' = [asked EXCEPT ![m] = @ + 1]
  /\ UNCHANGED <<queueVars, pc, op, visited, pModule, sent>>

-----------------------------------------------------------------------------
(* destroy_module: the object goes first, the pointer to it afterwards.    *)

DestroyObject(t) ==
  /\ Free(t) /\ pc[t] = "destroy"
  /\ pModule' = [m \in Modules |-> IF m = op[t] THEN "freed" ELSE pModule[m]]
  /\ Goto(t, "nullify")
  /\ UNCHANGED <<queueVars, countVars, op, calls, visited>>

DestroyPointer(t) ==
  /\ Free(t) /\ pc[t] = "nullify"
  /\ pModule' = [m \in Modules |-> IF m = op[t] THEN "null" ELSE pModule[m]]
  /\ GenerateLogMessage(t)
  /\ Goto(t, Returns(t))
  /\ op' = [op EXCEPT ![t] = None]
  /\ UNCHANGED <<pendingStop, continued, messages, calls, visited, sent, asked, taken>>

(* The end of run_module_internal and of stop_module: MODULE_OK and        *)
(* MODULE_ERROR are logged, MODULE_FATAL is logged and destroys the        *)
(* module.  An isolated module whose run has returned lives on in the      *)
(* threads that run has started (file_monitor, the stap monitors, rpcsrv): *)
(* its thread stands for them.                                             *)
ModuleReturns(t, called) ==
  /\ Free(t) /\ pc[t] = called /\ calls[t] = << >>
  /\ GenerateLogMessage(t)
  /\ \/ t \in RunThreads /\ Goto(t, "background") /\ op' = op
     \/ t \notin RunThreads /\ Goto(t, Returns(t)) /\ op' = [op EXCEPT ![t] = None]
     \/ Goto(t, "destroy") /\ op' = op
  /\ UNCHANGED <<pendingStop, continued, messages, calls, visited, pModule,
                 sent, asked, taken>>

RunModuleInternal(t) == ModuleReturns(t, "run")
-----------------------------------------------------------------------------
(* scheduler::run on the main thread.                                      *)

Run ==
  /\ Free(Main) /\ pc[Main] = "created"
  /\ GenerateLogMessage(Main)
  /\ Goto(Main, "runModules")
  /\ UNCHANGED <<pendingStop, continued, messages, op, calls, visited, pModule,
                 sent, asked, taken>>

(* run_module: in a thread of its own, or on this one.                     *)
RunModule(p) ==
  /\ Free(Main) /\ pc[Main] = "runModules" /\ NextEntry(Main, p)
  /\ Visit(Main, p)
  /\ LET t == IF p \in RunThreads THEN p ELSE Main
     IN  /\ Goto(t, "run")
         /\ op' = [op EXCEPT ![t] = Entered(ModuleAt(p))]
  /\ UNCHANGED <<queueVars, countVars, calls, pModule>>

RunModulesFinished ==
  /\ Free(Main) /\ pc[Main] = "runModules" /\ visited[Main] = Positions
  /\ Goto(Main, "pop")
  /\ UNCHANGED <<queueVars, countVars, op, calls, visited, pModule>>

(* Mutant: 0 <= size, which always holds.                                  *)
PopModuleMessage_AtLeastZero ==
  /\ Free(Main) /\ pc[Main] = "pop"
  /\ Goto(Main, "take")
  /\ UNCHANGED <<queueVars, countVars, op, calls, visited, pModule>>

(* Mutant: 1 < size.                                                       *)
PopModuleMessage_LeavesLast ==
  /\ Free(Main) /\ pc[Main] = "pop"
  /\ \/ (Len(messages) > 1 \/ pushing # << >>) /\ Goto(Main, "take")
     \/ (Len(messages) =< 1 \/ pushing # << >>) /\ Goto(Main, "check")
  /\ UNCHANGED <<queueVars, countVars, op, calls, visited, pModule>>

(* pop_module_message looks at the size without the lock, so what it sees  *)
(* while a push is going on may be anything: std::deque computes its size  *)
(* from several pointers.  When it sees 0 it sleeps for a second and then  *)
(* reports that there is no message, which "check" stands for.             *)
PopModuleMessage ==
  /\ Free(Main) /\ pc[Main] = "pop"
  /\ \/ (messages # << >> \/ pushing # << >>) /\ Goto(Main, "take")
     \/ (messages = << >> \/ pushing # << >>) /\ Goto(Main, "check")
  /\ UNCHANGED <<queueVars, countVars, op, calls, visited, pModule>>

(* Mutant: the newest message is taken.                                    *)
TakeModuleMessage_Newest ==
  /\ Free(Main) /\ pc[Main] = "take"
  /\ pushing = << >>
  /\ LET msg == messages[Len(messages)]
     IN  /\ calls' = [calls EXCEPT ![Main] = << [msg |-> msg, done |-> {}, in |-> None] >>]
         /\ taken' = [m \in Modules |->
                        IF m = msg.src THEN Append(taken[m], msg.n) ELSE taken[m]]
  /\ messages' = SubSeq(messages, 1, Len(messages) - 1)
  /\ Goto(Main, "dispatch")
  /\ UNCHANGED <<pendingStop, continued, pushing, countVars, op, visited, pModule>>

(* With the lock, the oldest message is taken off the queue.               *)
TakeModuleMessage ==
  /\ Free(Main) /\ pc[Main] = "take"
  /\ pushing = << >>
  /\ LET msg == Head(messages)
     IN  /\ calls' = [calls EXCEPT ![Main] = << [msg |-> msg, done |-> {}, in |-> None] >>]
         /\ taken' = [m \in Modules |->
                        IF m = msg.src THEN Append(taken[m], msg.n) ELSE taken[m]]
  /\ messages' = Tail(messages)
  /\ Goto(Main, "dispatch")
  /\ UNCHANGED <<pendingStop, continued, pushing, countVars, op, visited, pModule>>

(* dispatch_module_message has returned true, so the loop goes on.         *)
DispatchFinished ==
  /\ Free(Main) /\ IsDispatch(Main)
  /\ Top(Main).in = None /\ CallsLeft(Top(Main)) = {}
  /\ calls' = [calls EXCEPT ![Main] = << >>]
  /\ Goto(Main, "pop")
  /\ UNCHANGED <<queueVars, countVars, op, visited, pModule>>

(* Nothing was popped: the loop ends if a stop is pending.                 *)
CheckStop ==
  /\ Free(Main) /\ pc[Main] = "check"
  /\ IF pendingStop
     THEN continued' = FALSE /\ pendingStop' = FALSE /\ Goto(Main, "ended")
     ELSE Goto(Main, "pop") /\ UNCHANGED <<continued, pendingStop>>
  /\ UNCHANGED <<messages, pushing, countVars, op, calls, visited, pModule, taken>>

-----------------------------------------------------------------------------
(* scheduler::stop on another thread.                                      *)

Stop(t) ==
  /\ Free(t) /\ pc[t] = "idle"
  /\ GenerateLogMessage(t)
  /\ Goto(t, "request")
  /\ UNCHANGED <<pendingStop, continued, messages, op, calls, visited, pModule,
                 sent, asked, taken>>

RequestStop(t) ==
  /\ Free(t) /\ pc[t] = "request"
  /\ pendingStop' = TRUE
  /\ Goto(t, "wait")
  /\ UNCHANGED <<continued, messages, pushing, countVars, op, calls, visited,
                 pModule, taken>>

(* Mutant: the busy wait is missing.                                       *)
StopWaited_AtOnce(t) ==
  /\ Free(t) /\ pc[t] = "wait"
  /\ Goto(t, "stopModules")
  /\ UNCHANGED <<queueVars, countVars, op, calls, visited, pModule>>

(* The busy wait ends: the main loop has taken the flag back.              *)
StopWaited(t) ==
  /\ Free(t) /\ pc[t] = "wait" /\ ~ pendingStop
  /\ Goto(t, "stopModules")
  /\ UNCHANGED <<queueVars, countVars, op, calls, visited, pModule>>

StopModule(t, p) ==
  /\ Free(t) /\ pc[t] = "stopModules" /\ NextEntry(t, p)
  /\ Visit(t, p)
  /\ Goto(t, "stop")
  /\ op' = [op EXCEPT ![t] = Entered(ModuleAt(p))]
  /\ UNCHANGED <<queueVars, countVars, calls, pModule>>

StopModuleReturns(t) == ModuleReturns(t, "stop")

StopFinished(t) ==
  /\ Free(t) /\ pc[t] = "stopModules" /\ visited[t] = Positions
  /\ Goto(t, "stopped")
  /\ UNCHANGED <<queueVars, countVars, op, calls, visited, pModule>>

-----------------------------------------------------------------------------
(* launch_module destroys the scheduler as soon as run has returned.       *)

Destroy ==
  /\ Free(Main) /\ pc[Main] = "ended"
  /\ visited' = [visited EXCEPT ![Main] = {}]
  /\ Goto(Main, "destroyModules")
  /\ UNCHANGED <<queueVars, countVars, op, calls, pModule>>

DestroyModule(p) ==
  /\ Free(Main) /\ pc[Main] = "destroyModules" /\ NextEntry(Main, p)
  /\ Visit(Main, p)
  /\ Goto(Main, "destroy")
  /\ op' = [op EXCEPT ![Main] = Entered(ModuleAt(p))]
  /\ UNCHANGED <<queueVars, countVars, calls, pModule>>

(* The last log message is pushed and goes with the queue and the lists,   *)
(* and main returns.                                                       *)
DestroyFinished ==
  /\ Free(Main) /\ pc[Main] = "destroyModules" /\ visited[Main] = Positions
  /\ pushing = << >>
  /\ messages' = << >>
  /\ Goto(Main, "gone")
  /\ UNCHANGED <<pendingStop, continued, pushing, taken, countVars, op, calls,
                 visited, pModule>>

Exited == pc[Main] = "gone" /\ UNCHANGED vars
-----------------------------------------------------------------------------
Init ==
  /\ pendingStop = FALSE
  /\ continued = TRUE
  /\ messages = CreationLog
  /\ pushing = << >>
  /\ pc = [t \in Threads |-> CASE t = Main         -> "created"
                               [] t \in Stoppers   -> "idle"
                               [] t \in RunThreads -> "none"]
  /\ op = [t \in Threads |-> None]
  /\ calls = [t \in Threads |-> << >>]
  /\ visited = [t \in Threads |-> {}]
  /\ pModule = [m \in Modules |-> "live"]
  /\ sent = [m \in Modules |-> 0]
  /\ asked = [m \in Modules |-> 0]
  /\ taken = [m \in Modules |-> << >>]

HandOver(t) == Assign(t) \/ AssignReturns(t) \/ HandleFinished(t)

DestroyingModule(t) == DestroyObject(t) \/ DestroyPointer(t)

MainStep ==
  \/ Run
  \/ \E p \in Positions : RunModule(p)
  \/ RunModulesFinished
  \/ RunModuleInternal(Main)
  \/ PopModuleMessage
  \/ TakeModuleMessage
  \/ HandOver(Main)
  \/ DispatchFinished
  \/ CheckStop
  \/ Destroy
  \/ \E p \in Positions : DestroyModule(p)
  \/ DestroyingModule(Main)
  \/ DestroyFinished

StopperStep(t) ==
  \/ RequestStop(t)
  \/ StopWaited(t)
  \/ \E p \in Positions : StopModule(t, p)
  \/ StopModuleReturns(t)
  \/ DestroyingModule(t)
  \/ HandOver(t)
  \/ StopFinished(t)

RunThreadStep(t) == HandOver(t) \/ DestroyingModule(t)

Next ==
  \/ PushEnd
  \/ MainStep
  \/ \E t \in Stoppers : Stop(t) \/ StopperStep(t)
  \/ \E t \in RunThreads : RunModuleInternal(t) \/ RunThreadStep(t)
  \/ \E t \in Threads : NotifyAsync(t) \/ NotifyMore(t) \/ NotifySync(t)
  \/ Exited

Spec == Init /\ [][Next]_vars

(* Threads are scheduled, a lock that is held is released, and a module's  *)
(* assign, stop and - on the main thread - run come back.  No module has   *)
(* to notify, no isolated module's run has to end, and nobody has to call  *)
(* stop.                                                                   *)
Fairness ==
  /\ WF_vars(PushEnd)
  /\ WF_vars(MainStep)
  /\ \A t \in Stoppers : WF_vars(StopperStep(t))

FairSpec == Spec /\ Fairness
-----------------------------------------------------------------------------
(***************************************************************************)
(* Types of the state.                                                     *)
(***************************************************************************)
Places == {"created", "runModules", "run", "background", "pop", "take", "dispatch",
           "check", "ended", "destroyModules", "destroy", "nullify", "gone", "none",
           "idle", "request", "wait", "stopModules", "stop", "stopped"}

TypeOK ==
  /\ pendingStop \in BOOLEAN
  /\ continued \in BOOLEAN
  /\ messages \in Seq(Message)
  /\ pushing \in Seq([by : Threads, msg : Message]) /\ Len(pushing) =< 1
  /\ pc \in [Threads -> Places]
  /\ op \in [Threads -> Modules \cup {None}]
  /\ calls \in [Threads -> Seq(Frame)]
  /\ visited \in [Threads -> SUBSET Positions]
  /\ pModule \in [Modules -> {"live", "freed", "null"}]
  /\ sent \in [Modules -> Nat]
  /\ asked \in [Modules -> Nat]
  /\ taken \in [Modules -> Seq(Nat)]

(***************************************************************************)
(* pop_module_message reads the size without the lock, possibly in the     *)
(* middle of a push, and pops once it has the lock: the queue it then pops *)
(* from is never empty.                                                    *)
(***************************************************************************)
PopFindsMessage == pc[Main] = "take" /\ pushing = << >> => messages # << >>

(***************************************************************************)
(* However the threads interleave and whenever stop comes, the messages of *)
(* a module that the main loop dispatches are its first notifications,     *)
(* each once and in their order: none is lost between two dispatched ones, *)
(* although push_module_message drops what arrives while a stop is pending *)
(* and accepts messages again once run has reset the flag.                 *)
(***************************************************************************)
DispatchedIsPrefix ==
  \A m \in Modules : taken[m] = [i \in 1 .. Len(taken[m]) |-> i]

(***************************************************************************)
(* stop calls the modules' stop only after the main loop has ended: no     *)
(* queued message is dispatched to a module that has been told to stop.    *)
(***************************************************************************)
StoppingAfterLoop ==
  \A t \in Stoppers :
    pc[t] \in {"stopModules", "stop", "destroy", "nullify", "stopped"} =>
      pc[Main] \in {"ended", "destroyModules", "destroy", "nullify", "gone"}

(***************************************************************************)
(* Once a caller of stop has set the flag, the loop of run ends: the       *)
(* messages that keep arriving, and there is no end to them, cannot hold   *)
(* it up for ever.                                                         *)
(***************************************************************************)
StopEndsLoop ==
  \A t \in Stoppers : pc[t] = "wait" ~> ~ continued

(***************************************************************************)
(* As long as the loop does not end, every message that is in the queue    *)
(* gets dispatched: neither an unlocked look at the size nor the sleeps    *)
(* can hold it back for ever.  (One that arrives during the last sleep     *)
(* before a stop stays in the queue.)                                      *)
(***************************************************************************)
QueuedIsDispatched ==
  \A m \in Modules, n \in 1 .. MaxNotify :
    (\E i \in DOMAIN messages : messages[i].src = m /\ messages[i].n = n)
      ~> (~ continued \/ \E i \in DOMAIN taken[m] : taken[m][i] = n)
=============================================================================
