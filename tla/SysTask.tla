------------------------------- MODULE SysTask -------------------------------
(***************************************************************************)
(* The tasks of the management centre in stap_edr_monitor: assign pushes   *)
(* them to sys_tasks on the scheduler's thread, the statistics loop pops   *)
(* them, stores each in a file named after its command (tunnel.cpp) and    *)
(* applies it; a restart reads the files back through the same queue.      *)
(*                                                                         *)
(* The queue is the one that RingBuffer implements.  Pushes that overlap,  *)
(* which it is not made for, are left to RingBuffer.                       *)
(***************************************************************************)
EXTENDS Naturals, Sequences, SequencesExt

CONSTANTS
  Cmds,        \* the commands that set something: SetSnapTime, SetActionRule
  Capacity,    \* how many tasks sys_tasks holds
  MayStop,     \* whether the module is stopped
  MaxTasks,    \* bound: tasks assigned
  MaxFaults,   \* bound: files that cannot be opened or written
  MaxCrashes   \* bound: crashes of the process

ASSUME SysTaskAssumption ==
  /\ Capacity \in Nat \ {0} /\ MayStop \in BOOLEAN
  /\ MaxTasks \in Nat /\ MaxFaults \in Nat /\ MaxCrashes \in Nat

Params == 1 .. MaxTasks      \* in the order in which they are assigned

Task == Cmds \X Params

VARIABLES
  process,    \* "up", "ended" (the loop), "down"
  running,    \* p_st->running
  pc,         \* of the statistics loop
  task,       \* the task it has in hand
  file,       \* the params in ./tunnel/<command>; 0: no file, or an empty one
  setting,    \* the params in effect; 0: the default
  loaded,     \* the tasks read back since the process started
  sys_tasks, popped, rejected,   \* the queue, what came out, what did not fit
  assigned,   \* number of tasks assigned
  reported,   \* tasks for which this process has reported success
  garbled,    \* params that cannot be parsed
  faults, crashes

queueVars == <<sys_tasks, popped, rejected>>
centreVars == <<assigned, reported, garbled>>
vars == <<process, running, pc, task, file, setting, loaded, queueVars, centreVars,
          faults, crashes>>

Fifo == INSTANCE BoundedFifo WITH Items <- Task, queue <- sys_tasks, out <- popped

NoTask == << >>
Cmd == task[1]
-----------------------------------------------------------------------------
(* assign: the result that is reported says only whether there were params.*)
AssignTask(c) ==
  LET t == <<c, assigned + 1>> IN
  /\ process = "up" /\ running /\ assigned < MaxTasks
  /\ Fifo!Push(t) \/ Fifo!Reject(t)
  /\ assigned' = assigned + 1
  /\ reported' = reported \cup {t}
  /\ garbled' \in {garbled, garbled \cup {assigned + 1}}
  /\ UNCHANGED <<process, running, pc, task, file, setting, loaded, faults, crashes>>
-----------------------------------------------------------------------------
(* load_tunnel: tunnel_output reads a file, in the order of the directory, *)
(* and removes it; a file of no size is passed over...                     *)
TunnelOutput(c) ==
  /\ process = "up" /\ pc = "load" /\ file[c] # 0
  /\ task' = <<c, file[c]>>
  /\ file' = [file EXCEPT ![c] = 0]
  /\ pc' = "push"
  /\ UNCHANGED <<process, running, setting, loaded, queueVars, centreVars, faults, crashes>>

(* Mutant: the loop is an if.                                              *)
PushLoaded_Once ==
  /\ process = "up" /\ pc = "push"
  /\ Fifo!Push(task) \/ Fifo!Reject(task)
  /\ loaded' = loaded \cup {task}
  /\ task' = NoTask
  /\ pc' = "turn"
  /\ UNCHANGED <<process, running, file, setting, centreVars, faults, crashes>>

(* ...and its task goes to the queue, or is freed when that is full.       *)
PushLoaded ==
  /\ process = "up" /\ pc = "push"
  /\ Fifo!Push(task) \/ Fifo!Reject(task)
  /\ loaded' = loaded \cup {task}
  /\ task' = NoTask
  /\ pc' = "load"
  /\ UNCHANGED <<process, running, file, setting, centreVars, faults, crashes>>

LoadFinished ==
  /\ process = "up" /\ pc = "load" /\ \A c \in Cmds : file[c] = 0
  /\ pc' = "turn"
  /\ UNCHANGED <<process, running, task, file, setting, loaded, queueVars, centreVars,
                 faults, crashes>>
-----------------------------------------------------------------------------
(* sys_info_statis_loop: a turn that comes to the tasks; the others change *)
(* nothing here.                                                           *)
Turn ==
  /\ process = "up" /\ pc = "turn"
  /\ IF running THEN pc' = "process" /\ UNCHANGED process
                ELSE process' = "ended" /\ UNCHANGED pc
  /\ UNCHANGED <<running, task, file, setting, loaded, queueVars, centreVars, faults,
                 crashes>>

(* Mutant: the newest task is taken.                                       *)
TakeTask_Newest ==
  /\ sys_tasks # << >>
  /\ sys_tasks' = Front(sys_tasks)
  /\ popped' = Append(popped, Last(sys_tasks))
  /\ UNCHANGED rejected

TakeTask == Fifo!Pop

(* Mutant: the last task stays in the queue.                               *)
TasksLeft_ButOne == Len(sys_tasks) > 1

TasksLeft == sys_tasks # << >>

(* process_sys_task, the condition of its loop.                            *)
ProcessSysTask ==
  /\ process = "up" /\ pc = "process"
  /\ IF TasksLeft
     THEN TakeTask /\ task' = Last(popped') /\ pc' = "store"
     ELSE pc' = "turn" /\ UNCHANGED <<task, queueVars>>
  /\ UNCHANGED <<process, running, file, setting, loaded, centreVars, faults, crashes>>

(* Mutant: a task that was read back is not stored again.                  *)
TunnelInput_NewOnly ==
  /\ process = "up" /\ pc = "store"
  /\ \/ /\ task \notin loaded
        /\ file' = [file EXCEPT ![Cmd] = 0] /\ pc' = "write" /\ UNCHANGED faults
     \/ task \in loaded /\ pc' = "apply" /\ UNCHANGED <<file, faults>>
  /\ UNCHANGED <<process, running, task, setting, loaded, queueVars, centreVars, crashes>>

(* tunnel_input: fopen empties the file, if it can...                      *)
TunnelInput ==
  /\ process = "up" /\ pc = "store"
  /\ \/ file' = [file EXCEPT ![Cmd] = 0] /\ pc' = "write" /\ UNCHANGED faults
     \/ /\ faults < MaxFaults /\ faults' = faults + 1
        /\ pc' = "apply" /\ UNCHANGED file
  /\ UNCHANGED <<process, running, task, setting, loaded, queueVars, centreVars, crashes>>

(* ...and fwrite and fclose fill it, if they can.                          *)
TunnelWrite ==
  /\ process = "up" /\ pc = "write"
  /\ \/ file' = [file EXCEPT ![Cmd] = task[2]] /\ UNCHANGED faults
     \/ faults < MaxFaults /\ faults' = faults + 1 /\ UNCHANGED file
  /\ pc' = "apply"
  /\ UNCHANGED <<process, running, task, setting, loaded, queueVars, centreVars, crashes>>

(* process_snap_shot_delta, process_action_rule: params that cannot be     *)
(* parsed leave the old setting.                                           *)
Apply ==
  /\ process = "up" /\ pc = "apply"
  /\ setting' = IF task[2] \in garbled THEN setting ELSE [setting EXCEPT ![Cmd] = task[2]]
  /\ task' = NoTask
  /\ pc' = "process"
  /\ UNCHANGED <<process, running, file, loaded, queueVars, centreVars, faults, crashes>>
-----------------------------------------------------------------------------
(* sys_info_statis_stop; its join ends with the loop.                      *)
Stop ==
  /\ MayStop /\ process = "up" /\ running
  /\ running' = FALSE
  /\ UNCHANGED <<process, pc, task, file, setting, loaded, queueVars, centreVars, faults,
                 crashes>>

(* What is in memory goes, the tasks in the queue with it.                 *)
MemoryLost ==
  /\ process' = "down"
  /\ task' = NoTask /\ loaded' = {} /\ reported' = {}
  /\ sys_tasks' = << >> /\ popped' = << >> /\ rejected' = {}
  /\ setting' = [c \in Cmds |-> 0]
  /\ UNCHANGED <<running, pc, file, assigned, garbled, faults>>

(* sys_info_statis_destroy.                                                *)
Destroy == process = "ended" /\ MemoryLost /\ UNCHANGED crashes

Crash ==
  /\ process = "up" /\ crashes < MaxCrashes /\ crashes' = crashes + 1
  /\ MemoryLost

(* The module is created and its loop started.                             *)
Start ==
  /\ process = "down"
  /\ process' = "up" /\ running' = TRUE /\ pc' = "load"
  /\ UNCHANGED <<task, file, setting, loaded, queueVars, centreVars, faults, crashes>>

Init ==
  /\ process = "up" /\ running = TRUE /\ pc = "load" /\ task = NoTask
  /\ file = [c \in Cmds |-> 0] /\ setting = [c \in Cmds |-> 0]
  /\ loaded = {} /\ Fifo!Init
  /\ assigned = 0 /\ reported = {} /\ garbled = {}
  /\ faults = 0 /\ crashes = 0

Loop ==
  \/ \E c \in Cmds : TunnelOutput(c)
  \/ PushLoaded \/ LoadFinished \/ Turn \/ ProcessSysTask
  \/ TunnelInput \/ TunnelWrite \/ Apply

Next == Loop \/ (\E c \in Cmds : AssignTask(c)) \/ Stop \/ Destroy \/ Crash \/ Start

Spec == Init /\ [][Next]_vars

(* The loop runs, and a turn comes to the tasks again and again.           *)
FairSpec == Spec /\ WF_vars(Loop) /\ WF_vars(Start) /\ WF_vars(Destroy)
-----------------------------------------------------------------------------
TypeOK ==
  /\ process \in {"up", "ended", "down"} /\ running \in BOOLEAN
  /\ pc \in {"load", "push", "turn", "process", "store", "write", "apply"}
  /\ task \in Task \cup {NoTask}
  /\ file \in [Cmds -> 0 .. MaxTasks] /\ setting \in [Cmds -> 0 .. MaxTasks]
  /\ loaded \subseteq Task /\ reported \subseteq Task /\ rejected \subseteq Task
  /\ sys_tasks \in Seq(Task) /\ Len(sys_tasks) <= Capacity /\ popped \in Seq(Task)
  /\ assigned \in 0 .. MaxTasks /\ garbled \subseteq Params
  /\ faults \in 0 .. MaxFaults /\ crashes \in 0 .. MaxCrashes

(* process_sys_task stores before it applies: while files can be written,  *)
(* what is in effect is what a restart would read back, unless a later     *)
(* task of the command is being stored, or could not be parsed.  (All      *)
(* variables have their types.)                                            *)
InEffectIsStored ==
  /\ TypeOK
  /\ \A c \in Cmds :
       faults = 0 /\ setting[c] # 0
         => \/ file[c] = setting[c] \/ file[c] \in garbled
            \/ pc \in {"write", "apply"} /\ Cmd = c

(* A setting gives way only to a task assigned later; the exception is a   *)
(* stored one that load_tunnel queues behind what assign has already       *)
(* pushed.                                                                 *)
LaterTaskWins ==
  [][\A c \in Cmds : setting'[c] \notin {0, setting[c]}
                     => setting'[c] > setting[c] \/ <<c, setting'[c]>> \in loaded]_vars

(* The loop has ended or the process is down, and the task is in no file.  *)
Lost(t) == process # "up" /\ file[t[1]] # t[2]

Settled(t) == setting[t[1]] = t[2] \/ t \in rejected \/ t[2] \in garbled \/ Lost(t)

(* load_tunnel: what is stored when the process starts is in effect again, *)
(* if it can be parsed, also when the process crashes on the way.  There   *)
(* are two exceptions: the queue was full; or the module was stopped or    *)
(* the process crashed after tunnel_output had removed the file and before *)
(* tunnel_input had stored the task again, and then the setting is lost    *)
(* for good.                                                               *)
StoredIsApplied ==
  \A t \in Task : (process = "up" /\ pc = "load" /\ file[t[1]] = t[2]) ~> Settled(t)

(* assign: a task whose success is reported comes into effect, if it can   *)
(* be parsed, with two exceptions: the queue was full; or the module was   *)
(* stopped or the process crashed before the task was stored.  The loop    *)
(* ends without draining the queue, and destroy frees what is left in it.  *)
ReportedIsDone == \A t \in Task : t \in reported \ Range(popped) ~> Settled(t)
=============================================================================
