---------------------------- MODULE SysTaskProofs ----------------------------
(***************************************************************************)
(* Proofs about SysTask, for any commands, capacity of the queue, and      *)
(* number of tasks, faults and crashes.                                    *)
(***************************************************************************)
EXTENDS SysTask, TLAPS

(* The types, without the only Boolean variable.                           *)
Types ==
  /\ process \in {"up", "ended", "down"}
  /\ pc \in {"load", "push", "turn", "process", "store", "write", "apply"}
  /\ task \in Task \cup {NoTask}
  /\ file \in [Cmds -> 0 .. MaxTasks] /\ setting \in [Cmds -> 0 .. MaxTasks]
  /\ loaded \subseteq Task /\ reported \subseteq Task /\ rejected \subseteq Task
  /\ sys_tasks \in Seq(Task) /\ Len(sys_tasks) <= Capacity /\ popped \in Seq(Task)
  /\ assigned \in 0 .. MaxTasks /\ garbled \subseteq Params
  /\ faults \in 0 .. MaxFaults /\ crashes \in 0 .. MaxCrashes

(* Whether the loop has a task in hand, and that nothing is in effect      *)
(* before the stored tasks have been read back.                            *)
HandInv ==
  /\ process = "up" => (task # NoTask <=> pc \in {"push", "store", "write", "apply"})
  /\ process # "up" => task = NoTask
  /\ process = "ended" => pc = "turn"
  /\ process = "down" => sys_tasks = << >>
  /\ process = "down" \/ pc \in {"load", "push"} => \A c \in Cmds : setting[c] = 0

(* While files can be written, what is in effect is stored, or the next    *)
(* task of the command is, or will be at once.                             *)
StoreInv ==
  faults = 0 =>
    /\ process = "up" /\ pc = "apply" => file[task[1]] = task[2]
    /\ \A c \in Cmds : setting[c] # 0
         => \/ file[c] = setting[c] \/ file[c] \in garbled
            \/ pc \in {"write", "apply"} /\ task[1] = c

(* A task that was not read back is later than everything: what is in      *)
(* effect, what was read back and will be, and what is before it.          *)
Later(n) ==
  /\ \A c \in Cmds : setting[c] < n
  /\ \A t \in loaded : t[2] < n

OrderInv ==
  /\ \A c \in Cmds : file[c] <= assigned /\ setting[c] <= assigned
  /\ \A t \in loaded : t[2] <= assigned
  /\ task # NoTask => task[2] <= assigned
  /\ task # NoTask => \/ pc = "push" \/ task \in loaded
                      \/ \A c \in Cmds : setting[c] < task[2]
  /\ \A i \in 1 .. Len(sys_tasks) :
       /\ sys_tasks[i][2] <= assigned
       /\ sys_tasks[i] \notin loaded =>
            /\ Later(sys_tasks[i][2])
            /\ task # NoTask => task[2] < sys_tasks[i][2]
            /\ pc \in {"load", "push"} => \A c \in Cmds : file[c] < sys_tasks[i][2]
            /\ \A j \in 1 .. i - 1 : sys_tasks[j][2] < sys_tasks[i][2]

Inv == Types /\ HandInv /\ StoreInv /\ OrderInv

(* The invariant holds before the first task.                              *)
LEMMA Initially == Init => Inv
<1> SUFFICES ASSUME Init PROVE Inv
  OBVIOUS
<1> USE SysTaskAssumption DEF Init
<1>1. sys_tasks = << >> /\ popped = << >> /\ rejected = {}
  BY DEF Fifo!Init
<1>2. Types
  BY <1>1 DEF Types, Task
<1>3. HandInv /\ StoreInv
  BY DEF HandInv, StoreInv
<1>4. OrderInv
  BY <1>1 DEF OrderInv
<1> QED
  BY <1>2, <1>3, <1>4 DEF Inv
-----------------------------------------------------------------------------
(* What the steps do to the queue.                                         *)
LEMMA PushType ==
  ASSUME Types, NEW t \in Task, Fifo!Push(t) \/ Fifo!Reject(t)
  PROVE  /\ sys_tasks' \in Seq(Task) /\ Len(sys_tasks') <= Capacity
         /\ popped' \in Seq(Task) /\ rejected' \subseteq Task
         /\ \/ UNCHANGED sys_tasks
            \/ /\ Len(sys_tasks') = Len(sys_tasks) + 1
               /\ sys_tasks'[Len(sys_tasks) + 1] = t
               /\ \A i \in 1 .. Len(sys_tasks) : sys_tasks'[i] = sys_tasks[i]
<1>1. CASE Fifo!Push(t)
  <2>1. /\ sys_tasks \in Seq(Task) /\ Len(sys_tasks) < Capacity /\ Capacity \in Nat
        /\ sys_tasks' = Append(sys_tasks, t)
        /\ UNCHANGED <<popped, rejected>>
    BY <1>1, SysTaskAssumption DEF Types, Fifo!Push
  <2>2. Len(sys_tasks') = Len(sys_tasks) + 1 /\ sys_tasks' \in Seq(Task)
    BY <2>1
  <2>3. /\ sys_tasks'[Len(sys_tasks) + 1] = t
        /\ \A i \in 1 .. Len(sys_tasks) : sys_tasks'[i] = sys_tasks[i]
    BY <2>1
  <2> QED
    BY <2>1, <2>2, <2>3 DEF Types
<1>2. CASE Fifo!Reject(t)
  BY <1>2 DEF Types, Fifo!Reject
<1> QED
  BY <1>1, <1>2

(* Taking a task shortens the queue.                                       *)
LEMMA PopType ==
  ASSUME Types, TakeTask
  PROVE  /\ sys_tasks' \in Seq(Task) /\ Len(sys_tasks') = Len(sys_tasks) - 1
         /\ Len(sys_tasks) > 0
         /\ popped' \in Seq(Task) /\ rejected' \subseteq Task
         /\ Last(popped') = sys_tasks[1] /\ sys_tasks[1] \in Task
         /\ \A i \in 1 .. Len(sys_tasks') : sys_tasks'[i] = sys_tasks[i + 1]
  BY SysTaskAssumption DEF Types, TakeTask, Fifo!Pop, Last

(* Every step keeps the types.                                             *)
LEMMA TypeStep == ASSUME Types, HandInv, [Next]_vars PROVE Types'
<1> USE SysTaskAssumption DEF queueVars, centreVars
<1>1. ASSUME NEW c \in Cmds, AssignTask(c) PROVE Types'
  <2>1. assigned + 1 \in Params /\ <<c, assigned + 1>> \in Task
    BY <1>1 DEF AssignTask, Types, Task, Params
  <2>2. Fifo!Push(<<c, assigned + 1>>) \/ Fifo!Reject(<<c, assigned + 1>>)
    BY <1>1 DEF AssignTask
  <2>3. /\ sys_tasks' \in Seq(Task) /\ Len(sys_tasks') <= Capacity
        /\ popped' \in Seq(Task) /\ rejected' \subseteq Task
    BY <2>1, <2>2, PushType
  <2>4. assigned' \in 0 .. MaxTasks
    BY <1>1 DEF AssignTask, Types
  <2>5. garbled' \subseteq Params /\ reported' \subseteq Task
    BY <1>1, <2>1 DEF AssignTask, Types
  <2> QED
    BY <1>1, <2>3, <2>4, <2>5 DEF AssignTask, Types
<1>2. ASSUME NEW c \in Cmds, TunnelOutput(c) PROVE Types'
  <2>1. <<c, file[c]>> \in Task
    BY <1>2 DEF TunnelOutput, Types, Task, Params
  <2> QED
    BY <1>2, <2>1 DEF TunnelOutput, Types
<1>3. CASE PushLoaded
  <2>1. task \in Task
    BY <1>3 DEF PushLoaded, Types, HandInv
  <2>2. /\ sys_tasks' \in Seq(Task) /\ Len(sys_tasks') <= Capacity
        /\ popped' \in Seq(Task) /\ rejected' \subseteq Task
    BY <1>3, <2>1, PushType DEF PushLoaded
  <2> QED
    BY <1>3, <2>1, <2>2 DEF PushLoaded, Types
<1>4. CASE LoadFinished
  BY <1>4 DEF LoadFinished, Types
<1>5. CASE Turn
  BY <1>5 DEF Turn, Types
<1>6. CASE ProcessSysTask
  <2>1. CASE TakeTask /\ task' = Last(popped') /\ pc' = "store"
    BY <1>6, <2>1, PopType DEF ProcessSysTask, Types
  <2>2. CASE pc' = "turn" /\ UNCHANGED <<task, queueVars>>
    BY <1>6, <2>2 DEF ProcessSysTask, Types
  <2> QED
    BY <1>6, <2>1, <2>2 DEF ProcessSysTask
<1>7. CASE TunnelInput
  <2>1. file' \in [Cmds -> 0 .. MaxTasks]
    BY <1>7, SMTT(30) DEF TunnelInput, Types
  <2>2. faults' \in 0 .. MaxFaults /\ pc' \in {"write", "apply"}
    BY <1>7 DEF TunnelInput, Types
  <2> QED
    BY <1>7, <2>1, <2>2 DEF TunnelInput, Types
<1>8. CASE TunnelWrite
  <2>1. task \in Task
    BY <1>8 DEF TunnelWrite, Types, HandInv
  <2>2. task[2] \in 0 .. MaxTasks
    BY <2>1 DEF Task, Params
  <2> QED
    BY <1>8, <2>2, SMTT(30) DEF TunnelWrite, Types
<1>9. CASE Apply
  <2>1. task \in Task
    BY <1>9 DEF Apply, Types, HandInv
  <2>2. task[2] \in 0 .. MaxTasks
    BY <2>1 DEF Task, Params
  <2> QED
    BY <1>9, <2>2 DEF Apply, Types
<1>10. CASE Stop
  BY <1>10 DEF Stop, Types
<1>11. CASE MemoryLost /\ (UNCHANGED crashes \/ (crashes < MaxCrashes /\ crashes' = crashes + 1))
  <2>1. << >> \in Seq(Task) /\ Len(<< >>) <= Capacity
    OBVIOUS
  <2> QED
    BY <1>11, <2>1 DEF MemoryLost, Types
<1>12. CASE Start
  BY <1>12 DEF Start, Types
<1>13. CASE UNCHANGED vars
  BY <1>13 DEF vars, Types
<1> QED
  BY <1>1, <1>2, <1>3, <1>4, <1>5, <1>6, <1>7, <1>8, <1>9, <1>10, <1>11, <1>12, <1>13
  DEF Next, Loop, Destroy, Crash
-----------------------------------------------------------------------------
(* The task in hand and the stored one agree as far as they have to.       *)
LEMMA HandStep == ASSUME Inv, [Next]_vars PROVE HandInv' /\ StoreInv'
<1>0. Types /\ Types' /\ HandInv /\ StoreInv
  BY TypeStep DEF Inv
<1> USE <1>0 DEF HandInv, StoreInv, queueVars, centreVars
<1>a. NoTask \notin Task
  BY DEF NoTask, Task
<1>1. ASSUME NEW c \in Cmds, AssignTask(c) PROVE HandInv' /\ StoreInv'
  <2>1. garbled \subseteq garbled'
    BY <1>1 DEF AssignTask
  <2>2. process = "up" /\ UNCHANGED <<process, pc, task, file, setting, faults>>
    BY <1>1 DEF AssignTask
  <2> QED
    BY <2>1, <2>2
<1>2. ASSUME NEW c \in Cmds, TunnelOutput(c) PROVE HandInv' /\ StoreInv'
  <2>1. task' # NoTask
    BY <1>2 DEF TunnelOutput, NoTask
  <2>2. \A d \in Cmds : setting'[d] = 0
    BY <1>2 DEF TunnelOutput
  <2> QED
    BY <1>2, <2>1, <2>2 DEF TunnelOutput
<1>3. CASE PushLoaded
  BY <1>3 DEF PushLoaded
<1>4. CASE LoadFinished
  BY <1>4 DEF LoadFinished
<1>5. CASE Turn
  BY <1>5 DEF Turn
<1>6. CASE ProcessSysTask
  <2>1. CASE TakeTask /\ task' = Last(popped') /\ pc' = "store"
    BY <1>6, <1>a, <2>1, PopType DEF ProcessSysTask
  <2>2. CASE pc' = "turn" /\ UNCHANGED <<task, queueVars>>
    BY <1>6, <2>2 DEF ProcessSysTask
  <2> QED
    BY <1>6, <2>1, <2>2 DEF ProcessSysTask
<1>b. process = "up" /\ pc \in {"store", "write", "apply"}
        => task \in Task /\ task[1] \in Cmds /\ task[2] \in Params
  BY DEF Types, Task
<1>7. CASE TunnelInput
  <2>1. HandInv'
    BY <1>7 DEF TunnelInput
  <2>2. faults' = 0 => /\ file' = [file EXCEPT ![task[1]] = 0] /\ pc' = "write"
                       /\ faults = 0
    BY <1>7 DEF TunnelInput, Types, Cmd
  <2> QED
    BY <1>7, <1>b, <2>1, <2>2 DEF TunnelInput, Types
<1>8. CASE TunnelWrite
  <2>1. HandInv'
    BY <1>8 DEF TunnelWrite
  <2>2. faults' = 0 => file' = [file EXCEPT ![task[1]] = task[2]] /\ faults = 0
    BY <1>8 DEF TunnelWrite, Types, Cmd
  <2> QED
    BY <1>8, <1>b, <2>1, <2>2 DEF TunnelWrite, Types
<1>9. CASE Apply
  <2>1. HandInv'
    BY <1>9 DEF Apply
  <2>2. UNCHANGED <<file, faults, garbled>> /\ process = "up" /\ pc = "apply" /\ pc' = "process"
    BY <1>9 DEF Apply
  <2>3. CASE task[2] \in garbled
    BY <1>9, <1>b, <2>1, <2>2, <2>3 DEF Apply
  <2>4. CASE task[2] \notin garbled
    <3>1. setting' = [setting EXCEPT ![task[1]] = task[2]]
      BY <1>9, <2>4 DEF Apply, Cmd
    <3> QED
      BY <1>b, <2>1, <2>2, <3>1 DEF Types
  <2> QED
    BY <2>3, <2>4
<1>10. CASE Stop
  BY <1>10 DEF Stop
<1>11. CASE MemoryLost
  BY <1>11 DEF MemoryLost
<1>12. CASE Start
  BY <1>12 DEF Start
<1>13. CASE UNCHANGED vars
  BY <1>13 DEF vars
<1> QED
  BY <1>1, <1>2, <1>3, <1>4, <1>5, <1>6, <1>7, <1>8, <1>9, <1>10, <1>11, <1>12, <1>13
  DEF Next, Loop, Destroy, Crash

(* Tasks come out of the queue in the order in which they were assigned,   *)
(* behind those that were read back or among them.                         *)
LEMMA OrderStep == ASSUME Inv, [Next]_vars PROVE OrderInv'
<1>0. Types /\ Types' /\ HandInv /\ OrderInv
  BY TypeStep DEF Inv
<1> USE <1>0 DEF HandInv, OrderInv, Later, queueVars, centreVars
<1>a. NoTask \notin Task /\ \A t \in Task : t[1] \in Cmds /\ t[2] \in Nat /\ t[2] > 0
  BY DEF NoTask, Task, Params
<1>b. /\ assigned \in Nat /\ loaded \subseteq Task
      /\ \A c \in Cmds : file[c] \in Nat /\ setting[c] \in Nat
      /\ \A i \in 1 .. Len(sys_tasks) : sys_tasks[i] \in Task
      /\ Len(sys_tasks) \in Nat
      /\ task # NoTask => task \in Task
  BY SysTaskAssumption DEF Types
<1>1. ASSUME NEW c \in Cmds, AssignTask(c) PROVE OrderInv'
  <2> DEFINE t == <<c, assigned + 1>>
  <2>1. /\ assigned' = assigned + 1 /\ t \in Task
        /\ UNCHANGED <<process, pc, task, file, setting, loaded>>
    BY <1>1 DEF AssignTask, Types, Task, Params
  <2>2. \/ UNCHANGED sys_tasks
        \/ /\ Len(sys_tasks') = Len(sys_tasks) + 1
           /\ sys_tasks'[Len(sys_tasks) + 1] = t
           /\ \A i \in 1 .. Len(sys_tasks) : sys_tasks'[i] = sys_tasks[i]
    BY <1>1, <2>1, PushType DEF AssignTask
  <2>3. t[2] = assigned + 1 /\ Later(t[2]) /\ (task # NoTask => task[2] < t[2])
        /\ (\A d \in Cmds : file[d] < t[2])
        /\ (\A i \in 1 .. Len(sys_tasks) : sys_tasks[i][2] < t[2])
    BY <1>a, <1>b
  <2> HIDE DEF t
  <2>4. CASE UNCHANGED sys_tasks
    BY <1>a, <1>b, <2>1, <2>4
  <2>5. CASE ~UNCHANGED sys_tasks
    <3>1. ASSUME NEW i \in 1 .. Len(sys_tasks')
          PROVE  \/ i \in 1 .. Len(sys_tasks) /\ sys_tasks'[i] = sys_tasks[i]
                 \/ i = Len(sys_tasks) + 1 /\ sys_tasks'[i] = t
      BY <1>b, <2>2, <2>5
    <3>2. ASSUME NEW i \in 1 .. Len(sys_tasks'), NEW j \in 1 .. i - 1
          PROVE  j \in 1 .. Len(sys_tasks) /\ sys_tasks'[j] = sys_tasks[j]
      BY <1>b, <2>2, <2>5
    <3>3. ASSUME NEW i \in 1 .. Len(sys_tasks')
          PROVE  /\ sys_tasks'[i][2] <= assigned'
                 /\ sys_tasks'[i] \notin loaded =>
                      /\ Later(sys_tasks'[i][2])
                      /\ task # NoTask => task[2] < sys_tasks'[i][2]
                      /\ pc \in {"load", "push"} => \A d \in Cmds : file[d] < sys_tasks'[i][2]
                      /\ \A j \in 1 .. i - 1 : sys_tasks'[j][2] < sys_tasks'[i][2]
      <4>1. CASE i \in 1 .. Len(sys_tasks) /\ sys_tasks'[i] = sys_tasks[i]
        <5>1. /\ sys_tasks[i][2] <= assigned /\ sys_tasks[i] \in Task
              /\ sys_tasks[i] \notin loaded => \A j \in 1 .. i - 1 : sys_tasks[j][2] < sys_tasks[i][2]
          BY <1>b, <4>1
        <5>2. sys_tasks[i][2] <= assigned'
          BY <1>a, <1>b, <2>1, <5>1
        <5>3. sys_tasks[i] \notin loaded => \A j \in 1 .. i - 1 : sys_tasks'[j][2] < sys_tasks[i][2]
          BY <3>2, <5>1
        <5> QED
          BY <4>1, <5>2, <5>3
      <4>2. CASE sys_tasks'[i] = t
        BY <1>b, <2>1, <2>3, <3>2, <4>2
      <4> QED
        BY <3>1, <4>1, <4>2
    <3>4. /\ \A d \in Cmds : file[d] <= assigned' /\ setting[d] <= assigned'
          /\ \A u \in loaded : u[2] <= assigned'
          /\ task # NoTask => task[2] <= assigned'
      BY <1>a, <1>b, <2>1
    <3> QED
      BY <2>1, <3>3, <3>4
  <2> QED
    BY <2>4, <2>5
<1>2. ASSUME NEW c \in Cmds, TunnelOutput(c) PROVE OrderInv'
  <2>1. /\ task' = <<c, file[c]>> /\ file' = [file EXCEPT ![c] = 0]
        /\ pc = "load" /\ pc' = "push" /\ task = NoTask
        /\ UNCHANGED <<setting, loaded, sys_tasks, assigned>>
    BY <1>2 DEF TunnelOutput
  <2>2. \A d \in Cmds : file'[d] \in {0, file[d]}
    BY <2>1 DEF Types
  <2>3. task'[2] = file[c]
    BY <2>1
  <2> QED
    BY <1>a, <1>b, <2>1, <2>2, <2>3
<1>3. CASE PushLoaded
  <2>1. task \in Task /\ (Fifo!Push(task) \/ Fifo!Reject(task))
    BY <1>3, <1>b DEF PushLoaded
  <2>2. \/ UNCHANGED sys_tasks
        \/ /\ Len(sys_tasks') = Len(sys_tasks) + 1
           /\ sys_tasks'[Len(sys_tasks) + 1] = task
           /\ \A i \in 1 .. Len(sys_tasks) : sys_tasks'[i] = sys_tasks[i]
    BY <2>1, PushType
  <2>3. /\ loaded' = loaded \cup {task} /\ task' = NoTask /\ pc = "push" /\ pc' = "load"
        /\ UNCHANGED <<file, setting, assigned>>
    BY <1>3 DEF PushLoaded
  <2> DEFINE Above(n) == /\ \A c \in Cmds : setting[c] < n /\ file[c] < n
                         /\ \A t \in loaded' : t[2] < n
  <2>4. ASSUME NEW i \in 1 .. Len(sys_tasks')
        PROVE  /\ sys_tasks'[i][2] <= assigned
               /\ sys_tasks'[i] \notin loaded' =>
                    /\ Above(sys_tasks'[i][2])
                    /\ \A j \in 1 .. i - 1 : sys_tasks'[j][2] < sys_tasks'[i][2]
    <3>1. CASE i \in 1 .. Len(sys_tasks)
      <4>1. /\ sys_tasks'[i] = sys_tasks[i]
            /\ \A j \in 1 .. i - 1 : sys_tasks'[j] = sys_tasks[j]
        BY <1>b, <2>2, <3>1
      <4>2. sys_tasks[i][2] <= assigned
        BY <3>1
      <4>3. SUFFICES ASSUME sys_tasks[i] \notin loaded'
                     PROVE  /\ Above(sys_tasks[i][2])
                            /\ \A j \in 1 .. i - 1 : sys_tasks[j][2] < sys_tasks[i][2]
        BY <4>1, <4>2
      <4>4. sys_tasks[i] \notin loaded
        BY <2>3, <4>3
      <4>5. Above(sys_tasks[i][2])
        BY <1>a, <1>b, <2>1, <2>3, <3>1, <4>4
      <4> QED
        BY <2>3, <3>1, <4>4, <4>5
    <3>2. CASE i \notin 1 .. Len(sys_tasks)
      <4>1. sys_tasks'[i] = task
        BY <1>b, <2>2, <3>2
      <4> QED
        BY <1>a, <2>1, <2>3, <4>1
    <3> QED
      BY <3>1, <3>2
  <2>5. \A t \in loaded' : t[2] <= assigned
    BY <1>a, <2>1, <2>3
  <2> QED
    BY <2>3, <2>4, <2>5
<1>4. CASE LoadFinished
  BY <1>4 DEF LoadFinished
<1>5. CASE Turn
  BY <1>5 DEF Turn
<1>6. CASE ProcessSysTask
  <2>1. CASE TakeTask /\ task' = Last(popped') /\ pc' = "store"
    <3>1. /\ task' = sys_tasks[1] /\ Len(sys_tasks) > 0
          /\ Len(sys_tasks') = Len(sys_tasks) - 1
          /\ \A i \in 1 .. Len(sys_tasks') : sys_tasks'[i] = sys_tasks[i + 1]
      BY <2>1, PopType
    <3>2. UNCHANGED <<file, setting, loaded, assigned>>
      BY <1>6 DEF ProcessSysTask
    <3>3. ASSUME NEW i \in 1 .. Len(sys_tasks')
          PROVE  /\ i + 1 \in 1 .. Len(sys_tasks) /\ sys_tasks'[i] = sys_tasks[i + 1]
                 /\ 1 \in 1 .. (i + 1) - 1
                 /\ \A j \in 1 .. i - 1 :
                      /\ sys_tasks'[j] = sys_tasks[j + 1]
                      /\ j + 1 \in 1 .. (i + 1) - 1
      BY <1>b, <3>1
    <3>4. 1 \in 1 .. Len(sys_tasks) /\ task' \in Task /\ task = NoTask
      BY <1>6, <1>b, <3>1 DEF ProcessSysTask
    <3>5. ASSUME NEW i \in 1 .. Len(sys_tasks'), sys_tasks'[i] \notin loaded
          PROVE  /\ Later(sys_tasks'[i][2]) /\ task'[2] < sys_tasks'[i][2]
                 /\ \A j \in 1 .. i - 1 : sys_tasks'[j][2] < sys_tasks'[i][2]
      BY <3>1, <3>3, <3>5
    <3>6. \A i \in 1 .. Len(sys_tasks') : sys_tasks'[i][2] <= assigned
      BY <3>3
    <3>7. task'[2] <= assigned /\ (task' \in loaded \/ \A c \in Cmds : setting[c] < task'[2])
      BY <3>1, <3>4
    <3> QED
      BY <2>1, <3>2, <3>4, <3>5, <3>6, <3>7
  <2>2. CASE pc' = "turn" /\ UNCHANGED <<task, queueVars>>
    BY <1>6, <2>2 DEF ProcessSysTask
  <2> QED
    BY <1>6, <2>1, <2>2 DEF ProcessSysTask
<1>7. CASE TunnelInput
  <2>1. \A d \in Cmds : file'[d] \in {0, file[d]}
    BY <1>7 DEF TunnelInput, Types
  <2>2. pc' \in {"write", "apply"} /\ UNCHANGED <<task, setting, loaded, sys_tasks, assigned>>
    BY <1>7 DEF TunnelInput
  <2>3. pc # "push"
    BY <1>7 DEF TunnelInput
  <2> QED
    BY <1>b, <2>1, <2>2, <2>3
<1>8. CASE TunnelWrite
  <2>1. \A d \in Cmds : file'[d] \in {task[2], file[d]}
    BY <1>8 DEF TunnelWrite, Types
  <2>2. /\ pc = "write" /\ pc' = "apply" /\ task # NoTask
        /\ UNCHANGED <<task, setting, loaded, sys_tasks, assigned>>
    BY <1>8 DEF TunnelWrite
  <2> QED
    BY <1>b, <2>1, <2>2
<1>9. CASE Apply
  <2>1. \A d \in Cmds : setting'[d] \in {task[2], setting[d]}
    BY <1>9 DEF Apply, Types
  <2>2. /\ task # NoTask /\ task' = NoTask /\ pc' = "process"
        /\ UNCHANGED <<file, loaded, sys_tasks, assigned>>
    BY <1>9 DEF Apply
  <2> QED
    BY <1>b, <2>1, <2>2
<1>10. CASE Stop
  BY <1>10 DEF Stop
<1>11. CASE MemoryLost
  <2>1. \A c \in Cmds : setting'[c] = 0
    BY <1>11 DEF MemoryLost
  <2> QED
    BY <1>11, <1>b, <2>1 DEF MemoryLost
<1>12. CASE Start
  BY <1>12 DEF Start
<1>13. CASE UNCHANGED vars
  BY <1>13 DEF vars
<1> QED
  BY <1>1, <1>2, <1>3, <1>4, <1>5, <1>6, <1>7, <1>8, <1>9, <1>10, <1>11, <1>12, <1>13
  DEF Next, Loop, Destroy, Crash
-----------------------------------------------------------------------------
(* Every step keeps the invariant.                                         *)
LEMMA InvStep == ASSUME Inv, [Next]_vars PROVE Inv'
  BY TypeStep, HandStep, OrderStep DEF Inv

(* running stays Boolean.                                                  *)
LEMMA RunningStep == ASSUME running \in BOOLEAN, [Next]_vars PROVE running' \in BOOLEAN
  BY Zenon
  DEF Next, Loop, vars, AssignTask, TunnelOutput, PushLoaded, LoadFinished, Turn,
      ProcessSysTask, TunnelInput, TunnelWrite, Apply, Stop, Destroy, Crash, MemoryLost, Start

(* The invariant, with the type of running.                                *)
LEMMA InvHolds == Spec => [](Inv /\ running \in BOOLEAN)
<1>1. Init => running \in BOOLEAN
  BY Zenon DEF Init
<1>2. Inv /\ running \in BOOLEAN /\ [Next]_vars => (Inv /\ running \in BOOLEAN)'
  BY InvStep, RunningStep, Zenon
<1> QED
  BY <1>1, <1>2, Initially, PTL DEF Spec

(* However the process is stopped, ends and starts again: while files can  *)
(* be written, what is in effect is what a restart would read back.        *)
THEOREM InEffectIsStoredHolds == Spec => []InEffectIsStored
<1>1. Inv /\ running \in BOOLEAN => TypeOK
  BY DEF Inv, Types, TypeOK
<1>2. Inv => \A c \in Cmds :
               faults = 0 /\ setting[c] # 0
                 => \/ file[c] = setting[c] \/ file[c] \in garbled
                    \/ pc \in {"write", "apply"} /\ Cmd = c
  BY DEF Inv, StoreInv, Cmd
<1>3. Inv /\ running \in BOOLEAN => InEffectIsStored
  BY <1>1, <1>2 DEF InEffectIsStored
<1> QED
  BY <1>3, InvHolds, PTL

(* A setting is only replaced by a later one, tasks that were read back    *)
(* apart, for any number of tasks, restarts and failures.                  *)
THEOREM LaterTaskWinsHolds == Spec => LaterTaskWins
<1> DEFINE Wins == \A c \in Cmds : setting'[c] \notin {0, setting[c]}
                     => setting'[c] > setting[c] \/ <<c, setting'[c]>> \in loaded
<1>1. ASSUME Inv, [Next]_vars PROVE [Wins]_vars
  <2>1. CASE UNCHANGED setting
    BY <2>1
  <2>2. CASE MemoryLost
    BY <2>2 DEF MemoryLost
  <2>3. CASE Apply
    <3> SUFFICES ASSUME NEW c \in Cmds, setting'[c] \notin {0, setting[c]}
                 PROVE  setting'[c] > setting[c] \/ <<c, setting'[c]>> \in loaded
      OBVIOUS
    <3>1. setting' = [setting EXCEPT ![task[1]] = task[2]]
      BY <2>3 DEF Apply, Cmd
    <3>2. task \in Task /\ pc = "apply"
      BY <1>1, <2>3 DEF Apply, Inv, HandInv, Types
    <3>3. setting \in [Cmds -> 0 .. MaxTasks]
      BY <1>1 DEF Inv, Types
    <3>4. task[1] = c /\ setting'[c] = task[2] /\ task = <<c, setting'[c]>>
      BY <3>1, <3>2, <3>3 DEF Task
    <3>5. task \in loaded \/ setting[c] < task[2]
      BY <1>1, <3>2, <3>4 DEF Inv, OrderInv, NoTask, Task
    <3>6. setting[c] \in Nat /\ task[2] \in Nat
      BY <3>2, <3>3, SysTaskAssumption DEF Task, Params
    <3> QED
      BY <3>4, <3>5, <3>6
  <2> QED
    BY <1>1, <2>1, <2>2, <2>3
    DEF Next, Loop, vars, AssignTask, TunnelOutput, PushLoaded, LoadFinished, Turn,
        ProcessSysTask, TunnelInput, TunnelWrite, Stop, Destroy, Crash, Start
<1>2. Spec => [][Wins]_vars
  BY <1>1, InvHolds, PTL DEF Spec
<1> QED
  BY <1>2 DEF LaterTaskWins
=============================================================================
