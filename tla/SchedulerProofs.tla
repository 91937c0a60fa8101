--------------------------- MODULE SchedulerProofs ---------------------------
(***************************************************************************)
(* Theorems about Scheduler and RoundRobin, for every table size, logger   *)
(* limit and number of ticks.                                              *)
(***************************************************************************)
EXTENDS RoundRobin, TLAPS

(* The slot after i, as finish_task computes it, wraps to slot 0.           *)
LEMMA SuccessorSlot ==
  ASSUME NEW i \in Slots
  PROVE  /\ (i + 1) % MAX_TASKS = IF i + 1 = MAX_TASKS THEN 0 ELSE i + 1
         /\ (i + 1) % MAX_TASKS \in Slots
  BY TasksAssumption DEF Slots

(* next_runnable_from only answers with a Ready slot of the table.          *)
LEMMA RunnableIsReady ==
  ASSUME NEW s, NEW idx \in NextRunnableFrom(s)
  PROVE  idx \in Slots /\ Ready(idx)
  BY DEF NextRunnableFrom

(* The types that the proofs below unfold together.                         *)
LEMMA EmptySlotIsNoTask == EmptySlot \notin Task /\ EmptySlot.func = "none"
                             /\ EmptySlot.state = "Empty"
  BY DEF EmptySlot, Task

(* A fresh task is a task.                                                  *)
LEMMA NewTaskType ==
  ASSUME NEW f \in TaskFuncs
  PROVE  NewTask(f) \in Task /\ NewTask(f).func = f /\ NewTask(f).state = "Ready"
  BY DEF NewTask, Task

(* Moving a task to another state leaves its function alone.                *)
LEMMA SetState ==
  ASSUME NEW t \in Task, NEW s \in {"Ready", "Running", "Finished"}
  PROVE  [t EXCEPT !.state = s] \in Task
  BY DEF Task

(* An assignment to the state field of one slot, the only way a live task's   *)
(* slot is written, changes nothing else of the table.                        *)
WritesState(n, s) == tasks' = [tasks EXCEPT ![n].state = s]

LEMMA StateWritten ==
  ASSUME TypeOK, NEW n \in Slots, NEW s, WritesState(n, s)
  PROVE  \A i \in Slots : /\ tasks'[i].func = tasks[i].func
                          /\ tasks'[i].state = IF i = n THEN s ELSE tasks[i].state
<1>1. /\ tasks'[n] = [tasks[n] EXCEPT !.state = s]
      /\ \A i \in Slots \ {n} : tasks'[i] = tasks[i]
  BY DEF TypeOK, WritesState
<1>2. CASE tasks[n] \in Task
  BY <1>1, <1>2 DEF Task
<1>3. CASE tasks[n] = EmptySlot
  BY <1>1, <1>3 DEF EmptySlot
<1>4. QED
  BY <1>2, <1>3 DEF TypeOK

-----------------------------------------------------------------------------
(* The boot table: four tasks in the first four slots, the rest empty.      *)
LEMMA BootTable ==
  ASSUME Init
  PROVE  /\ tasks \in [Slots -> Task \cup {EmptySlot}]
         /\ \A i \in Slots : tasks[i].state \in {"Ready", "Empty"}
         /\ ShellSlot \in Slots /\ tasks[ShellSlot] = NewTask("shell")
         /\ \A i \in Slots : tasks[i].func = "shell" => i = ShellSlot
<1>1. {0, 1, 2, ShellSlot} \subseteq Slots
  BY TasksAssumption DEF Slots, ShellSlot
<1>2. EmptyTable \in [Slots -> Task \cup {EmptySlot}]
  BY DEF EmptyTable
<1>3. {"idle", "worker", "logger", "shell"} = TaskFuncs
  BY DEF TaskFuncs
<1>4. tasks \in [Slots -> Task \cup {EmptySlot}]
  BY <1>1, <1>2, <1>3, NewTaskType DEF Init
<1>5. \A i \in Slots : tasks[i] = IF i = 0 THEN NewTask("idle")
                              ELSE IF i = 1 THEN NewTask("worker")
                              ELSE IF i = 2 THEN NewTask("logger")
                              ELSE IF i = 3 THEN NewTask("shell") ELSE EmptySlot
  BY <1>1 DEF Init, EmptyTable, ShellSlot
<1>6. QED
  BY <1>1, <1>4, <1>5 DEF ShellSlot, NewTask, EmptySlot

(* The contexts that enter the in-flight window and that leave it.          *)
LEMMA ContextType ==
  /\ NoCtx \in Context
  /\ \A c \in Context : /\ [c EXCEPT !.yielded = TRUE] \in Context
                        /\ [c EXCEPT !.finished = TRUE] \in Context
<1>1. 0 \in Slots /\ 0 \in 0 .. TICK_CAP
  BY TasksAssumption, TickAssumption DEF Slots
<1>2. NoCtx \in Context
  BY <1>1 DEF NoCtx, Context
<1>3. QED
  BY <1>2 DEF Context

-----------------------------------------------------------------------------
(* Type correctness: run() never indexes the table out of range, never       *)
(* stores a context of another shape, and never reaches a phase that does    *)
(* not exist.                                                                *)

(* What the tail of every command does to the types.                         *)
LEMMA CommandDoneType ==
  ASSUME TypeOK, CommandDone
  PROVE  /\ current' \in Slots /\ ctx' \in Context
         /\ phase' \in Phases  /\ tick' \in 0 .. TICK_CAP
  BY ContextType DEF TypeOK, CommandDone, YieldNow, Phases

(* The boot state is well typed.                                             *)
LEMMA TypeInit ==
  ASSUME Init
  PROVE  TypeOK
<1>1. 0 \in Slots /\ 0 \in 0 .. TICK_CAP
  BY TasksAssumption, TickAssumption DEF Slots
<1>2. QED
  BY <1>1, BootTable, ContextType DEF Init, TypeOK, Phases

(* Every step keeps the types; phase 3 needs to know that it commits to a    *)
(* slot that still holds a task.                                             *)
LEMMA TypeStep ==
  ASSUME TypeOK, InFlightSlotKept, [Next]_vars
  PROVE  TypeOK'
<1>1. CASE PrepareNext
  <2>1. CASE NextRunnableFrom(current) = {}
    BY <1>1, <2>1 DEF PrepareNext, TypeOK, Phases
  <2>2. CASE NextRunnableFrom(current) # {}
    <3>1. PICK idx \in NextRunnableFrom(current) : Dispatch(idx)
      <4>1. \E idx \in NextRunnableFrom(current) : Dispatch(idx)
        BY <1>1, <2>2, Zenon DEF PrepareNext
      <4>2. QED
        BY <4>1
    <3>2. idx \in Slots /\ tasks[idx] \in Task
      <4>1. idx \in Slots /\ Ready(idx)
        BY <3>1, RunnableIsReady
      <4>2. QED
        BY <4>1, EmptySlotIsNoTask DEF TypeOK, Ready
    <3>3. tasks' \in [Slots -> Task \cup {EmptySlot}]
      BY <3>1, <3>2, SetState DEF Dispatch, TypeOK
    <3>4. ctx' \in Context
      BY <3>1, <3>2 DEF Dispatch, TypeOK, Context, Task
    <3>5. QED
      BY <1>1, <2>2, <3>3, <3>4 DEF PrepareNext, TypeOK, Phases
  <2>3. QED
    BY <2>1, <2>2
<1>2. CASE IdleOrWorkerTask
  BY <1>2, ContextType DEF IdleOrWorkerTask, YieldNow, TypeOK, Phases
<1>3. CASE LoggerTask
  BY <1>3, ContextType DEF LoggerTask, YieldNow, Finish, TypeOK, Phases
<1>4. CASE ShellNoLine
  BY <1>4, ContextType DEF ShellNoLine, YieldNow, TypeOK, Phases
<1>5. CASE ShellPopLine
  BY <1>5 DEF ShellPopLine, TypeOK, Phases
<1>6. CASE SpawnTask
  <2>1. tasks' \in [Slots -> Task \cup {EmptySlot}]
    BY <1>6, NewTaskType DEF SpawnTask, TypeOK, TaskFuncs, FirstSpawnable, Spawnable
  <2>2. reply' \in {"spawned", "spawnFailed"}
    BY <1>6 DEF SpawnTask
  <2>3. QED
    BY <1>6, <2>1, <2>2, CommandDoneType DEF SpawnTask, TypeOK
<1>7. ASSUME NEW id \in Pids, KillTask(id) PROVE TypeOK'
  <2>1. tasks' \in [Slots -> Task \cup {EmptySlot}]
    <3>1. CASE id \in Slots /\ tasks[id].state # "Empty"
      <4>1. tasks[id] \in Task
        BY <3>1, EmptySlotIsNoTask DEF TypeOK
      <4>2. [tasks[id] EXCEPT !.state = "Finished"] \in Task
        BY <4>1, SetState
      <4>3. tasks' = [tasks EXCEPT ![id] = [tasks[id] EXCEPT !.state = "Finished"]]
        BY <1>7, <3>1 DEF KillTask
      <4>4. QED
        BY <3>1, <4>2, <4>3 DEF TypeOK
    <3>2. CASE ~ (id \in Slots /\ tasks[id].state # "Empty")
      BY <1>7, <3>2 DEF KillTask, TypeOK
    <3>3. QED
      BY <3>1, <3>2
  <2>2. reply' \in {"killed", "killFailed"}
    BY <1>7 DEF KillTask
  <2>3. QED
    BY <1>7, <2>1, <2>2, CommandDoneType DEF KillTask, TypeOK
<1>8. CASE OtherCommand
  BY <1>8, CommandDoneType DEF OtherCommand, TypeOK
<1>9. CASE PanicCommand
  BY <1>9 DEF PanicCommand, TypeOK, Phases
<1>10. CASE PowerCommand
  BY <1>10 DEF PowerCommand, TypeOK, Phases
<1>11. CASE FinishTask
  <2>1. ctx.task_id \in Slots
    BY DEF TypeOK, Context
  <2>2. current' \in Slots
    BY <1>11, <2>1, SuccessorSlot DEF FinishTask, Commit, NextStart
  <2>3. tasks' \in [Slots -> Task \cup {EmptySlot}]
    BY <1>11, <2>1, SetState, EmptySlotIsNoTask DEF FinishTask, Commit, ResultState, TypeOK, InFlightSlotKept, InFlight
  <2>4. QED
    BY <1>11, <2>2, <2>3, ContextType DEF FinishTask, Commit, TypeOK, Phases
<1>12. CASE TimerTick
  <2>1. tick \in 0 .. TICK_CAP /\ tick' = IF tick = TICK_CAP THEN tick ELSE tick + 1
    BY <1>12 DEF TimerTick, TypeOK
  <2>2. tick' \in 0 .. TICK_CAP
    BY <2>1, TickAssumption
  <2>3. QED
    BY <1>12, <2>2 DEF TimerTick, WakeFromHalt, TypeOK, Phases
<1>13. CASE InputInterrupt
  BY <1>13 DEF InputInterrupt, WakeFromHalt, TypeOK, Phases
<1>14. CASE UNCHANGED vars
  BY <1>14 DEF vars, TypeOK
<1>15. QED
  BY <1>1, <1>2, <1>3, <1>4, <1>5, <1>6, <1>7, <1>8, <1>9, <1>10, <1>11, <1>12,
     <1>13, <1>14 DEF Next, Run, TaskBody, PoweredOff

-----------------------------------------------------------------------------
(* The inductive invariant.  TypeOK alone is not inductive: phase 3 writes to *)
(* the slot chosen in phase 1, so the slot must still hold a task.  The parts *)
(* below say who can be in flight and what a commit will find.                *)

(* While a task function runs, its slot is Running: only its last command,   *)
(* a kill of itself, can change that.                                        *)
BodyRunning == phase \in {"call", "command"} => tasks[ctx.task_id].state = "Running"

(* Only the shell issues commands, and only ShellSlot holds a shell.         *)
CommandByShell == phase = "command" => ctx.func = "shell"
OneShell == \A i \in Slots : tasks[i].func = "shell" => i = ShellSlot

(* Off the CPU the shell is Ready, and it never finishes by itself.          *)
ShellReadyOffCpu == ~ (InFlight /\ ctx.task_id = ShellSlot) => Ready(ShellSlot)
FinishedByLogger == ctx.finished => ctx.func = "logger"

(* Every task function yields or finishes before it returns.                 *)
ResultKnown == phase = "commit" => ctx.yielded \/ ctx.finished

IInv ==
  /\ TypeOK
  /\ RunningIsInFlight
  /\ InFlightSlotKept
  /\ ShellNeverLost
  /\ BodyRunning
  /\ CommandByShell
  /\ OneShell
  /\ ShellReadyOffCpu
  /\ FinishedByLogger
  /\ ResultKnown

(* The boot state satisfies the invariant.                                    *)
LEMMA InvInit ==
  ASSUME Init
  PROVE  IInv
<1>1. TypeOK
  BY TypeInit
<1>2. RunningIsInFlight
  BY BootTable DEF RunningIsInFlight
<1>3. InFlightSlotKept
  BY DEF Init, InFlightSlotKept, InFlight
<1>4. ShellNeverLost /\ ShellReadyOffCpu /\ OneShell
  BY BootTable, NewTaskType DEF ShellNeverLost, ShellReadyOffCpu, OneShell, Ready, TaskFuncs
<1>5. BodyRunning /\ CommandByShell /\ FinishedByLogger /\ ResultKnown
  BY DEF Init, BodyRunning, CommandByShell, FinishedByLogger, ResultKnown, NoCtx
<1>6. QED
  BY <1>1, <1>2, <1>3, <1>4, <1>5 DEF IInv

-----------------------------------------------------------------------------
(* How a step may change the table: each lemma names one kind of step.        *)

(* Steps other than these four leave the table alone.                         *)
LEMMA TableSteps ==
  ASSUME [Next]_vars
  PROVE  \/ PrepareNext
         \/ SpawnTask
         \/ \E id \in Pids : KillTask(id)
         \/ FinishTask
         \/ UNCHANGED tasks
  BY DEF Next, Run, TaskBody, IdleOrWorkerTask, LoggerTask, ShellNoLine, ShellPopLine,
         OtherCommand, PanicCommand, PowerCommand, TimerTick, InputInterrupt, PoweredOff, vars

(* A dispatch moves one Ready slot to Running.                                *)
LEMMA PrepareNextWrites ==
  ASSUME PrepareNext
  PROVE  \/ phase = "pick" /\ phase' = "halt" /\ UNCHANGED tasks
         \/ \E idx \in Slots : /\ phase = "pick" /\ phase' = "call"
                              /\ tasks[idx].state = "Ready"
                              /\ ctx'.task_id = idx /\ ctx'.func = tasks[idx].func
                              /\ ctx'.yielded = FALSE /\ ctx'.finished = FALSE
                              /\ WritesState(idx, "Running")
<1>1. CASE NextRunnableFrom(current) = {}
  BY <1>1 DEF PrepareNext
<1>2. CASE NextRunnableFrom(current) # {}
  <2>1. \E idx \in NextRunnableFrom(current) : Dispatch(idx)
    BY <1>2, Zenon DEF PrepareNext
  <2>2. PICK idx \in NextRunnableFrom(current) : Dispatch(idx)
    BY <2>1
  <2>3. phase = "pick" /\ phase' = "call"
    BY <1>2 DEF PrepareNext
  <2>4. idx \in Slots /\ tasks[idx].state = "Ready"
    BY RunnableIsReady DEF Ready
  <2>5. /\ ctx'.task_id = idx /\ ctx'.func = tasks[idx].func
        /\ ctx'.yielded = FALSE /\ ctx'.finished = FALSE
        /\ WritesState(idx, "Running")
    BY <2>2 DEF Dispatch, WritesState
  <2>6. QED
    BY <2>3, <2>4, <2>5
<1>3. QED
  BY <1>1, <1>2

(* What every command leaves in the context.                                  *)
ReturnsFromCommand ==
  /\ phase' = "commit"
  /\ ctx'.task_id = ctx.task_id /\ ctx'.func = ctx.func
  /\ ctx'.yielded = TRUE /\ ctx'.finished = ctx.finished

(* spawn refills one slot, which is not the one in flight; the shell keeps    *)
(* running.                                                                   *)
LEMMA SpawnTaskWrites ==
  ASSUME IInv, SpawnTask
  PROVE  /\ phase = "command" /\ ReturnsFromCommand
         /\ \/ UNCHANGED tasks
            \/ \E n \in Slots \ {ctx.task_id} :
                 /\ tasks[n].state \in {"Empty", "Finished"}
                 /\ tasks' = [tasks EXCEPT ![n] = NewTask("worker")]
                 /\ reply' = "spawned"
<1>1. phase = "command" /\ ReturnsFromCommand
  BY DEF ReturnsFromCommand, SpawnTask, CommandDone, YieldNow, IInv, TypeOK, Context
<1>2. tasks[ctx.task_id].state = "Running"
  BY <1>1 DEF IInv, BodyRunning
<1>3. CASE FirstSpawnable = {}
  BY <1>1, <1>3 DEF SpawnTask
<1>4. CASE FirstSpawnable # {}
  <2>1. /\ reply' = "spawned"
        /\ \E n \in FirstSpawnable : tasks' = [tasks EXCEPT ![n] = NewTask("worker")]
    BY <1>4, Zenon DEF SpawnTask
  <2>2. QED
    BY <1>1, <1>2, <2>1 DEF FirstSpawnable, Spawnable
<1>5. QED
  BY <1>3, <1>4

(* kill changes nothing or makes one slot Finished.                           *)
LEMMA KillTaskWrites ==
  ASSUME IInv, NEW id \in Pids, KillTask(id)
  PROVE  /\ phase = "command" /\ ReturnsFromCommand
         /\ \/ UNCHANGED tasks
            \/ /\ id \in Slots /\ tasks[id].state # "Empty"
               /\ WritesState(id, "Finished")
  BY DEF ReturnsFromCommand, KillTask, CommandDone, YieldNow, WritesState, IInv, TypeOK, Context

(* The commit writes the slot in flight and no other.                         *)
LEMMA FinishTaskWrites ==
  ASSUME IInv, FinishTask
  PROVE  /\ phase = "commit" /\ phase' = "halt"
         /\ ctx.task_id \in Slots /\ ctx' = NoCtx
         /\ WritesState(ctx.task_id, IF ctx.finished THEN "Finished" ELSE "Ready")
  BY DEF FinishTask, Commit, ResultState, WritesState, IInv, TypeOK, Context

-----------------------------------------------------------------------------
(* The parts of IInv other than the types, unfolded together in the steps     *)
(* that disturb none of them.                                                 *)
LEMMA InvStep ==
  ASSUME IInv, [Next]_vars
  PROVE  IInv'
<1>1. TypeOK'
  BY TypeStep DEF IInv
<1> USE DEF IInv, RunningIsInFlight, InFlightSlotKept, ShellNeverLost, BodyRunning,
            CommandByShell, OneShell, ShellReadyOffCpu, FinishedByLogger, ResultKnown,
            InFlight, Ready
<1>2. CASE PrepareNext
  <2>1. CASE phase = "pick" /\ phase' = "halt" /\ UNCHANGED tasks
    BY <1>1, <1>2, <2>1 DEF PrepareNext
  <2>2. CASE phase' = "call"
    <3>1. PICK idx \in Slots : /\ phase = "pick" /\ phase' = "call"
                               /\ tasks[idx].state = "Ready"
                               /\ ctx'.task_id = idx /\ ctx'.func = tasks[idx].func
                               /\ ctx'.yielded = FALSE /\ ctx'.finished = FALSE
                               /\ WritesState(idx, "Running")
      BY <1>2, <2>2, PrepareNextWrites
    <3>2. \A i \in Slots : /\ tasks'[i].func = tasks[i].func
                           /\ tasks'[i].state = IF i = idx THEN "Running" ELSE tasks[i].state
      BY <3>1, StateWritten
    <3>3. ShellSlot \in Slots
      BY TasksAssumption DEF Slots, ShellSlot
    <3>4. RunningIsInFlight' /\ InFlightSlotKept' /\ BodyRunning'
      BY <3>1, <3>2
    <3>5. ShellNeverLost' /\ OneShell' /\ ShellReadyOffCpu'
      BY <3>1, <3>2, <3>3
    <3>6. CommandByShell' /\ FinishedByLogger' /\ ResultKnown'
      BY <3>1
    <3>7. QED
      BY <1>1, <3>4, <3>5, <3>6
  <2>3. QED
    BY <1>2, <2>1, <2>2, PrepareNextWrites
<1>3. CASE IdleOrWorkerTask
  BY <1>1, <1>3 DEF IdleOrWorkerTask, YieldNow, TypeOK, Context
<1>4. CASE LoggerTask
  BY <1>1, <1>4 DEF LoggerTask, YieldNow, Finish, TypeOK, Context
<1>5. CASE ShellNoLine
  BY <1>1, <1>5 DEF ShellNoLine, YieldNow, TypeOK, Context
<1>6. CASE ShellPopLine
  BY <1>1, <1>6 DEF ShellPopLine
<1>7. CASE SpawnTask
  <2>1. phase = "command" /\ ReturnsFromCommand
    BY <1>7, SpawnTaskWrites
  <2>2. /\ ctx.task_id = ShellSlot /\ ShellSlot \in Slots
        /\ tasks[ShellSlot].func = "shell" /\ tasks[ShellSlot].state = "Running"
    BY <2>1 DEF TypeOK, Context
  <2>3. CASE UNCHANGED tasks
    BY <1>1, <2>1, <2>2, <2>3 DEF ReturnsFromCommand
  <2>4. CASE ~ UNCHANGED tasks
    <3>1. PICK n \in Slots \ {ctx.task_id} :
            /\ tasks[n].state \in {"Empty", "Finished"}
            /\ tasks' = [tasks EXCEPT ![n] = NewTask("worker")]
      BY <1>7, <2>4, SpawnTaskWrites
    <3>2. /\ tasks'[n].func = "worker" /\ tasks'[n].state = "Ready"
          /\ \A i \in Slots \ {n} : tasks'[i] = tasks[i]
      BY <3>1, NewTaskType DEF TypeOK, TaskFuncs
    <3>3. QED
      BY <1>1, <2>1, <2>2, <3>1, <3>2 DEF ReturnsFromCommand
  <2>5. QED
    BY <2>3, <2>4
<1>8. ASSUME NEW id \in Pids, KillTask(id) PROVE IInv'
  <2>1. phase = "command" /\ ReturnsFromCommand
    BY <1>8, KillTaskWrites
  <2>2. /\ ctx.task_id = ShellSlot /\ ShellSlot \in Slots
        /\ tasks[ShellSlot].func = "shell" /\ tasks[ShellSlot].state = "Running"
    BY <2>1 DEF TypeOK, Context
  <2>3. \A i \in Slots : /\ tasks'[i].func = tasks[i].func
                         /\ tasks'[i].state \in {tasks[i].state, "Finished"}
    BY <1>8, KillTaskWrites, StateWritten
  <2>4. QED
    BY <1>1, <2>1, <2>2, <2>3 DEF ReturnsFromCommand
<1>9. CASE OtherCommand
  BY <1>1, <1>9 DEF OtherCommand, CommandDone, YieldNow, TypeOK, Context
<1>10. CASE PanicCommand
  BY <1>1, <1>10 DEF PanicCommand
<1>11. CASE PowerCommand
  BY <1>1, <1>11 DEF PowerCommand
<1>12. CASE FinishTask
  <2>1. /\ phase = "commit" /\ phase' = "halt"
        /\ ctx.task_id \in Slots /\ ctx' = NoCtx
        /\ WritesState(ctx.task_id, IF ctx.finished THEN "Finished" ELSE "Ready")
    BY <1>12, FinishTaskWrites
  <2>2. \A i \in Slots : /\ tasks'[i].func = tasks[i].func
                         /\ i # ctx.task_id => tasks'[i].state = tasks[i].state
    BY <2>1, StateWritten
  <2>3. tasks'[ctx.task_id].state = IF ctx.finished THEN "Finished" ELSE "Ready"
    BY <2>1, StateWritten
  <2>4. ShellSlot \in Slots /\ (ctx.task_id = ShellSlot => ~ ctx.finished)
    BY <2>1, TasksAssumption DEF Slots, ShellSlot
  <2>5. RunningIsInFlight' /\ InFlightSlotKept' /\ BodyRunning'
    BY <2>1, <2>2, <2>3
  <2>6. ShellNeverLost' /\ OneShell' /\ ShellReadyOffCpu'
    BY <2>1, <2>2, <2>3, <2>4
  <2>7. CommandByShell' /\ FinishedByLogger' /\ ResultKnown'
    BY <2>1 DEF NoCtx
  <2>8. QED
    BY <1>1, <2>5, <2>6, <2>7
<1>13. CASE TimerTick
  BY <1>1, <1>13 DEF TimerTick, WakeFromHalt
<1>14. CASE InputInterrupt
  BY <1>1, <1>14 DEF InputInterrupt, WakeFromHalt
<1>15. CASE UNCHANGED vars
  BY <1>1, <1>15 DEF vars
<1>16. QED
  BY <1>2, <1>3, <1>4, <1>5, <1>6, <1>7, <1>8, <1>9, <1>10, <1>11, <1>12,
     <1>13, <1>14, <1>15 DEF Next, Run, TaskBody, PoweredOff

-----------------------------------------------------------------------------
(* The invariant holds in every reachable state.                              *)
LEMMA Invariant == Spec => []IInv
<1>1. Init => IInv
  BY InvInit
<1>2. IInv /\ [Next]_vars => IInv'
  BY InvStep
<1>3. QED
  BY <1>1, <1>2, PTL DEF Spec

(* Type correctness: run() never indexes the task table out of range, its     *)
(* commit never writes to an empty slot, and the table, the cursor and the    *)
(* context keep their shape for every table size.                             *)
THEOREM TypeCorrect == Spec => []TypeOK
<1>1. IInv => TypeOK
  BY DEF IInv
<1>2. QED
  BY <1>1, Invariant, PTL

(* Safety of the two-phase dispatch: no slot is left Running without a run()  *)
(* inside it, ...                                                             *)
THEOREM RunningSafe == Spec => []RunningIsInFlight
<1>1. IInv => RunningIsInFlight
  BY DEF IInv
<1>2. QED
  BY <1>1, Invariant, PTL

(* ... the slot that finish_task commits to still holds the task that ran,    *)
(* although the lock was free in between, ...                                 *)
THEOREM SlotSafe == Spec => []InFlightSlotKept
<1>1. IInv => InFlightSlotKept
  BY DEF IInv
<1>2. QED
  BY <1>1, Invariant, PTL

(* ... and the shell can be dispatched again whatever is killed.              *)
THEOREM ShellSafe == Spec => []ShellNeverLost
<1>1. IInv => ShellNeverLost
  BY DEF IInv
<1>2. QED
  BY <1>1, Invariant, PTL

(* Only PrepareNext enters the window between dispatch and commit, only       *)
(* FinishTask leaves it, and inside it the slot in flight does not change.    *)
LEMMA WindowSteps ==
  ASSUME IInv, [Next]_vars
  PROVE  \/ PrepareNext
         \/ FinishTask
         \/ InFlight = InFlight' /\ (InFlight => ctx'.task_id = ctx.task_id)
  BY DEF Next, Run, TaskBody, IdleOrWorkerTask, LoggerTask, ShellNoLine, ShellPopLine,
         SpawnTask, KillTask, OtherCommand, CommandDone, YieldNow, Finish, PanicCommand,
         PowerCommand, TimerTick, InputInterrupt, WakeFromHalt, PoweredOff, vars,
         InFlight, IInv, TypeOK, Context

(* A slot whose function changes was empty or dead, and was not in flight:    *)
(* spawn never overwrites a live task (spawn_task).                           *)
THEOREM ReuseSafe == Spec => OnlyDeadSlotsReused
<1>1. ASSUME IInv, [Next]_vars, NEW i \in Slots, tasks'[i].func # tasks[i].func
      PROVE  /\ tasks[i].state \in {"Empty", "Finished"}
             /\ ~ (InFlight /\ i = ctx.task_id)
  <2>1. TypeOK
    BY <1>1 DEF IInv
  <2>2. CASE PrepareNext
    BY <1>1, <2>1, <2>2, PrepareNextWrites, StateWritten
  <2>3. CASE SpawnTask
    <3>1. PICK n \in Slots \ {ctx.task_id} :
            /\ tasks[n].state \in {"Empty", "Finished"}
            /\ tasks' = [tasks EXCEPT ![n] = NewTask("worker")]
      BY <1>1, <2>3, SpawnTaskWrites
    <3>2. i = n
      BY <1>1, <2>1, <3>1 DEF TypeOK
    <3>3. QED
      BY <3>1, <3>2
  <2>4. ASSUME NEW id \in Pids, KillTask(id) PROVE FALSE
    BY <1>1, <2>1, <2>4, KillTaskWrites, StateWritten
  <2>5. CASE FinishTask
    BY <1>1, <2>1, <2>5, FinishTaskWrites, StateWritten
  <2>6. QED
    BY <1>1, <2>2, <2>3, <2>4, <2>5, TableSteps
<1>2. IInv /\ [Next]_vars =>
        [\A i \in Slots : tasks'[i].func # tasks[i].func =>
           /\ tasks[i].state \in {"Empty", "Finished"}
           /\ ~ (InFlight /\ i = ctx.task_id)]_vars
  BY <1>1
<1>3. QED
  BY <1>2, Invariant, PTL DEF Spec, OnlyDeadSlotsReused

(* A dead task that is off the CPU comes back only as the fresh worker of a   *)
(* spawn: no late commit of phase 3 revives it (finish_task writes only the   *)
(* slot in flight).                                                           *)
THEOREM DeadSafe == Spec => DeadStayDead
<1>1. ASSUME IInv, [Next]_vars, NEW i \in Slots,
             tasks[i].state = "Finished",
             ~ (InFlight /\ i = ctx.task_id),
             tasks'[i].state # "Finished"
      PROVE  tasks'[i] = NewTask("worker") /\ reply' = "spawned"
  <2>1. TypeOK
    BY <1>1 DEF IInv
  <2>2. CASE PrepareNext
    BY <1>1, <2>1, <2>2, PrepareNextWrites, StateWritten
  <2>3. CASE SpawnTask
    <3>1. PICK n \in Slots \ {ctx.task_id} :
            /\ tasks' = [tasks EXCEPT ![n] = NewTask("worker")]
            /\ reply' = "spawned"
      BY <1>1, <2>3, SpawnTaskWrites
    <3>2. i = n
      BY <1>1, <2>1, <3>1 DEF TypeOK
    <3>3. QED
      BY <2>1, <3>1, <3>2 DEF TypeOK
  <2>4. ASSUME NEW id \in Pids, KillTask(id) PROVE FALSE
    BY <1>1, <2>1, <2>4, KillTaskWrites, StateWritten
  <2>5. CASE FinishTask
    <3>1. InFlight /\ i # ctx.task_id
      BY <1>1, <2>5, FinishTaskWrites DEF InFlight
    <3>2. QED
      BY <1>1, <2>1, <2>5, <3>1, FinishTaskWrites, StateWritten
  <2>6. QED
    BY <1>1, <2>2, <2>3, <2>4, <2>5, TableSteps
<1>2. IInv /\ [Next]_vars =>
        [\A i \in Slots :
           /\ tasks[i].state = "Finished"
           /\ ~ (InFlight /\ i = ctx.task_id)
           /\ tasks'[i].state # "Finished"
           => tasks'[i] = NewTask("worker") /\ reply' = "spawned"]_vars
  BY <1>1
<1>3. QED
  BY <1>2, Invariant, PTL DEF Spec, DeadStayDead

-----------------------------------------------------------------------------
(* The scheduler implements the task pool.                                    *)

(* PoolView, slot by slot.                                                    *)
LEMMA PoolViewAt ==
  ASSUME NEW i \in Slots
  PROVE  /\ PoolView[i].func = tasks[i].func
         /\ PoolView[i].state = IF InFlight /\ i = ctx.task_id THEN "Running"
                                                              ELSE tasks[i].state
  BY DEF PoolView

(* The view maps slots to records of two fields, before and after a step.     *)
LEMMA PoolViewDomain == PoolView = [i \in Slots |-> PoolView[i]]
  BY DEF PoolView
LEMMA PoolViewDomainNext == PoolView' = [i \in Slots |-> PoolView'[i]]
  BY DEF PoolView
LEMMA PoolViewRecord ==
  \A i \in Slots : PoolView[i] = [func |-> PoolView[i].func, state |-> PoolView[i].state]
  BY DEF PoolView
LEMMA PoolViewRecordNext ==
  \A i \in Slots : PoolView'[i] = [func |-> PoolView'[i].func, state |-> PoolView'[i].state]
  BY DEF PoolView

(* A change of at most one state field of the view is that EXCEPT.            *)
LEMMA PoolWrites ==
  ASSUME NEW n \in Slots, NEW s,
         \A i \in Slots : /\ PoolView'[i].func = PoolView[i].func
                         /\ PoolView'[i].state = IF i = n THEN s ELSE PoolView[i].state
  PROVE  PoolView' = [PoolView EXCEPT ![n].state = s]
<1>1. ASSUME NEW i \in Slots
      PROVE  PoolView'[i] = [PoolView EXCEPT ![n].state = s][i]
  <2>1. /\ PoolView'[i] = [func |-> PoolView'[i].func, state |-> PoolView'[i].state]
        /\ PoolView[i]  = [func |-> PoolView[i].func, state |-> PoolView[i].state]
    BY PoolViewRecord, PoolViewRecordNext
  <2>2. PoolView'[i] = [func |-> PoolView[i].func,
                        state |-> IF i = n THEN s ELSE PoolView[i].state]
    BY <2>1
  <2>3. [PoolView EXCEPT ![n].state = s][i] =
          IF i = n THEN [PoolView[n] EXCEPT !.state = s] ELSE PoolView[i]
    BY PoolViewDomain
  <2>4. CASE i = n
    <3>1. PoolView'[n] = [func |-> PoolView[n].func, state |-> s]
      BY <2>2, <2>4
    <3>2. PoolView[n] = [func |-> PoolView[n].func, state |-> PoolView[n].state]
      BY <2>1, <2>4
    <3>3. [PoolView[n] EXCEPT !.state = s] = [func |-> PoolView[n].func, state |-> s]
      BY <3>2
    <3>4. QED
      BY <2>3, <2>4, <3>1, <3>3
  <2>5. CASE i # n
    BY <2>1, <2>2, <2>3, <2>5
  <2>6. QED
    BY <2>4, <2>5
<1>2. QED
  BY <1>1, PoolViewDomain, PoolViewDomainNext

(* So is the replacement of a whole slot.                                     *)
LEMMA PoolReplaces ==
  ASSUME NEW n \in Slots, NEW t, PoolView'[n] = t,
         \A i \in Slots \ {n} : PoolView'[i] = PoolView[i]
  PROVE  PoolView' = [PoolView EXCEPT ![n] = t]
<1>1. \A i \in Slots : PoolView'[i] = [PoolView EXCEPT ![n] = t][i]
  BY DEF PoolView
<1>2. QED
  BY <1>1 DEF PoolView

(* Slots that keep function and state keep the view.                          *)
LEMMA PoolSame ==
  ASSUME \A i \in Slots : /\ PoolView'[i].func = PoolView[i].func
                         /\ PoolView'[i].state = PoolView[i].state
  PROVE  PoolView' = PoolView
<1>1. \A i \in Slots : PoolView'[i] = PoolView[i]
  BY DEF PoolView
<1>2. QED
  BY <1>1 DEF PoolView

(* Every boot state maps to an initial state of the pool.                     *)
LEMMA PoolInit ==
  ASSUME Init
  PROVE  Pool!Init
<1>1. TypeOK /\ ~ InFlight
  BY TypeInit DEF Init, InFlight
<1>2. ASSUME NEW i \in Slots
      PROVE  PoolView[i] \in {t \in Pool!Tasks : t.state = "Ready"} \cup {Pool!Empty}
  <2>1. PoolView[i] = [func |-> tasks[i].func, state |-> tasks[i].state]
    BY <1>1 DEF PoolView
  <2>2. CASE tasks[i] \in Task
    <3>1. tasks[i].state = "Ready"
      BY <2>2, BootTable DEF Task
    <3>2. QED
      BY <2>1, <2>2, <3>1 DEF Task, Pool!Tasks
  <2>3. CASE tasks[i] = EmptySlot
    BY <2>1, <2>3, EmptySlotIsNoTask DEF Pool!Empty
  <2>4. QED
    BY <1>1, <2>2, <2>3 DEF TypeOK
<1>3. QED
  BY <1>2 DEF Pool!Init, PoolView

(* Every step is a move of the pool or leaves it alone: a dispatch is         *)
(* Dispatch, a commit Return, a kill of another slot Kill, a spawn Spawn.     *)
LEMMA PoolStep ==
  ASSUME IInv, IInv', [Next]_vars
  PROVE  [Pool!Next]_PoolView
<1>1. TypeOK
  BY DEF IInv
<1>2. CASE PrepareNext
  <2>1. CASE phase = "pick" /\ phase' = "halt" /\ UNCHANGED tasks
    BY <2>1, PoolSame, PoolViewAt DEF PoolView, InFlight
  <2>2. CASE phase' = "call"
    <3>1. PICK idx \in Slots : /\ phase = "pick" /\ tasks[idx].state = "Ready"
                               /\ ctx'.task_id = idx
                               /\ WritesState(idx, "Running")
      BY <1>2, <2>2, PrepareNextWrites
    <3>2. ~ InFlight /\ InFlight'
      BY <2>2, <3>1 DEF InFlight
    <3>3. \A i \in Slots : /\ tasks'[i].func = tasks[i].func
                           /\ tasks'[i].state = IF i = idx THEN "Running" ELSE tasks[i].state
      BY <1>1, <3>1, StateWritten
    <3>4. \A i \in Slots : /\ PoolView'[i].func = PoolView[i].func
                           /\ PoolView'[i].state =
                                IF i = idx THEN "Running" ELSE PoolView[i].state
      BY <3>1, <3>2, <3>3 DEF PoolView
    <3>5. Pool!OnCpu = {}
      BY <3>2 DEF Pool!OnCpu, PoolView, IInv, RunningIsInFlight
    <3>6. PoolView[idx].state = "Ready"
      BY <3>1, <3>2 DEF PoolView
    <3>7. Pool!Dispatch(idx)
      BY <3>4, <3>5, <3>6, PoolWrites DEF Pool!Dispatch, Pool!Move
    <3>8. QED
      BY <3>7 DEF Pool!Next
  <2>3. QED
    BY <1>2, <2>1, <2>2, PrepareNextWrites
<1>3. CASE FinishTask
  <2> DEFINE after == IF ctx.finished THEN "Finished" ELSE "Ready"
  <2>1. /\ InFlight /\ ~ InFlight' /\ ctx.task_id \in Slots
        /\ WritesState(ctx.task_id, after)
    BY <1>3, FinishTaskWrites DEF InFlight
  <2>2. \A i \in Slots : /\ tasks'[i].func = tasks[i].func
                         /\ tasks'[i].state = IF i = ctx.task_id THEN after ELSE tasks[i].state
    BY <1>1, <2>1, StateWritten
  <2>3. \A i \in Slots : /\ PoolView'[i].func = PoolView[i].func
                         /\ PoolView'[i].state =
                              IF i = ctx.task_id THEN after ELSE PoolView[i].state
    BY <2>1, <2>2 DEF PoolView
  <2>4. PoolView' = [PoolView EXCEPT ![ctx.task_id].state = after]
    BY <2>1, <2>3, PoolWrites
  <2>5. PoolView[ctx.task_id].state = "Running"
    BY <2>1 DEF PoolView
  <2>6. Pool!Return(ctx.task_id)
    BY <2>4, <2>5 DEF Pool!Return, Pool!Move
  <2>7. QED
    BY <2>1, <2>6 DEF Pool!Next
<1>4. CASE SpawnTask
  <2>1. InFlight /\ InFlight' /\ ctx'.task_id = ctx.task_id
    BY <1>4, SpawnTaskWrites DEF ReturnsFromCommand, InFlight
  <2>2. CASE UNCHANGED tasks
    BY <2>1, <2>2 DEF PoolView
  <2>3. CASE ~ UNCHANGED tasks
    <3>1. PICK n \in Slots \ {ctx.task_id} :
            /\ tasks[n].state \in {"Empty", "Finished"}
            /\ tasks' = [tasks EXCEPT ![n] = NewTask("worker")]
      BY <1>4, <2>3, SpawnTaskWrites
    <3>2. PoolView[n].state \in {"Empty", "Finished"}
      BY <2>1, <3>1 DEF PoolView
    <3>3. /\ tasks'[n] = [func |-> "worker", state |-> "Ready"]
          /\ \A i \in Slots \ {n} : tasks'[i] = tasks[i]
      BY <1>1, <3>1 DEF TypeOK, NewTask
    <3>4. PoolView' = [PoolView EXCEPT ![n] = [func |-> "worker", state |-> "Ready"]]
      <4>1. PoolView'[n] = [func |-> "worker", state |-> "Ready"]
        BY <2>1, <3>1, <3>3 DEF PoolView
      <4>2. \A i \in Slots \ {n} : PoolView'[i] = PoolView[i]
        BY <2>1, <3>3 DEF PoolView
      <4>3. QED
        BY <4>1, <4>2, PoolReplaces
    <3>5. Pool!Spawn(n)
      BY <3>2, <3>4 DEF Pool!Spawn
    <3>6. QED
      BY <3>5 DEF Pool!Next
  <2>4. QED
    BY <2>2, <2>3
<1>5. ASSUME NEW id \in Pids, KillTask(id) PROVE [Pool!Next]_PoolView
  <2>1. InFlight /\ InFlight' /\ ctx'.task_id = ctx.task_id
    BY <1>5, KillTaskWrites DEF ReturnsFromCommand, InFlight
  <2>2. CASE UNCHANGED tasks
    BY <2>1, <2>2 DEF PoolView
  <2>3. CASE ~ UNCHANGED tasks
    <3>1. /\ id \in Slots /\ tasks[id].state # "Empty"
          /\ WritesState(id, "Finished")
      BY <1>5, <2>3, KillTaskWrites
    <3>2. \A i \in Slots : /\ tasks'[i].func = tasks[i].func
                           /\ tasks'[i].state = IF i = id THEN "Finished" ELSE tasks[i].state
      BY <1>1, <3>1, StateWritten
    <3>3. CASE id = ctx.task_id \/ tasks[id].state = "Finished"
      <4>1. \A i \in Slots : /\ PoolView'[i].func = PoolView[i].func
                             /\ PoolView'[i].state = PoolView[i].state
        BY <2>1, <3>2, <3>3 DEF PoolView
      <4>2. QED
        BY <4>1, PoolSame
    <3>4. CASE id # ctx.task_id /\ tasks[id].state # "Finished"
      <4>1. tasks[id].state = "Ready"
        <5>1. tasks[id] \in Task
          BY <1>1, <3>1, EmptySlotIsNoTask DEF TypeOK
        <5>2. tasks[id].state \in {"Ready", "Running", "Finished"}
          BY <5>1 DEF Task
        <5>3. tasks[id].state # "Running"
          BY <3>1, <3>4 DEF IInv, RunningIsInFlight
        <5>4. QED
          BY <3>4, <5>2, <5>3
      <4>2. \A i \in Slots : /\ PoolView'[i].func = PoolView[i].func
                             /\ PoolView'[i].state =
                                  IF i = id THEN "Finished" ELSE PoolView[i].state
        BY <2>1, <3>2, <3>4 DEF PoolView
      <4>3. PoolView[id].state = "Ready"
        BY <2>1, <3>1, <3>4, <4>1 DEF PoolView
      <4>4. Pool!Kill(id)
        BY <3>1, <4>2, <4>3, PoolWrites DEF Pool!Kill, Pool!Move
      <4>5. QED
        BY <3>1, <4>4 DEF Pool!Next
    <3>5. QED
      BY <3>3, <3>4
  <2>4. QED
    BY <2>2, <2>3
<1>6. CASE UNCHANGED tasks /\ ~ PrepareNext /\ ~ FinishTask
  BY <1>6, WindowSteps DEF PoolView
<1>7. QED
  BY <1>2, <1>3, <1>4, <1>5, <1>6, TableSteps

(* The detailed scheduler implements its abstract promise: one task on the    *)
(* CPU, left only by its own return; dead slots refilled only by workers;     *)
(* kill effective only off the CPU.                                           *)
THEOREM Refinement == Spec => ImplementsPool
<1>1. Init => Pool!Init
  BY PoolInit
<1>2. IInv /\ IInv' /\ [Next]_vars => [Pool!Next]_PoolView
  BY PoolStep
<1>3. QED
  BY <1>1, <1>2, Invariant, PTL DEF Spec, ImplementsPool, Pool!Spec

-----------------------------------------------------------------------------
(* Bounded bypass.  What a Ready slot has waited, and the slots the search    *)
(* still has to pass before it, together never exceed the table: a dispatch   *)
(* adds one to the first and takes at least one from the second.  The one     *)
(* exception is a task that finishes, after which the search starts at its    *)
(* dead slot; that slot is then skipped without a dispatch.                   *)
WaitBound ==
  \A i \in Slots :
    IF ~ Ready(i) THEN waited[i] = 0
    ELSE IF InFlight THEN waited[i] + Offset(ctx.task_id, i) <= MAX_TASKS
    ELSE waited[i] + Offset(current, i) <= IF Ready(current) THEN MAX_TASKS - 1
                                                             ELSE MAX_TASKS

WaitInv == IInv /\ waited \in [Slots -> Nat] /\ WaitBound

(* The offset of slot i from slot s, without the remainder.                   *)
LEMMA OffsetIs ==
  ASSUME NEW s \in Slots, NEW i \in Slots
  PROVE  /\ Offset(s, i) = IF s <= i THEN i - s ELSE i + MAX_TASKS - s
         /\ Offset(s, i) \in 0 .. MAX_TASKS - 1
         /\ Offset(s, i) = 0 <=> i = s
<1>1. (i + MAX_TASKS - s) % MAX_TASKS = IF s <= i THEN i - s ELSE i + MAX_TASKS - s
  BY TasksAssumption DEF Slots
<1>2. QED
  BY <1>1, TasksAssumption DEF Offset, Slots

(* A search that passes slot j before slot i has that much less to go.        *)
LEMMA OffsetSplits ==
  ASSUME NEW s \in Slots, NEW j \in Slots, NEW i \in Slots,
         Offset(s, j) <= Offset(s, i)
  PROVE  Offset(s, i) = Offset(s, j) + Offset(j, i)
<1>1. /\ Offset(s, i) = IF s <= i THEN i - s ELSE i + MAX_TASKS - s
      /\ Offset(s, j) = IF s <= j THEN j - s ELSE j + MAX_TASKS - s
      /\ Offset(j, i) = IF j <= i THEN i - j ELSE i + MAX_TASKS - j
  BY OffsetIs
<1>2. QED
  BY <1>1, TasksAssumption DEF Slots

(* The slot after the one that ran is one nearer to every other slot.         *)
LEMMA OffsetOfSuccessor ==
  ASSUME NEW s \in Slots, NEW i \in Slots, i # s
  PROVE  Offset((s + 1) % MAX_TASKS, i) = Offset(s, i) - 1
<1>1. /\ (s + 1) % MAX_TASKS = IF s + 1 = MAX_TASKS THEN 0 ELSE s + 1
      /\ (s + 1) % MAX_TASKS \in Slots
  BY SuccessorSlot
<1>2. Offset((s + 1) % MAX_TASKS, i) = IF (s + 1) % MAX_TASKS <= i
                                       THEN i - ((s + 1) % MAX_TASKS)
                                       ELSE i + MAX_TASKS - ((s + 1) % MAX_TASKS)
  BY <1>1, OffsetIs
<1>3. Offset(s, i) = IF s <= i THEN i - s ELSE i + MAX_TASKS - s
  BY OffsetIs
<1>4. QED
  BY <1>1, <1>2, <1>3, TasksAssumption DEF Slots

(* The bound is strong enough, whichever phase run() is in.                   *)
LEMMA WaitBoundSuffices ==
  ASSUME WaitInv
  PROVE  BoundedBypass
<1>1. SUFFICES ASSUME NEW i \in Slots, Ready(i) PROVE waited[i] <= MAX_TASKS - 1
  BY TasksAssumption DEF WaitInv, WaitBound, BoundedBypass
<1>2. waited[i] \in Nat /\ ctx.task_id \in Slots /\ current \in Slots
  BY DEF WaitInv, IInv, TypeOK, Context
<1>3. CASE InFlight
  <2>1. i # ctx.task_id
    BY <1>1, <1>3 DEF WaitInv, IInv, InFlightSlotKept, Ready
  <2>2. Offset(ctx.task_id, i) \in 1 .. MAX_TASKS - 1
    BY <1>2, <2>1, OffsetIs
  <2>3. waited[i] + Offset(ctx.task_id, i) <= MAX_TASKS
    BY <1>1, <1>3 DEF WaitInv, WaitBound
  <2>4. QED
    BY <1>2, <2>2, <2>3, TasksAssumption
<1>4. CASE ~ InFlight
  <2>1. Offset(current, i) \in 0 .. MAX_TASKS - 1 /\ (Offset(current, i) = 0 <=> i = current)
    BY <1>2, OffsetIs
  <2>2. waited[i] + Offset(current, i) <= IF Ready(current) THEN MAX_TASKS - 1 ELSE MAX_TASKS
    BY <1>1, <1>4 DEF WaitInv, WaitBound
  <2>3. QED
    BY <1>1, <1>2, <2>1, <2>2, TasksAssumption
<1>5. QED
  BY <1>3, <1>4

(* What a step counts for one slot.                                           *)
LEMMA CountedWaits ==
  ASSUME WaitInv, CountWaits, NEW i \in Slots
  PROVE  waited'[i] = IF ~ (Ready(i) /\ Ready(i)') THEN 0
                      ELSE IF Dispatching /\ waited[i] < MAX_TASKS THEN waited[i] + 1
                      ELSE waited[i]
  BY DEF CountWaits, Ready

(* Outside the window between dispatch and commit nothing but a dispatch      *)
(* writes the table or moves the search.                                      *)
LEMMA IdleSteps ==
  ASSUME IInv, Next, ~ InFlight
  PROVE  \/ PrepareNext /\ phase' = "call"
         \/ ~ InFlight' /\ UNCHANGED <<tasks, current>>
  BY DEF Next, Run, TaskBody, PrepareNext, IdleOrWorkerTask, LoggerTask, ShellNoLine,
         ShellPopLine, SpawnTask, KillTask, OtherCommand, CommandDone, PanicCommand,
         PowerCommand, FinishTask, Commit, TimerTick, InputInterrupt, WakeFromHalt,
         PoweredOff, vars, InFlight

(* The invariant holds at boot, when every slot waits for the first time.     *)
LEMMA WaitInit ==
  ASSUME InitWaited
  PROVE  WaitInv
<1>1. IInv
  BY InvInit DEF InitWaited
<1>2. ~ InFlight /\ current = 0 /\ 0 \in Slots
  BY TasksAssumption DEF InitWaited, Init, InFlight, Slots
<1>3. waited = [i \in Slots |-> 0]
  BY DEF InitWaited
<1>4. Ready(0)
  <2>1. {0, 1, 2, ShellSlot} \subseteq Slots /\ ShellSlot = 3
    BY TasksAssumption DEF Slots, ShellSlot
  <2>2. tasks[0] = NewTask("idle")
    BY <2>1 DEF InitWaited, Init, EmptyTable
  <2>3. QED
    BY <2>2 DEF Ready, NewTask
<1>5. \A i \in Slots : Offset(current, i) <= MAX_TASKS - 1 /\ Offset(current, i) \in Nat
  BY <1>2, OffsetIs, TasksAssumption
<1>6. QED
  BY <1>1, <1>2, <1>3, <1>4, <1>5, TasksAssumption DEF WaitInv, WaitBound

(* Every step keeps it.                                                       *)
LEMMA WaitStep ==
  ASSUME WaitInv, [NextWaited]_waitVars
  PROVE  WaitInv'
<1>1. IInv'
  <2>1. [Next]_vars
    BY DEF NextWaited, waitVars
  <2>2. QED
    BY <2>1, InvStep DEF WaitInv
<1>2. CASE UNCHANGED waitVars
  BY <1>1, <1>2 DEF waitVars, vars, WaitInv, WaitBound, Ready, InFlight
<1>3. CASE Next /\ CountWaits
  <2>1. waited' \in [Slots -> Nat]
    BY <1>3, TasksAssumption DEF CountWaits, WaitInv
  <2>2. /\ current \in Slots /\ ctx.task_id \in Slots
        /\ current' \in Slots /\ ctx'.task_id \in Slots
    BY <1>1 DEF WaitInv, IInv, TypeOK, Context
  <2>3. \A s, i \in Slots : Offset(s, i) \in 0 .. MAX_TASKS - 1
    BY OffsetIs
  <2>4. \A i \in Slots : waited[i] \in Nat
    BY DEF WaitInv
  <2>5. \A i \in Slots : waited'[i] = IF ~ (Ready(i) /\ Ready(i)') THEN 0
                      ELSE IF Dispatching /\ waited[i] < MAX_TASKS THEN waited[i] + 1
                      ELSE waited[i]
    BY <1>3, CountedWaits
  <2>6. CASE PrepareNext /\ phase' = "call"
    <3>1. PICK idx \in Slots : /\ idx \in NextRunnableFrom(current)
                               /\ ctx'.task_id = idx /\ WritesState(idx, "Running")
      <4>1. NextRunnableFrom(current) # {}
        BY <2>6 DEF PrepareNext
      <4>2. \E j \in NextRunnableFrom(current) : Dispatch(j)
        BY <2>6, <4>1, Zenon DEF PrepareNext
      <4>3. PICK j \in NextRunnableFrom(current) : Dispatch(j)
        BY <4>2
      <4>4. j \in Slots
        BY RunnableIsReady
      <4>5. ctx'.task_id = j /\ WritesState(j, "Running")
        BY <4>3 DEF Dispatch, WritesState
      <4>6. QED
        BY <4>4, <4>5
    <3>2. ~ InFlight /\ InFlight'
      BY <2>6 DEF PrepareNext, InFlight
    <3>3. \A i \in Slots : Ready(i)' => i # idx /\ Ready(i)
      <4>1. \A i \in Slots : tasks'[i].state = IF i = idx THEN "Running" ELSE tasks[i].state
        BY <3>1, StateWritten DEF WaitInv, IInv
      <4>2. QED
        BY <4>1 DEF Ready
    <3>4. ASSUME NEW i \in Slots, Ready(i)'
          PROVE  waited'[i] + Offset(idx, i) <= MAX_TASKS
      <4>1. Ready(i) /\ i # idx
        BY <3>3, <3>4
      <4>2. Offset(current, idx) <= Offset(current, i) /\ Ready(idx)
        BY <3>1, <4>1 DEF NextRunnableFrom
      <4>3. Offset(current, i) = Offset(current, idx) + Offset(idx, i)
        BY <2>2, <4>2, OffsetSplits
      <4>4. waited[i] + Offset(current, i) <= IF Ready(current) THEN MAX_TASKS - 1 ELSE MAX_TASKS
        BY <3>2, <4>1 DEF WaitInv, WaitBound
      <4>5. ~ Ready(current) => Offset(current, idx) # 0
        BY <2>2, <4>2, OffsetIs
      <4>6. waited'[i] <= waited[i] + 1
        BY <2>4, <2>5, TasksAssumption
      <4>7. waited'[i] \in Nat
        BY <2>1
      <4>8. /\ Offset(current, i) \in Nat /\ Offset(current, idx) \in Nat
            /\ Offset(idx, i) \in Nat
        BY <2>2, <2>3
      <4>9. waited[i] \in Nat
        BY <2>4
      <4>10. QED
        BY <4>3, <4>4, <4>5, <4>6, <4>7, <4>8, <4>9, TasksAssumption
    <3>5. WaitBound'
      BY <2>5, <3>1, <3>2, <3>4 DEF WaitBound, Offset
    <3>6. QED
      BY <1>1, <2>1, <3>5 DEF WaitInv
  <2>7. CASE FinishTask
    <3>1. InFlight /\ ~ InFlight' /\ ~ Dispatching
      BY <2>7 DEF FinishTask, Commit, InFlight, Dispatching
    <3>2. \A i \in Slots : tasks'[i].state = IF i = ctx.task_id THEN ResultState
                                                               ELSE tasks[i].state
      <4>1. WritesState(ctx.task_id, ResultState)
        BY <2>7 DEF FinishTask, Commit, WritesState
      <4>2. QED
        BY <2>2, <4>1, StateWritten DEF WaitInv, IInv
    <3>3. current' = NextStart
      BY <2>7 DEF FinishTask, Commit
    <3>4. ctx.yielded \/ ResultState = "Finished"
      BY <2>7 DEF FinishTask, Commit, WaitInv, IInv, ResultKnown, ResultState
    <3>5. ASSUME NEW i \in Slots, Ready(i)'
          PROVE  waited'[i] + Offset(current', i) <= IF Ready(current)' THEN MAX_TASKS - 1
                                                                        ELSE MAX_TASKS
      <4>1. CASE i = ctx.task_id
        <5>1. ~ Ready(i)
          BY <3>1, <4>1 DEF WaitInv, IInv, InFlightSlotKept, Ready
        <5>2. waited'[i] = 0
          BY <2>5, <5>1
        <5>3. Offset(current', i) \in 0 .. MAX_TASKS - 1
          BY <2>2, <2>3
        <5>4. QED
          BY <5>2, <5>3, TasksAssumption
      <4>2. CASE i # ctx.task_id
        <5>1. Ready(i) /\ waited'[i] = waited[i]
          BY <2>5, <3>1, <3>2, <3>5, <4>2 DEF Ready
        <5>2. waited[i] + Offset(ctx.task_id, i) <= MAX_TASKS
          BY <3>1, <5>1 DEF WaitInv, WaitBound
        <5>3. CASE ctx.yielded
          <6>1. Offset(current', i) = Offset(ctx.task_id, i) - 1
            BY <2>2, <3>3, <4>2, <5>3, OffsetOfSuccessor DEF NextStart
          <6>2. Offset(ctx.task_id, i) \in Nat /\ waited[i] \in Nat
            BY <2>2, <2>3, <2>4
          <6>3. QED
            BY <5>1, <5>2, <6>1, <6>2, TasksAssumption
        <5>4. CASE ~ ctx.yielded
          <6>1. current' = ctx.task_id /\ ~ Ready(current)'
            BY <2>2, <3>2, <3>3, <3>4, <5>4 DEF NextStart, Ready
          <6>2. QED
            BY <5>1, <5>2, <6>1
        <5>5. QED
          BY <5>3, <5>4
      <4>3. QED
        BY <4>1, <4>2
    <3>6. WaitBound'
      BY <2>5, <3>1, <3>5 DEF WaitBound, Offset
    <3>7. QED
      BY <1>1, <2>1, <3>6 DEF WaitInv
  <2>8. CASE ~ InFlight /\ ~ InFlight' /\ UNCHANGED <<tasks, current>>
    <3>1. ~ Dispatching
      BY <2>8 DEF Dispatching, InFlight
    <3>2. \A i \in Slots : (Ready(i)' <=> Ready(i)) /\ (Ready(i) => waited'[i] = waited[i])
      BY <2>5, <2>8, <3>1 DEF Ready
    <3>3. WaitBound'
      BY <2>2, <2>5, <2>8, <3>2 DEF WaitInv, WaitBound, Offset
    <3>4. QED
      BY <1>1, <2>1, <3>3 DEF WaitInv
  <2>9. CASE InFlight /\ InFlight' /\ ctx'.task_id = ctx.task_id
    <3>1. ~ Dispatching
      BY <2>9 DEF Dispatching, InFlight
    <3>2. ASSUME NEW i \in Slots, Ready(i)'
          PROVE  waited'[i] + Offset(ctx.task_id, i) <= MAX_TASKS
      <4>1. CASE Ready(i)
        BY <2>5, <2>9, <3>1, <3>2, <4>1 DEF WaitInv, WaitBound
      <4>2. CASE ~ Ready(i)
        <5>1. waited'[i] = 0
          BY <2>5, <4>2
        <5>2. Offset(ctx.task_id, i) \in 0 .. MAX_TASKS - 1
          BY <2>2, <2>3
        <5>3. QED
          BY <5>1, <5>2, TasksAssumption
      <4>3. QED
        BY <4>1, <4>2
    <3>3. WaitBound'
      BY <2>5, <2>9, <3>2 DEF WaitBound, Offset
    <3>4. QED
      BY <1>1, <2>1, <3>3 DEF WaitInv
  <2>10. QED
    <3>1. CASE InFlight
      <4>1. ~ PrepareNext
        BY <3>1 DEF PrepareNext, InFlight
      <4>2. QED
        BY <1>3, <2>7, <2>9, <3>1, <4>1, WindowSteps DEF WaitInv
    <3>2. CASE ~ InFlight
      BY <1>3, <2>6, <2>8, <3>2, IdleSteps DEF WaitInv
    <3>3. QED
      BY <3>1, <3>2
<1>4. QED
  BY <1>2, <1>3 DEF NextWaited

(* Fairness of the round robin, as a bound and not only in the end: however   *)
(* many tasks are spawned, killed or retire, a Ready task is passed over at   *)
(* most MAX_TASKS - 1 times (next_runnable_from, finish_task).                *)
THEOREM BypassBounded == SpecWaited => []BoundedBypass
<1>1. InitWaited => WaitInv
  BY WaitInit
<1>2. WaitInv /\ [NextWaited]_waitVars => WaitInv'
  BY WaitStep
<1>3. WaitInv => BoundedBypass
  BY WaitBoundSuffices
<1>4. QED
  BY <1>1, <1>2, <1>3, PTL DEF SpecWaited
=============================================================================
