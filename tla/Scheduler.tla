------------------------------ MODULE Scheduler ------------------------------
(***************************************************************************)
(* The cooperative round-robin scheduler of src/src/scheduler.rs, with the *)
(* four tasks the kernel boots (idle, worker-a, worker-b, shell), the shell *)
(* commands that reach back into the task table (spawn, kill, panic,        *)
(* reboot, shutdown) and the timer interrupt that runs next to them.        *)
(*                                                                          *)
(* Every section under the SCHEDULER lock is one action: the only other     *)
(* context, the interrupt handlers, never takes that lock and touches only  *)
(* BOOT_TICK_COUNT.  What scheduler::run() keeps in local variables between *)
(* its three phases (the slot, the function, the TaskContext) is kept in    *)
(* ctx, so that the table may change under the running task.                *)
(*                                                                          *)
(* Left out: the fields Task::name and Task::runs, which are only printed.  *)
(***************************************************************************)
EXTENDS Naturals

CONSTANTS
  MAX_TASKS,     (* slots of the task table (8 in the code)                 *)
  LOGGER_TICKS,  (* uptime after which worker-b retires (128 in the code)   *)
  TICK_CAP       (* bound: BOOT_TICK_COUNT saturates here; any value above  *)
                 (* LOGGER_TICKS is the same for every comparison made      *)

ASSUME TasksAssumption == MAX_TASKS \in Nat /\ MAX_TASKS >= 4
ASSUME TickAssumption  == /\ LOGGER_TICKS \in Nat
                          /\ TICK_CAP \in Nat
                          /\ TICK_CAP > LOGGER_TICKS

VARIABLES
  tasks,    (* Scheduler::tasks                                             *)
  current,  (* Scheduler::current                                           *)
  ctx,      (* run()'s idx, func and TaskContext of the dispatched task     *)
  phase,    (* where run() is                                               *)
  tick,     (* BOOT_TICK_COUNT                                              *)
  reply     (* what the last spawn or kill printed, until the task returns  *)

vars == <<tasks, current, ctx, phase, tick, reply>>

Slots     == 0 .. MAX_TASKS - 1
TaskFuncs == {"idle", "worker", "logger", "shell"}
EmptySlot == [func |-> "none", state |-> "Empty"]
Task      == [func : TaskFuncs, state : {"Ready", "Running", "Finished"}]
NewTask(f) == [func |-> f, state |-> "Ready"]

NoCtx   == [task_id |-> 0, func |-> "none", tick |-> 0,
            yielded |-> FALSE, finished |-> FALSE]
Context == [task_id : Slots, func : TaskFuncs \cup {"none"}, tick : 0 .. TICK_CAP,
            yielded : BOOLEAN, finished : BOOLEAN]

(* "pick": phase 1 of the loop; "call": phase 2, the task function starts;  *)
(* "command": the shell holds a line it popped; "commit": phase 3; "halt":  *)
(* enable_and_hlt; "panicked": hlt_loop of the panic handler; "off": the    *)
(* machine was reset or powered off.                                        *)
Phases   == {"pick", "call", "command", "commit", "halt", "panicked", "off"}
InFlight == phase \notin {"pick", "halt"}
Stopped  == phase \in {"panicked", "off"}

ShellSlot  == 3
EmptyTable == [i \in Slots |-> EmptySlot]

(* The state in which kernel_main calls scheduler::run(): add_task filled   *)
(* the first four free slots and interrupts were just enabled.              *)
Init ==
  /\ tasks   = [EmptyTable EXCEPT ![0] = NewTask("idle"),   ![1] = NewTask("worker"),
                                  ![2] = NewTask("logger"), ![ShellSlot] = NewTask("shell")]
  /\ current = 0
  /\ ctx     = NoCtx
  /\ phase   = "pick"
  /\ tick    = 0
  /\ reply   = "none"

-----------------------------------------------------------------------------
(* Phase 1: choosing the next task.                                         *)

(* Mutation: dead tasks are runnable too.                                   *)
ReadyOrDead(i) == tasks[i].state \in {"Ready", "Finished"}

Ready(i) == tasks[i].state = "Ready"

(* Mutation: the search always starts at slot 0.                            *)
OffsetFromZero(start, i) == i

(* The offset at which the search that starts at slot start meets slot i.   *)
Offset(start, i) == (i + MAX_TASKS - start) % MAX_TASKS

(* The Option<usize> of next_runnable_from, as a set of at most one slot.   *)
NextRunnableFrom(start) ==
  {i \in Slots : /\ Ready(i)
                 /\ \A j \in Slots : Ready(j) => Offset(start, i) <= Offset(start, j)}

Dispatch(idx) ==
  /\ tasks' = [tasks EXCEPT ![idx].state = "Running"]
  /\ ctx'   = [task_id |-> idx, func |-> tasks[idx].func, tick |-> tick,
               yielded |-> FALSE, finished |-> FALSE]

PrepareNext ==
  /\ phase = "pick"
  /\ IF NextRunnableFrom(current) = {}
     THEN phase' = "halt" /\ UNCHANGED <<tasks, ctx>>
     ELSE phase' = "call" /\ \E idx \in NextRunnableFrom(current) : Dispatch(idx)
  /\ UNCHANGED <<current, tick, reply>>

-----------------------------------------------------------------------------
(* Phase 2: the task functions.                                             *)

YieldNow == ctx' = [ctx EXCEPT !.yielded = TRUE]
Finish   == ctx' = [ctx EXCEPT !.finished = TRUE]

IdleOrWorkerTask ==
  /\ phase = "call"
  /\ ctx.func \in {"idle", "worker"}
  /\ YieldNow
  /\ phase' = "commit"
  /\ UNCHANGED <<tasks, current, tick, reply>>

LoggerTask ==
  /\ phase = "call"
  /\ ctx.func = "logger"
  /\ IF ctx.tick > LOGGER_TICKS THEN Finish ELSE YieldNow
  /\ phase' = "commit"
  /\ UNCHANGED <<tasks, current, tick, reply>>

(* shell::run_once pops at most one line: either there is none ...          *)
ShellNoLine ==
  /\ phase = "call"
  /\ ctx.func = "shell"
  /\ YieldNow
  /\ phase' = "commit"
  /\ UNCHANGED <<tasks, current, tick, reply>>

(* ... or the line goes to handle_command.                                  *)
ShellPopLine ==
  /\ phase = "call"
  /\ ctx.func = "shell"
  /\ phase' = "command"
  /\ UNCHANGED <<tasks, current, ctx, tick, reply>>

(* After its command the shell prints the prompt and yields.                *)
CommandDone ==
  /\ phase = "command"
  /\ YieldNow
  /\ phase' = "commit"
  /\ UNCHANGED <<current, tick>>

(* Mutation: spawn_task only checks that the slot is not Ready.             *)
SpawnableUnlessReady == {i \in Slots : tasks[i].state # "Ready"}

(* Slots spawn_task may take, and the first of them.                        *)
Spawnable      == {i \in Slots : tasks[i].state \in {"Empty", "Finished"}}
FirstSpawnable == {i \in Spawnable : \A j \in Spawnable : i <= j}

SpawnTask ==
  /\ IF FirstSpawnable = {}
     THEN reply' = "spawnFailed" /\ UNCHANGED tasks
     ELSE /\ reply' = "spawned"
          /\ \E i \in FirstSpawnable : tasks' = [tasks EXCEPT ![i] = NewTask("worker")]
  /\ CommandDone

KillTask(id) ==
  /\ IF id \in Slots /\ tasks[id].state # "Empty"
     THEN reply' = "killed" /\ tasks' = [tasks EXCEPT ![id].state = "Finished"]
     ELSE reply' = "killFailed" /\ UNCHANGED tasks
  /\ CommandDone

(* Any pid the user types: past the table, all values are the same.         *)
Pids == 0 .. MAX_TASKS

(* Every command that leaves the task table alone.                          *)
OtherCommand ==
  /\ UNCHANGED <<tasks, reply>>
  /\ CommandDone

(* The panic command, or a panic inside another command: panic_handler      *)
(* prints and never returns.                                                *)
PanicCommand ==
  /\ phase = "command"
  /\ phase' = "panicked"
  /\ UNCHANGED <<tasks, current, ctx, tick, reply>>

(* reboot and shutdown, when the port write takes effect; one that does not *)
(* returns to the shell like OtherCommand.                                  *)
PowerCommand ==
  /\ phase = "command"
  /\ phase' = "off"
  /\ UNCHANGED <<tasks, current, ctx, tick, reply>>

-----------------------------------------------------------------------------
(* Phase 3: committing the result, then sleeping until an interrupt.        *)

(* Mutations: the commit honours a kill, or ignores ctx.finished; the cursor *)
(* is not wrapped, or not advanced.                                         *)
ResultStateHonoursKill == IF ctx.finished \/ tasks[ctx.task_id].state = "Finished"
                          THEN "Finished" ELSE "Ready"
ResultStateAlwaysReady == "Ready"
NextStartNotWrapped    == IF ctx.yielded THEN ctx.task_id + 1 ELSE ctx.task_id
NextStartNotAdvanced   == ctx.task_id

(* The state and the search start that finish_task stores.                  *)
ResultState == IF ctx.finished THEN "Finished" ELSE "Ready"
NextStart   == IF ctx.yielded THEN (ctx.task_id + 1) % MAX_TASKS ELSE ctx.task_id

Commit(slot) ==
  /\ phase = "commit"
  /\ tasks' = [tasks EXCEPT ![slot].state = ResultState]
  /\ current' = NextStart
  /\ ctx'   = NoCtx
  /\ phase' = "halt"
  /\ reply' = "none"
  /\ UNCHANGED tick

(* Mutation: the commit goes to the search start, not to the task that ran. *)
FinishTaskAtCursor == Commit(current)

FinishTask == Commit(ctx.task_id)

(* Any interrupt ends a hlt of run(); the hlt_loop of a panic goes on.      *)
WakeFromHalt == phase' = IF phase = "halt" THEN "pick" ELSE phase

TimerTick ==
  /\ phase # "off"
  /\ tick' = IF tick = TICK_CAP THEN tick ELSE tick + 1
  /\ WakeFromHalt
  /\ UNCHANGED <<tasks, current, ctx, reply>>

(* The keyboard and serial interrupts: here they only wake the CPU.         *)
InputInterrupt ==
  /\ phase = "halt"
  /\ WakeFromHalt
  /\ UNCHANGED <<tasks, current, ctx, tick, reply>>

(* The machine is gone: nothing more happens.                               *)
PoweredOff == phase = "off" /\ UNCHANGED vars

-----------------------------------------------------------------------------
TaskBody ==
  \/ IdleOrWorkerTask
  \/ LoggerTask
  \/ ShellNoLine
  \/ ShellPopLine
  \/ SpawnTask
  \/ \E id \in Pids : KillTask(id)
  \/ OtherCommand
  \/ PanicCommand
  \/ PowerCommand

Run  == PrepareNext \/ TaskBody \/ FinishTask
Next == Run \/ TimerTick \/ InputInterrupt \/ PoweredOff

Spec == Init /\ [][Next]_vars

(* The CPU executes run() while it is not halted, and the timer, which the  *)
(* handler acknowledges on every tick, keeps interrupting.                  *)
Fairness == WF_vars(Run) /\ WF_vars(TimerTick)
FairSpec == Spec /\ Fairness

-----------------------------------------------------------------------------
TypeOK ==
  /\ tasks \in [Slots -> Task \cup {EmptySlot}]
  /\ current \in Slots
  /\ ctx \in Context
  /\ phase \in Phases
  /\ tick \in 0 .. TICK_CAP
  /\ reply \in {"none", "spawned", "spawnFailed", "killed", "killFailed"}

(* A slot is Running only while run() is inside that very slot's task: the  *)
(* commit of phase 3 never leaves a slot Running that nothing will resume.  *)
RunningIsInFlight ==
  \A i \in Slots : tasks[i].state = "Running" => InFlight /\ i = ctx.task_id

(* The slot run() will commit to in phase 3 still holds the task it          *)
(* dispatched in phase 1, although the lock was released in between: no      *)
(* spawn has reused it, even after the running task killed itself.           *)
InFlightSlotKept ==
  InFlight => /\ tasks[ctx.task_id].func = ctx.func
              /\ tasks[ctx.task_id].state \in {"Running", "Finished"}

(* Whatever is killed, the shell can be dispatched again: prepare_next never *)
(* returns None.                                                             *)
ShellNeverLost ==
  /\ tasks[ShellSlot].func = "shell"
  /\ phase \in {"pick", "halt"} => Ready(ShellSlot)

(* A task is replaced only when its slot was free or the task is dead: spawn *)
(* never takes a slot whose task is Ready or on the CPU.                     *)
OnlyDeadSlotsReused ==
  [][\A i \in Slots : tasks'[i].func # tasks[i].func =>
       /\ tasks[i].state \in {"Empty", "Finished"}
       /\ ~ (InFlight /\ i = ctx.task_id)]_vars

(* A task that is dead and off the CPU stays dead until spawn puts a fresh   *)
(* worker in its slot: no late commit brings it back.                        *)
DeadStayDead ==
  [][\A i \in Slots :
       /\ tasks[i].state = "Finished"
       /\ ~ (InFlight /\ i = ctx.task_id)
       /\ tasks'[i].state # "Finished"
       => tasks'[i] = NewTask("worker") /\ reply' = "spawned"]_vars

(* No starvation: a Ready task gets the CPU unless it is killed first or     *)
(* the system stops.                                                         *)
ReadyTasksRun ==
  \A i \in Slots : Ready(i) ~> (tasks[i].state \in {"Running", "Finished"} \/ Stopped)

(* worker-b retires: once uptime passes LOGGER_TICKS its slot no longer      *)
(* holds a live logger, for ever.                                            *)
LoggerRetires ==
  <>[](Stopped \/ ~ \E i \in Slots : /\ tasks[i].func = "logger"
                                     /\ tasks[i].state # "Finished")

(* What the shell's help says of kill ("terminates running task by PID"):    *)
(* a task reported killed is Finished until its slot is spawned into.        *)
KillTerminates ==
  [][\A i \in Slots : tasks[i].state = "Finished" /\ tasks'[i].state # "Finished"
       => reply' = "spawned"]_vars

-----------------------------------------------------------------------------
(* The abstract pool: the slot of the task in flight is on the CPU until     *)
(* phase 3, whatever the table says; killing it has no abstract effect.      *)
PoolView ==
  [i \in Slots |-> [func  |-> tasks[i].func,
                    state |-> IF InFlight /\ i = ctx.task_id THEN "Running"
                                                             ELSE tasks[i].state]]

Pool == INSTANCE TaskPool
          WITH Slots <- Slots, Funcs <- TaskFuncs, Worker <- "worker", pool <- PoolView

(* The scheduler implements the pool: every dispatch, return, kill and spawn *)
(* of the code is a legal move of TaskPool, and every other step leaves the  *)
(* pool as it is.                                                            *)
ImplementsPool == Pool!Spec
=============================================================================
