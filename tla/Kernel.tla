------------------------------- MODULE Kernel -------------------------------
(***************************************************************************)
(* The whole console path on one CPU: the devices, handlers and shell of   *)
(* Console under the scheduler of Scheduler. The shell moves only while    *)
(* run() is inside its task function, one line per dispatch; handlers run  *)
(* on top of whatever the CPU is doing and end a hlt; the timer keeps the  *)
(* round robin going.                                                      *)
(*                                                                         *)
(* The change a command makes to the task table is joined with the print   *)
(* that ends its run_once: nothing but the shell task itself looks at the  *)
(* table in between.                                                       *)
(***************************************************************************)
EXTENDS Naturals, Sequences, SequencesExt

CONSTANTS MAX_TASKS, LOGGER_TICKS, TICK_CAP,
          MAX_LINE_LEN, MAX_QUEUE_DEPTH, MAX_HISTORY, TYPED_MAX

VARIABLES tasks, current, ctx, phase, tick, reply,
          typed, rx, lastKey, irq, line, ready, history, pc, port, reg, stuck,
          serialOut, vgaOut, handled, executed

S == INSTANCE Scheduler
C == INSTANCE Console

schedulerVars == <<tasks, current, ctx, phase, tick, reply>>
consoleVars   == <<typed, rx, lastKey, irq, line, ready, history, pc, port, reg, stuck,
                   serialOut, vgaOut, handled, executed>>
vars == <<schedulerVars, consoleVars>>

Init == S!Init /\ C!Init

-----------------------------------------------------------------------------
(* The devices, and the interrupts the CPU takes.                           *)

(* The machine is on, and nothing is stuck for ever with interrupts off.     *)
Working == phase # "off" /\ C!Alive

Device ==
  /\ Working
  /\ \/ \E d \in C!Devices, k \in C!Kinds : C!Type(d, k)
     \/ C!UartInterrupt
  /\ UNCHANGED schedulerVars

(* A handler runs in every state the CPU can be in, the hlt_loop of a panic  *)
(* included; the hlt of run() ends with it. One that never returns leaves     *)
(* what it interrupted where it is.                                          *)
OnTop == S!InputInterrupt \/ (phase # "halt" /\ UNCHANGED schedulerVars)

Keyboard == /\ Working
            /\ \/ C!KeyboardHandler /\ OnTop
               \/ C!KeyboardHandlerDies /\ UNCHANGED schedulerVars
Serial   == /\ Working
            /\ \/ C!SerialHandler /\ OnTop
               \/ C!SerialHandlerDies /\ UNCHANGED schedulerVars
Timer    == Working /\ S!TimerTick /\ UNCHANGED consoleVars

-----------------------------------------------------------------------------
(* Task code.                                                               *)

OtherTasks ==
  /\ S!PrepareNext \/ S!IdleOrWorkerTask \/ S!LoggerTask \/ S!FinishTask
  /\ UNCHANGED consoleVars

ShellCalled == phase = "call" /\ ctx.func = "shell"

ShellPolls ==
  /\ ShellCalled
  /\ C!RunOnce \/ C!PollStatus \/ C!PollRead \/ C!PollHandle \/ C!PollDies
     \/ C!PollEcho
  /\ UNCHANGED schedulerVars

(* pop_line decides how the dispatch goes on.                                *)
ShellPops ==
  /\ ShellCalled
  /\ C!PopLine
  /\ IF ready = <<>> THEN S!ShellNoLine ELSE S!ShellPopLine

ShellPrints ==
  /\ phase = "command"
  /\ C!CommandOutput \/ (pc = "promptSerial" /\ C!PrintPrompt)
  /\ UNCHANGED schedulerVars

(* The last half of the prompt, then the task returns; a blank line runs no  *)
(* command.                                                                  *)
ShellReturns ==
  /\ pc = "promptVga"
  /\ C!PrintPrompt
  /\ \/ S!OtherCommand
     \/ Last(executed) # <<>> /\ (S!SpawnTask \/ \E id \in S!Pids : S!KillTask(id))

ShellPanics == S!PanicCommand /\ UNCHANGED consoleVars

(* reboot and shutdown print their message before they write the port.       *)
ShellPowersOff ==
  /\ pc = "outVga"
  /\ C!CommandOutput
  /\ S!PowerCommand

Cpu == /\ Working
       /\ \/ OtherTasks
          \/ ShellPolls
          \/ ShellPops
          \/ ShellPrints
          \/ ShellReturns
          \/ ShellPanics
          \/ ShellPowersOff

(* Nothing more happens.                                                     *)
Over == ~ Working /\ UNCHANGED vars

Next == Device \/ Keyboard \/ Serial \/ Timer \/ Cpu \/ Over

(* While the machine works, the CPU executes task code between interrupts, a *)
(* latched interrupt is taken - its handler may never return -, the timer    *)
(* keeps ticking, and the UART raises its line while its FIFO holds a byte.  *)
(* Nothing is assumed of the scheduler.                                      *)
Fairness == /\ WF_vars(Cpu)
            /\ WF_vars(Keyboard)
            /\ WF_vars(Serial)
            /\ WF_vars(Timer)
            /\ WF_vars(Working /\ C!UartInterrupt /\ UNCHANGED schedulerVars)

Spec == Init /\ [][Next]_vars /\ Fairness

-----------------------------------------------------------------------------
Polling   == {"status", "read", "handle", "echoSerial", "echoVga", "pop"}
Answering == {"outSerial", "outVga", "promptSerial", "promptVga"}

(* Shell code is only ever under way while run() is inside the shell's task:  *)
(* it polls before pop_line gave it a line and answers after that, and when   *)
(* another task is dispatched, or run() commits or sleeps, the shell has       *)
(* returned.  A line is left half answered only by a panic or a power-off.    *)
ShellInItsTask ==
  /\ pc # "idle" => /\ ctx.func = "shell"
                    /\ \/ phase = "call" /\ pc \in Polling
                       \/ phase \in {"command", "panicked", "off"} /\ pc \in Answering
  /\ phase = "command" => pc \in Answering

WasHandled(d, i) == \E j \in DOMAIN handled : handled[j].dev = d /\ handled[j].n = i

(* Every stroke with a meaning is handled in the end, by the polling shell    *)
(* or by the handler, even when a command has panicked. What loses it is a    *)
(* power-off, or that code with interrupts off never returned: a handler that *)
(* found the heap locked, an allocation that failed in push_char or in        *)
(* commit_line.                                                               *)
StrokesHandled ==
  \A d \in C!Devices, i \in 1 .. TYPED_MAX :
    i \in C!Meaningful(d) ~> (WasHandled(d, i) \/ ~ Working)

(* A committed line is not stuck behind the other tasks: while lines wait,    *)
(* one more is run, unless the system stops: a panic, a power-off, or code    *)
(* with interrupts off that never returned.                                   *)
LinesRun ==
  \A n \in 0 .. TYPED_MAX :
    (ready # <<>> /\ Len(executed) = n) ~> (Len(executed) > n \/ S!Stopped \/ ~ Working)

Prompts == SelectSeq(vgaOut, LAMBDA p : p.what[1] = "prompt")

(* Every line that is run is answered with a prompt on the screen, unless its *)
(* command stops the system or a handler on top of it never returns.          *)
PromptReturns ==
  \A n \in 1 .. TYPED_MAX :
    (Len(executed) = n) ~> (Len(Prompts) >= n \/ S!Stopped \/ ~ Working)
=============================================================================
