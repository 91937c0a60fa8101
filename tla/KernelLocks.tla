----------------------------- MODULE KernelLocks -----------------------------
(***************************************************************************)
(* The kernel's spin locks on its one CPU, from kernel_main on. The boot   *)
(* runs with interrupts disabled until kernel_main enables them; task code *)
(* runs with interrupts enabled except inside without_interrupts; the      *)
(* three hardware handlers run with interrupts disabled on top of the task *)
(* they interrupted. A spin lock that is held by the interrupted task can  *)
(* never be taken by the handler, nor by the task itself a second time:    *)
(* either way the CPU spins for ever.                                      *)
(*                                                                         *)
(* What code does with locks and with the interrupt flag is a sequence of  *)
(* instructions, and a piece of program text is the set of the sequences   *)
(* it can turn into: its choices and the rounds of its loops are open.     *)
(* Everything else it does is left out. Between two of its sections below, *)
(* task code holds no lock.                                                *)
(***************************************************************************)
EXTENDS Naturals, Sequences, SequencesExt

CONSTANT ROUNDS    (* the most rounds a loop makes *)

ASSUME RoundsAssumption == ROUNDS \in Nat

VARIABLES
  stack,    (* what the CPU is in: the task, and above it a handler         *)
  owner,    (* lock -> the context that holds it                            *)
  ifFlag    (* RFLAGS.IF                                                    *)

lockVars == <<stack, owner, ifFlag>>

HandlerLocks == {"INPUT", "ALLOCATOR", "SERIAL1", "WRITER", "PICS"}
TaskLocks    == {"SCHEDULER", "FS", "CURRENT_DIR", "PROMPT", "DRIVERS",
                 "NET_STACK", "VM_MANAGER"}
Locks    == HandlerLocks \cup TaskLocks
Handlers == {"timer", "keyboard", "serial"}
Contexts == {"boot", "task"} \cup Handlers

-----------------------------------------------------------------------------
(* Instructions and the code built from them.                               *)

Ins(op, lock) == [op |-> op, lock |-> lock]
Instructions  == {Ins(op, l) : op \in {"take", "free"}, l \in Locks}
                 \cup {Ins(op, "none") : op \in {"cli", "restore", "sti", "check", "panic"}}

(* One instruction, one piece of text after another, an optional one and a  *)
(* loop around one.                                                         *)
Do(op, lock) == {<<Ins(op, lock)>>}
A ++ B       == {a \o b : a \in A, b \in B}
Nothing      == {<<>>}
Maybe(body)  == Nothing \cup body
Loop(body)   == {FlattenSeq(rounds) : rounds \in BoundedSeq(body, ROUNDS)}

(* { let guard = LOCK.lock(); body }                                        *)
Locked(lock, body) == Do("take", lock) ++ body ++ Do("free", lock)

(* Mutations: the section is left interruptible, or the flag is not restored. *)
InterruptsLeftOn(body)  == body
InterruptsLeftOff(body) == Do("cli", "none") ++ body
WithoutInterrupts(body) == InterruptsLeftOff(body) ++ Do("restore", "none")

(* An assertion, an expect or an allocation that may fail and then panics.   *)
Check   == Do("check", "none")

(* A deallocation, and an allocation, which may run out of memory after it   *)
(* gave the heap lock back; and work on growing strings and vectors.         *)
Dealloc == Locked("ALLOCATOR", Nothing)
Alloc   == Dealloc ++ Check
Heap    == Loop(Alloc \cup Dealloc)

(* The same for a lazy_static, whose value the first use builds on the heap. *)
LazyLocked(lock, body) == Heap ++ Locked(lock, body)

(* serial_print! and print!.                                                *)
SerialPrint == WithoutInterrupts(Locked("SERIAL1", Nothing))
(* Mutation: the text is formatted into a String under the WRITER lock.     *)
VgaPrintFormatted == WithoutInterrupts(Locked("WRITER", Alloc))
VgaPrint    == WithoutInterrupts(Locked("WRITER", Nothing))
Both        == SerialPrint ++ VgaPrint

(* push_char, commit_line (which grow the queues), backspace and pop_line.   *)
PushChar   == WithoutInterrupts(Locked("INPUT", Maybe(Alloc)))
CommitLine == WithoutInterrupts(Locked("INPUT", Heap))
InputOnly  == WithoutInterrupts(Locked("INPUT", Nothing))

(* handle_key_event and handle_input_event.                                 *)
KeyEvent == (PushChar ++ Both) \cup (CommitLine ++ Both) \cup (InputOnly ++ Maybe(Both))

EndOfInterrupt == Locked("PICS", Nothing)

(* The three hardware handlers: a key, and a burst of serial bytes.         *)
HandlerCode(h) ==
  CASE h = "timer"    -> EndOfInterrupt
    [] h = "keyboard" -> Maybe(KeyEvent) ++ EndOfInterrupt
    [] h = "serial"   -> Loop(KeyEvent) ++ EndOfInterrupt

(* panic_handler, before its hlt_loop.                                      *)
PanicHandler == Both

-----------------------------------------------------------------------------
(* The sections of task code: scheduler::run, shell::run_once and the shell  *)
(* commands.                                                                 *)

Message  == Alloc ++ Both ++ Dealloc
Resolve  == Maybe(LazyLocked("CURRENT_DIR", Alloc)) ++ Heap
Pwd      == LazyLocked("CURRENT_DIR", Alloc) ++ Both ++ Dealloc

ChangeDirectory ==
  Resolve ++ LazyLocked("FS", Heap ++ Maybe(LazyLocked("CURRENT_DIR", Dealloc))) ++ (Pwd \cup Both)
ListDirectory   == Resolve ++ LazyLocked("FS", Heap ++ Both ++ Loop(Both) ++ Dealloc)
PrintTree       == LazyLocked("FS", Both ++ Heap ++ Loop(Both) ++ Dealloc)
FileCommand     == Resolve ++ LazyLocked("FS", Heap) ++ Both

PrintPrompt == LazyLocked("PROMPT", Pwd)
(* Mutation: the new prompt is shown before the PROMPT guard is dropped.    *)
SetPromptThenShow == LazyLocked("PROMPT", Heap ++ Message ++ PrintPrompt)
SetPrompt   == LazyLocked("PROMPT", Heap ++ Message)

SchedulerStep == Locked("SCHEDULER", Nothing)
SpawnOrKill   == SchedulerStep ++ (Message \cup Both)
ListTasks     == Both ++ Locked("SCHEDULER", Loop(Both))
MemInfo       == Dealloc ++ Message    (* heap_stats locks as a dealloc does *)
SetColors     == VgaPrint ++ SerialPrint
ShowDrivers   == LazyLocked("DRIVERS", Heap ++ Both ++ Loop(Message))
ShowNetwork   == LazyLocked("NET_STACK", Loop(Message))
ShowSpaces    == LazyLocked("VM_MANAGER", Both ++ Loop(Message))
PanicCommand  == Do("panic", "none")

(* kernel_main up to scheduler::run: the framebuffer, the interrupt tables,  *)
(* the int3 self-test, whose handler prints, the heap and its smoke test,    *)
(* then the scheduler's and the shell's greetings.                           *)
InitFramebuffer == WithoutInterrupts(Locked("WRITER", Check))
InitPics        == Locked("PICS", Nothing)
Breakpoint      == Both
InitHeap        == Check ++ Dealloc
InitScheduler   == Locked("SCHEDULER", Both)

BootCode ==
  InitFramebuffer ++ SerialPrint ++ InitPics ++ SerialPrint ++ Breakpoint ++ SerialPrint
  ++ InitHeap ++ SerialPrint ++ Loop(Alloc ++ SerialPrint)
  ++ InitScheduler ++ SerialPrint ++ Both ++ PrintPrompt
  ++ Do("sti", "none") ++ Both

Sections ==
  UNION {KeyEvent, InputOnly, Dealloc, Both, Message, Pwd, ChangeDirectory, ListDirectory,
         PrintTree, FileCommand, PrintPrompt, SetPrompt, SchedulerStep, SpawnOrKill,
         ListTasks, MemInfo, SetColors, ShowDrivers, ShowNetwork, ShowSpaces, PanicCommand}

-----------------------------------------------------------------------------
Frame(who, code) == [who |-> who, code |-> code, wasEnabled |-> FALSE, panicking |-> FALSE]

(* The firmware disabled interrupts when it left; _start calls kernel_main.  *)
LocksInit ==
  /\ \E code \in BootCode : stack = <<Frame("boot", code)>>
  /\ owner  = [l \in Locks |-> "free"]
  /\ ifFlag = FALSE

Top      == Last(stack)
Become(frame) == stack' = Append(Front(stack), frame)
Rest     == [Top EXCEPT !.code = Tail(@)]
NextIs(op) == Top.code # <<>> /\ Head(Top.code).op = op
NextLock == Head(Top.code).lock

(* The task goes on with its next section.                                  *)
RunSection ==
  /\ Top.who = "task" /\ Top.code = <<>> /\ ~ Top.panicking
  /\ \E code \in Sections : Become([Top EXCEPT !.code = code])
  /\ UNCHANGED <<owner, ifFlag>>

(* While the lock is held the CPU spins, which changes nothing.             *)
Take ==
  /\ NextIs("take")
  /\ owner[NextLock] = "free"
  /\ owner' = [owner EXCEPT ![NextLock] = Top.who]
  /\ Become(Rest)
  /\ UNCHANGED ifFlag

Free ==
  /\ NextIs("free")
  /\ owner' = [owner EXCEPT ![NextLock] = "free"]
  /\ Become(Rest)
  /\ UNCHANGED ifFlag

(* without_interrupts remembers the flag and restores it only if it was set. *)
DisableInterrupts ==
  /\ NextIs("cli")
  /\ ifFlag' = FALSE
  /\ Become([Rest EXCEPT !.wasEnabled = ifFlag])
  /\ UNCHANGED owner

RestoreInterrupts ==
  /\ NextIs("restore")
  /\ ifFlag' = (ifFlag \/ Top.wasEnabled)
  /\ Become(Rest)
  /\ UNCHANGED owner

(* cpu_irq::enable: from here on the boot can be interrupted like a task.    *)
EnableInterrupts ==
  /\ NextIs("sti")
  /\ ifFlag' = TRUE
  /\ Become([Rest EXCEPT !.who = "task"])
  /\ UNCHANGED owner

CheckPasses ==
  /\ NextIs("check")
  /\ Become(Rest)
  /\ UNCHANGED <<owner, ifFlag>>

(* A panic, of a check or of the panic command: the frame keeps its locks,     *)
(* runs panic_handler and never returns.                                     *)
Panic ==
  /\ NextIs("check") \/ NextIs("panic")
  /\ \E code \in PanicHandler : Become([Top EXCEPT !.code = code, !.panicking = TRUE])
  /\ UNCHANGED <<owner, ifFlag>>

(* Mutation: the gate leaves interrupts enabled.                            *)
TrapGate(h) ==
  /\ ifFlag
  /\ \E code \in HandlerCode(h) : stack' = Append(stack, Frame(h, code))
  /\ UNCHANGED <<owner, ifFlag>>

(* A hardware interrupt arrives; the IDT's interrupt gates clear the flag.   *)
Interrupt(h) ==
  /\ ifFlag
  /\ \E code \in HandlerCode(h) : stack' = Append(stack, Frame(h, code))
  /\ ifFlag' = FALSE
  /\ UNCHANGED owner

(* iretq: the flag was set when the interrupt was taken.                    *)
ReturnFromInterrupt ==
  /\ Top.who \in Handlers /\ Top.code = <<>> /\ ~ Top.panicking
  /\ stack' = Front(stack)
  /\ ifFlag' = TRUE
  /\ UNCHANGED owner

Step == \/ RunSection
        \/ Take
        \/ Free
        \/ DisableInterrupts
        \/ RestoreInterrupts
        \/ EnableInterrupts
        \/ CheckPasses
        \/ Panic
        \/ ReturnFromInterrupt

LocksNext == Step \/ \E h \in Handlers : Interrupt(h)

LocksSpec == LocksInit /\ [][LocksNext]_lockVars

(* The CPU executes the next instruction unless it spins or is halted.      *)
FairSpec == LocksSpec /\ WF_lockVars(Step)

-----------------------------------------------------------------------------
(* At most one handler runs above the task, with interrupts disabled.       *)
TypeOK ==
  /\ Len(stack) \in 1 .. 2
  /\ stack[1].who \in {"boot", "task"}
  /\ stack[1].who = "boot" => ~ ifFlag
  /\ Len(stack) = 2 => stack[2].who \in Handlers /\ ~ ifFlag
  /\ \A i \in DOMAIN stack : /\ stack[i].code \in Seq(Instructions)
                             /\ {stack[i].wasEnabled, stack[i].panicking} \subseteq BOOLEAN
  /\ owner \in [Locks -> Contexts \cup {"free"}]
  /\ ifFlag \in BOOLEAN

(* Whenever an interrupt can be taken, every lock a handler may need is free *)
(* but the heap's: each of the others is only ever taken inside              *)
(* without_interrupts or in a handler.                                       *)
HandlerLocksFree == ifFlag => \A l \in HandlerLocks \ {"ALLOCATOR"} : owner[l] = "free"

Spinning == NextIs("take") /\ owner[NextLock] # "free"

(* Writer::init asserts what the firmware says of the framebuffer under the  *)
(* WRITER lock; the panic of a failed assertion wants that lock again.       *)
FramebufferRefused == owner["WRITER"] = "boot" /\ stack[1].panicking

(* The only ways this kernel spins for ever: a keyboard or serial handler    *)
(* that allocates on top of a task caught inside the allocator, and the      *)
(* panic over a refused framebuffer, after its message went to the serial    *)
(* port.  The timer handler never spins, and no task ever waits for a lock   *)
(* it holds itself.                                                          *)
OnlyKnownDeadlocks ==
  Spinning => \/ /\ Top.who \in {"keyboard", "serial"}
                 /\ NextLock = "ALLOCATOR"
                 /\ owner["ALLOCATOR"] = "task"
              \/ NextLock = "WRITER" /\ FramebufferRefused

(* panic_handler always gets its message out: wherever the panic struck, the *)
(* two console locks are free when it wants them, but for the screen's when  *)
(* the framebuffer was refused.                                              *)
PanicNeverBlocked ==
  \A i \in DOMAIN stack :
    LET f == stack[i]
        lock == f.code[1].lock
    IN  f.panicking /\ f.code # <<>> /\ f.code[1].op = "take"
          => owner[lock] = "free" \/ (lock = "WRITER" /\ FramebufferRefused)

(* Interrupts that were disabled are enabled again, unless the code that     *)
(* disabled them panicked or the CPU spins for ever.                         *)
InterruptsComeBack == ~ ifFlag ~> (ifFlag \/ Spinning \/ Top.panicking)

(* "Handles hardware interrupts for timer and keyboard" (README.md): every    *)
(* handler that does not panic returns.                                      *)
HandlersReturn ==
  Len(stack) = 2 ~> (Len(stack) = 1 \/ Top.panicking)
=============================================================================
