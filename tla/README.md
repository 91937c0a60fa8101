# A formal model of open_kernel

`open_kernel` is a bare-metal Rust kernel for x86_64: a UEFI bootloader, one CPU, a
cooperative scheduler with four boot tasks, three interrupt handlers and an interactive
shell over an in-memory file system. This directory holds TLA+ modules for the parts of
it that carry logic, TLC configurations that check them on small instances, and TLAPS
proofs that what they check holds of every instance.

`PROJECT.json` maps every definition to the lines of Rust it stands for, and lists the
runs, the mutations each property is tried against, the hazards, the findings and the
theorems.

## 1. The system

Everything runs on one CPU in ring 0. There are two kinds of context:

- **task code**: `scheduler::run` and whatever task function it calls. It runs with
  interrupts enabled except inside `without_interrupts`, and no task is ever preempted
  by another task;
- **the hardware handlers** (timer, keyboard, COM1): they run on top of task code, with
  interrupts disabled (the IDT has interrupt gates only) and so without being interrupted.
  Those of the keyboard and COM1 allocate, and one that does may never return.

So concurrency means: a handler between any two instructions of task code; a device
that changes between any two port accesses; and one task's code changing tables that
`scheduler::run` will use again after the task returns. The kernel is built with
overflow checks, and a panic prints and halts for ever.

| component | state | operations | interacts with |
|---|---|---|---|
| scheduler (`scheduler.rs`) | task table, cursor `current`, per-dispatch `TaskContext`, `BOOT_TICK_COUNT` | `run` (three phases), `spawn_task`, `kill_task`, `on_timer_tick`, the four task functions | the shell calls back into it while it is dispatched; the timer wakes it |
| input buffer (`input.rs`) | edited line, committed lines (8), history (16), modifiers | `push_char`, `backspace`, `commit_line`, `pop_line` | filled by the handlers and by the shell's polling |
| interrupt handlers (`interrupts.rs`, `pic.rs`) | IDT, PIC | `timer_handler`, `keyboard_handler`, `serial_handler`, exceptions | input buffer, both consoles, allocator |
| shell (`shell.rs`) | prompt | `run_once`, `poll_serial_input`, `handle_command` | everything |
| locks and panic (`main.rs`) | twelve spin locks, RFLAGS.IF | `serial_print!`, `panic`, `alloc_error` | all code |
| file system (`vfs.rs`) | tree of owned nodes, current directory string | `cd`, `ls`, `tree`, `cat`, `touch`/`write`, `mkdir`, `rm` | the shell only |
| boot memory (`bootloader`, `bootloader_api`, `memory.rs`, `allocator.rs`) | firmware map, `BootInfo` regions, frame cursor, heap mappings | load the kernel, copy the map, `allocate_frame`, `init_heap` | firmware, kernel |
| framebuffer console (`vga_buffer.rs`) | pixel memory, cursor, colours | `write_byte`, `new_line`, `scroll`, `backspace`, `clear_screen` | both contexts print |
| RTC (`rtc.rs`) | CMOS registers | `read_rtc` | `date`, `time`, `guess` |
| drivers, network, process memory, GDT, font | constants and counters that are only printed | | |

**What is hard.** Polling and interrupts share two devices and one buffer without a
protocol. A task may kill itself, or be killed and its slot refilled, while `run` still
holds its index. Handlers allocate from the heap the task may be inside of. The current
directory is a string that `rm` can leave dangling. The frame allocator is indexed by a
counter over a map whose order is the firmware's. The clock advances while its registers
are read one by one. A character is drawn pixel line by pixel line into memory that is
moved as a whole, and its echo comes later than the edit it shows. `PROJECT.json` lists
each hazard at the line where it bites.

**What correct means**, per component:

- scheduler: the commit of phase 3 goes to the task phase 1 dispatched; a live slot is
  never reused; the dead stay dead; every Ready task runs after a bounded number of
  dispatches; there is always a shell;
- input path: no keystroke is lost or handled twice, bytes keep their order, both
  consoles show everything, every committed line is run;
- locks: no spin on a lock that the spinning CPU itself holds, interrupts come back, a
  panic always shows its message;
- file system: the vectors of nodes behave as a map from paths to files and directories;
- boot memory: the kernel's segments are in memory when it starts, no frame is handed out
  twice, none that is in use is handed out at all, and the boot fails for want of memory
  only when there is too little;
- framebuffer: pixels behave as a page of text, and what stands before the cursor is the
  line that Enter would commit;
- clock and `calc`: six registers that belong together, converted exactly; no wrong number
  is ever shown.

## 2. Modules

| module | models | lines of code it stands for |
|---|---|---|
| `Scheduler` | the task table and `scheduler::run`, the boot tasks, `spawn`, `kill`, `panic`, `reboot`, the timer | `scheduler.rs`, parts of `shell.rs`, `interrupts.rs` |
| `TaskPool` | what the scheduler promises: the abstract specification | - |
| `RoundRobin` | `Scheduler` plus a history of how long each Ready task was passed over | - |
| `Console` | devices, handlers, the polling shell, the input buffer, the order of what is printed | `input.rs`, `interrupts.rs`, `shell.rs`, `main.rs`, `vga_buffer.rs` |
| `Kernel` | `Console` and `Scheduler` composed on one CPU | - |
| `KernelLocks` | the boot sequence, every spin lock, `without_interrupts`, allocation and panic of task and handler code | `main.rs`, `interrupts.rs`, `shell.rs`, `vfs.rs`, `vga_buffer.rs`, `driver.rs`, `net.rs`, `process_memory.rs` |
| `Vfs` | the file system and its commands | `vfs.rs`, `shell.rs` |
| `FileTree` | what the file system promises: a map from paths to entries | - |
| `Writer` | the framebuffer: glyphs, wrap, scroll, backspace, clear | `vga_buffer.rs` |
| `TextScreen` | what the framebuffer promises: a page of text | - |
| `LineEditor` | the edited line and its image on the display | `input.rs`, `interrupts.rs`, `shell.rs` |
| `Rtc` | `read_rtc` against the updating clock, BCD and 12-hour conversions | `rtc.rs` |
| `Calc` | the arithmetic of `calc` | `shell.rs` |
| `Commands` | the commands that read the clock, and `calc` | `shell.rs` |
| `BootMemory` | reading and loading the kernel's segments, the memory map, the frame allocator, `init_heap` | bootloader, `bootloader_api`, `memory.rs`, `allocator.rs` |

`MCScheduler`, `MCRoundRobin`, `MCConsole`, `MCKernel`, `MCKernelLocks`, `MCVfs`,
`MCLineEditor`, `MCCommands` and `MCBootMemory` are the modules TLC is run on.
`SchedulerProofs`, `KernelProofs`, `ConsoleProofs`, `VfsProofs`, `LineEditorProofs`,
`BootMemoryProofs` and `CommandsProofs` hold the theorems and their proofs, and
`Induction` the lemmas about numbers, sequences and folds that they share. Definitions
whose comment begins with "Mutation" are not part of the model: each is what a definition
would be with a plausible bug, and shows that some property notices it.

### Scheduler

`phase` says where `run` is: `pick` (phase 1: `next_runnable_from`, `prepare_next`),
`call` and `command` (phase 2: the task function without the lock), `commit` (phase 3:
`finish_task`), `halt` (`enable_and_hlt`). `run`'s locals `idx`, `func` and the
`TaskContext` live in `ctx`, so that the table may change underneath: `SpawnTask` and
`KillTask` are the shell's commands, issued while the shell itself is dispatched.
`TimerTick` may happen anywhere. `enable_and_hlt` (`sti; hlt`) is one step, as the
processor guarantees. The shell pops at most one line per dispatch; which command it is
is chosen by `\E`. `name` and `runs` are left out: they are only printed.

`TaskPool` is the abstract specification: a pool in which at most one task is on the
CPU, leaves it only by itself, is killed only off the CPU, and a dead slot is refilled
by a worker only. The refinement mapping `PoolView` shows the slot in flight as Running
whatever the table says of it: the kill of the running task has no abstract effect, since
phase 3 overwrites it.

### Console

A stroke is a scancode or serial byte with a meaning (a character, backspace, Enter, or
nothing), named by device and position. A keyboard read with nothing unread answers the
last scancode again, as the controller does; the keyboard's interrupt stays latched in
the PIC when polling takes the byte first. The shell's loop is one action per port access
or critical section: `PollStatus`, `PollRead`, `PollHandle`, `PollEcho` (serial and
framebuffer separately), `PopLine`, `CommandOutput`, `PrintPrompt`.
`Type`, `UartInterrupt` and `DataPort` are the external devices.

A handler is one action when it returns (`KeyboardHandler`, `SerialHandler`) and another
when it never does (`KeyboardHandlerDies`, `SerialHandlerDies`). `push_char` and
`commit_line` allocate inside `without_interrupts`: when the heap is exhausted they panic
there, and a panic halts with interrupts still off; and a handler that came while the task
below it was in the allocator spins on the heap's lock. `PollDies` is the shell's own
section when its allocation fails. `stuck` then holds the stroke whose handling never
returned, and nothing runs again (`Halted`). Whether the heap is exhausted or locked is
left open at every allocation (`MayAllocate`), which allows more deaths than the code.
`clear` is a command without an output here: it sends an escape to the serial port and
blanks the framebuffer. The output of a command is one print, whatever its number of lines.

### Kernel

`Kernel` instantiates `Scheduler` and `Console` and joins their steps. A step of the shell
in `Console` happens only while `run` is inside the shell's task function; `PopLine`
decides whether the dispatch goes on with a command; handlers run on top of whatever the
CPU does and end the `hlt` of `run`. `Working` says that the machine is on and that
nothing is stuck with interrupts off; when it is false no step is possible any more
(`Over`). What a command does to the task table is joined with the print that ends its
`run_once`: the table is read by nobody but the shell itself in between. `ShellInItsTask`
says how the two programs fit: where the shell is in `Console`, given where `run` is in
`Scheduler`. The composition is where liveness of the input path is stated, since it then
rests on the round robin and not on an assumption about it.

### KernelLocks

What code does with locks is a sequence of instructions: `take`/`free` a lock,
`cli`/`restore` of `without_interrupts`, `sti`, `check` (an allocation or a test that may
fail and panic) and `panic`. Everything else is left out. A piece of program text is the
set of the sequences it can turn into: `A ++ B` is one piece after the other, `Maybe(A)`
may be skipped, `Loop(A)` makes any number of rounds up to `ROUNDS`, each with its own
choices, so that a loop over files may print, allocate and free in any order. `Sections`
is what task code may do between two points where it holds nothing. A guard in a tail
expression or `match` head lives until the end of the statement, so the nesting is the
code's own: `cd` holds FS around CURRENT_DIR, the prompt holds PROMPT around CURRENT_DIR,
`ps` holds SCHEDULER around its prints. The first use of a `lazy_static` builds its value
on the heap before the lock is taken (`LazyLocked`); whether a use is the first is left
open. `BootCode` is `kernel_main` from its first print to `scheduler::run`: interrupts are
off until its `sti`, and a framebuffer that `Writer::init` refuses panics while the WRITER
lock is held. `LocksInit`, `LocksNext` and `LocksSpec` carry the module's name because
`KernelProofs` extends it together with `Kernel`.

### Vfs

`nodes` and `kids` are the boxes and the vectors; lookup is the code's first match along
the path. Paths are sequences of segments; `Resolve` is `resolve_path`, on the string and
without looking at the tree. Every command is one action: no handler touches the file
system. `request` and `answer` record the last command for the refinement. `FileTree`
says what every command promises of a map from paths to entries; `TreeView` is the
mapping. The content of a node is "dir" for a directory, so a file's content is anything
else; "empty" stands for no bytes.

### BootMemory

The firmware's memory is any assignment of uses to frames. `ReadKernel` finds out what the
ELF file asks for; `LoadKernel` makes the two passes of `efi_main` over the segments: it
claims the pages between the lowest and the highest address of the segments, rounded to
pages, clears them, and copies every segment, and `LoadFails` is its error path. `image`
is what memory then holds. The final map is the maximal runs of equal use, and
`CopyRegion` copies them into `BootInfo` in any order, dropping what does not fit.
Adjacent descriptors of one type, which a firmware may also list, are not generated. Bytes
that a malformed segment has in the file beyond the claimed pages are dropped, where the
code would write them: `WellLinked` excludes such a file. `MapPage` and `CreateTable` are
`init_heap`'s loop: `map_to` asks the same allocator for page tables, after the frame of
the page was taken.

### Writer, TextScreen, LineEditor

Memory is a function from pixel lines and text columns to slices, a slice being the part
of one glyph on one pixel line. Lines beyond `HEIGHT` are in the framebuffer and not on
the display, and hold what the firmware left; lines below the last whole text row are on
the display and hold no text. `Scroll` moves memory up by a text row, as far as the
framebuffer reaches, and clears the last lines of the display, as the code's two loops do.
`TextScreen` is the abstract page; the mapping reads a cell as a character when its slices
belong together and as `garbled` otherwise.

`LineEditor` adds the line being edited. A handler edits and echoes in one step; the
polling shell edits, and echoes in a later step. The history variable `faithful` says that
none of the four things which separate the line from its image has happened since the line
was last empty; `LineOnScreen` names them.

### Rtc, Calc, Commands

The clock raises its update flag 244 us before it advances. This is time for the seven
port accesses of a read that nothing interrupts (`LEAD`), and not for a handler: after
`CpuElsewhere` the clock may advance at any time. The six fields change in one step, the
carries included. `WaitForUpdate`, `ReadRegister` and `ReadRegisterB` are the port accesses
of `read_rtc` in their order; `RegisterByte` is what the device shows in each of its four
formats and `Converted` what the code makes of it. `UndisturbedReadIsExact` compares this
with the time itself, and makes one exception by name: where a 12-hour dial shows 12
(`TwelveOnTheDial`), the hour is not required to be right, since the code's is not
(section 5).

`CalcCommand` is `calc` on integers of `WIDTH` bits, in the debug build that `run.sh`
makes: overflow panics. `Half` is the magnitude of the least of them. `Commands` runs
both; since they share nothing, `calc` is tried only before the clock has moved.

## 3. Runs

| run | question | instance | states |
|---|---|---|---|
| `scheduler` | do commits go to the right task, are only dead slots reused, is the shell safe, is `TaskPool` implemented, is a Ready task bypassed at most MAX_TASKS - 1 times, does every one run, does worker-b retire? | 6 slots | 50 138 |
| `console` | is a stroke lost, is the buffer what was handled, are the consoles complete, also when something never returns? | 3 strokes, line, queue and history of 1 | 1 215 289 |
| `kernel` | with nothing assumed of the scheduler, is every stroke handled, every line run and every command answered with a prompt, for as long as nothing with interrupts off fails to return? | 4 slots, 2 strokes | 86 364 |
| `kernel_locks` | which spins are possible, does a panic print, do interrupts come back? | the whole kernel, boot included, loops of one round | 298 434 |
| `vfs` | do the vectors implement a tree of paths; what loses the current directory? | 2 names, 4 nodes, 3 levels, 2 typed segments | 11 805 |
| `boot_memory` | are the segments loaded whole; is a frame handed out twice or while in use; when does the boot fail? | 8 frames, 10 kernel files, 3 regions, 3 heap pages, 2 tables | 534 222 |
| `commands` | is an uninterrupted read of the clock exact in every format, but for the hour where a 12-hour dial shows 12; does `calc` ever show a wrong number? | every value of every field and the great carries, 2 updates; all pairs of 4-bit numbers | 831 980 |
| `line_editor` | do pixel lines implement a page of text; is the line on the screen the line in the buffer? | glyphs of 2 lines, 3 columns, a display of 5 lines in a framebuffer of 7, lines of 4 characters | 47 307 |
| `viol_*` | the findings of section 5 | | |

**Bounds.**

- *Scheduler*: 6 slots leave two for spawned workers behind the four boot tasks; safety
  and the refinement are proved for every size. `LOGGER_TICKS` is only compared with, so
  2 for 128 loses nothing; ticks saturate at `TICK_CAP`, one above it.
- *Console*: with one character of room, one waiting line and one remembered line, three
  strokes fill a line and overrun it, commit it, commit a blank line over it, and put a
  byte behind the one the polling loop holds. A history that overflows needs two
  nonblank lines and so four strokes: it is not reached (a fourth stroke is more than a
  run should take).
- *Kernel*: two strokes are a character and Enter, so that a command (kill, spawn, panic,
  power-off) runs, or two lines that wait for each other. The four boot tasks fill the
  table; a spawn succeeds after a kill or once worker-b has retired.
- *KernelLocks*: with `ROUNDS = 1` a loop is skipped or makes one round, and between two
  rounds a loop holds what it held before the first, so a second round meets the handlers
  in no new place. Each task runs one section
  after another for ever: every pair of a section's point and a handler's program occurs.
  The safety properties are proved for every `ROUNDS`.
- *Vfs*: 4 nodes allow a chain of depth 3, two siblings, and a file and a directory that
  compete for a name. `VIEW KernelState` leaves out `request` and `answer`, which no
  action reads: the next steps of two states that differ only there are the same, and
  TLC checks the action properties and the refinement on every step, including those to
  states it has seen.
- *BootMemory*: 8 frames hold up to 8 regions of which 3 fit into the map, more and
  fewer frames than `init_heap` needs, the kernel at any place, frame 0 usable or not. The
  ten files have segments that share a page, begin or end inside one, leave a gap or are
  empty.
- *Commands*: the start times take every field through all its values and through the
  carries into the next one, leap days and the end of the century included; two updates
  put one before and one after a read. 4 bits contain every sign, zero, both ends of the
  type and their products.
- *LineEditor*: a display of two text rows and one line left over, in a framebuffer one
  text row longer: a line of four characters wraps, output scrolls it, and what the
  firmware left is moved towards the display.

**Fairness.** `Scheduler`: weak fairness of `Run` (the CPU executes unless halted) and of
`TimerTick` (the PIT is periodic and its handler always acknowledges it). Nothing is
assumed of the user; that a handler may stop the machine is not part of this module but of
`Kernel`. `Kernel`: weak fairness of `Cpu` (task code executes between interrupts), of
`Keyboard` and `Serial` (a latched interrupt is taken once interrupts are on), of `Timer`,
and of the UART raising its line while its FIFO holds a byte. That an interrupt is taken
does not say that its handler returns: `Keyboard` and `Serial` include the handlers that
never do, and all five actions need `Working`. So `StrokesHandled`, `LinesRun` and
`PromptReturns` promise something only for as long as the machine works: a power-off, a
handler caught by the heap's lock, and an allocation that fails with interrupts off are
their exceptions, each of them a state the run reaches. `LinesRun`
and `PromptReturns` also except a command that panicked. `KernelLocks`: weak
fairness of `Step`, the CPU executing its next instruction; a spin is not a step, and no
interrupt is assumed.

**Deadlock** is checked everywhere except in `kernel_locks` and `viol_HandlersReturn`,
where the kernel really stops: in the `hlt_loop` of a panic with interrupts off, or in one
of the spins that `OnlyKnownDeadlocks` names.

## 4. What is proved

The theorems hold for every value of the constants that satisfies the assumptions named
below. Each one states a property that a run checks, except the three about `Kernel`.

**Scheduler** (`SchedulerProofs`), for every `MAX_TASKS >= 4`, `LOGGER_TICKS` and
`TICK_CAP > LOGGER_TICKS` (`TasksAssumption`, `TickAssumption`: four slots are what the
boot fills, and a cap above the limit keeps the comparison meaningful):

- `TypeCorrect`, `RunningSafe`, `SlotSafe`, `ShellSafe`: `TypeOK`, `RunningIsInFlight`,
  `InFlightSlotKept` and `ShellNeverLost` are invariants;
- `ReuseSafe`, `DeadSafe`: the action properties `OnlyDeadSlotsReused` and `DeadStayDead`;
- `Refinement`: `Scheduler` implements `TaskPool`;
- `BypassBounded`: `BoundedBypass` is an invariant of `RoundRobin`.

`ShellNeverLost` and `InFlightSlotKept` are not inductive. In phase 2 the lock is free and
a slot that was killed could be spawned into: the commit would then revive, or finish, a
task it never ran. What prevents it is that only the shell issues commands, that it issues
one per dispatch, and that while it does so the slot in flight is its own and still
Running. `IInv` says just that: `BodyRunning` (until the command was issued, the slot in
flight is Running), `CommandByShell`, `OneShell` (only slot 3 ever holds a shell: spawn
creates workers), `ShellReadyOffCpu` (a kill of the shell lasts only until its own
commit), `FinishedByLogger` and `ResultKnown`. For `BypassBounded` the inductive fact is
`WaitBound`: how often a Ready slot was passed over, plus its distance from the place where
the next search begins, is at most `MAX_TASKS`, and one less when the slot at that place is
Ready. Every dispatch that passes it over moves that place at least one slot nearer.

**Kernel** (`KernelProofs`), for all values of the constants and without an assumption on
them: `KernelIsScheduler` and `KernelIsConsole`. Every behaviour of the composed kernel is
one of `Scheduler` and one of `Console`, step by step, so the composition adds no
interleaving, and every safety theorem about either holds in it. `ShellOnlyInItsTask`
(`ShellInItsTask`, inductive as it stands) is about both: no task is dispatched, and no
result committed, while the shell is between two of its steps.

**Locks** (`KernelProofs`), for every `ROUNDS` (`RoundsAssumption`): `LocksTyped`
(`TypeOK`), `HandlersFindLocksFree` (`HandlerLocksFree`), `DeadlocksKnown`
(`OnlyKnownDeadlocks`) and `PanicsPrint` (`PanicNeverBlocked`). The argument is that of a
reviewer who reads the code one function at a time:

- a *place* is what a context may rely on: who it is, which locks it holds, whether it can
  be interrupted and whether it is panicking. `Places` has the discipline in it: who can be
  interrupted is the task, and holds none of INPUT, SERIAL1, WRITER and PICS;
- `May` says what each instruction requires of the place it is at: no lock is taken twice
  but in the panic over a refused framebuffer, those four only with interrupts off,
  handlers take no other lock than those and the heap's, the timer's not even that, and
  nothing that may panic stands where a console lock is held;
- `Leads(from, text, ends)` says that every sequence of a piece of text respects this from
  every state of `from` and ends in one of `ends`. It is proved once of each combinator
  (`ThenLeads`, `MaybeKeeps`, `LockedKeeps`, `WithoutInterruptsKeeps`, and `LoopKeeps` by
  induction over the rounds), and then of each operation and section of the code
  (`SectionsLead`, `HandlerCodeLeads`, `BootCodeLeads`, `PanicHandlerLeads`);
- `LockInv` says that the rest of the code of each context on the stack respects it from
  where that context is, where a context below a handler counts as one that can be
  interrupted. It is inductive: an instruction takes one step of that text, `Interrupt` and
  `RunSection` start a text in its first place, and the locks a handler takes are not those
  of the task below it.

The four properties follow from `LockInv` and from `May` of the next instruction. So that
the locks of the handlers are free whenever an interrupt can come is proved of paths of any
length, and it is `May` and not a list of states that says why.

**Console** (`ConsoleProofs`), for every number of strokes and all limits of the line, the
queue and the history (`LimitsAssumption`): `BuffersBounded` (`TypeOK`), `SerialBytesOnce`
(`SerialExactlyOnce`), `KeysSurvive` (`KeysNotLost`), `EditsCompose` (`BufferIsReplay`),
`OutputsComplete` (`ConsolesComplete`). The inductive invariant `ConsoleInv` has six
parts: `DevicesOK`, `OnlyTyped` (all strokes anywhere in the machine were typed),
`BufferOK` (the line, the history and the committed lines are the fold of the edits over
the strokes handled), `PlacesOK` (a byte of the UART is in exactly one place: unread, held
by the polling loop or by code that never returned, or handled; a key in at least one),
`ShellOK` (types) and `OutputsOK` (each console shows of each writer what the other shows,
but for the one output that is between its two prints). A handler may run at any label, so
each part is shown of the handlers once, for every label, and of each step of the loop.

**Framebuffer and line** (`LineEditorProofs`), for every height of a glyph, number of
columns, height of the display and of the framebuffer behind it, set of characters, and
printed text (`WriterAssumption`, of which `LINES >= HEIGHT` is asserted by `Writer::init`,
and `EditorAssumption`): `CursorOnDisplay` (`TypeOK`), `ScrollsClean`
(`NothingBelowCursor`), `LineIsShown` (`LineOnScreen`) and `WriterIsTextScreen`
(`ImplementsText`). `EditorInv` consists of `ScreenOK` (the cursor is on the display and
everything after it is blank), `LineOK`, `PendingOK` and `ImageOK`: while the line is
faithful its last character stands just before the cursor, one place earlier if a
backspace is still to be echoed, and one place after if a character is. The refinement is a
simulation byte by byte: the page read off the pixels after `write_byte` is the page of
`TextScreen` after that character, and the lemmas about folds lift this to a whole output.
`ScreenOK` is needed for it: after a scroll the last row of the page is blank only because
what the scroll moved into the lines left over is cleared too.

**Boot memory** (`BootMemoryProofs`), for every memory map, list of program headers and
number of regions, pages and tables (`BootAssumption`): `TypesKept` (`TypeOK`),
`FramesHandedOutOnce` (`NoFrameTwice`), `NothingIsOverwritten` (`NothingOverwritten`),
`TablesNotAtNull` (`NoTableAtNull`), `PanicMeansShort` (`PanicOnlyWhenShort`) and
`KernelIsInPlace` (`SegmentsLoaded`). `BootInv` says that the regions copied are disjoint
descriptors of the final map (`MapCopied`), that the kernel's pages are not conventional
memory in it (`KernelClaimed`), and that the frames handed out are the first `next` of
`UsableFrames` in order (`FramesTaken`); the frames of disjoint regions are a sequence
without repetitions, by induction over the regions. `KernelIsInPlace` has a hypothesis,
`WellLinked`: two segments share no byte and none has more bytes in the file than in
memory. The code does not test it; the linker ensures it, and of segments that overlap the
later one wins.

**File system** (`VfsProofs`), for every set of names and of contents, number of nodes,
depth and length of typed path (`VfsAssumption`): `TypeIsInvariant` (`TypeOK`),
`ReadersAlwaysAgree` (`ReadersAgree`), `CwdLostByRemoveOnly` (`CwdLostByRemove`),
`VfsIsFileTree` (`ImplementsFileTree`) and `WalkIsResolved` (`ResolveIsWalk`). The
inductive invariant `TreeInv` says that the vectors form a tree: a node is in one vector
and once in it, siblings have different names, only directories own anything, the root is
owned by nobody, and nothing lies deeper than the paths in use. From this, by induction
over paths, a node is found by one path only (`OnePath`). A push then adds one path to what
is found, an overwrite changes none, and a removal takes away exactly the paths that begin
with the removed one: this is what the map of `FileTree` does, and what makes every command
keep `TreeInv`. Without the different names `rm` would uncover a second entry. The
listing of a directory has one line per child, and the children are the entries.
`WalkIsResolved` compares two folds: that of `resolve_path` reproduces the current
directory and then takes the steps of the walk for as long as the walk is not lost.

**Clock and calc** (`CommandsProofs`): `ReadsAreExact` (`UndisturbedReadIsExact`), from
every set of start times and for any number of updates (`RtcAssumption`: the lead of the
flag is longer than a read), but for the hour where a 12-hour dial shows 12, and
`CalcIsExact` (`CalcExact`) for operands of every width. For the clock `ClockInv` contains
`Snapshot`: the registers read so far are those of the time at which the flag was found
clear, as long as the read was not disturbed and the budget of port accesses is not used
up; that every conversion undoes the device's coding, with this one exception, is a lemma
per format. For `calc` the division theorem is proved on magnitudes and carried over to
the four combinations of signs.

**Induction.** `Induction` derives from the well-foundedness of inclusion of finite sets
what the proofs above need of data: induction over numbers for a set of numbers
(`Induct`), that `Min` and `Max` return what they promise (`LeastNumber`,
`GreatestNumber`, `MinAndMaxOfValues`), and that the function which `FoldLeft` recurses on
exists (`FoldExists`).

**Only model-checked.**

- Liveness (`ReadyTasksRun`, `LoggerRetires`, `StrokesHandled`, `LinesRun`,
  `PromptReturns`, `InterruptsComeBack`) rests on fairness and `ENABLED`, which are beyond
  the prover.
- `HandlersReturn`, `KillTerminates`, `TerminalInOrder` and `KeysOnce` are violated
  (section 5).

## 5. Where the code and its words disagree

- `viol_KillTerminates`: `kill 3` from the shell reports the shell killed, and
  `finish_task` sets it Ready again.
- `viol_TerminalInOrder`: the shell holds a byte it polled from COM1 while the serial
  handler enters the bytes that follow: the line has them in another order.
- `viol_KeysOnce`: polling takes a scancode whose interrupt is already latched, and the
  handler reads the same scancode again: one key press, two characters.
- `viol_HandlersReturn`: a keyboard or serial handler that allocates on top of a task
  caught in the allocator spins for ever. `OnlyKnownDeadlocks` shows that this is the only
  deadlock of the kernel's locks once it has booted.

Smaller observations the models contain without a run of their own:

- a 257th memory region is dropped silently; a ninth committed line silently drops the
  oldest one not yet run; `rm` of the current directory leaves it dangling;
- killing a task that is already Finished is reported as a success;
- a framebuffer that `Writer::init` refuses panics while its lock is held: the message is
  on the serial port, and the framebuffer half of the panic spins;
- on a clock in 12-hour mode noon is returned as hour 0 and midnight as hour 12, although
  the comment above the conversion says that it converts to a 24-hour clock: the named
  exception of `UndisturbedReadIsExact`;
- a handler that runs between two register reads may let the clock advance there: the
  time is then put together from two seconds, and the same property is about reads that
  nothing delayed;
- a character past the 128th is echoed although the line refuses it, and a backspace at
  column 0 removes a character of the line without going back over the wrap: two of the
  exceptions that `faithful` makes for `LineOnScreen`;
- an allocation that fails in `push_char` or `commit_line` panics with interrupts off and
  the input buffer locked: after it no handler runs any more.

The properties hold with these exceptions written into them. They say what the code does
guarantee beside them, and would not notice if such a case became worse; where a hazard
of `PROJECT.json` has no property for this reason, its note says so.

## 6. Not modelled

- `guess`: one comparison with a number taken from the clock;
- `handle_special_key` (history recall) and `set_modifier`: nothing calls them;
- exception handlers: each prints and panics or halts; only the panic is in
  `KernelLocks`;
- the PIC's priorities and masks: handlers do not nest;
- the ELF parser (a crate, on a file the build made), the firmware, and the linked-list
  allocator, an external crate: an allocation either succeeds or fails;
- which allocations fail, and at which instruction of the allocator an interrupt comes:
  `Console` and `Kernel` let any allocation of `push_char` and `commit_line` be the last
  thing that happens, and leave out the message of the panic (whether it can be printed is
  a question of locks, and in `KernelLocks`);
- panics of task code elsewhere for want of heap are those of `PanicCommand`;
- drivers, network and process memory: constants and counters that are only printed
  (their locks are in `KernelLocks`); the RAM disk's block operations have no caller;
- GDT, TSS and the font: constant data;
- text: formatting, colours, wording.

## 7. What could follow

Every safety property that a run checks of the model is proved. Left are:

1. the liveness properties, once a prover with rules for fairness is at hand: the measures
   they need are those of `BoundedBypass` and of the place a committed line has in the
   queue;
2. descriptors of one type side by side in the memory map;
3. history recall, when something calls `handle_special_key`.
