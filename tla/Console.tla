------------------------------- MODULE Console -------------------------------
(***************************************************************************)
(* How a keystroke becomes a shell line: the PS/2 keyboard and the COM1    *)
(* UART, their interrupt handlers (src/src/interrupts.rs), the shell task   *)
(* that polls the same two devices with interrupts enabled                  *)
(* (src/src/shell.rs), the InputBuffer both sides fill (src/src/input.rs)   *)
(* and the two consoles both sides print to.                                *)
(*                                                                          *)
(* There is one CPU.  A handler runs with interrupts off and is one action: *)
(* it returns, or it never does, because an allocation in it fails or finds *)
(* the heap locked by the task below it.  Then nothing ever runs again, as  *)
(* after an allocation of the shell that fails with interrupts off.         *)
(* (The panics of commands, with interrupts on, are in Scheduler.)          *)
(*                                                                          *)
(* The shell is interruptible between any two port accesses and between any *)
(* two without_interrupts sections, so each of its actions is one such      *)
(* access or section.  A device may present a byte long before the CPU      *)
(* takes the interrupt: the polling loop can get there first.               *)
(*                                                                          *)
(* A stroke is one scancode or one serial byte, named by its device and its *)
(* place in what was typed there, so that two strokes are never confused.   *)
(***************************************************************************)
EXTENDS Integers, Sequences, SequencesExt

CONSTANTS
  MAX_LINE_LEN,     (* characters in the line being edited (128 in the code) *)
  MAX_QUEUE_DEPTH,  (* committed lines not yet run (8 in the code)           *)
  MAX_HISTORY,      (* remembered lines (16 in the code)                     *)
  TYPED_MAX         (* bound: strokes typed on both devices together          *)

ASSUME LimitsAssumption ==
  /\ {MAX_LINE_LEN, MAX_QUEUE_DEPTH, MAX_HISTORY} \subseteq Nat \ {0}
  /\ TYPED_MAX \in Nat

Devices == {"kbd", "uart"}

VARIABLES
  typed,      (* device -> the strokes typed on it, in order                 *)
  rx,         (* device -> the strokes it holds unread                       *)
  lastKey,    (* the scancode port 0x60 answered last                        *)
  irq,        (* device -> is its interrupt latched in the PIC               *)
  line,       (* InputBuffer::line                                           *)
  ready,      (* InputBuffer::ready_lines                                    *)
  history,    (* InputBuffer::history                                        *)
  pc,         (* where the shell task is                                     *)
  port,       (* the device its polling loop is at                           *)
  reg,        (* the stroke the polling loop holds                           *)
  stuck,      (* the stroke, if any, whose handling never returned           *)
  serialOut,  (* what COM1 sent                                              *)
  vgaOut,     (* what the framebuffer console shows                          *)
  handled,    (* history of the strokes given to the input buffer            *)
  executed    (* history of the lines given to handle_command                *)

devices == <<typed, rx, lastKey, irq>>
buffer  == <<line, ready, history, handled>>
shell   == <<pc, port, reg, stuck, executed>>
outputs == <<serialOut, vgaOut>>
vars    == <<devices, buffer, shell, outputs>>

Kinds     == {"Char", "Backspace", "Enter", "Ignored"}
Stroke(d, n, k) == [dev |-> d, n |-> n, kind |-> k]
Strokes   == {Stroke(d, n, k) : d \in Devices, n \in 0 .. TYPED_MAX, k \in Kinds}
(* What a port answers before anything was typed, or when the UART is empty: *)
(* a byte that scancode_to_event and serial_byte_to_event translate to None. *)
NoStroke(d) == Stroke(d, 0, "Ignored")

PCs == {"idle", "status", "read", "handle", "echoSerial", "echoVga", "pop",
        "outSerial", "outVga", "promptSerial", "promptVga"}

Init ==
  /\ typed     = [d \in Devices |-> <<>>]
  /\ rx        = [d \in Devices |-> <<>>]
  /\ lastKey   = NoStroke("kbd")
  /\ irq       = [d \in Devices |-> FALSE]
  /\ line      = <<>>
  /\ ready     = <<>>
  /\ history   = <<>>
  /\ pc        = "idle"
  /\ port      = "kbd"
  /\ reg       = NoStroke("kbd")
  /\ stuck     = {}
  /\ serialOut = <<>>
  /\ vgaOut    = <<>>
  /\ handled   = <<>>
  /\ executed  = <<>>

-----------------------------------------------------------------------------
(* The devices.                                                             *)

(* Someone types.  The keyboard controller raises IRQ1 with the first unread *)
(* byte; the UART raises IRQ4 at its FIFO trigger level or after a timeout.  *)
Type(d, k) ==
  LET s == Stroke(d, Len(typed[d]) + 1, k)
  IN  /\ Len(typed["kbd"]) + Len(typed["uart"]) < TYPED_MAX
      /\ typed' = [typed EXCEPT ![d] = Append(@, s)]
      /\ rx'    = [rx EXCEPT ![d] = Append(@, s)]
      /\ irq'   = [irq EXCEPT !["kbd"] = @ \/ (d = "kbd" /\ rx[d] = <<>>)]
      /\ UNCHANGED <<lastKey, buffer, shell, outputs>>

UartInterrupt ==
  /\ rx["uart"] # <<>>
  /\ ~ irq["uart"]
  /\ irq' = [irq EXCEPT !["uart"] = TRUE]
  /\ UNCHANGED <<typed, rx, lastKey, buffer, shell, outputs>>

(* The byte a read of the device's data port answers: with nothing unread,   *)
(* the controller repeats its last scancode and the UART answers 0.          *)
DataPort(d) ==
  IF rx[d] # <<>> THEN Head(rx[d]) ELSE IF d = "kbd" THEN lastKey ELSE NoStroke("uart")

(* Reading also takes the byte away; the keyboard controller raises its line *)
(* again for the next one.  A latched interrupt stays latched.               *)
ReadDataPort(d, latched) ==
  /\ rx' = [rx EXCEPT ![d] = IF @ = <<>> THEN @ ELSE Tail(@)]
  /\ lastKey' = IF d = "kbd" THEN DataPort(d) ELSE lastKey
  /\ irq' = [irq EXCEPT ![d] = latched \/ (d = "kbd" /\ Len(rx[d]) > 1)]
  /\ UNCHANGED typed

-----------------------------------------------------------------------------
(* The input buffer.                                                        *)

(* Appends to a bounded queue that makes room by dropping its oldest entry.  *)
PushBounded(q, x, max) == Append(IF Len(q) >= max THEN Tail(q) ELSE q, x)

(* Mutation: a full line takes one character more.                           *)
PushCharOffByOne(b, s) ==
  [b EXCEPT !.line = IF Len(@) <= MAX_LINE_LEN THEN Append(@, s) ELSE @]

PushChar(b, s) ==
  [b EXCEPT !.line = IF Len(@) < MAX_LINE_LEN THEN Append(@, s) ELSE @]

CommitLine(b) ==
  [b EXCEPT !.line    = <<>>,
            !.ready   = PushBounded(@, b.line, MAX_QUEUE_DEPTH),
            !.history = IF b.line = <<>> THEN @ ELSE PushBounded(@, b.line, MAX_HISTORY)]

(* handle_key_event and handle_input_event: the buffer b after stroke s, with *)
(* the echo added to b.echo.  A backspace on an empty line is not echoed; a   *)
(* character that a full line refused is.                                     *)
HandleEvent(b, s) ==
  LET echoed(next) == [next EXCEPT !.echo    = Append(@, <<s.dev, s.n>>),
                                   !.handled = Append(@, s)]
  IN  IF s.kind = "Char"           THEN echoed(PushChar(b, s))
      ELSE IF s.kind = "Enter"     THEN echoed(CommitLine(b))
      ELSE IF s.kind = "Ignored"   THEN b
      ELSE IF b.line # <<>>        THEN echoed([b EXCEPT !.line = Front(@)])
      ELSE [b EXCEPT !.handled = Append(@, s)]

Buffer == [line |-> line, ready |-> ready, history |-> history,
           handled |-> handled, echo |-> <<>>]

StoreBuffer(b) ==
  /\ line'    = b.line
  /\ ready'   = b.ready
  /\ history' = b.history
  /\ handled' = b.handled

(* A writer prints the same things on both consoles, the serial one first.   *)
PrintedBy(who, things) == [i \in DOMAIN things |-> [by |-> who, what |-> things[i]]]

-----------------------------------------------------------------------------
(* The interrupt handlers: interrupts are off.  Each is one action when it   *)
(* returns and another when it never does.                                  *)

Alive == stuck = {}

(* push_char and commit_line make room on the heap, though not every time: an *)
(* allocation that fails panics where it stands, inside without_interrupts;    *)
(* one of a handler also spins for ever if the task below it is just then in   *)
(* the allocator.  Interrupts stay off and INPUT locked, so that nobody reads  *)
(* what is left of the buffer.  The panic's message is left out.               *)
MayAllocate(b, s) == s.kind = "Enter" \/ (s.kind = "Char" /\ Len(b.line) < MAX_LINE_LEN)

HandledByIsr(strokes) ==
  LET after == FoldLeft(HandleEvent, Buffer, strokes)
  IN  /\ StoreBuffer(after)
      /\ serialOut' = serialOut \o PrintedBy("isr", after.echo)
      /\ vgaOut'    = vgaOut    \o PrintedBy("isr", after.echo)

(* Mutation: the handler only empties the port, for the shell to poll.       *)
KeyboardHandlerDropsKey ==
  /\ irq["kbd"]
  /\ ReadDataPort("kbd", FALSE)
  /\ UNCHANGED <<buffer, shell, outputs>>

(* The handler reads the port once, without asking whether it holds a byte.  *)
KeyboardHandler ==
  /\ irq["kbd"]
  /\ ReadDataPort("kbd", FALSE)
  /\ HandledByIsr(<<DataPort("kbd")>>)
  /\ UNCHANGED shell

KeyboardHandlerDies ==
  /\ irq["kbd"]
  /\ MayAllocate(Buffer, DataPort("kbd"))
  /\ ReadDataPort("kbd", FALSE)
  /\ stuck' = {DataPort("kbd")}
  /\ UNCHANGED <<buffer, pc, port, reg, executed, outputs>>

(* Mutation: the handler reads the whole FIFO but handles one byte.          *)
SerialHandlerHandlesFirst ==
  /\ irq["uart"]
  /\ irq' = [irq EXCEPT !["uart"] = FALSE]
  /\ rx'  = [rx EXCEPT !["uart"] = <<>>]
  /\ HandledByIsr(IF rx["uart"] = <<>> THEN <<>> ELSE <<Head(rx["uart"])>>)
  /\ UNCHANGED <<typed, lastKey, shell>>

(* The handler reads as long as the line status register shows a byte.       *)
SerialHandler ==
  /\ irq["uart"]
  /\ irq' = [irq EXCEPT !["uart"] = FALSE]
  /\ rx'  = [rx EXCEPT !["uart"] = <<>>]
  /\ HandledByIsr(rx["uart"])
  /\ UNCHANGED <<typed, lastKey, shell>>

(* It may get through some bytes first.                                      *)
SerialHandlerDies ==
  /\ irq["uart"]
  /\ irq' = [irq EXCEPT !["uart"] = FALSE]
  /\ \E n \in DOMAIN rx["uart"] :
       LET before == SubSeq(rx["uart"], 1, n - 1)
       IN  /\ MayAllocate(FoldLeft(HandleEvent, Buffer, before), rx["uart"][n])
           /\ HandledByIsr(before)
           /\ stuck' = {rx["uart"][n]}
           /\ rx' = [rx EXCEPT !["uart"] = SubSeq(@, n + 1, Len(@))]
  /\ UNCHANGED <<typed, lastKey, pc, port, reg, executed>>

-----------------------------------------------------------------------------
(* The shell task.                                                          *)

Goto(from, to) == pc = from /\ pc' = to /\ UNCHANGED stuck

(* The scheduler gives the shell the CPU.                                    *)
RunOnce ==
  /\ Goto("idle", "status")
  /\ port' = "kbd"
  /\ UNCHANGED <<devices, buffer, reg, executed, outputs>>

(* keyboard_data_ready and serial_received: when the loop of poll_keyboard   *)
(* ends, poll_serial_input starts; when that ends, pop_line is next.         *)
PollStatus ==
  /\ IF rx[port] # <<>>    THEN Goto("status", "read")   /\ UNCHANGED port
     ELSE IF port = "kbd"  THEN Goto("status", "status") /\ port' = "uart"
     ELSE                       Goto("status", "pop")    /\ UNCHANGED port
  /\ UNCHANGED <<devices, buffer, reg, executed, outputs>>

PollRead ==
  /\ Goto("read", "handle")
  /\ reg' = DataPort(port)
  /\ ReadDataPort(port, irq[port])
  /\ UNCHANGED <<buffer, port, executed, outputs>>

(* push_char, backspace or commit_line, and whether an echo follows.         *)
PollHandle ==
  LET after == HandleEvent(Buffer, reg)
  IN  /\ Goto("handle", IF after.echo = <<>> THEN "status" ELSE "echoSerial")
      /\ StoreBuffer(after)
      /\ UNCHANGED <<devices, port, reg, executed, outputs>>

(* push_char or commit_line panics with interrupts off.                      *)
PollDies ==
  /\ pc = "handle" /\ MayAllocate(Buffer, reg)
  /\ stuck' = {reg}
  /\ UNCHANGED <<devices, buffer, pc, port, reg, executed, outputs>>

(* serial_print! and print! are two separate sections.                       *)
SerialPrint(what) ==
  /\ serialOut' = serialOut \o PrintedBy("shell", <<what>>)
  /\ UNCHANGED <<devices, buffer, port, reg, executed, vgaOut>>

VgaPrint(what) ==
  /\ vgaOut' = vgaOut \o PrintedBy("shell", <<what>>)
  /\ UNCHANGED <<devices, buffer, port, reg, executed, serialOut>>

(* Mutation: the loop takes the next byte without the second print.          *)
PollEchoSerialOnly == Goto("echoSerial", "status") /\ SerialPrint(<<reg.dev, reg.n>>)

PollEcho ==
  \/ Goto("echoSerial", "echoVga") /\ SerialPrint(<<reg.dev, reg.n>>)
  \/ Goto("echoVga", "status")     /\ VgaPrint(<<reg.dev, reg.n>>)

(* Mutation: running a line also clears the line being edited.               *)
PopLineClearsInput ==
  IF ready = <<>>
  THEN Goto("pop", "idle") /\ UNCHANGED <<devices, buffer, port, reg, executed, outputs>>
  ELSE /\ Goto("pop", "promptSerial")
       /\ executed' = Append(executed, Head(ready))
       /\ ready' = Tail(ready)
       /\ line' = <<>>
       /\ UNCHANGED <<devices, history, handled, port, reg, outputs>>

(* Without a line the shell yields.  handle_command prints nothing for a     *)
(* blank line, which need not be empty but may hold spaces, and for clear,     *)
(* whose escape on the serial port and cleared framebuffer are left out: they  *)
(* are not one output on two consoles.                                        *)
PopLine ==
  IF ready = <<>>
  THEN Goto("pop", "idle") /\ UNCHANGED <<devices, buffer, port, reg, executed, outputs>>
  ELSE /\ \/ Goto("pop", "outSerial") /\ Head(ready) # <<>>
          \/ Goto("pop", "promptSerial")
       /\ executed' = Append(executed, Head(ready))
       /\ ready' = Tail(ready)
       /\ UNCHANGED <<devices, line, history, handled, port, reg, outputs>>

(* handle_command prints its output and print_prompt the prompt.  An output    *)
(* of several lines is one print here.                                       *)
CommandOutput ==
  \/ Goto("outSerial", "outVga")    /\ SerialPrint(<<"output", Len(executed)>>)
  \/ Goto("outVga", "promptSerial") /\ VgaPrint(<<"output", Len(executed)>>)

(* Mutation: the prompt goes to the serial port only.                        *)
PrintPromptSerialOnly ==
  \/ Goto("promptSerial", "promptVga") /\ SerialPrint(<<"prompt", Len(executed)>>)
  \/ /\ Goto("promptVga", "idle")
     /\ UNCHANGED <<devices, buffer, port, reg, executed, outputs>>

PrintPrompt ==
  \/ Goto("promptSerial", "promptVga") /\ SerialPrint(<<"prompt", Len(executed)>>)
  \/ Goto("promptVga", "idle")         /\ VgaPrint(<<"prompt", Len(executed)>>)

-----------------------------------------------------------------------------
Shell == \/ RunOnce
         \/ PollStatus
         \/ PollRead
         \/ PollHandle
         \/ PollDies
         \/ PollEcho
         \/ PopLine
         \/ CommandOutput
         \/ PrintPrompt

Running == \/ \E d \in Devices, k \in Kinds : Type(d, k)
           \/ UartInterrupt
           \/ KeyboardHandler \/ KeyboardHandlerDies
           \/ SerialHandler \/ SerialHandlerDies
           \/ Shell

(* Once something is stuck nobody reads the devices: what is typed then is    *)
(* left out.                                                                 *)
Halted == ~ Alive /\ UNCHANGED vars

Next == (Alive /\ Running) \/ Halted

Spec == Init /\ [][Next]_vars

-----------------------------------------------------------------------------
TypeOK ==
  /\ \A d \in Devices : typed[d] \in Seq(Strokes) /\ rx[d] \in Seq(Strokes)
  /\ lastKey \in Strokes /\ reg \in Strokes /\ stuck \subseteq Strokes
  /\ irq \in [Devices -> BOOLEAN]
  /\ line \in Seq(Strokes) /\ Len(line) <= MAX_LINE_LEN
  /\ \A i \in DOMAIN line : line[i].kind = "Char"
  /\ \A q \in {ready, history, executed} : \A i \in DOMAIN q : q[i] \in Seq(Strokes)
  /\ Len(ready) <= MAX_QUEUE_DEPTH
  /\ Len(history) <= MAX_HISTORY
  /\ pc \in PCs /\ port \in Devices

(* Where a stroke is: unread in its device, held by the polling loop or by    *)
(* code that never returned, or handled.                                     *)
Occurrences(s, q) == Cardinality({i \in DOMAIN q : q[i] = s})
HeldByShell(s) == pc = "handle" /\ reg = s
Places(s) == Occurrences(s, rx[s.dev]) + Occurrences(s, handled)
             + (IF HeldByShell(s) \/ s \in stuck THEN 1 ELSE 0)

Meaningful(d) == {i \in DOMAIN typed[d] : typed[d][i].kind # "Ignored"}

(* Polling and the interrupt handler share the UART without a lock, yet every *)
(* byte is handled exactly once.                                             *)
SerialExactlyOnce == \A i \in Meaningful("uart") : Places(typed["uart"][i]) = 1

(* No keystroke is lost between the polling loop and the handler.            *)
KeysNotLost == \A i \in Meaningful("kbd") : Places(typed["kbd"][i]) >= 1

(* Both sides edit the buffer in short sections, and nothing is lost between  *)
(* them: the line and the history are what the handled strokes say in their   *)
(* order, and the waiting lines are the newest of those committed.            *)
EmptyBuffer == [line |-> <<>>, ready |-> <<>>, history |-> <<>>,
                handled |-> <<>>, echo |-> <<>>]
BufferIsReplay ==
  LET replay == FoldLeft(HandleEvent, EmptyBuffer, handled)
  IN  /\ line = replay.line
      /\ history = replay.history
      /\ IsSuffix(ready, replay.ready)

By(who, out) ==
  FoldLeft(LAMBDA seen, p : IF p.by = who THEN Append(seen, p) ELSE seen, <<>>, out)
MidPrint == pc \in {"echoVga", "outVga", "promptVga"}

(* Whatever the interleaving, each writer's output appears on both consoles   *)
(* complete and in its own order: the framebuffer lags the serial port by at  *)
(* most the one print the shell is in the middle of.                         *)
ConsolesComplete ==
  /\ By("isr", serialOut) = By("isr", vgaOut)
  /\ LET s == By("shell", serialOut)
     IN  By("shell", vgaOut) = IF MidPrint THEN Front(s) ELSE s

(* "Type shell commands in this terminal" (run.sh): the bytes of the terminal *)
(* enter the line in the order they were typed.                               *)
TerminalInOrder ==
  \A i, j \in DOMAIN handled :
    i < j /\ handled[i].dev = "uart" /\ handled[j].dev = "uart"
      => handled[i].n < handled[j].n

(* "... or click the QEMU window": a key pressed once enters the line once.   *)
KeysOnce ==
  \A i, j \in DOMAIN handled :
    i # j /\ handled[i].dev = "kbd" => handled[i] # handled[j]
=============================================================================
