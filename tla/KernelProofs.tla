---------------------------- MODULE KernelProofs ----------------------------
(***************************************************************************)
(* The composed kernel is both of its parts: what is proved or checked of  *)
(* Scheduler and of Console alone holds when they share the CPU.           *)
(* And the kernel's locks: what KernelLocks promises holds of every path   *)
(* through the code, however often its loops go round.                     *)
(***************************************************************************)
EXTENDS Kernel, KernelLocks, Induction, SequenceTheorems, TLAPS

(* A step of the kernel, seen from the task table.                           *)
LEMMA StepOfScheduler ==
  ASSUME [Next]_vars
  PROVE  [S!Next]_(S!vars)
<1> USE DEF S!Next, S!Run, S!TaskBody
<1>0. Cpu => OtherTasks \/ ShellPolls \/ ShellPrints \/ ShellPops \/ ShellReturns \/ ShellPanics
             \/ ShellPowersOff
  BY DEF Cpu
<1>1. ASSUME UNCHANGED schedulerVars PROVE UNCHANGED S!vars
  BY <1>1 DEF schedulerVars, S!vars
<1>2. CASE Device
  BY <1>1, <1>2 DEF Device
<1>3. CASE Keyboard \/ Serial
  BY <1>1, <1>3 DEF Keyboard, Serial, OnTop
<1>4. CASE Timer
  BY <1>4 DEF Timer
<1>5. CASE OtherTasks
  BY <1>5 DEF OtherTasks
<1>6. CASE ShellPolls \/ ShellPrints
  BY <1>1, <1>6 DEF ShellPolls, ShellPrints
<1>7. CASE ShellPops
  BY <1>7 DEF ShellPops
<1>8. CASE ShellReturns
  BY <1>8 DEF ShellReturns
<1>9. CASE ShellPanics
  BY <1>9 DEF ShellPanics
<1>10. CASE ShellPowersOff
  BY <1>10 DEF ShellPowersOff
<1>11. CASE Over \/ UNCHANGED vars
  BY <1>1, <1>11 DEF Over, vars
<1>12. QED
  BY <1>0, <1>2, <1>3, <1>4, <1>5, <1>6, <1>7, <1>8, <1>9, <1>10, <1>11 DEF Next

(* The same step, seen from the devices, the input buffer and the shell.     *)
LEMMA StepOfConsole ==
  ASSUME [Next]_vars
  PROVE  [C!Next]_(C!vars)
<1> USE DEF C!Next, C!Running, C!Shell
<1>1. ASSUME UNCHANGED consoleVars PROVE UNCHANGED C!vars
  BY <1>1 DEF consoleVars, C!vars, C!devices, C!buffer, C!shell, C!outputs
<1>2. CASE Device
  BY <1>2 DEF Device, Working
<1>3. CASE Keyboard \/ Serial
  BY <1>3 DEF Keyboard, Serial, Working
<1>4. CASE Timer
  BY <1>1, <1>4 DEF Timer
<1>5. CASE Cpu
  <2>1. C!Alive
    BY <1>5 DEF Cpu, Working
  <2>2. CASE OtherTasks \/ ShellPanics
    BY <1>1, <2>2 DEF OtherTasks, ShellPanics
  <2>3. CASE ShellPolls \/ ShellPrints
    BY <2>1, <2>3 DEF ShellPolls, ShellPrints
  <2>4. CASE ShellPops \/ ShellReturns \/ ShellPowersOff
    BY <2>1, <2>4 DEF ShellPops, ShellReturns, ShellPowersOff
  <2>5. QED
    BY <1>5, <2>2, <2>3, <2>4 DEF Cpu
<1>6. CASE Over \/ UNCHANGED vars
  BY <1>1, <1>6 DEF Over, vars
<1>7. QED
  BY <1>2, <1>3, <1>4, <1>5, <1>6 DEF Next

(* Under the shell's port accesses and the handlers, the scheduler is still   *)
(* Scheduler: every theorem of SchedulerProofs holds of the composed kernel.  *)
THEOREM KernelIsScheduler == Spec => S!Spec
<1>1. Init => S!Init
  BY DEF Init
<1>2. [Next]_vars => [S!Next]_(S!vars)
  BY StepOfScheduler
<1>3. QED
  BY <1>1, <1>2, PTL DEF Spec, S!Spec

(* Dispatched one line at a time by the round robin, the shell and the        *)
(* devices are still Console: no interleaving is added by the composition.    *)
THEOREM KernelIsConsole == Spec => C!Spec
<1>1. Init => C!Init
  BY DEF Init
<1>2. [Next]_vars => [C!Next]_(C!vars)
  BY StepOfConsole
<1>3. QED
  BY <1>1, <1>2, PTL DEF Spec, C!Spec

(* The joint inductive step of the scheduler's phases and the shell's labels. *)
LEMMA ShellStays ==
  ShellInItsTask /\ [Next]_vars => ShellInItsTask'
<1> SUFFICES ASSUME ShellInItsTask, [Next]_vars PROVE ShellInItsTask'
  OBVIOUS
<1> USE DEF ShellInItsTask, Polling, Answering
<1>1. CASE Device
  <2>1. UNCHANGED <<pc, phase, ctx>>
    BY <1>1 DEF Device, C!Type, C!UartInterrupt, C!shell, schedulerVars
  <2>2. QED
    BY <2>1
<1>2. CASE Keyboard \/ Serial
  <2>1. pc' = pc /\ ctx' = ctx
    BY <1>2 DEF Keyboard, Serial, OnTop, C!KeyboardHandler, C!SerialHandler, C!shell,
                C!KeyboardHandlerDies, C!SerialHandlerDies, S!InputInterrupt, schedulerVars
  <2>2. phase' = phase \/ (phase = "halt" /\ phase' = "pick")
    BY <1>2 DEF Keyboard, Serial, OnTop, S!InputInterrupt, S!WakeFromHalt, schedulerVars
  <2>3. QED
    BY <2>1, <2>2
<1>3. CASE Timer
  <2>1. pc' = pc /\ ctx' = ctx /\ (phase' = phase \/ (phase = "halt" /\ phase' = "pick"))
    BY <1>3 DEF Timer, S!TimerTick, S!WakeFromHalt, consoleVars
  <2>2. QED
    BY <2>1
<1>4. CASE OtherTasks
  <2>1. pc' = pc /\ phase # "command" /\ phase' # "command"
    BY <1>4 DEF OtherTasks, consoleVars, S!PrepareNext, S!IdleOrWorkerTask, S!LoggerTask,
                S!FinishTask, S!Commit
  <2>2. pc = "idle"
    BY <1>4 DEF OtherTasks, S!PrepareNext, S!IdleOrWorkerTask, S!LoggerTask,
                S!FinishTask, S!Commit
  <2>3. QED
    BY <2>1, <2>2
<1>5. CASE ShellPolls
  <2>1. phase' = phase /\ ctx' = ctx /\ phase = "call" /\ ctx.func = "shell"
    BY <1>5 DEF ShellPolls, ShellCalled, schedulerVars
  <2>2. pc' \in Polling
    BY <1>5 DEF ShellPolls, C!RunOnce, C!PollStatus, C!PollRead, C!PollHandle,
                C!PollDies, C!PollEcho, C!Goto
  <2>3. QED
    BY <2>1, <2>2
<1>6. CASE ShellPops
  <2>1. /\ ctx.func = "shell"
        /\ IF ready = <<>> THEN pc' = "idle" /\ phase' = "commit"
                           ELSE pc' \in Answering /\ phase' = "command" /\ ctx' = ctx
    BY <1>6 DEF ShellPops, ShellCalled, C!PopLine, C!Goto, S!ShellNoLine, S!ShellPopLine
  <2>2. QED
    BY <2>1
<1>7. CASE ShellPrints
  <2>1. phase' = phase /\ ctx' = ctx /\ phase = "command" /\ pc' \in Answering
    BY <1>7 DEF ShellPrints, C!CommandOutput, C!PrintPrompt, C!Goto, schedulerVars
  <2>2. QED
    BY <2>1
<1>8. CASE ShellReturns
  <2>1. pc' = "idle" /\ phase' = "commit"
    BY <1>8 DEF ShellReturns, C!PrintPrompt, C!Goto, S!OtherCommand, S!SpawnTask, S!KillTask,
                S!CommandDone
  <2>2. QED
    BY <2>1
<1>9. CASE ShellPanics
  <2>1. pc' = pc /\ ctx' = ctx /\ phase = "command" /\ phase' = "panicked"
    BY <1>9 DEF ShellPanics, S!PanicCommand, consoleVars
  <2>2. QED
    BY <2>1
<1>10. CASE ShellPowersOff
  <2>1. pc' \in Answering /\ ctx' = ctx /\ phase = "command" /\ phase' = "off" /\ pc # "idle"
    BY <1>10 DEF ShellPowersOff, C!CommandOutput, C!Goto, S!PowerCommand
  <2>2. QED
    BY <2>1
<1>11. CASE Over \/ UNCHANGED vars
  <2>1. UNCHANGED <<pc, phase, ctx>>
    BY <1>11 DEF Over, vars, consoleVars, schedulerVars
  <2>2. QED
    BY <2>1
<1>12. QED
  BY <1>1, <1>2, <1>3, <1>4, <1>5, <1>6, <1>7, <1>8, <1>9, <1>10, <1>11 DEF Next, Cpu

(* Shell code runs only inside the shell's task: run() dispatches no other    *)
(* task, and commits none, with the shell between two of its steps.           *)
THEOREM ShellOnlyInItsTask == Spec => []ShellInItsTask
<1>1. Init => ShellInItsTask
  BY DEF Init, C!Init, S!Init, ShellInItsTask
<1>2. QED
  BY <1>1, ShellStays, PTL DEF Spec

-----------------------------------------------------------------------------
(***************************************************************************)
(* The locks. What one context can do is judged without the others: a      *)
(* place is who runs, which locks it holds, whether it can be interrupted  *)
(* and whether it panics, and a state is a place and what                  *)
(* without_interrupts remembered.                                          *)
(***************************************************************************)
Flags == {"on", "off"}
Quiet == HandlerLocks \ {"ALLOCATOR"}

Places ==
  {p \in [who : Contexts, held : SUBSET Locks, on : Flags, dead : {"yes", "no"}] :
     p.on = "on" => p.who = "task" /\ p.held \cap Quiet = {}}
States == [at : Places, was : Flags]

Place(who, held, on, dead) == [who |-> who, held |-> held, on |-> on, dead |-> dead]
Hold(p, l)     == [p EXCEPT !.held = @ \cup {l}]
GiveBack(p, l) == [p EXCEPT !.held = @ \ {l}]
Silent(p)      == [p EXCEPT !.on = "off"]

(* What the code must respect, each at the place it is at: no lock is taken  *)
(* twice but by the panic over a refused framebuffer, the locks of handlers  *)
(* are only taken with interrupts off, handlers take no other, the timer's   *)
(* never the heap's, and nothing panics that holds what a panic needs.       *)
May(p, i) ==
  /\ i.op = "take" =>
       /\ i.lock \in p.held => i.lock = "WRITER" /\ p.dead = "yes" /\ p.who = "boot"
       /\ i.lock \in Quiet => p.on = "off"
       /\ p.who \in Handlers => i.lock \in HandlerLocks
       /\ p.who = "timer" => i.lock # "ALLOCATOR"
       /\ p.dead = "yes" => i.lock \in {"SERIAL1", "WRITER"}
  /\ i.op = "free" => i.lock \in p.held
  /\ i.op = "sti" => p.who = "boot" /\ p.held = {} /\ p.dead = "no"
  /\ i.op \in {"check", "panic"} =>
       /\ p.dead = "no" /\ "SERIAL1" \notin p.held
       /\ "WRITER" \in p.held => p.who = "boot"

After(s, i) ==
  CASE i.op = "take"    -> [s EXCEPT !.at = Hold(s.at, i.lock)]
    [] i.op = "free"    -> [s EXCEPT !.at = GiveBack(s.at, i.lock)]
    [] i.op = "cli"     -> [at |-> Silent(s.at), was |-> s.at.on]
    [] i.op = "restore" -> [s EXCEPT !.at.on = IF s.was = "on" THEN "on" ELSE @]
    [] i.op = "sti"     -> [at  |-> Place("task", s.at.held, "on", s.at.dead), was |-> s.was]
    [] OTHER            -> s

(* Started in s, the code respects that and ends in one of the states ends.  *)
Traces(t, c, s, ends) ==
  /\ t \in [0 .. Len(c) -> States]
  /\ t[0] = s /\ t[Len(c)] \in ends
  /\ \A k \in 1 .. Len(c) : May(t[k - 1].at, c[k]) /\ t[k] = After(t[k - 1], c[k])

Runs(c, s, ends) == c \in Seq(Instructions) /\ \E t : Traces(t, c, s, ends)

(* Program text that does so from every state of a set; that leads back there. *)
Leads(from, text, ends) == \A c \in text, s \in from : Runs(c, s, ends)
Keeps(from, text)       == Leads(from, text, from)

LEMMA NothingRuns ==
  ASSUME NEW ends, NEW s \in States, s \in ends
  PROVE  Runs(<<>>, s, ends)
<1> DEFINE t == [k \in 0 .. 0 |-> s]
<1>1. Traces(t, <<>>, s, ends)
  BY DEF Traces
<1>2. QED
  BY <1>1 DEF Runs

LEMMA OneRuns ==
  ASSUME NEW i \in Instructions, NEW s \in States, NEW ends, May(s.at, i),
         After(s, i) \in States, After(s, i) \in ends
  PROVE  Runs(<<i>>, s, ends)
<1> DEFINE t == [k \in 0 .. 1 |-> IF k = 0 THEN s ELSE After(s, i)]
<1>1. <<i>> \in Seq(Instructions) /\ Len(<<i>>) = 1 /\ <<i>>[1] = i
  OBVIOUS
<1>2. t \in [0 .. 1 -> States] /\ t[0] = s /\ t[1] = After(s, i)
  OBVIOUS
<1> HIDE DEF t
<1>3. \A k \in 1 .. 1 : k = 1
  OBVIOUS
<1>4. Traces(t, <<i>>, s, ends)
  BY <1>1, <1>2, <1>3 DEF Traces
<1>5. QED
  BY <1>1, <1>4 DEF Runs

(* One piece of code after the other.                                        *)
LEMMA OneThenTheOther ==
  ASSUME NEW a, NEW b, NEW s, NEW mid, NEW ends,
         Runs(a, s, mid), \A m \in mid : Runs(b, m, ends)
  PROVE  Runs(a \o b, s, ends)
<1>1. PICK t : Traces(t, a, s, mid)
  BY DEF Runs
<1> DEFINE n == Len(a)
           m == t[n]
           c == a \o b
<1>2. a \in Seq(Instructions) /\ n \in Nat /\ m \in mid
  BY <1>1 DEF Runs, Traces
<1>3. Runs(b, m, ends)
  BY <1>2
<1>4. PICK u : Traces(u, b, m, ends)
  BY <1>3 DEF Runs
<1> DEFINE r == Len(b)
<1>5. /\ b \in Seq(Instructions) /\ r \in Nat
      /\ c \in Seq(Instructions) /\ Len(c) = n + r
      /\ \A k \in 1 .. n : c[k] = a[k]
      /\ \A k \in 1 .. r : c[n + k] = b[k]
  BY <1>2, <1>3 DEF Runs
<1>6. /\ t \in [0 .. n -> States] /\ t[0] = s
      /\ \A k \in 1 .. n : May(t[k - 1].at, a[k]) /\ t[k] = After(t[k - 1], a[k])
  BY <1>1 DEF Traces
<1>7. /\ u \in [0 .. r -> States] /\ u[0] = t[n] /\ u[r] \in ends
      /\ \A k \in 1 .. r : May(u[k - 1].at, b[k]) /\ u[k] = After(u[k - 1], b[k])
  BY <1>4 DEF Traces
<1> HIDE DEF n, r, c, m
<1> DEFINE v == [k \in 0 .. n + r |-> IF k <= n THEN t[k] ELSE u[k - n]]
<1>8. /\ v \in [0 .. n + r -> States]
      /\ \A k \in 0 .. n : v[k] = t[k]
      /\ \A k \in 0 .. r : v[n + k] = u[k]
  <2>1. ASSUME NEW k \in 0 .. n + r PROVE (IF k <= n THEN t[k] ELSE u[k - n]) \in States
    BY <1>2, <1>5, <1>6, <1>7
  <2>2. ASSUME NEW k \in 0 .. r PROVE v[n + k] = u[k]
    <3>1. n + k \in 0 .. n + r /\ (n + k) - n = k
      BY <1>2, <1>5
    <3>2. v[n + k] = IF n + k <= n THEN t[n + k] ELSE u[k]
      BY <3>1
    <3>3. CASE k = 0
      BY <1>2, <1>7, <3>2, <3>3
    <3>4. CASE k # 0
      BY <1>2, <3>2, <3>4
    <3>5. QED
      BY <3>3, <3>4
  <2>3. ASSUME NEW k \in 0 .. n PROVE v[k] = t[k]
    BY <1>2, <1>5
  <2>4. QED
    BY <2>1, <2>2, <2>3
<1> HIDE DEF v
<1>9. v[0] = s /\ v[n + r] \in ends
  <2>1. 0 \in 0 .. n /\ r \in 0 .. r
    BY <1>2, <1>5
  <2>2. v[0] = t[0] /\ v[n + r] = u[r]
    BY <2>1, <1>8
  <2>3. QED
    BY <2>2, <1>6, <1>7
<1>10. ASSUME NEW k \in 1 .. n + r
       PROVE  May(v[k - 1].at, c[k]) /\ v[k] = After(v[k - 1], c[k])
  <2>1. CASE k <= n
    <3>1. k \in 1 .. n /\ k - 1 \in 0 .. n /\ k \in 0 .. n
      BY <1>2, <2>1
    <3>2. v[k] = t[k] /\ v[k - 1] = t[k - 1] /\ c[k] = a[k]
      BY <3>1, <1>5, <1>8
    <3>3. QED
      BY <3>1, <3>2, <1>6
  <2>2. CASE ~ (k <= n)
    <3> DEFINE j == k - n
    <3>1. j \in 1 .. r /\ j \in 0 .. r /\ j - 1 \in 0 .. r /\ n + j = k /\ n + (j - 1) = k - 1
      BY <1>2, <1>5, <2>2
    <3> HIDE DEF j
    <3>2. v[k] = u[j] /\ v[k - 1] = u[j - 1] /\ c[k] = b[j]
      BY <3>1, <1>5, <1>8
    <3>3. QED
      BY <3>1, <3>2, <1>7
  <2>3. QED
    BY <2>1, <2>2
<1>11. Traces(v, c, s, ends)
  BY <1>5, <1>8, <1>9, <1>10 DEF Traces
<1>12. QED
  BY <1>5, <1>11 DEF Runs, c

(* What the next instruction may do, and that the rest of the code runs on.   *)
LEMMA FirstRuns ==
  ASSUME NEW c, NEW s, NEW ends, Runs(c, s, ends), c # <<>>
  PROVE  /\ s \in States /\ c \in Seq(Instructions) /\ Head(c) \in Instructions
         /\ Tail(c) \in Seq(Instructions) /\ c[1] = Head(c)
         /\ May(s.at, Head(c)) /\ After(s, Head(c)) \in States
         /\ Runs(Tail(c), After(s, Head(c)), ends)
<1>1. PICK t : Traces(t, c, s, ends)
  BY DEF Runs
<1> DEFINE n == Len(c)
           q == Tail(c)
<1>2. /\ c \in Seq(Instructions) /\ n \in Nat \ {0} /\ Head(c) = c[1] /\ c[1] \in Instructions
      /\ q \in Seq(Instructions) /\ Len(q) = n - 1 /\ \A k \in 1 .. n - 1 : q[k] = c[k + 1]
  BY DEF Runs
<1>3. /\ t \in [0 .. n -> States] /\ t[0] = s /\ t[n] \in ends
      /\ \A k \in 1 .. n : May(t[k - 1].at, c[k]) /\ t[k] = After(t[k - 1], c[k])
  BY <1>1 DEF Traces
<1> HIDE DEF n, q
<1>4. 1 \in 1 .. n /\ 1 - 1 = 0 /\ 0 \in 0 .. n /\ 1 \in 0 .. n
  BY <1>2
<1>5. s \in States /\ t[1] \in States /\ May(s.at, c[1]) /\ t[1] = After(s, c[1])
  BY <1>3, <1>4
<1> DEFINE u == [k \in 0 .. n - 1 |-> t[k + 1]]
<1>6. u \in [0 .. n - 1 -> States] /\ \A k \in 0 .. n - 1 : u[k] = t[k + 1]
  BY <1>2, <1>3
<1> HIDE DEF u
<1>7. u[0] = t[1] /\ u[n - 1] \in ends
  BY <1>2, <1>3, <1>6
<1>8. ASSUME NEW k \in 1 .. n - 1
      PROVE  May(u[k - 1].at, q[k]) /\ u[k] = After(u[k - 1], q[k])
  <2>1. k - 1 \in 0 .. n - 1 /\ k \in 0 .. n - 1 /\ (k - 1) + 1 = k /\ k + 1 \in 1 .. n /\ (k + 1) - 1 = k
    BY <1>2
  <2>2. u[k - 1] = t[k] /\ u[k] = t[k + 1] /\ q[k] = c[k + 1]
    BY <2>1, <1>2, <1>6
  <2>3. QED
    BY <2>1, <2>2, <1>3
<1>9. Traces(u, q, t[1], ends)
  BY <1>2, <1>6, <1>7, <1>8 DEF Traces
<1>10. Runs(q, t[1], ends)
  BY <1>2, <1>9 DEF Runs
<1>11. QED
  BY <1>2, <1>5, <1>10 DEF q

(* Code at its end.                                                          *)
LEMMA NothingLeft ==
  ASSUME NEW s, NEW ends, Runs(<<>>, s, ends)
  PROVE  s \in ends /\ s \in States
BY DEF Runs, Traces

LEMMA RunsIsCode ==
  ASSUME NEW c, NEW s, NEW ends, Runs(c, s, ends)
  PROVE  c \in Seq(Instructions) /\ s \in States
<1>1. PICK t : Traces(t, c, s, ends)
  BY DEF Runs
<1>2. c \in Seq(Instructions) /\ 0 \in 0 .. Len(c)
  BY DEF Runs
<1>3. QED
  BY <1>1, <1>2 DEF Traces

-----------------------------------------------------------------------------
(* The same of program text.                                                 *)

LEMMA NothingKeeps ==
  ASSUME NEW from \in SUBSET States
  PROVE  Keeps(from, Nothing)
BY NothingRuns DEF Keeps, Leads, Nothing

LEMMA ThenLeads ==
  ASSUME NEW from, NEW mid, NEW ends, NEW one, NEW other,
         Leads(from, one, mid), Leads(mid, other, ends)
  PROVE  Leads(from, one ++ other, ends)
<1>1. SUFFICES ASSUME NEW c \in one ++ other, NEW s \in from PROVE Runs(c, s, ends)
  BY DEF Leads
<1>2. PICK a \in one, b \in other : c = a \o b
  BY <1>1 DEF ++
<1>3. Runs(a, s, mid) /\ \A m \in mid : Runs(b, m, ends)
  BY DEF Leads
<1>4. QED
  BY <1>2, <1>3, OneThenTheOther

LEMMA ThenKeeps ==
  ASSUME NEW from, NEW one, NEW other, Keeps(from, one), Keeps(from, other)
  PROVE  Keeps(from, one ++ other)
BY ThenLeads DEF Keeps

LEMMA EitherKeeps ==
  ASSUME NEW from, NEW one, NEW other, Keeps(from, one), Keeps(from, other)
  PROVE  Keeps(from, one \cup other)
BY DEF Keeps, Leads

LEMMA MaybeKeeps ==
  ASSUME NEW from \in SUBSET States, NEW body, Keeps(from, body)
  PROVE  Keeps(from, Maybe(body))
BY NothingKeeps, EitherKeeps DEF Maybe

(* FlattenSeq joins its sequences from the left.                             *)
Joins(f, r) ==
  f = [i \in 1 .. Len(r) |-> IF i = 1 THEN r[i] ELSE f[i - 1] \o r[i]]

LEMMA JoinsExists ==
  ASSUME NEW text, NEW r \in Seq(text)
  PROVE  \E f : Joins(f, r)
<1> DEFINE N == Len(r)
           Good(f, n) == /\ DOMAIN f = 1 .. n /\ f = [i \in 1 .. n |-> f[i]]
                         /\ \A i \in 1 .. n : f[i] = IF i = 1 THEN r[i] ELSE f[i - 1] \o r[i]
           P == {n \in Nat : \E f : Good(f, n)}
<1>1. N \in Nat
  OBVIOUS
<1>2. 0 \in P
  <2> DEFINE f == [i \in 1 .. 0 |-> 0]
  <2>1. Good(f, 0)
    OBVIOUS
  <2>2. QED
    BY <2>1
<1>3. ASSUME NEW n \in Nat, n \in P PROVE n + 1 \in P
  <2>1. PICK f : Good(f, n)
    BY <1>3
  <2> DEFINE last == IF n + 1 = 1 THEN r[n + 1] ELSE f[n] \o r[n + 1]
             g == [i \in 1 .. n + 1 |-> IF i = n + 1 THEN last ELSE f[i]]
  <2>2. DOMAIN g = 1 .. n + 1 /\ g = [i \in 1 .. n + 1 |-> g[i]]
    OBVIOUS
  <2>3. ASSUME NEW i \in 1 .. n + 1 PROVE g[i] = IF i = 1 THEN r[i] ELSE g[i - 1] \o r[i]
    <3>1. CASE i = n + 1
      <4>1. g[i] = last /\ (i # 1 => g[i - 1] = f[n])
        <5> HIDE DEF last
        <5>1. i # 1 => i - 1 \in 1 .. n + 1 /\ i - 1 = n /\ i - 1 # n + 1
          BY <3>1
        <5>2. QED
          BY <3>1, <5>1
      <4> HIDE DEF g
      <4>2. QED
        BY <3>1, <4>1
    <3>2. CASE i # n + 1
      <4>1. /\ i \in 1 .. n /\ g[i] = f[i]
            /\ i # 1 => g[i - 1] = f[i - 1]
        <5> HIDE DEF last
        <5>1. i \in 1 .. n /\ (i # 1 => i - 1 \in 1 .. n + 1 /\ i - 1 # n + 1)
          BY <3>2
        <5>2. QED
          BY <3>2, <5>1
      <4> HIDE DEF g
      <4>2. QED
        BY <2>1, <4>1
    <3>3. QED
      BY <3>1, <3>2
  <2>4. Good(g, n + 1)
    <3> HIDE DEF g
    <3>1. QED
      BY <2>2, <2>3
  <2>5. QED
    <3> HIDE DEF Good, g
    <3>1. QED
      BY <2>4
<1>4. \A n \in Nat : n \in P
  <2> HIDE DEF P
  <2>1. QED
    BY <1>2, <1>3, Induct
<1>5. PICK f : Good(f, N)
  <2> HIDE DEF Good, N
  <2>1. QED
    BY <1>1, <1>4
<1>6. Joins(f, r)
  BY <1>5 DEF Joins
<1>7. QED
  BY <1>6

(* A loop around text that leads back leads back.                            *)
LEMMA LoopKeeps ==
  ASSUME NEW from \in SUBSET States, NEW body, Keeps(from, body)
  PROVE  Keeps(from, Loop(body))
<1>1. SUFFICES ASSUME NEW r \in BoundedSeq(body, ROUNDS), NEW s \in from
               PROVE  Runs(FlattenSeq(r), s, from)
  BY DEF Keeps, Leads, Loop
<1>2. PICK m \in 0 .. ROUNDS : r \in [1 .. m -> body]
  BY DEF BoundedSeq, SeqOf
<1>3. r \in Seq(body) /\ Len(r) = m /\ m \in Nat
  BY <1>2, RoundsAssumption
<1>4. CASE m = 0
  <2>1. r = <<>>
    BY <1>3, <1>4
  <2>2. FlattenSeq(r) = <<>>
    BY <2>1, <1>3, <1>4 DEF FlattenSeq
  <2>3. QED
    BY <2>2, NothingRuns
<1>5. CASE m # 0
  <2> DEFINE f == CHOOSE f : Joins(f, r)
  <2>1. FlattenSeq(r) = f[m]
    BY <1>3, <1>5 DEF FlattenSeq, Joins
  <2>2. Joins(f, r)
    BY <1>3, JoinsExists
  <2> HIDE DEF f
  <2>3. \A i \in 1 .. m : f[i] = IF i = 1 THEN r[i] ELSE f[i - 1] \o r[i]
    BY <1>3, <2>2 DEF Joins
  <2> DEFINE P == {n \in Nat : n + 1 <= m => Runs(f[n + 1], s, from)}
  <2>4. 0 \in P
    <3>1. 1 \in 1 .. m /\ r[1] \in body /\ f[1] = r[1]
      BY <1>2, <1>3, <1>5, <2>3
    <3>2. Runs(f[1], s, from)
      BY <3>1 DEF Keeps, Leads
    <3>3. QED
      BY <3>2
  <2>5. ASSUME NEW n \in Nat, n \in P PROVE n + 1 \in P
    <3>1. SUFFICES ASSUME n + 2 <= m PROVE Runs(f[n + 2], s, from)
      BY <1>3
    <3>2. n + 2 \in 1 .. m /\ (n + 2) - 1 = n + 1 /\ n + 2 # 1 /\ n + 1 <= m
      BY <1>3, <3>1
    <3>3. Runs(f[n + 1], s, from) /\ r[n + 2] \in body /\ f[n + 2] = f[n + 1] \o r[n + 2]
      BY <1>2, <2>3, <2>5, <3>2
    <3>4. \A t \in from : Runs(r[n + 2], t, from)
      BY <3>3 DEF Keeps, Leads
    <3>5. QED
      BY <3>3, <3>4, OneThenTheOther
  <2>6. \A n \in Nat : n \in P
    <3> HIDE DEF P
    <3>1. QED
      BY <2>4, <2>5, Induct
  <2>7. m - 1 \in Nat /\ (m - 1) + 1 = m
    BY <1>3, <1>5
  <2>8. Runs(f[m], s, from)
    BY <2>6, <2>7
  <2>9. QED
    BY <2>1, <2>8
<1>6. QED
  BY <1>4, <1>5

-----------------------------------------------------------------------------
(* The instructions, and the sections built on them, at a place.             *)

At(p, v) == {[at |-> p, was |-> w] : w \in v}
Here(p)  == At(p, Flags)

LEMMA AtStates ==
  ASSUME NEW p \in Places, NEW v \in SUBSET Flags
  PROVE  At(p, v) \in SUBSET States
BY DEF At, States

LEMMA OneLeads ==
  ASSUME NEW from \in SUBSET States, NEW ends \in SUBSET States, NEW op, NEW l,
         Ins(op, l) \in Instructions,
         \A s \in from : May(s.at, Ins(op, l)) /\ After(s, Ins(op, l)) \in ends
  PROVE  Leads(from, Do(op, l), ends)
<1>1. SUFFICES ASSUME NEW s \in from PROVE Runs(<<Ins(op, l)>>, s, ends)
  BY DEF Leads, Do
<1>2. QED
  BY OneRuns

LEMMA PlaceIs ==
  ASSUME NEW p \in Places
  PROVE  /\ p \in [who : Contexts, held : SUBSET Locks, on : Flags, dead : {"yes", "no"}]
         /\ p.who \in Contexts /\ p.held \in SUBSET Locks /\ p.on \in Flags
         /\ p.dead \in {"yes", "no"}
         /\ p.on = "on" => p.who = "task" /\ p.held \cap Quiet = {}
BY DEF Places

LEMMA HoldIs ==
  ASSUME NEW p \in Places, NEW l \in Locks, l \in Quiet => p.on = "off"
  PROVE  /\ Hold(p, l) \in Places /\ Hold(p, l).held = p.held \cup {l}
         /\ Hold(p, l).who = p.who /\ Hold(p, l).on = p.on /\ Hold(p, l).dead = p.dead
         /\ l \notin p.held => GiveBack(Hold(p, l), l) = p
<1> DEFINE h == Hold(p, l)
<1>1. /\ h \in [who : Contexts, held : SUBSET Locks, on : Flags, dead : {"yes", "no"}]
      /\ h.held = p.held \cup {l} /\ h.who = p.who /\ h.on = p.on /\ h.dead = p.dead
  BY PlaceIs DEF Hold
<1>2. h.on = "on" => h.who = "task" /\ h.held \cap Quiet = {}
  BY <1>1, PlaceIs
<1>3. l \notin p.held => GiveBack(h, l) = p
  <2>1. SUFFICES ASSUME l \notin p.held PROVE GiveBack(h, l) = p
    OBVIOUS
  <2>2. (p.held \cup {l}) \ {l} = p.held
    BY <2>1
  <2>3. QED
    BY <2>2, PlaceIs DEF Hold, GiveBack
<1> HIDE DEF h
<1>4. h \in Places
  BY <1>1, <1>2 DEF Places
<1>5. QED
  BY <1>1, <1>3, <1>4 DEF h

LEMMA SilentIs ==
  ASSUME NEW p \in Places
  PROVE  /\ Silent(p) \in Places /\ Silent(p).on = "off" /\ Silent(p).held = p.held
         /\ Silent(p).who = p.who /\ Silent(p).dead = p.dead
<1> DEFINE q == Silent(p)
<1>1. /\ q \in [who : Contexts, held : SUBSET Locks, on : Flags, dead : {"yes", "no"}]
      /\ q.on = "off" /\ q.held = p.held /\ q.who = p.who /\ q.dead = p.dead
  BY PlaceIs DEF Silent, Flags
<1> HIDE DEF q
<1>2. q \in Places
  BY <1>1 DEF Places
<1>3. QED
  BY <1>1, <1>2 DEF q

(* A lock around text that leads back, for a lock that is free and allowed.   *)
CanLock(p, l) == p \in Places /\ l \in Locks \ p.held /\ May(p, Ins("take", l))

LEMMA LockedKeeps ==
  ASSUME NEW p, NEW v \in SUBSET Flags, NEW l, CanLock(p, l),
         NEW body, Keeps(At(Hold(p, l), v), body)
  PROVE  Keeps(At(p, v), Locked(l, body))
<1> DEFINE h == Hold(p, l)
           out == At(p, v)
           in == At(h, v)
<1>1. p \in Places /\ l \in Locks /\ l \notin p.held /\ (l \in Quiet => p.on = "off")
  BY DEF CanLock, May, Ins
<1>2. h \in Places /\ l \in h.held /\ GiveBack(h, l) = p
  BY <1>1, HoldIs
<1>3. out \in SUBSET States /\ in \in SUBSET States
  BY <1>1, <1>2, AtStates
<1>4. Ins("take", l) \in Instructions /\ Ins("free", l) \in Instructions
  BY <1>1 DEF Instructions
<1>5. Leads(out, Do("take", l), in)
  <2>1. ASSUME NEW s \in out
        PROVE  May(s.at, Ins("take", l)) /\ After(s, Ins("take", l)) \in in
    <3>1. PICK w \in v : s = [at |-> p, was |-> w]
      BY DEF At
    <3>2. After(s, Ins("take", l)) = [at |-> h, was |-> w]
      BY <3>1 DEF After, Ins
    <3>3. s.at = p
      BY <3>1
    <3>4. QED
      BY <3>2, <3>3 DEF CanLock, At
  <2> HIDE DEF out, in
  <2>2. QED
    BY <2>1, <1>3, <1>4, OneLeads
<1>6. Leads(in, Do("free", l), out)
  <2>1. ASSUME NEW s \in in
        PROVE  May(s.at, Ins("free", l)) /\ After(s, Ins("free", l)) \in out
    <3>1. PICK w \in v : s = [at |-> h, was |-> w]
      BY DEF At
    <3> HIDE DEF h
    <3>2. After(s, Ins("free", l)) = [at |-> p, was |-> w]
      BY <3>1, <1>2 DEF After, Ins
    <3>3. s.at = h
      BY <3>1
    <3>4. May(h, Ins("free", l))
      BY <1>2 DEF May, Ins
    <3>5. QED
      BY <3>2, <3>3, <3>4 DEF At
  <2> HIDE DEF out, in
  <2>2. QED
    BY <2>1, <1>3, <1>4, OneLeads
<1> HIDE DEF out, in, h
<1>7. Leads(in, body, in)
  BY DEF Keeps, in, h
<1>8. Leads(out, Do("take", l) ++ body, in)
  BY <1>5, <1>7, ThenLeads
<1>9. Leads(out, (Do("take", l) ++ body) ++ Do("free", l), out)
  BY <1>6, <1>8, ThenLeads
<1>10. QED
  BY <1>9 DEF Locked, Keeps, out

(* Interrupts off, the same inside, and as they were afterwards.              *)
LEMMA WithoutInterruptsKeeps ==
  ASSUME NEW p \in Places, NEW body, Keeps(At(Silent(p), {p.on}), body)
  PROVE  Keeps(Here(p), WithoutInterrupts(body))
<1> DEFINE q == Silent(p)
           out == Here(p)
           in == At(q, {p.on})
<1>1. q \in Places /\ p.on \in Flags /\ q = [p EXCEPT !.on = "off"] /\ q.on = "off"
  BY PlaceIs, SilentIs DEF Silent
<1>2. out \in SUBSET States /\ in \in SUBSET States
  <2> HIDE DEF q
  <2>1. QED
    BY <1>1, AtStates DEF Here
<1>3. Ins("cli", "none") \in Instructions /\ Ins("restore", "none") \in Instructions
  BY DEF Instructions
<1>4. Leads(out, Do("cli", "none"), in)
  <2>1. ASSUME NEW s \in out
        PROVE  May(s.at, Ins("cli", "none")) /\ After(s, Ins("cli", "none")) \in in
    <3>1. PICK w \in Flags : s = [at |-> p, was |-> w]
      BY DEF At, Here
    <3>2. After(s, Ins("cli", "none")) = [at |-> q, was |-> p.on]
      BY <3>1 DEF After, Ins
    <3>3. May(s.at, Ins("cli", "none"))
      BY DEF May, Ins
    <3>4. QED
      BY <3>2, <3>3 DEF At
  <2> HIDE DEF out, in
  <2>2. QED
    BY <2>1, <1>2, <1>3, OneLeads
<1>5. Leads(in, Do("restore", "none"), out)
  <2>1. ASSUME NEW s \in in
        PROVE  May(s.at, Ins("restore", "none")) /\ After(s, Ins("restore", "none")) \in out
    <3>1. s = [at |-> q, was |-> p.on]
      BY DEF At
    <3>2. After(s, Ins("restore", "none"))
            = [s EXCEPT !.at.on = IF s.was = "on" THEN "on" ELSE s.at.on]
      BY DEF After, Ins
    <3>3. (IF p.on = "on" THEN "on" ELSE q.on) = p.on
      BY <1>1 DEF Flags
    <3>4. [q EXCEPT !.on = p.on] = p
      BY <1>1, PlaceIs
    <3>5. After(s, Ins("restore", "none")) = [at |-> p, was |-> p.on]
      <4> HIDE DEF q
      <4>1. QED
        BY <3>1, <3>2, <3>3, <3>4
    <3>6. May(s.at, Ins("restore", "none"))
      BY DEF May, Ins
    <3>7. QED
      BY <3>5, <3>6, <1>1 DEF At, Here
  <2> HIDE DEF out, in
  <2>2. QED
    BY <2>1, <1>2, <1>3, OneLeads
<1> HIDE DEF out, in, q
<1>6. Leads(in, body, in)
  BY DEF Keeps, in, q
<1>7. Leads(out, Do("cli", "none") ++ body, in)
  BY <1>4, <1>6, ThenLeads
<1>8. Leads(out, (Do("cli", "none") ++ body) ++ Do("restore", "none"), out)
  BY <1>5, <1>7, ThenLeads
<1>9. QED
  BY <1>8 DEF WithoutInterrupts, InterruptsLeftOff, Keeps, out

(* A lock of a handler, with interrupts off.                                  *)
LEMMA QuietLockKeeps ==
  ASSUME NEW p \in Places, NEW l \in Quiet \ p.held,
         p.dead = "yes" => l \in {"SERIAL1", "WRITER"},
         NEW body, Keeps(At(Hold(Silent(p), l), {p.on}), body)
  PROVE  Keeps(Here(p), WithoutInterrupts(Locked(l, body)))
<1> DEFINE q == Silent(p)
           v == {p.on}
<1>1. /\ q \in Places /\ q.on = "off" /\ q.held = p.held /\ q.who = p.who /\ q.dead = p.dead
      /\ v \in SUBSET Flags
  BY SilentIs, PlaceIs
<1>2. l \in Locks /\ l \in HandlerLocks /\ l # "ALLOCATOR"
  BY DEF Quiet, Locks
<1> HIDE DEF q
<1>3. CanLock(q, l)
  BY <1>1, <1>2 DEF CanLock, May, Ins
<1>4. Keeps(At(Hold(q, l), v), body)
  BY DEF q
<1> HIDE DEF v
<1>5. Keeps(At(q, v), Locked(l, body))
  BY <1>1, <1>3, <1>4, LockedKeeps
<1>6. QED
  BY <1>5, WithoutInterruptsKeeps DEF q, v

LEMMA QuietNothingKeeps ==
  ASSUME NEW p \in Places, NEW l \in Quiet \ p.held,
         p.dead = "yes" => l \in {"SERIAL1", "WRITER"}
  PROVE  Keeps(Here(p), WithoutInterrupts(Locked(l, Nothing)))
<1> DEFINE q == Hold(Silent(p), l)
<1>1. q \in Places /\ {p.on} \in SUBSET Flags
  <2>1. Silent(p) \in Places /\ Silent(p).on = "off" /\ l \in Locks
    BY SilentIs DEF Quiet, Locks
  <2>2. QED
    BY <2>1, HoldIs, PlaceIs
<1> HIDE DEF q
<1>2. Keeps(At(q, {p.on}), Nothing)
  BY <1>1, AtStates, NothingKeeps
<1>3. QED
  BY <1>2, QuietLockKeeps DEF q

LEMMA SerialPrintKeeps ==
  ASSUME NEW p \in Places, "SERIAL1" \notin p.held
  PROVE  Keeps(Here(p), SerialPrint)
BY QuietNothingKeeps DEF SerialPrint, Quiet, HandlerLocks

LEMMA VgaPrintKeeps ==
  ASSUME NEW p \in Places, "WRITER" \notin p.held
  PROVE  Keeps(Here(p), VgaPrint)
BY QuietNothingKeeps DEF VgaPrint, Quiet, HandlerLocks

(* A place where the allocator may be called, and may fail.                   *)
HeapOpen(p) ==
  /\ p \in Places /\ p.dead = "no" /\ p.who # "timer"
  /\ {"ALLOCATOR", "SERIAL1"} \cap p.held = {}
  /\ "WRITER" \in p.held => p.who = "boot"

LEMMA CheckKeeps ==
  ASSUME NEW p \in Places, NEW v \in SUBSET Flags, May(p, Ins("check", "none"))
  PROVE  Keeps(At(p, v), Check)
<1> DEFINE h == At(p, v)
<1>1. h \in SUBSET States
  BY AtStates
<1>2. Ins("check", "none") \in Instructions
  BY DEF Instructions
<1>3. ASSUME NEW s \in h
      PROVE  May(s.at, Ins("check", "none")) /\ After(s, Ins("check", "none")) \in h
  <2>1. s.at = p
    BY DEF At
  <2>2. After(s, Ins("check", "none")) = s
    BY DEF After, Ins
  <2>3. QED
    BY <2>1, <2>2
<1> HIDE DEF h
<1>4. Leads(h, Do("check", "none"), h)
  BY <1>1, <1>2, <1>3, OneLeads
<1>5. QED
  BY <1>4 DEF Check, Keeps, h

LEMMA HeapKeeps ==
  ASSUME NEW p, HeapOpen(p), NEW v \in SUBSET Flags
  PROVE  Keeps(At(p, v), Dealloc) /\ Keeps(At(p, v), Alloc) /\ Keeps(At(p, v), Heap)
<1>1. p \in Places /\ "ALLOCATOR" \in Locks /\ "ALLOCATOR" \notin Quiet
  BY DEF HeapOpen, Locks, HandlerLocks, Quiet
<1>2. CanLock(p, "ALLOCATOR")
  BY <1>1 DEF HeapOpen, CanLock, May, Ins, HandlerLocks
<1>3. Hold(p, "ALLOCATOR") \in Places
  BY <1>1, HoldIs
<1>4. Keeps(At(Hold(p, "ALLOCATOR"), v), Nothing)
  BY <1>3, AtStates, NothingKeeps
<1>5. Keeps(At(p, v), Dealloc)
  BY <1>2, <1>4, LockedKeeps DEF Dealloc
<1>6. May(p, Ins("check", "none"))
  BY DEF HeapOpen, May, Ins
<1>7. Keeps(At(p, v), Alloc)
  BY <1>1, <1>5, <1>6, CheckKeeps, ThenKeeps DEF Alloc
<1>8. Keeps(At(p, v), Alloc \cup Dealloc)
  BY <1>5, <1>7, EitherKeeps
<1>9. Keeps(At(p, v), Heap)
  BY <1>1, <1>8, AtStates, LoopKeeps DEF Heap
<1>10. QED
  BY <1>5, <1>7, <1>9

(* A place where both consoles and the heap can be used.                      *)
Open(p) == HeapOpen(p) /\ "WRITER" \notin p.held

LEMMA OpenKeeps ==
  ASSUME NEW p, Open(p)
  PROVE  /\ Here(p) \in SUBSET States
         /\ Keeps(Here(p), SerialPrint) /\ Keeps(Here(p), VgaPrint) /\ Keeps(Here(p), Both)
         /\ Keeps(Here(p), Dealloc) /\ Keeps(Here(p), Alloc) /\ Keeps(Here(p), Heap)
         /\ Keeps(Here(p), Message) /\ Keeps(Here(p), Loop(Both))
         /\ Keeps(Here(p), Loop(Message))
<1> DEFINE h == Here(p)
<1>1. p \in Places /\ "SERIAL1" \notin p.held /\ "WRITER" \notin p.held /\ HeapOpen(p)
  BY DEF Open, HeapOpen
<1>2. h \in SUBSET States
  BY <1>1, AtStates DEF Here
<1>3. Keeps(h, Dealloc) /\ Keeps(h, Alloc) /\ Keeps(h, Heap)
  BY <1>1, HeapKeeps DEF Here
<1>4. Keeps(h, SerialPrint) /\ Keeps(h, VgaPrint)
  BY <1>1, SerialPrintKeeps, VgaPrintKeeps
<1> HIDE DEF h
<1>5. Keeps(h, Both)
  BY <1>4, ThenKeeps DEF Both
<1>6. Keeps(h, Message)
  BY <1>3, <1>5, ThenKeeps DEF Message
<1>7. Keeps(h, Loop(Both)) /\ Keeps(h, Loop(Message))
  BY <1>2, <1>5, <1>6, LoopKeeps
<1>8. QED
  BY <1>2, <1>3, <1>4, <1>5, <1>6, <1>7 DEF h

(* A key event, in a handler or in the polling shell.                         *)
LEMMA KeyEventKeeps ==
  ASSUME NEW p, Open(p), "INPUT" \notin p.held
  PROVE  Keeps(Here(p), KeyEvent) /\ Keeps(Here(p), InputOnly)
<1> DEFINE h == Here(p)
           q == Hold(Silent(p), "INPUT")
           in == At(q, {p.on})
<1>1. p \in Places /\ p.dead = "no" /\ p.on \in Flags
  BY PlaceIs DEF Open, HeapOpen
<1>2. "INPUT" \in Quiet \ p.held /\ "INPUT" \in Locks
  BY DEF Quiet, HandlerLocks, Locks
<1>3. HeapOpen(q)
  <2>1. /\ Silent(p) \in Places /\ Silent(p).on = "off" /\ Silent(p).held = p.held
        /\ Silent(p).who = p.who /\ Silent(p).dead = p.dead
    BY <1>1, SilentIs
  <2>2. q \in Places /\ q.held = p.held \cup {"INPUT"} /\ q.who = p.who /\ q.dead = p.dead
    BY <1>2, <2>1, HoldIs
  <2> HIDE DEF q
  <2>3. QED
    BY <2>2 DEF Open, HeapOpen
<1> HIDE DEF q
<1>4. Keeps(in, Alloc) /\ Keeps(in, Heap) /\ in \in SUBSET States
  BY <1>1, <1>3, HeapKeeps, AtStates DEF HeapOpen
<1>5. Keeps(in, Maybe(Alloc))
  <2> HIDE DEF in
  <2>1. QED
    BY <1>4, MaybeKeeps
<1>6. Keeps(h, PushChar) /\ Keeps(h, CommitLine)
  BY <1>1, <1>2, <1>4, <1>5, QuietLockKeeps DEF PushChar, CommitLine, q
<1>7. Keeps(h, InputOnly)
  BY <1>1, <1>2, QuietNothingKeeps DEF InputOnly
<1>8. Keeps(h, Both) /\ h \in SUBSET States
  BY OpenKeeps
<1> HIDE DEF h
<1>9. /\ Keeps(h, PushChar ++ Both) /\ Keeps(h, CommitLine ++ Both)
      /\ Keeps(h, InputOnly ++ Maybe(Both))
  BY <1>6, <1>7, <1>8, MaybeKeeps, ThenKeeps
<1>10. Keeps(h, KeyEvent)
  BY <1>9, EitherKeeps DEF KeyEvent
<1>11. QED
  BY <1>7, <1>10 DEF h

(* A lock of the tasks, around text that leads back.                          *)
TaskOpen(p, l) == Open(p) /\ p.who \in {"boot", "task"} /\ l \in TaskLocks \ p.held

LEMMA TaskHold ==
  ASSUME NEW p, NEW l, TaskOpen(p, l)
  PROVE  /\ Open(Hold(p, l)) /\ CanLock(p, l) /\ Hold(p, l).who = p.who
         /\ Hold(p, l).held = p.held \cup {l} /\ Hold(p, l).on = p.on
<1> DEFINE q == Hold(p, l)
<1>1. /\ p \in Places /\ l \in Locks /\ l \notin Quiet /\ l \notin p.held
      /\ l \notin {"SERIAL1", "WRITER", "ALLOCATOR"} /\ p.who \notin Handlers /\ p.dead = "no"
  BY DEF TaskOpen, Open, HeapOpen, Locks, TaskLocks, Quiet, HandlerLocks, Handlers
<1>2. /\ q \in Places /\ q.held = p.held \cup {l} /\ q.who = p.who /\ q.dead = p.dead
      /\ q.on = p.on
  BY <1>1, HoldIs
<1> HIDE DEF q
<1>3. CanLock(p, l)
  BY <1>1 DEF CanLock, May, Ins, Handlers
<1>4. Open(q)
  BY <1>1, <1>2 DEF Open, HeapOpen, TaskOpen
<1>5. QED
  BY <1>2, <1>3, <1>4 DEF q

LEMMA TaskLockKeeps ==
  ASSUME NEW p, NEW l, TaskOpen(p, l), NEW body, Keeps(Here(Hold(p, l)), body)
  PROVE  Keeps(Here(p), Locked(l, body)) /\ Keeps(Here(p), LazyLocked(l, body))
<1>1. CanLock(p, l) /\ Flags \in SUBSET Flags
  BY TaskHold
<1>2. Keeps(Here(p), Locked(l, body))
  BY <1>1, LockedKeeps DEF Here
<1>3. Keeps(Here(p), Heap)
  BY OpenKeeps DEF TaskOpen
<1>4. QED
  BY <1>2, <1>3, ThenKeeps DEF LazyLocked

-----------------------------------------------------------------------------
(* The kernel's code.                                                         *)

Base(who) == Place(who, {}, IF who = "task" THEN "on" ELSE "off", "no")

(* A context ends its code with no lock and the interrupt flag it started     *)
(* with; a panic ends anyhow.                                                 *)
Ends == {s \in States : s.at.dead = "yes" \/ (s.at.who # "boot" /\ s.at = Base(s.at.who))}

LEMMA BaseIs ==
  ASSUME NEW who \in Contexts
  PROVE  /\ Base(who) \in Places /\ Base(who).who = who /\ Base(who).held = {}
         /\ Base(who).dead = "no" /\ Base(who).on = IF who = "task" THEN "on" ELSE "off"
         /\ who # "timer" => Open(Base(who))
         /\ who # "boot" => Here(Base(who)) \subseteq Ends
<1> DEFINE p == Base(who)
<1>1. /\ p \in [who : Contexts, held : SUBSET Locks, on : Flags, dead : {"yes", "no"}]
      /\ p.who = who /\ p.held = {} /\ p.dead = "no"
      /\ p.on = IF who = "task" THEN "on" ELSE "off"
  BY DEF Base, Place, Flags
<1> HIDE DEF p
<1>2. p \in Places
  BY <1>1 DEF Places
<1>3. who # "timer" => Open(p)
  BY <1>1, <1>2 DEF Open, HeapOpen
<1>4. who # "boot" => Here(p) \subseteq Ends
  <2>1. SUFFICES ASSUME who # "boot", NEW s \in Here(p) PROVE s \in Ends
    OBVIOUS
  <2>2. s.at = p /\ s \in States
    <3>1. Here(p) \in SUBSET States
      BY <1>2, AtStates DEF Here
    <3>2. s.at = p
      BY DEF Here, At
    <3>3. QED
      BY <3>1, <3>2
  <2>3. QED
    BY <2>1, <2>2, <1>1 DEF Ends, p
<1>5. QED
  BY <1>1, <1>2, <1>3, <1>4 DEF p

LEMMA LeadsFurther ==
  ASSUME NEW from, NEW text, NEW mid, NEW ends, Leads(from, text, mid), mid \subseteq ends
  PROVE  Leads(from, text, ends)
<1>1. SUFFICES ASSUME NEW c \in text, NEW s \in from PROVE Runs(c, s, ends)
  BY DEF Leads
<1>2. Runs(c, s, mid)
  BY DEF Leads
<1>3. QED
  BY <1>2 DEF Runs, Traces

(* The handlers.                                                              *)
LEMMA HandlerCodeLeads ==
  ASSUME NEW h \in Handlers
  PROVE  Leads(Here(Base(h)), HandlerCode(h), Ends)
<1> DEFINE p == Base(h)
           from == Here(p)
<1>1. /\ p \in Places /\ p.who = h /\ p.held = {} /\ p.dead = "no" /\ p.on = "off"
      /\ from \subseteq Ends /\ h \in Contexts
  <2>1. h \in Contexts /\ h # "task" /\ h # "boot"
    BY DEF Contexts, Handlers
  <2>2. QED
    BY <2>1, BaseIs
<1>2. h # "timer" => Open(p)
  BY <1>1, BaseIs
<1> HIDE DEF p
<1>3. from \in SUBSET States
  BY <1>1, AtStates DEF Here
<1>4. Keeps(from, EndOfInterrupt)
  <2>1. "PICS" \in Locks /\ "PICS" \in HandlerLocks /\ "PICS" \notin p.held
    BY <1>1 DEF Locks, HandlerLocks
  <2>2. CanLock(p, "PICS")
    BY <1>1, <2>1 DEF CanLock, May, Ins
  <2>3. Hold(p, "PICS") \in Places
    BY <1>1, <2>1, HoldIs
  <2>4. Keeps(At(Hold(p, "PICS"), Flags), Nothing)
    BY <2>3, AtStates, NothingKeeps
  <2>5. QED
    BY <2>2, <2>4, LockedKeeps DEF EndOfInterrupt, Here
<1>5. h # "timer" => Keeps(from, Maybe(KeyEvent)) /\ Keeps(from, Loop(KeyEvent))
  <2>1. SUFFICES ASSUME h # "timer"
                 PROVE  Keeps(from, Maybe(KeyEvent)) /\ Keeps(from, Loop(KeyEvent))
    OBVIOUS
  <2>2. Keeps(from, KeyEvent)
    BY <1>1, <1>2, <2>1, KeyEventKeeps
  <2> HIDE DEF from
  <2>3. QED
    BY <2>2, <1>3, MaybeKeeps, LoopKeeps
<1> HIDE DEF from
<1>6. Keeps(from, HandlerCode(h))
  <2>1. CASE h = "timer"
    BY <1>4, <2>1 DEF HandlerCode
  <2>2. CASE h = "keyboard"
    BY <1>4, <1>5, <2>2, ThenKeeps DEF HandlerCode
  <2>3. CASE h = "serial"
    BY <1>4, <1>5, <2>3, ThenKeeps DEF HandlerCode
  <2>4. QED
    BY <2>1, <2>2, <2>3 DEF Handlers
<1>7. QED
  BY <1>1, <1>6, LeadsFurther DEF Keeps, from, p

(* A panic, wherever it struck.                                               *)
LEMMA PanicHandlerLeads ==
  ASSUME NEW p \in Places, p.dead = "yes", "SERIAL1" \notin p.held,
         "WRITER" \in p.held => p.who = "boot"
  PROVE  Leads(Here(p), PanicHandler, Ends)
<1>1. Keeps(Here(p), SerialPrint)
  BY SerialPrintKeeps
<1>2. Leads(Here(p), VgaPrint, Ends)
  <2>1. CASE "WRITER" \notin p.held
    <3>1. Keeps(Here(p), VgaPrint)
      BY <2>1, VgaPrintKeeps
    <3>2. Here(p) \subseteq Ends
      BY AtStates DEF Here, At, Ends
    <3>3. QED
      BY <3>1, <3>2, LeadsFurther DEF Keeps
  <2>2. CASE "WRITER" \in p.held
    <3> DEFINE q == Silent(p)
               r == GiveBack(q, "WRITER")
               in == At(q, {p.on})
               last == At(r, {p.on})
               take == Ins("take", "WRITER")
               free == Ins("free", "WRITER")
    <3>1. p.who = "boot" /\ p.on = "off" /\ p.on \in Flags
      BY <2>2, PlaceIs DEF Flags
    <3>2. /\ q \in Places /\ q.on = "off" /\ q.held = p.held /\ q.who = "boot"
          /\ q.dead = "yes" /\ Hold(q, "WRITER") = q
      <4>1. /\ q \in Places /\ q.on = "off" /\ q.held = p.held /\ q.who = "boot"
            /\ q.dead = "yes"
        BY <3>1, SilentIs
      <4> HIDE DEF q
      <4>2. q.held \cup {"WRITER"} = q.held
        BY <4>1, <2>2
      <4>3. Hold(q, "WRITER") = q
        BY <4>1, <4>2, PlaceIs DEF Hold
      <4>4. QED
        BY <4>1, <4>3
    <3> HIDE DEF q
    <3>3. r \in Places /\ r.on = "off" /\ r.dead = "yes"
      <4>1. /\ r \in [who : Contexts, held : SUBSET Locks, on : Flags, dead : {"yes", "no"}]
            /\ r.on = "off" /\ r.dead = "yes"
        BY <3>2, PlaceIs DEF GiveBack
      <4> HIDE DEF r
      <4>2. QED
        BY <4>1 DEF Places
    <3>4. in \in SUBSET States /\ last \in SUBSET States /\ Here(p) \in SUBSET States
      <4> HIDE DEF r
      <4>1. QED
        BY <3>1, <3>2, <3>3, AtStates DEF Here
    <3>5. /\ Ins("cli", "none") \in Instructions /\ Ins("restore", "none") \in Instructions
          /\ take \in Instructions /\ free \in Instructions
      BY DEF Instructions, Locks, HandlerLocks
    <3>6. Leads(Here(p), Do("cli", "none"), in)
      <4>1. ASSUME NEW s \in Here(p)
            PROVE  May(s.at, Ins("cli", "none")) /\ After(s, Ins("cli", "none")) \in in
        <5>1. PICK w \in Flags : s = [at |-> p, was |-> w]
          BY DEF At, Here
        <5>2. After(s, Ins("cli", "none")) = [at |-> q, was |-> p.on]
          BY <5>1 DEF After, Ins, q
        <5>3. May(s.at, Ins("cli", "none"))
          BY DEF May, Ins
        <5>4. QED
          BY <5>2, <5>3 DEF At
      <4> HIDE DEF in
      <4>2. QED
        BY <4>1, <3>4, <3>5, OneLeads
    <3>7. Leads(in, Do("take", "WRITER"), in)
      <4>1. ASSUME NEW s \in in PROVE May(s.at, take) /\ After(s, take) \in in
        <5>1. s = [at |-> q, was |-> p.on]
          BY DEF At
        <5>2. After(s, take) = [at |-> q, was |-> p.on]
          BY <5>1, <3>2 DEF After, Ins
        <5>3. May(q, take)
          BY <3>2 DEF May, Ins, Handlers
        <5>4. QED
          BY <5>1, <5>2, <5>3 DEF At
      <4> HIDE DEF in
      <4>2. QED
        BY <4>1, <3>4, <3>5, OneLeads
    <3>8. Leads(in, Do("free", "WRITER"), last)
      <4>1. ASSUME NEW s \in in PROVE May(s.at, free) /\ After(s, free) \in last
        <5>1. s = [at |-> q, was |-> p.on]
          BY DEF At
        <5>2. After(s, free) = [at |-> r, was |-> p.on]
          BY <5>1, <3>2 DEF After, Ins
        <5>3. May(q, free)
          BY <2>2, <3>2 DEF May, Ins
        <5>4. QED
          BY <5>1, <5>2, <5>3 DEF At
      <4> HIDE DEF in, last
      <4>2. QED
        BY <4>1, <3>4, <3>5, OneLeads
    <3> HIDE DEF r
    <3>9. Leads(last, Do("restore", "none"), Ends)
      <4>1. ASSUME NEW s \in last
            PROVE  May(s.at, Ins("restore", "none")) /\ After(s, Ins("restore", "none")) \in Ends
        <5>1. s = [at |-> r, was |-> "off"]
          BY <3>1 DEF At
        <5>2. After(s, Ins("restore", "none"))
                = [s EXCEPT !.at.on = IF s.was = "on" THEN "on" ELSE s.at.on]
          BY DEF After, Ins
        <5>3. [r EXCEPT !.on = r.on] = r
          BY <3>3, PlaceIs
        <5>4. After(s, Ins("restore", "none")) = s
          BY <5>1, <5>2, <5>3
        <5>5. s \in Ends
          BY <5>1, <3>3 DEF Ends, States, Flags
        <5>6. May(s.at, Ins("restore", "none"))
          BY DEF May, Ins
        <5>7. QED
          BY <5>4, <5>5, <5>6
      <4>2. Ends \in SUBSET States
        BY DEF Ends
      <4> HIDE DEF last
      <4>3. QED
        BY <4>1, <4>2, <3>4, <3>5, OneLeads
    <3> HIDE DEF in, last
    <3>10. Leads(in, Nothing, in)
      BY <3>4, NothingKeeps DEF Keeps
    <3>11. Leads(in, Do("take", "WRITER") ++ Nothing, in)
      BY <3>7, <3>10, ThenLeads
    <3>12. Leads(in, Locked("WRITER", Nothing), last)
      BY <3>8, <3>11, ThenLeads DEF Locked
    <3>13. Leads(Here(p), InterruptsLeftOff(Locked("WRITER", Nothing)), last)
      BY <3>6, <3>12, ThenLeads DEF InterruptsLeftOff
    <3>14. QED
      BY <3>9, <3>13, ThenLeads DEF VgaPrint, WithoutInterrupts
  <2>3. QED
    BY <2>1, <2>2
<1>3. QED
  BY <1>1, <1>2, ThenLeads DEF Keeps, PanicHandler, Both

(* The pieces of task code that hold locks of tasks, at a place with none.     *)
Idle(p) == Open(p) /\ p.who \in {"boot", "task"} /\ p.held = {}

LEMMA LocksAreTaskLocks ==
  {"SCHEDULER", "FS", "CURRENT_DIR", "PROMPT", "DRIVERS", "NET_STACK", "VM_MANAGER"} \subseteq TaskLocks
BY DEF TaskLocks

LEMMA PwdKeeps ==
  ASSUME NEW p, TaskOpen(p, "CURRENT_DIR")
  PROVE  /\ Keeps(Here(p), Pwd)
         /\ \A body : body \in {Alloc, Dealloc} => Keeps(Here(p), LazyLocked("CURRENT_DIR", body))
<1> DEFINE in == Here(Hold(p, "CURRENT_DIR"))
<1>1. Open(Hold(p, "CURRENT_DIR"))
  BY TaskHold
<1>2. Keeps(in, Alloc) /\ Keeps(in, Dealloc)
  BY <1>1, OpenKeeps
<1>3. ASSUME NEW body \in {Alloc, Dealloc} PROVE Keeps(Here(p), LazyLocked("CURRENT_DIR", body))
  BY <1>2, TaskLockKeeps
<1> HIDE DEF in
<1>4. Keeps(Here(p), Both) /\ Keeps(Here(p), Dealloc)
  BY OpenKeeps DEF TaskOpen
<1>5. Keeps(Here(p), Pwd)
  BY <1>3, <1>4, ThenKeeps DEF Pwd
<1>6. QED
  BY <1>3, <1>5

LEMMA ResolveKeeps ==
  ASSUME NEW p, Idle(p)
  PROVE  Keeps(Here(p), Resolve) /\ Keeps(Here(p), Pwd)
<1> DEFINE h == Here(p)
<1>1. TaskOpen(p, "CURRENT_DIR")
  BY LocksAreTaskLocks DEF Idle, TaskOpen
<1>2. h \in SUBSET States /\ Keeps(h, Heap)
  BY OpenKeeps DEF Idle
<1>3. Keeps(h, Pwd) /\ Keeps(h, LazyLocked("CURRENT_DIR", Alloc))
  BY <1>1, PwdKeeps
<1> HIDE DEF h
<1>4. Keeps(h, Resolve)
  BY <1>2, <1>3, MaybeKeeps, ThenKeeps DEF Resolve
<1>5. QED
  BY <1>3, <1>4 DEF h

(* The commands on files, under FS.                                           *)
LEMMA FileCommandsKeep ==
  ASSUME NEW p, Idle(p)
  PROVE  /\ Keeps(Here(p), ChangeDirectory) /\ Keeps(Here(p), ListDirectory)
         /\ Keeps(Here(p), PrintTree) /\ Keeps(Here(p), FileCommand)
<1> DEFINE h == Here(p)
           q == Hold(p, "FS")
           in == Here(q)
           enter == Heap ++ Maybe(LazyLocked("CURRENT_DIR", Dealloc))
           list == Heap ++ Both ++ Loop(Both) ++ Dealloc
           tree == Both ++ Heap ++ Loop(Both) ++ Dealloc
<1>1. TaskOpen(p, "FS")
  BY LocksAreTaskLocks DEF Idle, TaskOpen
<1>2. Open(q) /\ q.who \in {"boot", "task"} /\ q.held = {"FS"}
  BY <1>1, TaskHold DEF Idle
<1> HIDE DEF q
<1>3. TaskOpen(q, "CURRENT_DIR")
  BY <1>2, LocksAreTaskLocks DEF TaskOpen
<1>4. /\ in \in SUBSET States /\ Keeps(in, Heap) /\ Keeps(in, Both) /\ Keeps(in, Dealloc)
      /\ Keeps(in, Loop(Both))
  BY <1>2, OpenKeeps
<1>5. Keeps(in, LazyLocked("CURRENT_DIR", Dealloc))
  BY <1>3, PwdKeeps
<1> HIDE DEF in
<1>6. Keeps(in, enter) /\ Keeps(in, list) /\ Keeps(in, tree)
  BY <1>4, <1>5, MaybeKeeps, ThenKeeps
<1> HIDE DEF enter, list, tree
<1>7. /\ Keeps(h, LazyLocked("FS", enter)) /\ Keeps(h, LazyLocked("FS", list))
      /\ Keeps(h, LazyLocked("FS", tree)) /\ Keeps(h, LazyLocked("FS", Heap))
  BY <1>1, <1>4, <1>6, TaskLockKeeps DEF in, q
<1>8. Keeps(h, Resolve) /\ Keeps(h, Pwd) /\ Keeps(h, Both)
  BY ResolveKeeps, OpenKeeps DEF Idle
<1> HIDE DEF h
<1>9. Keeps(h, Pwd \cup Both)
  BY <1>8, EitherKeeps
<1>10. Keeps(h, ChangeDirectory)
  BY <1>7, <1>8, <1>9, ThenKeeps DEF ChangeDirectory, enter
<1>11. Keeps(h, ListDirectory) /\ Keeps(h, FileCommand)
  BY <1>7, <1>8, ThenKeeps DEF ListDirectory, FileCommand, list
<1>12. Keeps(h, PrintTree)
  BY <1>7 DEF PrintTree, tree
<1>13. QED
  BY <1>10, <1>11, <1>12 DEF h

(* The prompt, the only place but cd where two locks of tasks are held.        *)
LEMMA PromptKeeps ==
  ASSUME NEW p, Idle(p)
  PROVE  Keeps(Here(p), PrintPrompt) /\ Keeps(Here(p), SetPrompt)
<1> DEFINE q == Hold(p, "PROMPT")
           in == Here(q)
<1>1. TaskOpen(p, "PROMPT")
  BY LocksAreTaskLocks DEF Idle, TaskOpen
<1>2. Open(q) /\ q.who \in {"boot", "task"} /\ q.held = {"PROMPT"}
  BY <1>1, TaskHold DEF Idle
<1> HIDE DEF q
<1>3. TaskOpen(q, "CURRENT_DIR")
  BY <1>2, LocksAreTaskLocks DEF TaskOpen
<1>4. Keeps(in, Pwd) /\ Keeps(in, Heap) /\ Keeps(in, Message)
  BY <1>2, <1>3, OpenKeeps, PwdKeeps
<1> HIDE DEF in
<1>5. Keeps(in, Heap ++ Message)
  BY <1>4, ThenKeeps
<1>6. QED
  BY <1>1, <1>4, <1>5, TaskLockKeeps DEF PrintPrompt, SetPrompt, in, q

(* The commands that print under the lock of what they print.                 *)
LEMMA PrintingKeeps ==
  ASSUME NEW p, Idle(p), NEW l \in TaskLocks
  PROVE  /\ Keeps(Here(p), Locked(l, Nothing)) /\ Keeps(Here(p), Locked(l, Both))
         /\ Keeps(Here(p), Locked(l, Loop(Both)))
         /\ Keeps(Here(p), LazyLocked(l, Heap ++ Both ++ Loop(Message)))
         /\ Keeps(Here(p), LazyLocked(l, Loop(Message)))
         /\ Keeps(Here(p), LazyLocked(l, Both ++ Loop(Message)))
<1> DEFINE q == Hold(p, l)
           in == Here(q)
<1>1. TaskOpen(p, l)
  BY DEF Idle, TaskOpen
<1>2. Open(q)
  BY <1>1, TaskHold
<1> HIDE DEF q
<1>3. /\ in \in SUBSET States /\ Keeps(in, Both) /\ Keeps(in, Loop(Both)) /\ Keeps(in, Heap)
      /\ Keeps(in, Loop(Message))
  BY <1>2, OpenKeeps
<1> HIDE DEF in
<1>4. /\ Keeps(in, Nothing) /\ Keeps(in, Both ++ Loop(Message))
      /\ Keeps(in, Heap ++ Both ++ Loop(Message))
  BY <1>3, NothingKeeps, ThenKeeps
<1>5. QED
  BY <1>1, <1>3, <1>4, TaskLockKeeps DEF in, q

LEMMA TaskCommandsKeep ==
  ASSUME NEW p, Idle(p)
  PROVE  /\ Keeps(Here(p), SchedulerStep) /\ Keeps(Here(p), SpawnOrKill)
         /\ Keeps(Here(p), ListTasks) /\ Keeps(Here(p), MemInfo) /\ Keeps(Here(p), SetColors)
         /\ Keeps(Here(p), ShowDrivers) /\ Keeps(Here(p), ShowNetwork)
         /\ Keeps(Here(p), ShowSpaces) /\ Keeps(Here(p), InitScheduler)
<1> DEFINE h == Here(p)
<1>1. /\ Keeps(h, Both) /\ Keeps(h, Message) /\ Keeps(h, Dealloc) /\ Keeps(h, SerialPrint)
      /\ Keeps(h, VgaPrint)
  BY OpenKeeps DEF Idle
<1>2. /\ Keeps(h, SchedulerStep) /\ Keeps(h, Locked("SCHEDULER", Loop(Both)))
      /\ Keeps(h, InitScheduler) /\ Keeps(h, ShowDrivers) /\ Keeps(h, ShowNetwork)
      /\ Keeps(h, ShowSpaces)
  BY LocksAreTaskLocks, PrintingKeeps
     DEF SchedulerStep, InitScheduler, ShowDrivers, ShowNetwork, ShowSpaces
<1> HIDE DEF h
<1>3. Keeps(h, Message \cup Both)
  BY <1>1, EitherKeeps
<1>4. Keeps(h, SpawnOrKill) /\ Keeps(h, ListTasks) /\ Keeps(h, MemInfo) /\ Keeps(h, SetColors)
  BY <1>1, <1>2, <1>3, ThenKeeps DEF SpawnOrKill, ListTasks, MemInfo, SetColors
<1>5. QED
  BY <1>2, <1>4 DEF h

(* Every section of the task.                                                 *)
LEMMA SectionsLead ==
  Leads(Here(Base("task")), Sections, Ends)
<1> DEFINE p == Base("task")
           h == Here(p)
<1>1. p \in Places /\ Idle(p) /\ Open(p) /\ p.held = {} /\ h \subseteq Ends /\ p.dead = "no"
  <2>1. "task" \in Contexts
    BY DEF Contexts
  <2>2. QED
    BY <2>1, BaseIs DEF Idle
<1> HIDE DEF p
<1>2. h \in SUBSET States
  BY <1>1, OpenKeeps
<1>3. Keeps(h, PanicCommand)
  <2> DEFINE panic == Ins("panic", "none")
  <2>1. panic \in Instructions
    BY DEF Instructions
  <2>2. ASSUME NEW s \in h PROVE May(s.at, panic) /\ After(s, panic) \in h
    <3>1. s.at = p
      BY DEF Here, At
    <3>2. May(p, panic)
      BY <1>1 DEF May, Ins
    <3>3. After(s, panic) = s
      BY DEF After, Ins
    <3>4. QED
      BY <3>1, <3>2, <3>3
  <2> HIDE DEF h
  <2>3. QED
    BY <1>2, <2>1, <2>2, OneLeads DEF PanicCommand, Keeps
<1>4. /\ Keeps(h, KeyEvent) /\ Keeps(h, InputOnly) /\ Keeps(h, Dealloc) /\ Keeps(h, Both)
      /\ Keeps(h, Message)
  BY <1>1, OpenKeeps, KeyEventKeeps
<1>5. Keeps(h, Pwd) /\ Keeps(h, PrintPrompt) /\ Keeps(h, SetPrompt)
  BY <1>1, ResolveKeeps, PromptKeeps
<1>6. /\ Keeps(h, ChangeDirectory) /\ Keeps(h, ListDirectory) /\ Keeps(h, PrintTree)
      /\ Keeps(h, FileCommand)
  BY <1>1, FileCommandsKeep
<1>7. /\ Keeps(h, SchedulerStep) /\ Keeps(h, SpawnOrKill) /\ Keeps(h, ListTasks)
      /\ Keeps(h, MemInfo) /\ Keeps(h, SetColors) /\ Keeps(h, ShowDrivers)
      /\ Keeps(h, ShowNetwork) /\ Keeps(h, ShowSpaces)
  BY <1>1, TaskCommandsKeep
<1> HIDE DEF h
<1>8. Keeps(h, Sections)
  BY <1>3, <1>4, <1>5, <1>6, <1>7, Zenon DEF Sections, Keeps, Leads
<1>9. QED
  BY <1>1, <1>8, LeadsFurther DEF Keeps, h, p

(* The boot: it may panic under WRITER, and otherwise has no lock when it      *)
(* enables interrupts.                                                        *)
LEMMA BootCodeLeads ==
  Leads(Here(Base("boot")), BootCode, Ends)
<1> DEFINE p == Base("boot")
           h == Here(p)
           t == Here(Base("task"))
<1>1. p \in Places /\ p.who = "boot" /\ p.held = {} /\ p.on = "off" /\ p.dead = "no" /\ Open(p)
  <2>1. "boot" \in Contexts
    BY DEF Contexts
  <2>2. QED
    BY <2>1, BaseIs
<1>2. Open(Base("task")) /\ t \subseteq Ends
  <2>1. "task" \in Contexts
    BY DEF Contexts
  <2>2. QED
    BY <2>1, BaseIs
<1>3. Leads(h, Do("sti", "none"), t)
  <2> DEFINE sti == Ins("sti", "none")
  <2>1. sti \in Instructions
    BY DEF Instructions
  <2>2. ASSUME NEW s \in h PROVE May(s.at, sti) /\ After(s, sti) \in t
    <3>1. PICK w \in Flags : s = [at |-> p, was |-> w]
      BY DEF Here, At
    <3>2. May(p, sti)
      BY <1>1 DEF May, Ins
    <3>3. Base("task") = Place("task", {}, "on", "no")
      BY DEF Base
    <3> HIDE DEF p
    <3>4. After(s, sti) = [at |-> Base("task"), was |-> w]
      BY <1>1, <3>1, <3>3 DEF After, Ins
    <3>5. s.at = p
      BY <3>1
    <3>6. QED
      BY <3>2, <3>4, <3>5 DEF Here, At
  <2>3. h \in SUBSET States /\ t \in SUBSET States
    BY <1>1, <1>2, OpenKeeps
  <2> HIDE DEF h, t
  <2>4. QED
    BY <2>1, <2>2, <2>3, OneLeads
<1>4. Leads(t, Both, Ends)
  <2>1. Keeps(t, Both)
    BY <1>2, OpenKeeps
  <2> HIDE DEF t
  <2>2. QED
    BY <2>1, <1>2, LeadsFurther DEF Keeps
<1> HIDE DEF p, t
<1>5. Idle(p)
  BY <1>1 DEF Idle
<1>6. /\ h \in SUBSET States /\ Keeps(h, SerialPrint) /\ Keeps(h, Both) /\ Keeps(h, Alloc)
      /\ Keeps(h, Dealloc)
  BY <1>1, OpenKeeps
<1>7. Keeps(h, InitScheduler) /\ Keeps(h, PrintPrompt)
  BY <1>5, TaskCommandsKeep, PromptKeeps
<1>8. Keeps(h, InitPics)
  <2>1. "PICS" \in Locks /\ "PICS" \notin p.held
    BY <1>1 DEF Locks, HandlerLocks
  <2>2. CanLock(p, "PICS")
    BY <1>1, <2>1 DEF CanLock, May, Ins, Handlers
  <2>3. Hold(p, "PICS") \in Places
    BY <1>1, <2>1, HoldIs
  <2>4. Keeps(At(Hold(p, "PICS"), Flags), Nothing)
    BY <2>3, AtStates, NothingKeeps
  <2>5. QED
    BY <2>2, <2>4, LockedKeeps DEF InitPics, Here
<1>9. Keeps(h, Check)
  BY <1>1, CheckKeeps DEF May, Ins, Here
<1>10. Keeps(h, InitFramebuffer)
  <2> DEFINE q == Hold(Silent(p), "WRITER")
  <2>1. "WRITER" \in Quiet \ p.held /\ "WRITER" \in Locks /\ p.on \in Flags
    BY <1>1 DEF Quiet, HandlerLocks, Locks, Flags
  <2>2. /\ Silent(p) \in Places /\ Silent(p).on = "off" /\ Silent(p).held = p.held
        /\ Silent(p).who = p.who /\ Silent(p).dead = p.dead
    BY <1>1, SilentIs
  <2>3. q \in Places /\ q.held = {"WRITER"} /\ q.who = "boot" /\ q.dead = "no"
    BY <1>1, <2>1, <2>2, HoldIs
  <2> HIDE DEF q
  <2>4. May(q, Ins("check", "none"))
    BY <2>3 DEF May, Ins
  <2>5. Keeps(At(q, {p.on}), Check)
    BY <2>1, <2>3, <2>4, CheckKeeps
  <2>6. QED
    BY <1>1, <2>1, <2>5, QuietLockKeeps DEF InitFramebuffer, q
<1> HIDE DEF h
<1>11. Keeps(h, InitHeap) /\ Keeps(h, Breakpoint)
  BY <1>6, <1>9, ThenKeeps DEF InitHeap, Breakpoint
<1>12. Keeps(h, Loop(Alloc ++ SerialPrint))
  BY <1>6, ThenKeeps, LoopKeeps
<1> DEFINE most == InitFramebuffer ++ SerialPrint ++ InitPics ++ SerialPrint ++ Breakpoint
                   ++ SerialPrint ++ InitHeap ++ SerialPrint ++ Loop(Alloc ++ SerialPrint)
                   ++ InitScheduler ++ SerialPrint ++ Both ++ PrintPrompt
<1>13. Keeps(h, most)
  BY <1>6, <1>7, <1>8, <1>10, <1>11, <1>12, ThenKeeps
<1>14. BootCode = most ++ Do("sti", "none") ++ Both
  BY DEF BootCode
<1> HIDE DEF most
<1>15. Leads(h, most ++ Do("sti", "none"), t)
  BY <1>3, <1>13, ThenLeads DEF Keeps
<1>16. QED
  BY <1>4, <1>14, <1>15, ThenLeads DEF h, p

-----------------------------------------------------------------------------
(* The inductive invariant: the code of every context on the stack runs on as  *)
(* above from where the context is.  A context that was interrupted could be.  *)

Frames == [who : Contexts, code : Seq(Instructions), wasEnabled : BOOLEAN, panicking : BOOLEAN]

Flag(b) == IF b THEN "on" ELSE "off"
Held(o, who) == {l \in Locks : o[l] = who}
PlaceOf(f, o, flag) == Place(f.who, Held(o, f.who), flag, IF f.panicking THEN "yes" ELSE "no")
StateOf(f, o, flag) == [at |-> PlaceOf(f, o, flag), was |-> Flag(f.wasEnabled)]
Fine(f, o, flag)    == Runs(f.code, StateOf(f, o, flag), Ends)

(* The context on top, with the locks that it or those below it hold.         *)
Atop(t, o, b, below) ==
  /\ t \in Frames /\ b \in BOOLEAN /\ o \in [Locks -> Contexts \cup {"free"}]
  /\ t.who \notin below /\ "free" \notin below
  /\ \A l \in Locks : o[l] \in {"free", t.who} \cup below
  /\ Fine(t, o, Flag(b))

Below(st) == IF Len(st) = 1 THEN {} ELSE {st[1].who}

CpuFine(st, o, b) ==
  /\ st \in Seq(Frames) /\ Len(st) \in 1 .. 2
  /\ st[1].who \in {"boot", "task"}
  /\ Len(st) = 2 => st[2].who \in Handlers /\ Fine(st[1], o, "on")
  /\ Atop(Last(st), o, b, Below(st))

LockInv == CpuFine(stack, owner, ifFlag)

LEMMA FrameIs ==
  ASSUME NEW f \in Frames
  PROVE  /\ f.who \in Contexts /\ f.code \in Seq(Instructions)
         /\ f.wasEnabled \in BOOLEAN /\ f.panicking \in BOOLEAN
BY DEF Frames

LEMMA InstructionIs ==
  ASSUME NEW i \in Instructions
  PROVE  /\ i.op \in {"take", "free"} => i.lock \in Locks
         /\ i = Ins(i.op, i.lock)
BY DEF Instructions, Ins

(* What the steps of the context on top leave to the contexts below.          *)
Others(o, p, below) == \A w \in below : Held(p, w) = Held(o, w)

LEMMA TopIs ==
  ASSUME NEW t, NEW o, NEW b, NEW below, Atop(t, o, b, below)
  PROVE  /\ PlaceOf(t, o, Flag(b)) \in Places /\ StateOf(t, o, Flag(b)) \in States
         /\ b => t.who = "task" /\ Held(o, "task") \cap Quiet = {}
         /\ t.who # "free"
<1> DEFINE s == StateOf(t, o, Flag(b))
           p == PlaceOf(t, o, Flag(b))
<1>1. s \in States
  BY RunsIsCode DEF Atop, Fine
<1>2. s.at = p
  BY DEF StateOf
<1>3. p \in Places
  <2> HIDE DEF s, p
  <2>1. QED
    BY <1>1, <1>2 DEF States
<1>4. p.on = Flag(b) /\ p.who = t.who /\ p.held = Held(o, t.who)
  BY DEF PlaceOf, Place
<1>5. b => p.on = "on"
  BY <1>4 DEF Flag
<1>6. t.who \in Contexts
  BY FrameIs DEF Atop
<1> HIDE DEF p
<1>7. QED
  BY <1>1, <1>3, <1>4, <1>5, <1>6, PlaceIs DEF p, Contexts, Handlers

LEMMA PlaceChanges ==
  ASSUME NEW w, NEW h, NEW on, NEW d, NEW l, NEW g
  PROVE  /\ g = h \cup {l} => Hold(Place(w, h, on, d), l) = Place(w, g, on, d)
         /\ g = h \ {l} => GiveBack(Place(w, h, on, d), l) = Place(w, g, on, d)
<1> DEFINE p == Place(w, h, on, d)
<1>1. p.held = h
  BY DEF Place
<1>2. [p EXCEPT !.held = g] = Place(w, g, on, d)
  BY DEF Place
<1> HIDE DEF p
<1>3. g = h \cup {l} => Hold(p, l) = [p EXCEPT !.held = g]
  BY <1>1 DEF Hold
<1>4. g = h \ {l} => GiveBack(p, l) = [p EXCEPT !.held = g]
  BY <1>1 DEF GiveBack
<1>5. QED
  BY <1>2, <1>3, <1>4 DEF p

LEMMA TakeFine ==
  ASSUME NEW t, NEW o, NEW b, NEW below, Atop(t, o, b, below), t.code # <<>>,
         Head(t.code).op = "take", o[Head(t.code).lock] = "free"
  PROVE  LET q == [o EXCEPT ![Head(t.code).lock] = t.who]
         IN  Atop([t EXCEPT !.code = Tail(@)], q, b, below) /\ Others(o, q, below)
<1> DEFINE i == Head(t.code)
           l == i.lock
           q == [o EXCEPT ![l] = t.who]
           u == [t EXCEPT !.code = Tail(@)]
           s == StateOf(t, o, Flag(b))
<1>1. Runs(t.code, s, Ends)
  BY DEF Atop, Fine
<1>2. i \in Instructions /\ Tail(t.code) \in Seq(Instructions) /\ Runs(Tail(t.code), After(s, i), Ends)
  <2> HIDE DEF s
  <2>1. QED
    BY <1>1, FirstRuns
<1>3. l \in Locks /\ t \in Frames /\ t.who \in Contexts /\ t.who # "free"
  BY <1>2, InstructionIs, TopIs, FrameIs DEF Atop
<1>4. /\ u \in Frames /\ u.who = t.who /\ u.code = Tail(t.code)
      /\ u.wasEnabled = t.wasEnabled /\ u.panicking = t.panicking
  BY <1>2, <1>3 DEF Frames
<1>5. i.op = "take"
  OBVIOUS
<1> HIDE DEF i
<1>6. q \in [Locks -> Contexts \cup {"free"}] /\ q[l] = t.who
      /\ \A k \in Locks \ {l} : q[k] = o[k]
  BY <1>3 DEF Atop
<1>7. o[l] = "free"
  BY DEF i
<1> HIDE DEF q, l
<1>8. Held(q, t.who) = Held(o, t.who) \cup {l}
  BY <1>3, <1>6 DEF Held
<1>9. Others(o, q, below)
  BY <1>3, <1>6, <1>7 DEF Others, Held, Atop
<1>10. StateOf(u, q, Flag(b)) = After(s, i)
  <2>1. After(s, i) = [s EXCEPT !.at = Hold(s.at, l)]
    BY <1>5 DEF After, l
  <2> HIDE DEF u
  <2>2. Hold(PlaceOf(t, o, Flag(b)), l) = PlaceOf(u, q, Flag(b))
    <3> DEFINE d == IF t.panicking THEN "yes" ELSE "no"
               h == Held(o, t.who)
               w == t.who
               a == Flag(b)
               g == Held(q, t.who)
    <3>1. PlaceOf(t, o, a) = Place(w, h, a, d)
      BY DEF PlaceOf
    <3>2. PlaceOf(u, q, a) = Place(w, g, a, d)
      BY <1>4, Zenon DEF PlaceOf
    <3> HIDE DEF d, h, w, a, g
    <3>3. g = h \cup {l}
      BY <1>8, Zenon DEF g, h
    <3>4. Hold(Place(w, h, a, d), l) = Place(w, g, a, d)
      BY <3>3, PlaceChanges, SMTT(30)
    <3>5. QED
      BY <3>1, <3>2, <3>4, Zenon DEF a
  <2>3. s = [at |-> PlaceOf(t, o, Flag(b)), was |-> Flag(t.wasEnabled)]
    BY DEF StateOf
  <2> HIDE DEF s
  <2>4. After(s, i) = [at |-> PlaceOf(u, q, Flag(b)), was |-> Flag(t.wasEnabled)]
    BY <2>1, <2>2, <2>3
  <2>5. QED
    BY <1>4, <2>4 DEF StateOf
<1>11. Fine(u, q, Flag(b))
  BY <1>2, <1>4, <1>10 DEF Fine
<1>12. \A k \in Locks : q[k] \in {"free", t.who} \cup below
  BY <1>6 DEF Atop
<1> HIDE DEF u
<1>13. Atop(u, q, b, below)
  BY <1>4, <1>6, <1>11, <1>12 DEF Atop
<1>14. QED
  BY <1>9, <1>13 DEF u, q, l, i

LEMMA FreeFine ==
  ASSUME NEW t, NEW o, NEW b, NEW below, Atop(t, o, b, below), t.code # <<>>,
         Head(t.code).op = "free"
  PROVE  LET q == [o EXCEPT ![Head(t.code).lock] = "free"]
         IN  Atop([t EXCEPT !.code = Tail(@)], q, b, below) /\ Others(o, q, below)
<1> DEFINE i == Head(t.code)
           l == i.lock
           q == [o EXCEPT ![l] = "free"]
           u == [t EXCEPT !.code = Tail(@)]
           s == StateOf(t, o, Flag(b))
<1>1. Runs(t.code, s, Ends) /\ s.at.held = Held(o, t.who)
  BY DEF Atop, Fine, StateOf, PlaceOf, Place
<1>2. /\ i \in Instructions /\ Tail(t.code) \in Seq(Instructions) /\ May(s.at, i)
      /\ Runs(Tail(t.code), After(s, i), Ends)
  <2> HIDE DEF s
  <2>1. QED
    BY <1>1, FirstRuns
<1>3. l \in Locks /\ t \in Frames /\ t.who \in Contexts /\ t.who # "free"
  BY <1>2, InstructionIs, TopIs, FrameIs DEF Atop
<1>4. /\ u \in Frames /\ u.who = t.who /\ u.code = Tail(t.code)
      /\ u.wasEnabled = t.wasEnabled /\ u.panicking = t.panicking
  BY <1>2, <1>3 DEF Frames
<1>5. i.op = "free"
  OBVIOUS
<1> HIDE DEF i
<1>6. q \in [Locks -> Contexts \cup {"free"}] /\ q[l] = "free"
      /\ \A k \in Locks \ {l} : q[k] = o[k]
  BY <1>3 DEF Atop
<1>7. o[l] = t.who
  BY <1>1, <1>2, <1>3, <1>5 DEF May, Held
<1> HIDE DEF q, l
<1>8. Held(q, t.who) = Held(o, t.who) \ {l}
  BY <1>3, <1>6 DEF Held
<1>9. Others(o, q, below)
  BY <1>3, <1>6, <1>7 DEF Others, Held, Atop
<1>10. StateOf(u, q, Flag(b)) = After(s, i)
  <2>1. After(s, i) = [s EXCEPT !.at = GiveBack(s.at, l)]
    BY <1>5 DEF After, l
  <2> HIDE DEF u
  <2>2. GiveBack(PlaceOf(t, o, Flag(b)), l) = PlaceOf(u, q, Flag(b))
    <3> DEFINE d == IF t.panicking THEN "yes" ELSE "no"
               h == Held(o, t.who)
               w == t.who
               a == Flag(b)
               g == Held(q, t.who)
    <3>1. PlaceOf(t, o, a) = Place(w, h, a, d)
      BY DEF PlaceOf
    <3>2. PlaceOf(u, q, a) = Place(w, g, a, d)
      BY <1>4, Zenon DEF PlaceOf
    <3> HIDE DEF d, h, w, a, g
    <3>3. g = h \ {l}
      BY <1>8, Zenon DEF g, h
    <3>4. GiveBack(Place(w, h, a, d), l) = Place(w, g, a, d)
      BY <3>3, PlaceChanges, SMTT(30)
    <3>5. QED
      BY <3>1, <3>2, <3>4, Zenon DEF a
  <2>3. s = [at |-> PlaceOf(t, o, Flag(b)), was |-> Flag(t.wasEnabled)]
    BY DEF StateOf
  <2> HIDE DEF s
  <2>4. After(s, i) = [at |-> PlaceOf(u, q, Flag(b)), was |-> Flag(t.wasEnabled)]
    BY <2>1, <2>2, <2>3
  <2>5. QED
    BY <1>4, <2>4 DEF StateOf
<1>11. Fine(u, q, Flag(b))
  BY <1>2, <1>4, <1>10 DEF Fine
<1>12. \A k \in Locks : q[k] \in {"free", t.who} \cup below
  BY <1>6 DEF Atop
<1> HIDE DEF u
<1>13. Atop(u, q, b, below)
  BY <1>4, <1>6, <1>11, <1>12 DEF Atop
<1>14. QED
  BY <1>9, <1>13 DEF u, q, l, i

(* An instruction that leaves the locks alone.                                *)
LEMMA OtherFine ==
  ASSUME NEW t, NEW o, NEW b, NEW below, Atop(t, o, b, below), t.code # <<>>,
         NEW u \in Frames, u.code = Tail(t.code), u.who \notin below, NEW a \in BOOLEAN,
         \A l \in Locks : o[l] \in {"free", u.who} \cup below,
         StateOf(u, o, Flag(a)) = After(StateOf(t, o, Flag(b)), Head(t.code))
  PROVE  Atop(u, o, a, below) /\ Others(o, o, below)
<1> DEFINE s == StateOf(t, o, Flag(b))
<1>1. Runs(t.code, s, Ends)
  BY DEF Atop, Fine
<1>2. Runs(Tail(t.code), After(s, Head(t.code)), Ends)
  <2> HIDE DEF s
  <2>1. QED
    BY <1>1, FirstRuns
<1>3. Fine(u, o, Flag(a))
  BY <1>2 DEF Fine
<1>4. QED
  BY <1>3 DEF Atop, Others

LEMMA CliFine ==
  ASSUME NEW t, NEW o, NEW b, NEW below, Atop(t, o, b, below), t.code # <<>>,
         Head(t.code).op = "cli"
  PROVE  LET u == [t EXCEPT !.code = Tail(@)]
         IN  Atop([u EXCEPT !.wasEnabled = b], o, FALSE, below) /\ Others(o, o, below)
<1> DEFINE u == [[t EXCEPT !.code = Tail(@)] EXCEPT !.wasEnabled = b]
           p == PlaceOf(t, o, Flag(b))
           s == StateOf(t, o, Flag(b))
<1>1. t \in Frames /\ b \in BOOLEAN /\ Tail(t.code) \in Seq(Instructions)
  BY FrameIs DEF Atop
<1>2. /\ u \in Frames /\ u.who = t.who /\ u.code = Tail(t.code)
      /\ u.wasEnabled = b /\ u.panicking = t.panicking
  BY <1>1 DEF Frames
<1> HIDE DEF u
<1>3. StateOf(u, o, Flag(FALSE)) = After(s, Head(t.code))
  <2>1. s = [at |-> p, was |-> Flag(t.wasEnabled)] /\ p.on = Flag(b)
    BY DEF StateOf, PlaceOf, Place
  <2>2. Silent(p) = PlaceOf(u, o, Flag(FALSE))
    BY <1>2 DEF Silent, PlaceOf, Place, Flag
  <2> HIDE DEF s, p
  <2>3. After(s, Head(t.code)) = [at |-> Silent(p), was |-> Flag(b)]
    BY <2>1 DEF After
  <2>4. QED
    BY <1>2, <2>2, <2>3 DEF StateOf
<1>4. FALSE \in BOOLEAN /\ u.who \notin below /\ \A l \in Locks : o[l] \in {"free", u.who} \cup below
  BY <1>2 DEF Atop
<1> HIDE DEF s, p
<1>5. Atop(u, o, FALSE, below) /\ Others(o, o, below)
  BY <1>2, <1>3, <1>4, OtherFine DEF s
<1>6. QED
  BY <1>5 DEF u

LEMMA RestoreFine ==
  ASSUME NEW t, NEW o, NEW b, NEW below, Atop(t, o, b, below), t.code # <<>>,
         Head(t.code).op = "restore"
  PROVE  Atop([t EXCEPT !.code = Tail(@)], o, b \/ t.wasEnabled, below) /\ Others(o, o, below)
<1> DEFINE u == [t EXCEPT !.code = Tail(@)]
           p == PlaceOf(t, o, Flag(b))
           s == StateOf(t, o, Flag(b))
           a == b \/ t.wasEnabled
<1>1. t \in Frames /\ b \in BOOLEAN /\ Tail(t.code) \in Seq(Instructions) /\ t.wasEnabled \in BOOLEAN
  BY FrameIs DEF Atop
<1>2. /\ u \in Frames /\ u.who = t.who /\ u.code = Tail(t.code)
      /\ u.wasEnabled = t.wasEnabled /\ u.panicking = t.panicking
  BY <1>1 DEF Frames
<1> HIDE DEF u
<1>3. StateOf(u, o, Flag(a)) = After(s, Head(t.code))
  <2>1. /\ s = [at |-> p, was |-> Flag(t.wasEnabled)] /\ p.on = Flag(b)
        /\ p = [who |-> t.who, held |-> Held(o, t.who), on |-> Flag(b),
                dead |-> IF t.panicking THEN "yes" ELSE "no"]
    BY DEF StateOf, PlaceOf, Place
  <2>2. (IF Flag(t.wasEnabled) = "on" THEN "on" ELSE Flag(b)) = Flag(a)
    BY <1>1 DEF Flag
  <2> HIDE DEF a
  <2>3. [p EXCEPT !.on = Flag(a)] = PlaceOf(u, o, Flag(a))
    BY <1>2, <2>1 DEF PlaceOf, Place
  <2> HIDE DEF s, p
  <2>4. After(s, Head(t.code)) = [s EXCEPT !.at.on = IF s.was = "on" THEN "on" ELSE s.at.on]
    BY DEF After
  <2>5. After(s, Head(t.code)) = [at |-> [p EXCEPT !.on = Flag(a)], was |-> Flag(t.wasEnabled)]
    BY <2>1, <2>2, <2>4
  <2>6. QED
    BY <1>2, <2>3, <2>5 DEF StateOf
<1>4. a \in BOOLEAN /\ u.who \notin below /\ \A l \in Locks : o[l] \in {"free", u.who} \cup below
  BY <1>1, <1>2 DEF Atop
<1> HIDE DEF s, p, a
<1>5. Atop(u, o, a, below) /\ Others(o, o, below)
  BY <1>2, <1>3, <1>4, OtherFine DEF s
<1>6. QED
  BY <1>5 DEF u, a

LEMMA StiFine ==
  ASSUME NEW t, NEW o, NEW b, Atop(t, o, b, {}), t.code # <<>>, Head(t.code).op = "sti"
  PROVE  LET u == [t EXCEPT !.code = Tail(@)]
         IN  Atop([u EXCEPT !.who = "task"], o, TRUE, {})
<1> DEFINE u == [[t EXCEPT !.code = Tail(@)] EXCEPT !.who = "task"]
           p == PlaceOf(t, o, Flag(b))
           s == StateOf(t, o, Flag(b))
<1>1. t \in Frames /\ Tail(t.code) \in Seq(Instructions) /\ "task" \in Contexts
  BY FrameIs DEF Atop, Contexts
<1>2. /\ u \in Frames /\ u.who = "task" /\ u.code = Tail(t.code)
      /\ u.wasEnabled = t.wasEnabled /\ u.panicking = t.panicking
  BY <1>1 DEF Frames
<1> HIDE DEF u
<1>3. Runs(t.code, s, Ends) /\ s.at = p
  BY DEF Atop, Fine, StateOf
<1>4. May(p, Head(t.code))
  <2> HIDE DEF s
  <2>1. QED
    BY <1>3, FirstRuns
<1>5. p.held = Held(o, t.who) /\ p.who = t.who
  BY DEF PlaceOf, Place
<1> HIDE DEF p
<1>6. t.who = "boot" /\ Held(o, t.who) = {}
  BY <1>4, <1>5 DEF May
<1>7. \A l \in Locks : o[l] = "free"
  BY <1>6 DEF Held, Atop
<1>8. Held(o, "task") = {}
  BY <1>7 DEF Held
<1>9. StateOf(u, o, Flag(TRUE)) = After(s, Head(t.code))
  <2>1. s = [at |-> p, was |-> Flag(t.wasEnabled)]
    BY DEF StateOf, p
  <2>2. p.held = {} /\ p.dead = IF t.panicking THEN "yes" ELSE "no"
    BY <1>6 DEF PlaceOf, Place, p
  <2> DEFINE d == IF t.panicking THEN "yes" ELSE "no"
  <2>3. PlaceOf(u, o, Flag(TRUE)) = Place("task", {}, "on", d)
    <3>1. Flag(TRUE) = "on" /\ Held(o, u.who) = {}
      BY <1>2, <1>8 DEF Flag
    <3>2. QED
      BY <1>2, <3>1, Zenon DEF PlaceOf
  <2>4. p.held = {} /\ p.dead = d
    BY <2>2
  <2> HIDE DEF d, s
  <2>5. After(s, Head(t.code)) = [at |-> Place("task", {}, "on", d), was |-> Flag(t.wasEnabled)]
    BY <2>1, <2>4 DEF After
  <2>6. QED
    BY <1>2, <2>3, <2>5 DEF StateOf
<1>10. u.who \notin {} /\ \A l \in Locks : o[l] \in {"free", u.who} \cup {}
  BY <1>7
<1>11. Atop(u, o, TRUE, {})
  <2> HIDE DEF s
  <2>1. QED
    BY <1>2, <1>9, <1>10, OtherFine DEF s
<1>12. QED
  BY <1>11 DEF u

LEMMA CheckFine ==
  ASSUME NEW t, NEW o, NEW b, NEW below, Atop(t, o, b, below), t.code # <<>>,
         Head(t.code).op = "check"
  PROVE  Atop([t EXCEPT !.code = Tail(@)], o, b, below) /\ Others(o, o, below)
<1> DEFINE u == [t EXCEPT !.code = Tail(@)]
           s == StateOf(t, o, Flag(b))
<1>1. t \in Frames /\ b \in BOOLEAN /\ Tail(t.code) \in Seq(Instructions)
  BY FrameIs DEF Atop
<1>2. /\ u \in Frames /\ u.who = t.who /\ u.code = Tail(t.code)
      /\ u.wasEnabled = t.wasEnabled /\ u.panicking = t.panicking
  BY <1>1 DEF Frames
<1> HIDE DEF u
<1>3. StateOf(u, o, Flag(b)) = s
  BY <1>2 DEF StateOf, PlaceOf, Place
<1> HIDE DEF s
<1>4. After(s, Head(t.code)) = s
  BY DEF After
<1>5. u.who \notin below /\ \A l \in Locks : o[l] \in {"free", u.who} \cup below
  BY <1>2 DEF Atop
<1>6. Atop(u, o, b, below) /\ Others(o, o, below)
  BY <1>1, <1>2, <1>3, <1>4, <1>5, OtherFine DEF s
<1>7. QED
  BY <1>6 DEF u

LEMMA PanicFine ==
  ASSUME NEW t, NEW o, NEW b, NEW below, Atop(t, o, b, below), t.code # <<>>,
         Head(t.code).op \in {"check", "panic"}, NEW code \in PanicHandler
  PROVE  Atop([t EXCEPT !.code = code, !.panicking = TRUE], o, b, below) /\ Others(o, o, below)
<1> DEFINE u == [t EXCEPT !.code = code, !.panicking = TRUE]
           p == PlaceOf(t, o, Flag(b))
           q == [p EXCEPT !.dead = "yes"]
           s == StateOf(t, o, Flag(b))
<1>1. Runs(t.code, s, Ends) /\ s.at = p
  BY DEF Atop, Fine, StateOf
<1>2. May(p, Head(t.code)) /\ p \in Places
  <2>1. p \in Places
    BY TopIs
  <2> HIDE DEF s, p
  <2>2. QED
    BY <1>1, <2>1, FirstRuns
<1>3. p = [who |-> t.who, held |-> Held(o, t.who), on |-> Flag(b),
           dead |-> IF t.panicking THEN "yes" ELSE "no"]
  BY DEF PlaceOf, Place
<1> HIDE DEF p
<1>4. /\ q \in [who : Contexts, held : SUBSET Locks, on : Flags, dead : {"yes", "no"}]
      /\ q.dead = "yes" /\ q.on = p.on /\ q.held = p.held /\ q.who = p.who
  BY <1>2, PlaceIs
<1>5. q = [who |-> t.who, held |-> Held(o, t.who), on |-> Flag(b), dead |-> "yes"]
  BY <1>3
<1> HIDE DEF q
<1>6. q \in Places
  BY <1>2, <1>4, PlaceIs DEF Places
<1>7. "SERIAL1" \notin q.held /\ ("WRITER" \in q.held => q.who = "boot")
  BY <1>2, <1>4 DEF May
<1>8. Leads(Here(q), PanicHandler, Ends)
  BY <1>4, <1>6, <1>7, PanicHandlerLeads
<1>9. t \in Frames /\ t.wasEnabled \in BOOLEAN
  BY FrameIs DEF Atop
<1>10. [at |-> q, was |-> Flag(t.wasEnabled)] \in Here(q)
  BY <1>9 DEF Here, At, Flag, Flags
<1>11. Runs(code, [at |-> q, was |-> Flag(t.wasEnabled)], Ends)
  BY <1>8, <1>10 DEF Leads
<1>12. code \in Seq(Instructions)
  BY <1>11, RunsIsCode
<1>13. /\ u \in Frames /\ u.who = t.who /\ u.code = code
       /\ u.wasEnabled = t.wasEnabled /\ u.panicking = TRUE
  BY <1>9, <1>12 DEF Frames
<1> HIDE DEF u
<1>14. StateOf(u, o, Flag(b)) = [at |-> q, was |-> Flag(t.wasEnabled)]
  BY <1>5, <1>13 DEF StateOf, PlaceOf, Place
<1>15. Fine(u, o, Flag(b))
  BY <1>11, <1>13, <1>14 DEF Fine
<1>16. QED
  BY <1>13, <1>15 DEF Atop, Others, u

-----------------------------------------------------------------------------
(* Stacks of one or two contexts.                                             *)
LEMMA StackIs ==
  ASSUME NEW st \in Seq(Frames), Len(st) \in 1 .. 2
  PROVE  /\ st # <<>> /\ Last(st) \in Frames /\ Last(st) = st[Len(st)] /\ st[1] \in Frames
         /\ Front(st) \in Seq(Frames) /\ Len(Front(st)) = Len(st) - 1
         /\ Len(st) = 2 => Front(st)[1] = st[1]
<1>1. st # <<>> /\ Len(st) \in Nat /\ st[Len(st)] \in Frames /\ st[1] \in Frames
  OBVIOUS
<1>2. Last(st) = st[Len(st)]
  BY DEF Last
<1>3. /\ Front(st) \in Seq(Frames) /\ Len(Front(st)) = Len(st) - 1
      /\ \A i \in 1 .. Len(st) - 1 : Front(st)[i] = st[i]
  BY <1>1, FrontIs
<1>4. Len(st) = 2 => 1 \in 1 .. Len(st) - 1
  OBVIOUS
<1>5. QED
  BY <1>1, <1>2, <1>3, <1>4

LEMMA StackGrows ==
  ASSUME NEW st \in Seq(Frames), Len(st) \in 0 .. 1, NEW u \in Frames
  PROVE  LET a == Append(st, u)
         IN  /\ a \in Seq(Frames) /\ Len(a) = Len(st) + 1 /\ Last(a) = u
             /\ a[Len(st) + 1] = u /\ (Len(st) = 1 => a[1] = st[1])
<1> DEFINE a == Append(st, u)
<1>1. /\ a \in Seq(Frames) /\ Len(a) = Len(st) + 1 /\ a[Len(st) + 1] = u
      /\ (Len(st) = 1 => a[1] = st[1])
  OBVIOUS
<1> HIDE DEF a
<1>2. Last(a) = u
  BY <1>1 DEF Last
<1>3. QED
  BY <1>1, <1>2 DEF a

LEMMA FineElsewhere ==
  ASSUME NEW f, NEW o, NEW q, NEW flag, Fine(f, o, flag), Held(q, f.who) = Held(o, f.who)
  PROVE  Fine(f, q, flag)
BY DEF Fine, StateOf, PlaceOf

(* The context on top moves.                                                  *)
LEMMA TopMoves ==
  ASSUME NEW st, NEW o, NEW b, CpuFine(st, o, b), NEW u, NEW q, NEW a,
         Atop(u, q, a, Below(st)), Others(o, q, Below(st)),
         u.who = Last(st).who \/ (Len(st) = 1 /\ u.who = "task")
  PROVE  CpuFine(Append(Front(st), u), q, a)
<1> DEFINE f == Front(st)
           n == Append(f, u)
<1>1. st \in Seq(Frames) /\ Len(st) \in 1 .. 2 /\ st[1].who \in {"boot", "task"} /\ u \in Frames
  BY DEF CpuFine, Atop
<1>2. /\ f \in Seq(Frames) /\ Len(f) = Len(st) - 1 /\ Last(st) = st[Len(st)]
      /\ Len(st) = 2 => f[1] = st[1]
  BY <1>1, StackIs
<1> HIDE DEF f
<1>3. /\ n \in Seq(Frames) /\ Len(n) = Len(st) /\ Last(n) = u /\ n[Len(st)] = u
      /\ Len(st) = 2 => n[1] = st[1]
  <2>1. Len(f) \in 0 .. 1 /\ Len(f) + 1 = Len(st)
    BY <1>1, <1>2
  <2>2. /\ n \in Seq(Frames) /\ Len(n) = Len(f) + 1 /\ Last(n) = u
        /\ n[Len(f) + 1] = u /\ (Len(f) = 1 => n[1] = f[1])
    BY <1>1, <1>2, <2>1, StackGrows
  <2> HIDE DEF n
  <2>3. QED
    BY <1>2, <2>1, <2>2
<1> HIDE DEF n
<1>4. CASE Len(st) = 1
  <2>1. n[1].who \in {"boot", "task"} /\ Below(n) = Below(st) /\ Len(n) = 1
    BY <1>1, <1>2, <1>3, <1>4 DEF Below
  <2>2. Atop(Last(n), q, a, Below(n)) /\ n \in Seq(Frames) /\ Len(n) \in 1 .. 2 /\ Len(n) # 2
    BY <1>3, <1>4, <2>1
  <2>3. CpuFine(n, q, a)
    BY <2>1, <2>2 DEF CpuFine
  <2>4. QED
    BY <2>3 DEF n, f
<1>5. CASE Len(st) = 2
  <2>1. Below(st) = {st[1].who} /\ Below(n) = Below(st) /\ Len(n) = 2
    BY <1>3, <1>5 DEF Below
  <2>2. Held(q, st[1].who) = Held(o, st[1].who) /\ Fine(st[1], o, "on") /\ st[2].who \in Handlers
    BY <1>5, <2>1 DEF Others, CpuFine
  <2>3. Fine(n[1], q, "on") /\ n[2].who \in Handlers
    <3>1. u.who = st[2].who
      BY <1>2, <1>5
    <3>2. QED
      BY <1>3, <1>5, <2>2, <3>1, FineElsewhere
  <2>4. QED
    BY <1>1, <1>3, <1>5, <2>1, <2>3 DEF CpuFine, n, f
<1>6. QED
  BY <1>1, <1>4, <1>5

(* The end of a context's code.                                               *)
LEMMA DoneIs ==
  ASSUME NEW t, NEW o, NEW b, NEW below, Atop(t, o, b, below), t.code = <<>>, ~ t.panicking
  PROVE  /\ PlaceOf(t, o, Flag(b)) = Base(t.who) /\ Held(o, t.who) = {} /\ t.who # "boot"
<1> DEFINE s == StateOf(t, o, Flag(b))
           p == PlaceOf(t, o, Flag(b))
<1>1. s \in Ends /\ s.at = p
  BY NothingLeft DEF Atop, Fine, StateOf
<1>2. p.dead = "no" /\ p.who = t.who /\ p.held = Held(o, t.who)
  BY DEF PlaceOf, Place
<1> HIDE DEF s, p
<1>3. t.who # "boot" /\ p = Base(t.who)
  BY <1>1, <1>2 DEF Ends
<1>4. Base(t.who).held = {}
  BY DEF Base, Place
<1>5. QED
  BY <1>2, <1>3, <1>4 DEF p

(* A context that starts in its base place, on code of its own.                *)
LEMMA StartFine ==
  ASSUME NEW u \in Frames, NEW o, NEW b \in BOOLEAN, NEW text, NEW below,
         Leads(Here(Base(u.who)), text, Ends), u.code \in text,
         o \in [Locks -> Contexts \cup {"free"}], u.who \notin below, "free" \notin below,
         \A l \in Locks : o[l] \in {"free", u.who} \cup below,
         PlaceOf(u, o, Flag(b)) = Base(u.who)
  PROVE  Atop(u, o, b, below)
<1>1. StateOf(u, o, Flag(b)) = [at |-> Base(u.who), was |-> Flag(u.wasEnabled)]
  BY DEF StateOf
<1>2. StateOf(u, o, Flag(b)) \in Here(Base(u.who))
  BY <1>1, FrameIs DEF Here, At, Flag, Flags
<1>3. Fine(u, o, Flag(b))
  BY <1>2 DEF Leads, Fine
<1>4. QED
  BY <1>3 DEF Atop

LEMMA LeadsCode ==
  ASSUME NEW p \in Places, NEW text, NEW ends, Leads(Here(p), text, ends), NEW code \in text
  PROVE  code \in Seq(Instructions)
<1>1. [at |-> p, was |-> "on"] \in Here(p)
  BY DEF Here, At, Flags
<1>2. QED
  BY <1>1, RunsIsCode DEF Leads

LEMMA HandlersAre ==
  /\ \A h \in Handlers : h \in Contexts /\ h \notin {"boot", "task", "free"}
  /\ "boot" \in Contexts /\ "task" \in Contexts
BY DEF Handlers, Contexts

LEMMA LockInvStarts ==
  LocksInit => LockInv
<1>1. SUFFICES ASSUME LocksInit PROVE LockInv
  OBVIOUS
<1>2. PICK code \in BootCode : stack = <<Frame("boot", code)>>
  BY <1>1 DEF LocksInit
<1> DEFINE u == Frame("boot", code)
<1>3. code \in Seq(Instructions)
  BY HandlersAre, BaseIs, BootCodeLeads, LeadsCode
<1>4. /\ u \in Frames /\ u.who = "boot" /\ u.code = code /\ u.panicking = FALSE
  BY <1>3, HandlersAre DEF Frame, Frames
<1>5. owner \in [Locks -> Contexts \cup {"free"}] /\ ifFlag = FALSE /\ \A l \in Locks : owner[l] = "free"
  BY <1>1 DEF LocksInit
<1> HIDE DEF u
<1>6. PlaceOf(u, owner, Flag(ifFlag)) = Base(u.who)
  <2>1. Held(owner, "boot") = {} /\ Flag(ifFlag) = "off"
    BY <1>5 DEF Held, Flag
  <2>2. QED
    BY <1>4, <2>1, Zenon DEF PlaceOf, Base
<1>7. Atop(u, owner, ifFlag, {})
  BY <1>4, <1>5, <1>6, BootCodeLeads, StartFine
<1>8. /\ stack \in Seq(Frames) /\ Len(stack) = 1 /\ stack[1] = u /\ Last(stack) = u
  BY <1>2, <1>4 DEF Last, u
<1>9. QED
  BY <1>4, <1>7, <1>8 DEF LockInv, CpuFine, Below

LEMMA SectionStarts ==
  LockInv /\ RunSection => LockInv'
<1>1. SUFFICES ASSUME LockInv, RunSection PROVE LockInv'
  OBVIOUS
<1> DEFINE t == Last(stack)
           below == Below(stack)
<1>2. PICK code \in Sections : Become([t EXCEPT !.code = code])
  BY <1>1 DEF RunSection, Top
<1>3. /\ t.who = "task" /\ t.code = <<>> /\ ~ t.panicking /\ UNCHANGED <<owner, ifFlag>>
      /\ Atop(t, owner, ifFlag, below) /\ CpuFine(stack, owner, ifFlag)
  BY <1>1 DEF RunSection, Top, LockInv, CpuFine
<1> DEFINE u == [t EXCEPT !.code = code]
<1>4. code \in Seq(Instructions)
  BY HandlersAre, BaseIs, SectionsLead, LeadsCode
<1>5. t \in Frames
  BY <1>3 DEF Atop
<1> HIDE DEF t
<1>6. u \in Frames /\ u.who = t.who /\ u.code = code /\ u.panicking = t.panicking
  BY <1>4, <1>5 DEF Frames
<1>7. stack' = Append(Front(stack), u)
  BY <1>2 DEF Become
<1> HIDE DEF u, below
<1>8. PlaceOf(u, owner, Flag(ifFlag)) = Base(u.who)
  <2>1. PlaceOf(t, owner, Flag(ifFlag)) = Base(t.who)
    BY <1>3, DoneIs
  <2>2. PlaceOf(u, owner, Flag(ifFlag)) = PlaceOf(t, owner, Flag(ifFlag))
    BY <1>6, Zenon DEF PlaceOf
  <2>3. QED
    BY <1>6, <2>1, <2>2
<1>9. Atop(u, owner, ifFlag, below)
  <2>1. /\ owner \in [Locks -> Contexts \cup {"free"}] /\ ifFlag \in BOOLEAN
        /\ "free" \notin below /\ t.who \notin below
        /\ \A l \in Locks : owner[l] \in {"free", t.who} \cup below
    BY <1>3 DEF Atop
  <2>2. Leads(Here(Base(u.who)), Sections, Ends)
    BY <1>3, <1>6, SectionsLead
  <2>3. QED
    BY <1>6, <1>8, <2>1, <2>2, StartFine
<1>10. Others(owner, owner, below)
  BY DEF Others
<1>11. CpuFine(Append(Front(stack), u), owner, ifFlag)
  BY <1>3, <1>6, <1>9, <1>10, TopMoves DEF below, t
<1>12. QED
  BY <1>3, <1>7, <1>11 DEF LockInv

LEMMA HandlerStarts ==
  ASSUME NEW h \in Handlers
  PROVE  LockInv /\ Interrupt(h) => LockInv'
<1>1. SUFFICES ASSUME LockInv, Interrupt(h) PROVE LockInv'
  OBVIOUS
<1>2. PICK code \in HandlerCode(h) : stack' = Append(stack, Frame(h, code))
  BY <1>1 DEF Interrupt
<1> DEFINE t == Last(stack)
           u == Frame(h, code)
           f == stack[1]
<1>3. ifFlag = TRUE /\ ifFlag' = FALSE /\ owner' = owner
  <2>1. ifFlag \in BOOLEAN /\ ifFlag
    BY <1>1 DEF Interrupt, LockInv, CpuFine, Atop
  <2>2. QED
    BY <1>1, <2>1 DEF Interrupt
<1>4. /\ stack \in Seq(Frames) /\ Len(stack) \in 1 .. 2 /\ f.who \in {"boot", "task"}
      /\ Len(stack) = 2 => stack[2].who \in Handlers
      /\ Atop(t, owner, ifFlag, Below(stack))
  BY <1>1 DEF LockInv, CpuFine
<1>5. t.who = "task"
  BY <1>3, <1>4, TopIs
<1>6. t = stack[Len(stack)]
  BY <1>4, StackIs
<1> HIDE DEF t
<1>7. Len(stack) = 1 /\ t = f
  BY <1>4, <1>5, <1>6, HandlersAre
<1>8. Below(stack) = {}
  BY <1>7 DEF Below
<1>9. /\ Fine(f, owner, "on") /\ owner \in [Locks -> Contexts \cup {"free"}]
      /\ \A l \in Locks : owner[l] \in {"free", "task"}
  BY <1>3, <1>4, <1>5, <1>7, <1>8 DEF Atop, Flag
<1>10. h \in Contexts /\ h \notin {"boot", "task", "free"}
  BY HandlersAre
<1>11. Leads(Here(Base(h)), HandlerCode(h), Ends) /\ code \in Seq(Instructions)
  BY <1>10, BaseIs, HandlerCodeLeads, LeadsCode
<1>12. u \in Frames /\ u.who = h /\ u.code = code /\ u.panicking = FALSE
  BY <1>10, <1>11 DEF Frame, Frames
<1> HIDE DEF u
<1>13. PlaceOf(u, owner, Flag(FALSE)) = Base(u.who)
  <2>1. Held(owner, h) = {} /\ Flag(FALSE) = "off"
    BY <1>9, <1>10 DEF Held, Flag
  <2>2. Base(h) = Place(h, {}, "off", "no")
    BY <1>10 DEF Base
  <2>3. PlaceOf(u, owner, Flag(FALSE)) = Place(h, {}, "off", "no")
    BY <1>12, <2>1, Zenon DEF PlaceOf
  <2>4. QED
    BY <1>12, <2>2, <2>3
<1>14. Atop(u, owner, FALSE, {"task"})
  <2>1. /\ FALSE \in BOOLEAN /\ u.who \notin {"task"} /\ "free" \notin {"task"}
        /\ \A l \in Locks : owner[l] \in {"free", u.who} \cup {"task"}
    BY <1>9, <1>10, <1>12
  <2>2. QED
    BY <1>9, <1>11, <1>12, <1>13, <2>1, StartFine
<1> DEFINE n == Append(stack, u)
<1>15. n \in Seq(Frames) /\ Len(n) = 2 /\ Last(n) = u /\ n[2] = u /\ n[1] = f
  <2>1. Len(stack) \in 0 .. 1 /\ Len(stack) + 1 = 2
    BY <1>7
  <2>2. /\ n \in Seq(Frames) /\ Len(n) = Len(stack) + 1 /\ Last(n) = u
        /\ n[Len(stack) + 1] = u /\ (Len(stack) = 1 => n[1] = stack[1])
    BY <1>4, <1>12, <2>1, StackGrows
  <2> HIDE DEF n
  <2>3. QED
    BY <1>7, <2>1, <2>2
<1>16. stack' = n
  BY <1>2 DEF u
<1> HIDE DEF n, f
<1>17. Below(n) = {"task"}
  BY <1>5, <1>7, <1>15 DEF Below
<1>18. CpuFine(n, owner, FALSE)
  <2>1. /\ n \in Seq(Frames) /\ Len(n) \in 1 .. 2 /\ n[1].who \in {"boot", "task"}
        /\ n[2].who \in Handlers /\ Fine(n[1], owner, "on")
    BY <1>4, <1>9, <1>12, <1>15
  <2>2. Atop(Last(n), owner, FALSE, Below(n))
    BY <1>14, <1>15, <1>17
  <2>3. QED
    BY <2>1, <2>2 DEF CpuFine
<1>19. QED
  BY <1>3, <1>16, <1>18 DEF LockInv

LEMMA HandlerReturns ==
  LockInv /\ ReturnFromInterrupt => LockInv'
<1>1. SUFFICES ASSUME LockInv, ReturnFromInterrupt PROVE LockInv'
  OBVIOUS
<1> DEFINE t == Last(stack)
           f == stack[1]
           n == Front(stack)
<1>2. /\ stack \in Seq(Frames) /\ Len(stack) \in 1 .. 2 /\ f.who \in {"boot", "task"}
      /\ Len(stack) = 2 => Fine(f, owner, "on")
      /\ Atop(t, owner, ifFlag, Below(stack))
      /\ t.who \in Handlers /\ t.code = <<>> /\ ~ t.panicking
      /\ stack' = n /\ ifFlag' = TRUE /\ owner' = owner
  BY <1>1 DEF LockInv, CpuFine, ReturnFromInterrupt, Top
<1>3. t = stack[Len(stack)] /\ f \in Frames
  BY <1>2, StackIs
<1>4. Held(owner, t.who) = {}
  BY <1>2, DoneIs
<1> HIDE DEF t
<1>5. Len(stack) = 2
  BY <1>2, <1>3, HandlersAre
<1>6. Below(stack) = {f.who}
  BY <1>5 DEF Below
<1>7. /\ owner \in [Locks -> Contexts \cup {"free"}]
      /\ \A l \in Locks : owner[l] \in {"free", f.who}
  BY <1>2, <1>4, <1>6 DEF Atop, Held
<1>8. n \in Seq(Frames) /\ Len(n) = 1 /\ n[1] = f /\ Last(n) = f
  <2>1. n \in Seq(Frames) /\ Len(n) = Len(stack) - 1 /\ n[1] = f
    BY <1>2, <1>5, StackIs
  <2> HIDE DEF n, f
  <2>2. Len(n) = 1
    BY <1>5, <2>1
  <2>3. QED
    BY <2>1, <2>2 DEF Last
<1> HIDE DEF n, f
<1>9. Atop(f, owner, TRUE, {})
  BY <1>2, <1>3, <1>5, <1>7 DEF Atop, Flag
<1>10. CpuFine(n, owner, TRUE)
  <2>1. /\ n \in Seq(Frames) /\ Len(n) \in 1 .. 2 /\ n[1].who \in {"boot", "task"}
        /\ Len(n) # 2
    BY <1>2, <1>8
  <2>2. Below(n) = {}
    BY <1>8 DEF Below
  <2>3. Atop(Last(n), owner, TRUE, Below(n))
    BY <1>8, <1>9, <2>2
  <2>4. QED
    BY <2>1, <2>3 DEF CpuFine
<1>11. QED
  BY <1>2, <1>10 DEF LockInv

(* One instruction of the context on top.                                     *)
LEMMA InstructionRuns ==
  ASSUME LockInv,
         \/ Take \/ Free \/ DisableInterrupts \/ RestoreInterrupts
         \/ EnableInterrupts \/ CheckPasses \/ Panic
  PROVE  LockInv'
<1> DEFINE t == Last(stack)
           below == Below(stack)
           l == Head(t.code).lock
           r == [t EXCEPT !.code = Tail(@)]
<1>1. CpuFine(stack, owner, ifFlag) /\ Atop(t, owner, ifFlag, below)
  BY DEF LockInv, CpuFine
<1>2. Top = t /\ Rest = r /\ NextLock = l
  BY DEF Top, Rest, NextLock
<1>3. ASSUME NEW op, NextIs(op) PROVE t.code # <<>> /\ Head(t.code).op = op
  BY <1>3 DEF NextIs, Top
<1>4. t \in Frames
  BY <1>1 DEF Atop
<1>5. ASSUME NEW u, NEW q, NEW a, Become(u), owner' = q, ifFlag' = a,
             Atop(u, q, a, below), Others(owner, q, below),
             u.who = t.who \/ (Len(stack) = 1 /\ u.who = "task")
      PROVE  LockInv'
  <2>1. CpuFine(Append(Front(stack), u), q, a)
    BY <1>1, <1>5, TopMoves
  <2>2. stack' = Append(Front(stack), u)
    BY <1>5 DEF Become
  <2>3. QED
    BY <1>5, <2>1, <2>2 DEF LockInv
<1> HIDE DEF t, below
<1>6. r.who = t.who
  BY <1>4 DEF Frames
<1>7. CASE Take
  <2>1. /\ t.code # <<>> /\ Head(t.code).op = "take" /\ owner[l] = "free" /\ Become(r)
        /\ owner' = [owner EXCEPT ![l] = t.who] /\ ifFlag' = ifFlag
    BY <1>2, <1>3, <1>7 DEF Take
  <2>2. Atop(r, [owner EXCEPT ![l] = t.who], ifFlag, below)
        /\ Others(owner, [owner EXCEPT ![l] = t.who], below)
    BY <1>1, <2>1, TakeFine
  <2> HIDE DEF r, l
  <2>3. QED
    BY <1>5, <1>6, <2>1, <2>2
<1>8. CASE Free
  <2>1. /\ t.code # <<>> /\ Head(t.code).op = "free" /\ Become(r)
        /\ owner' = [owner EXCEPT ![l] = "free"] /\ ifFlag' = ifFlag
    BY <1>2, <1>3, <1>8 DEF Free
  <2>2. Atop(r, [owner EXCEPT ![l] = "free"], ifFlag, below)
        /\ Others(owner, [owner EXCEPT ![l] = "free"], below)
    BY <1>1, <2>1, FreeFine
  <2> HIDE DEF r, l
  <2>3. QED
    BY <1>5, <1>6, <2>1, <2>2
<1>9. CASE DisableInterrupts
  <2> DEFINE u == [r EXCEPT !.wasEnabled = ifFlag]
  <2>1. /\ t.code # <<>> /\ Head(t.code).op = "cli" /\ Become(u)
        /\ owner' = owner /\ ifFlag' = FALSE
    BY <1>2, <1>3, <1>9 DEF DisableInterrupts
  <2>2. Atop(u, owner, FALSE, below) /\ Others(owner, owner, below)
    BY <1>1, <2>1, CliFine
  <2>3. u.who = t.who
    BY <1>4 DEF Frames
  <2> HIDE DEF u
  <2>4. QED
    BY <1>5, <2>1, <2>2, <2>3
<1>10. CASE RestoreInterrupts
  <2>1. /\ t.code # <<>> /\ Head(t.code).op = "restore" /\ Become(r)
        /\ owner' = owner /\ ifFlag' = (ifFlag \/ t.wasEnabled)
    BY <1>2, <1>3, <1>10 DEF RestoreInterrupts
  <2>2. Atop(r, owner, ifFlag \/ t.wasEnabled, below) /\ Others(owner, owner, below)
    BY <1>1, <2>1, RestoreFine
  <2> HIDE DEF r
  <2>3. QED
    BY <1>5, <1>6, <2>1, <2>2
<1>11. CASE EnableInterrupts
  <2> DEFINE u == [r EXCEPT !.who = "task"]
  <2>1. /\ t.code # <<>> /\ Head(t.code).op = "sti" /\ Become(u)
        /\ owner' = owner /\ ifFlag' = TRUE
    BY <1>2, <1>3, <1>11 DEF EnableInterrupts
  <2>2. Len(stack) = 1 /\ below = {}
    <3>1. Runs(t.code, StateOf(t, owner, Flag(ifFlag)), Ends)
      BY <1>1 DEF Atop, Fine
    <3>2. May(StateOf(t, owner, Flag(ifFlag)).at, Head(t.code))
      BY <2>1, <3>1, FirstRuns
    <3>3. StateOf(t, owner, Flag(ifFlag)).at.who = t.who
      BY DEF StateOf, PlaceOf, Place
    <3>4. t.who = "boot"
      BY <2>1, <3>2, <3>3 DEF May
    <3>5. /\ Len(stack) \in 1 .. 2 /\ stack \in Seq(Frames)
          /\ Len(stack) = 2 => stack[2].who \in Handlers
      BY <1>1 DEF CpuFine
    <3>6. t = stack[Len(stack)]
      BY <3>5, StackIs DEF t
    <3>7. Len(stack) = 1
      BY <3>4, <3>5, <3>6, HandlersAre
    <3>8. QED
      BY <3>7 DEF Below, below
  <2>3. Atop(u, owner, TRUE, below)
    BY <1>1, <2>1, <2>2, StiFine
  <2>4. u.who = "task" /\ Others(owner, owner, below)
    BY <1>4 DEF Frames, Others
  <2> HIDE DEF u
  <2>5. QED
    BY <1>5, <2>1, <2>2, <2>3, <2>4
<1>12. CASE CheckPasses
  <2>1. /\ t.code # <<>> /\ Head(t.code).op = "check" /\ Become(r)
        /\ owner' = owner /\ ifFlag' = ifFlag
    BY <1>2, <1>3, <1>12 DEF CheckPasses
  <2>2. Atop(r, owner, ifFlag, below) /\ Others(owner, owner, below)
    BY <1>1, <2>1, CheckFine
  <2> HIDE DEF r
  <2>3. QED
    BY <1>5, <1>6, <2>1, <2>2
<1>13. CASE Panic
  <2>1. PICK code \in PanicHandler : Become([t EXCEPT !.code = code, !.panicking = TRUE])
    BY <1>2, <1>13 DEF Panic
  <2> DEFINE u == [t EXCEPT !.code = code, !.panicking = TRUE]
  <2>2. /\ t.code # <<>> /\ Head(t.code).op \in {"check", "panic"}
        /\ owner' = owner /\ ifFlag' = ifFlag
    BY <1>3, <1>13 DEF Panic
  <2>3. Atop(u, owner, ifFlag, below) /\ Others(owner, owner, below)
    BY <1>1, <2>2, PanicFine
  <2>4. u.who = t.who
    BY <1>4 DEF Frames
  <2>5. Become(u)
    BY <2>1
  <2> HIDE DEF u
  <2>6. QED
    BY <1>5, <2>2, <2>3, <2>4, <2>5
<1>14. QED
  BY <1>7, <1>8, <1>9, <1>10, <1>11, <1>12, <1>13

LEMMA LockInvStays ==
  LockInv /\ [LocksNext]_lockVars => LockInv'
<1>1. SUFFICES ASSUME LockInv, [LocksNext]_lockVars PROVE LockInv'
  OBVIOUS
<1>2. CASE UNCHANGED lockVars
  BY <1>1, <1>2 DEF lockVars, LockInv
<1>3. CASE Step
  BY <1>1, <1>3, InstructionRuns, SectionStarts, HandlerReturns DEF Step
<1>4. ASSUME NEW h \in Handlers, Interrupt(h) PROVE LockInv'
  BY <1>1, <1>4, HandlerStarts
<1>5. QED
  BY <1>1, <1>2, <1>3, <1>4 DEF LocksNext

-----------------------------------------------------------------------------
(* What the invariant says of the CPU.  Interrupts are only ever enabled in the *)
(* task, alone; under a handler, the task holds no lock of the handlers' but    *)
(* the heap's.                                                                  *)
LEMMA CpuIs ==
  ASSUME LockInv
  PROVE  /\ stack \in Seq(Frames) /\ Len(stack) \in 1 .. 2 /\ Top = stack[Len(stack)]
         /\ \A i \in DOMAIN stack : stack[i] \in Frames
         /\ stack[1].who \in {"boot", "task"}
         /\ Len(stack) = 2 => stack[2].who \in Handlers /\ Fine(stack[1], owner, "on")
         /\ Atop(Top, owner, ifFlag, Below(stack))
         /\ ifFlag => Len(stack) = 1 /\ Top.who = "task" /\ Held(owner, "task") \cap Quiet = {}
<1>1. /\ stack \in Seq(Frames) /\ Len(stack) \in 1 .. 2 /\ stack[1].who \in {"boot", "task"}
      /\ Len(stack) = 2 => stack[2].who \in Handlers /\ Fine(stack[1], owner, "on")
      /\ Atop(Top, owner, ifFlag, Below(stack))
  BY DEF LockInv, CpuFine, Top
<1>2. Top = stack[Len(stack)]
  BY <1>1, StackIs DEF Top
<1>3. ifFlag => Top.who = "task" /\ Held(owner, "task") \cap Quiet = {}
  BY <1>1, TopIs
<1>4. Top.who = "task" => Len(stack) = 1
  BY <1>1, <1>2, HandlersAre
<1>5. \A i \in DOMAIN stack : stack[i] \in Frames
  BY <1>1
<1>6. QED
  BY <1>1, <1>2, <1>3, <1>4, <1>5

(* What it says of the next instruction of a context that could run.           *)
LEMMA NextMay ==
  ASSUME NEW f, NEW o, NEW flag, Fine(f, o, flag), f.code # <<>>, Head(f.code).op = "take"
  PROVE  LET l == Head(f.code).lock
             dead == IF f.panicking THEN "yes" ELSE "no"
         IN  /\ l \in Locks
             /\ l \in Held(o, f.who) => l = "WRITER" /\ dead = "yes" /\ f.who = "boot"
             /\ l \in Quiet => flag = "off"
             /\ f.who \in Handlers => l \in HandlerLocks
             /\ f.who = "timer" => l # "ALLOCATOR"
             /\ dead = "yes" => l \in {"SERIAL1", "WRITER"}
<1> DEFINE s == StateOf(f, o, flag)
           p == PlaceOf(f, o, flag)
           i == Head(f.code)
<1>1. Runs(f.code, s, Ends) /\ s.at = p
  BY DEF Fine, StateOf
<1>2. i \in Instructions /\ May(p, i)
  <2> HIDE DEF s, p
  <2>1. QED
    BY <1>1, FirstRuns
<1>3. /\ p.who = f.who /\ p.held = Held(o, f.who) /\ p.on = flag
      /\ p.dead = IF f.panicking THEN "yes" ELSE "no"
  BY DEF PlaceOf, Place
<1> HIDE DEF s, p, i
<1>4. i.op = "take"
  BY DEF i
<1>5. i.lock \in Locks
  BY <1>2, <1>4, InstructionIs
<1>6. QED
  BY <1>2, <1>3, <1>4, <1>5 DEF May, i

LEMMA FineWhenOn ==
  ASSUME NEW f, NEW o, Fine(f, o, "on")
  PROVE  f.who = "task" /\ Held(o, f.who) \cap Quiet = {}
<1> DEFINE s == StateOf(f, o, "on")
           p == PlaceOf(f, o, "on")
<1>1. s \in States /\ s.at = p
  BY RunsIsCode DEF Fine, StateOf
<1>2. p.who = f.who /\ p.held = Held(o, f.who) /\ p.on = "on"
  BY DEF PlaceOf, Place
<1>3. p \in Places
  <2> HIDE DEF s, p
  <2>1. QED
    BY <1>1 DEF States
<1> HIDE DEF p
<1>4. QED
  BY <1>2, <1>3, PlaceIs

LEMMA LocksAreTyped ==
  LockInv => TypeOK
<1>1. SUFFICES ASSUME LockInv PROVE TypeOK
  OBVIOUS
<1>2. /\ Len(stack) \in 1 .. 2 /\ stack[1].who \in {"boot", "task"} /\ Top = stack[Len(stack)]
      /\ Len(stack) = 2 => stack[2].who \in Handlers
      /\ Atop(Top, owner, ifFlag, Below(stack))
      /\ ifFlag => Len(stack) = 1 /\ Top.who = "task"
  BY <1>1, CpuIs
<1>3. owner \in [Locks -> Contexts \cup {"free"}] /\ ifFlag \in BOOLEAN
  BY <1>2 DEF Atop
<1>4. stack[1].who = "boot" => ~ ifFlag
  BY <1>2
<1>5. ASSUME NEW i \in DOMAIN stack
      PROVE  /\ stack[i].code \in Seq(Instructions)
             /\ {stack[i].wasEnabled, stack[i].panicking} \subseteq BOOLEAN
  BY <1>1, CpuIs, FrameIs
<1>6. Len(stack) = 2 => ~ ifFlag
  BY <1>2
<1>7. QED
  BY <1>2, <1>3, <1>4, <1>5, <1>6 DEF TypeOK

LEMMA NoHandlerWaits ==
  LockInv => HandlerLocksFree
<1>1. SUFFICES ASSUME LockInv, ifFlag, NEW l \in Quiet PROVE owner[l] = "free"
  BY DEF HandlerLocksFree, Quiet
<1>2. /\ Len(stack) = 1 /\ Top.who = "task" /\ Held(owner, "task") \cap Quiet = {}
      /\ Atop(Top, owner, ifFlag, Below(stack))
  BY <1>1, CpuIs
<1>3. Below(stack) = {} /\ l \in Locks
  BY <1>2 DEF Below, Quiet, Locks
<1>4. owner[l] \in {"free", "task"}
  BY <1>2, <1>3 DEF Atop
<1>5. owner[l] # "task"
  BY <1>2, <1>3 DEF Held
<1>6. QED
  BY <1>4, <1>5

LEMMA OnlyTheseWait ==
  LockInv => OnlyKnownDeadlocks
<1>1. SUFFICES ASSUME LockInv, Spinning PROVE OnlyKnownDeadlocks
  BY DEF OnlyKnownDeadlocks
<1> DEFINE t == Top
           l == NextLock
           f == stack[1]
<1>2. /\ t.code # <<>> /\ Head(t.code).op = "take" /\ l = Head(t.code).lock /\ owner[l] # "free"
  BY <1>1 DEF Spinning, NextIs, NextLock
<1>3. /\ Len(stack) \in 1 .. 2 /\ t = stack[Len(stack)] /\ f.who \in {"boot", "task"}
      /\ Len(stack) = 2 => stack[2].who \in Handlers /\ Fine(f, owner, "on")
      /\ Atop(t, owner, ifFlag, Below(stack))
  BY <1>1, CpuIs
<1>4. /\ t \in Frames /\ Fine(t, owner, Flag(ifFlag))
      /\ \A k \in Locks : owner[k] \in {"free", t.who} \cup Below(stack)
  BY <1>3 DEF Atop
<1> HIDE DEF t, l, f
<1>5. /\ l \in Locks
      /\ l \in Held(owner, t.who) => l = "WRITER" /\ t.panicking /\ t.who = "boot"
      /\ t.who \in Handlers => l \in HandlerLocks
      /\ t.who = "timer" => l # "ALLOCATOR"
  BY <1>2, <1>4, NextMay
<1>6. CASE owner[l] = t.who
  <2>1. l = "WRITER" /\ t.panicking /\ t.who = "boot"
    BY <1>5, <1>6 DEF Held
  <2>2. t = f
    BY <1>3, <2>1, HandlersAre DEF f
  <2>3. QED
    BY <1>6, <2>1, <2>2 DEF OnlyKnownDeadlocks, FramebufferRefused, l, f
<1>7. CASE owner[l] # t.who
  <2>1. owner[l] \in Below(stack)
    BY <1>2, <1>4, <1>5, <1>7
  <2>2. Len(stack) = 2 /\ owner[l] = f.who
    BY <1>3, <2>1 DEF Below, f
  <2>3. t.who \in Handlers /\ l \in HandlerLocks
    BY <1>3, <1>5, <2>2
  <2>4. Fine(f, owner, "on")
    BY <1>3, <2>2
  <2>5. f.who = "task" /\ Held(owner, f.who) \cap Quiet = {}
    BY <2>4, FineWhenOn
  <2>6. l = "ALLOCATOR"
    BY <1>5, <2>2, <2>3, <2>5 DEF Held, Quiet
  <2>7. t.who \in {"keyboard", "serial"} /\ owner["ALLOCATOR"] = "task"
    BY <1>5, <2>2, <2>3, <2>5, <2>6 DEF Handlers
  <2>8. QED
    BY <2>6, <2>7 DEF OnlyKnownDeadlocks, t, l
<1>8. QED
  BY <1>6, <1>7

LEMMA PanicsGetThrough ==
  LockInv => PanicNeverBlocked
<1>1. SUFFICES ASSUME LockInv, NEW i \in DOMAIN stack, stack[i].panicking,
                      stack[i].code # <<>>, stack[i].code[1].op = "take",
                      owner[stack[i].code[1].lock] # "free"
               PROVE  stack[i].code[1].lock = "WRITER" /\ FramebufferRefused
  BY DEF PanicNeverBlocked
<1> DEFINE g == stack[i]
           l == Head(g.code).lock
           f == stack[1]
<1>2. /\ Len(stack) \in 1 .. 2 /\ Top = stack[Len(stack)] /\ f.who \in {"boot", "task"}
      /\ Len(stack) = 2 => stack[2].who \in Handlers /\ Fine(f, owner, "on")
      /\ Atop(Top, owner, ifFlag, Below(stack)) /\ i \in {1, Len(stack)}
      /\ stack \in Seq(Frames) /\ g \in Frames
  BY <1>1, CpuIs
<1>3. Head(g.code) = g.code[1] /\ l = stack[i].code[1].lock
  BY <1>2, FrameIs
<1>4. /\ g.code # <<>> /\ Head(g.code).op = "take" /\ g.panicking /\ owner[l] # "free"
  BY <1>1, <1>3
<1> HIDE DEF g, l, f
<1>5. PICK flag \in {"on", Flag(ifFlag)} : Fine(g, owner, flag) /\ (i # Len(stack) => flag = "on")
  <2>1. CASE i = Len(stack)
    <3>1. Fine(g, owner, Flag(ifFlag))
      BY <1>2, <2>1 DEF Atop, g
    <3>2. QED
      BY <2>1, <3>1
  <2>2. CASE i # Len(stack)
    <3>1. Fine(g, owner, "on")
      BY <1>2, <2>2 DEF g, f
    <3>2. QED
      BY <2>2, <3>1
  <2>3. QED
    BY <2>1, <2>2
<1>6. /\ l \in {"SERIAL1", "WRITER"} /\ l \in Quiet /\ l \in Locks /\ flag # "on"
      /\ l \in Held(owner, g.who) => l = "WRITER" /\ g.who = "boot"
  <2>1. l \in {"SERIAL1", "WRITER"}
    BY <1>4, <1>5, NextMay DEF l
  <2>2. l \in Quiet /\ l \in Locks
    BY <2>1 DEF Quiet, HandlerLocks, Locks
  <2>3. QED
    BY <1>4, <1>5, <2>1, <2>2, NextMay DEF l
<1>7. i = Len(stack) /\ g = Top
  BY <1>2, <1>5, <1>6 DEF g
<1>8. owner[l] \in {g.who} \cup Below(stack)
  BY <1>2, <1>4, <1>6, <1>7 DEF Atop
<1>9. CASE owner[l] = g.who
  <2>1. l = "WRITER" /\ g.who = "boot"
    BY <1>6, <1>9 DEF Held
  <2>2. g = f
    BY <1>2, <1>7, <2>1, HandlersAre DEF g, f
  <2>3. QED
    BY <1>3, <1>4, <1>9, <2>1, <2>2 DEF FramebufferRefused, f
<1>10. CASE owner[l] # g.who
  <2>1. Len(stack) = 2 /\ owner[l] = f.who
    BY <1>2, <1>8, <1>10 DEF Below, f
  <2>2. Held(owner, f.who) \cap Quiet = {}
    BY <1>2, <2>1, FineWhenOn
  <2>3. QED
    BY <1>6, <2>1, <2>2 DEF Held
<1>11. QED
  BY <1>9, <1>10

LEMMA LocksAlways ==
  LocksSpec => []LockInv
BY LockInvStarts, LockInvStays, PTL DEF LocksSpec

(* At most one handler runs on top of the task, the boot is never interrupted,  *)
(* and only a context of the kernel holds a lock: however many rounds the loops *)
(* make that print, allocate and read the serial port.                          *)
THEOREM LocksTyped == LocksSpec => []TypeOK
BY LocksAlways, LocksAreTyped, PTL

(* Whenever the CPU can be interrupted, the locks the handlers spin on are free, *)
(* but for the heap's: no path through the kernel's code takes INPUT, SERIAL1,   *)
(* WRITER or PICS with interrupts enabled, or enables interrupts holding one.    *)
THEOREM HandlersFindLocksFree == LocksSpec => []HandlerLocksFree
BY LocksAlways, NoHandlerWaits, PTL

(* The kernel spins for ever only where a keyboard or serial handler allocates   *)
(* over a task in the allocator, or where the framebuffer was refused at boot:   *)
(* no code takes a lock it holds, the timer's handler waits for nothing.         *)
THEOREM DeadlocksKnown == LocksSpec => []OnlyKnownDeadlocks
BY LocksAlways, OnlyTheseWait, PTL

(* panic_handler never waits for SERIAL1, nor for WRITER but after a refused     *)
(* framebuffer: no assertion, expect or allocation stands where its own context  *)
(* holds either, and no task is interrupted that does.                           *)
THEOREM PanicsPrint == LocksSpec => []PanicNeverBlocked
BY LocksAlways, PanicsGetThrough, PTL
=============================================================================
