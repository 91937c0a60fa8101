----------------------------- MODULE RoundRobin -----------------------------
(***************************************************************************)
(* How fair the scheduler is.  The module adds one history variable to     *)
(* Scheduler: for each Ready slot, the number of dispatches that went to    *)
(* other slots while it waited.                                             *)
(***************************************************************************)
EXTENDS Scheduler

VARIABLE waited   (* slot -> dispatches it has been passed over for         *)

waitVars == <<vars, waited>>

InitWaited == Init /\ waited = [i \in Slots |-> 0]

Dispatching == phase = "pick" /\ phase' = "call"

(* Counting stops at MAX_TASKS, which is one more than any task should wait. *)
CountWaits ==
  waited' = [i \in Slots |->
               IF ~ (Ready(i) /\ tasks'[i].state = "Ready") THEN 0
               ELSE IF Dispatching /\ waited[i] < MAX_TASKS THEN waited[i] + 1
               ELSE waited[i]]

NextWaited == Next /\ CountWaits

SpecWaited == InitWaited /\ [][NextWaited]_waitVars /\ Fairness

(* Bounded bypass: a Ready task is passed over at most MAX_TASKS - 1 times,  *)
(* whatever is spawned or killed meanwhile: one dispatch of every other slot *)
(* is the most it ever waits for.                                            *)
BoundedBypass == \A i \in Slots : waited[i] <= MAX_TASKS - 1

=============================================================================
