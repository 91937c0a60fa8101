------------------------------ MODULE TaskPool ------------------------------
(***************************************************************************)
(* What the scheduler promises, without its search order, phases or        *)
(* contexts: a pool of slots in which at most one task is on the CPU, a     *)
(* task leaves the CPU only by itself, a dead slot is refilled only by a    *)
(* worker, and a task is killed only while it is off the CPU.               *)
(***************************************************************************)
CONSTANTS
  Slots,     (* the slots of the task table                                 *)
  Funcs,     (* the task functions                                          *)
  Worker     (* the function every spawned task runs                        *)

VARIABLE pool   (* slot -> the task in it: its function and life stage      *)

Empty   == [func |-> "none", state |-> "Empty"]
Tasks   == [func : Funcs, state : {"Ready", "Running", "Finished"}]
OnCpu   == {i \in Slots : pool[i].state = "Running"}

Init == pool \in [Slots -> {t \in Tasks : t.state = "Ready"} \cup {Empty}]

Move(i, from, to) ==
  /\ pool[i].state = from
  /\ pool' = [pool EXCEPT ![i].state = to]

(* The CPU is free and a Ready task gets it.                                *)
Dispatch(i) == OnCpu = {} /\ Move(i, "Ready", "Running")

(* The running task returned: it may be dispatched again, or it finished.   *)
Return(i) == Move(i, "Running", "Ready") \/ Move(i, "Running", "Finished")

(* A task that is off the CPU is killed.                                    *)
Kill(i) == Move(i, "Ready", "Finished")

(* A slot without a live task gets a fresh worker.                          *)
Spawn(i) ==
  /\ pool[i].state \in {"Empty", "Finished"}
  /\ pool' = [pool EXCEPT ![i] = [func |-> Worker, state |-> "Ready"]]

Next == \E i \in Slots : Dispatch(i) \/ Return(i) \/ Kill(i) \/ Spawn(i)

Spec == Init /\ [][Next]_pool
=============================================================================
