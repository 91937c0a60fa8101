------------------------------ MODULE Commands ------------------------------
(***************************************************************************)
(* The shell's commands that compute something: date, time and guess read  *)
(* the clock (Rtc), calc calculates (Calc). The shell runs one at a time.  *)
(***************************************************************************)
EXTENDS Rtc, Calc

InitShell == Init /\ shown = Nothing

(* calc and the clock share nothing: it is enough to run it before the clock *)
(* has moved.                                                                *)
CalcRuns ==
  /\ pc = "idle" /\ ~ uip /\ updates = 0 /\ shown = Nothing
  /\ Calculate
  /\ UNCHANGED vars

NextShell == CalcRuns \/ (Next /\ shown' = Nothing)

SpecShell == InitShell /\ [][NextShell]_<<vars, shown>>
=============================================================================
