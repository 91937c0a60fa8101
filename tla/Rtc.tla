--------------------------------- MODULE Rtc ---------------------------------
(***************************************************************************)
(* read_rtc of src/src/rtc.rs against the MC146818 clock it reads: the     *)
(* wait for the end of an update, the register reads one by one with       *)
(* interrupts enabled, and the conversions from BCD and from the 12-hour   *)
(* clock.                                                                  *)
(*                                                                         *)
(* The clock raises its update-in-progress flag 244 us before it advances. *)
(* That is time for LEAD port accesses in a row; whenever the CPU does     *)
(* something else in between (an interrupt handler), the time is over.     *)
(***************************************************************************)
EXTENDS Naturals, Sequences

CONSTANTS
  Starts,   (* the times at which a run of the model may begin              *)
  LEAD,     (* port accesses that fit between the flag and the update       *)
  UPDATES   (* bound: how often the clock advances                          *)

Registers == <<"second", "minute", "hour", "day", "month", "year">>
Fields    == {Registers[i] : i \in DOMAIN Registers}

VARIABLES
  now,      (* the time the clock shows                                     *)
  mode,     (* register B: BCD or binary, 24-hour or 12-hour                *)
  uip,      (* the update-in-progress flag                                  *)
  lead,     (* port accesses left before the update                         *)
  updates,  (* how often the clock has advanced                             *)
  pc,       (* where read_rtc is                                            *)
  regs,     (* the register bytes read so far, in the order of Registers    *)
  answer,   (* the RtcTime it returned                                      *)
  asked,    (* history: the time when the flag was found clear              *)
  delayed   (* history: did a handler run since then                        *)

clock  == <<now, mode, uip, lead, updates>>
reader == <<pc, regs, answer, asked, delayed>>
vars   == <<clock, reader>>

-----------------------------------------------------------------------------
(* The clock.                                                               *)

DaysIn(month, year) ==
  IF month = 2 THEN IF year % 4 = 0 THEN 29 ELSE 28
  ELSE IF month \in {4, 6, 9, 11} THEN 30 ELSE 31

LastValue(t, f) ==
  CASE f \in {"second", "minute"} -> 59
    [] f = "hour"  -> 23
    [] f = "day"   -> DaysIn(t.month, t.year)
    [] f = "month" -> 12
    [] f = "year"  -> 99
FirstValue(f) == IF f \in {"day", "month"} THEN 1 ELSE 0

(* The times of the calendar.                                                *)
Times == {t \in [Fields -> 0 .. 99] : \A f \in Fields : t[f] \in FirstValue(f) .. LastValue(t, f)}

(* A read needs all six registers and register B before the update.          *)
ASSUME RtcAssumption == /\ \A t \in Starts : t \in Times
                        /\ LEAD \in Nat /\ LEAD > Len(Registers)
                        /\ UPDATES \in Nat

(* The fields that a tick carries into: the seconds, and every field whose   *)
(* smaller neighbours are all at their last value.                           *)
Carried(t, i) == \A j \in 1 .. i - 1 : t[Registers[j]] = LastValue(t, Registers[j])

Tick(t) ==
  [f \in Fields |->
     LET i == CHOOSE n \in DOMAIN Registers : Registers[n] = f
     IN  IF ~ Carried(t, i) THEN t[f]
         ELSE IF t[f] = LastValue(t, f) THEN FirstValue(f) ELSE t[f] + 1]

Bcd(v) == (v \div 10) * 16 + (v % 10)

(* The byte a register holds for a field of the time.  On the 12-hour clock   *)
(* midnight and noon are 12, and bit 7 marks the afternoon.                   *)
RegisterByte(f) ==
  LET coded(v) == IF mode.bcd THEN Bcd(v) ELSE v
      twelve   == IF now.hour % 12 = 0 THEN 12 ELSE now.hour % 12
  IN  IF f = "hour" /\ ~ mode.h24
      THEN coded(twelve) + (IF now.hour >= 12 THEN 128 ELSE 0)
      ELSE coded(now[f])

UpdateBegins ==
  /\ ~ uip /\ updates < UPDATES
  /\ uip' = TRUE /\ lead' = LEAD
  /\ UNCHANGED <<now, mode, updates, reader>>

UpdateEnds ==
  /\ uip /\ lead = 0
  /\ uip' = FALSE
  /\ now' = Tick(now) /\ updates' = updates + 1
  /\ UNCHANGED <<mode, lead, reader>>

(* A handler runs, or other code while no read is under way.                 *)
CpuElsewhere ==
  /\ lead' = 0
  /\ delayed' = (delayed \/ pc = "read")
  /\ UNCHANGED <<now, mode, uip, updates, pc, regs, answer, asked>>

PortAccess ==
  /\ lead' = IF lead = 0 THEN 0 ELSE lead - 1
  /\ UNCHANGED <<now, mode, uip, updates>>

-----------------------------------------------------------------------------
(* read_rtc.                                                                *)

FromBcd(b) == (b % 16) + (b \div 16) * 10

(* The hour keeps its afternoon bit through the conversion.                  *)
HourFromBcd(b) == FromBcd(b % 128) + (b \div 128) * 128

To24(h) == ((h % 128) + 12) % 24

Converted(r) ==
  LET raw == [f \in Fields |-> r[CHOOSE n \in DOMAIN Registers : Registers[n] = f]]
      bin == IF ~ mode.bcd THEN raw
             ELSE [f \in Fields |-> IF f = "hour" THEN HourFromBcd(raw[f]) ELSE FromBcd(raw[f])]
  IN  [bin EXCEPT !.hour = IF ~ mode.h24 /\ @ >= 128 THEN To24(@) ELSE @,
                  !.year = 2000 + @]

Call ==
  /\ pc = "idle"
  /\ pc' = "wait"
  /\ UNCHANGED <<clock, regs, answer, asked, delayed>>

(* Mutation: the flag is not looked at.                                      *)
ReadAtOnce ==
  /\ pc = "wait"
  /\ PortAccess
  /\ pc' = "read" /\ regs' = <<>> /\ asked' = now /\ delayed' = FALSE
  /\ UNCHANGED answer

(* get_update_in_progress_flag, until it is clear.                           *)
WaitForUpdate ==
  /\ pc = "wait"
  /\ PortAccess
  /\ IF uip THEN UNCHANGED <<pc, regs, asked, delayed>>
     ELSE pc' = "read" /\ regs' = <<>> /\ asked' = now /\ delayed' = FALSE
  /\ UNCHANGED answer

ReadRegister ==
  /\ pc = "read" /\ Len(regs) < Len(Registers)
  /\ PortAccess
  /\ regs' = Append(regs, RegisterByte(Registers[Len(regs) + 1]))
  /\ UNCHANGED <<pc, answer, asked, delayed>>

(* Register B is read last and decides which conversions are made.           *)
ReadRegisterB ==
  /\ pc = "read" /\ Len(regs) = Len(Registers)
  /\ PortAccess
  /\ pc' = "done"
  /\ answer' = Converted(regs)
  /\ UNCHANGED <<regs, asked, delayed>>

Return ==
  /\ pc = "done"
  /\ pc' = "idle" /\ regs' = <<>> /\ answer' = <<>> /\ delayed' = FALSE
  /\ UNCHANGED <<clock, asked>>

-----------------------------------------------------------------------------
Init ==
  /\ now \in Starts
  /\ mode \in [bcd : BOOLEAN, h24 : BOOLEAN]
  /\ uip = FALSE /\ lead = 0 /\ updates = 0
  /\ pc = "idle" /\ regs = <<>> /\ answer = <<>>
  /\ asked = now /\ delayed = FALSE

Next == \/ UpdateBegins \/ UpdateEnds \/ CpuElsewhere
        \/ Call \/ WaitForUpdate \/ ReadRegister \/ ReadRegisterB \/ Return

Spec == Init /\ [][Next]_vars

-----------------------------------------------------------------------------
(* The RtcTime of a time of the clock.                                       *)
AsRtcTime(t) == [t EXCEPT !.year = 2000 + @]

(* The dial of the 12-hour clock shows 12 for this hour: noon and midnight.   *)
TwelveOnTheDial(t) == ~ mode.h24 /\ t.hour % 12 = 0

(* A read that no handler interrupted returns the time at which it found the  *)
(* flag clear, across every carry and although the clock may advance right     *)
(* after.  The one exception is the hour when the dial shows 12: rtc.rs:54     *)
(* means to convert it and does not get it right (README, section 5), so       *)
(* nothing is said of that hour, while the other fields must be exact.        *)
UndisturbedReadIsExact ==
  pc = "done" /\ ~ delayed =>
    /\ \A f \in Fields \ {"hour"} : answer[f] = AsRtcTime(asked)[f]
    /\ TwelveOnTheDial(asked) \/ answer.hour = asked.hour
=============================================================================
