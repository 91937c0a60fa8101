---------------------------- MODULE CommandsProofs ----------------------------
(***************************************************************************)
(* Proofs about Commands: a read of the clock that no handler interrupted  *)
(* is exact, for every time, every mode of the clock and however often it  *)
(* advances; calc is exact for integers of every width.                    *)
(***************************************************************************)
EXTENDS Commands, TLAPS

-----------------------------------------------------------------------------
(* calc.                                                                     *)

LEMMA HalfIsNumber == Half \in Nat /\ Half > 0 /\ Half \in Int
BY WidthAssumption DEF WidthAssumption

(* Dividing magnitudes.                                                      *)
LEMMA Magnitudes ==
  ASSUME NEW m \in Nat, NEW n \in Nat, n > 0
  PROVE  LET k == m \div n IN /\ k \in Nat /\ k <= m /\ n * k \in Nat /\ n * k <= m /\ m - n * k < n
                              /\ n > 1 /\ m > 0 => k < m
<1> DEFINE k == m \div n
<1>1. k \in Nat /\ n * k <= m /\ m < n * k + n
  OBVIOUS
<1> HIDE DEF k
<1>2. n * k \in Nat /\ k <= n * k
  BY <1>1
<1>3. ASSUME n > 1, m > 0 PROVE k < m
  <2>1. CASE k = 0
    BY <1>1, <1>3, <2>1
  <2>2. CASE k > 0
    <3>1. n * k >= 2 * k
      BY <1>1, <1>3, <2>2
    <3>2. QED
      BY <1>1, <1>2, <2>2, <3>1
  <2>3. QED
    BY <1>1, <2>1, <2>2
<1>4. QED
  BY <1>1, <1>2, <1>3 DEF k

LEMMA DivisionTheorem ==
  ASSUME NEW a \in Int64, NEW b \in Int64, b # 0
  PROVE  /\ Quotient(a, b) \in Int /\ Remainder(a, b) \in Int64
         /\ Divided(a, b, Quotient(a, b), Remainder(a, b))
         /\ Quotient(a, b) \in Int64 <=> ~ (a = MinInt /\ b = -1)
<1>1. /\ a \in Int /\ b \in Int /\ - Half <= a /\ a <= Half - 1 /\ - Half <= b /\ b <= Half - 1
      /\ Half \in Nat /\ Half > 0
  BY HalfIsNumber DEF Int64, MinInt, MaxInt
<1> DEFINE m == Abs(a)
           n == Abs(b)
           k == m \div n
           p == n * k
           q == Quotient(a, b)
           r == Remainder(a, b)
<1>2. m \in Nat /\ n \in Nat /\ n > 0 /\ m <= Half /\ n <= Half
  BY <1>1 DEF Abs
<1>3. k \in Nat /\ k <= m /\ p \in Nat /\ p <= m /\ m - p < n /\ (n > 1 /\ m > 0 => k < m)
  <2> HIDE DEF m, n
  <2>1. QED
    BY <1>2, Magnitudes
<1>3a. Abs(a) \div Abs(b) = k /\ Abs(a) = m /\ Abs(b) = n /\ p = n * k
  OBVIOUS
<1> HIDE DEF k, m, n, p
<1>4. /\ q \in Int
      /\ q = IF (a < 0) <=> (b < 0) THEN k ELSE - k
  BY <1>1, <1>3, <1>3a DEF Quotient, Sign
<1>5. b * q = IF a < 0 THEN - p ELSE p
  <2>1. b = (IF b < 0 THEN - n ELSE n) /\ (n * k = p)
    BY <1>1, <1>3a DEF Abs
  <2>2. (- n) * k = - (n * k) /\ n * (- k) = - (n * k) /\ (- n) * (- k) = n * k
    BY <1>2, <1>3
  <2>3. QED
    BY <1>4, <2>1, <2>2
<1>6. r = (IF a < 0 THEN - (m - p) ELSE m - p) /\ r \in Int
  BY <1>1, <1>2, <1>3, <1>3a, <1>5 DEF Remainder, Abs
<1>7. Divided(a, b, q, r)
  <2>1. a = b * q + r
    BY <1>1, <1>2, <1>3, <1>3a, <1>5, <1>6 DEF Abs
  <2>2. Abs(r) < Abs(b)
    BY <1>2, <1>3, <1>3a, <1>6 DEF Abs
  <2>3. r # 0 => Sign(r) = Sign(a)
    BY <1>1, <1>2, <1>3, <1>6 DEF Sign
  <2>4. QED
    BY <2>1, <2>2, <2>3 DEF Divided
<1>8. r \in Int64
  BY <1>1, <1>2, <1>3, <1>6 DEF Int64, MinInt, MaxInt
<1>9. q \in Int64 <=> ~ (a = MinInt /\ b = -1)
  <2>1. CASE a = MinInt /\ b = -1
    <3>1. m = Half /\ n = 1
      BY <1>1, <1>3a, <2>1 DEF Abs, MinInt
    <3>2. k = Half
      BY <1>1, <1>3, <3>1 DEF k
    <3>3. q = Half
      BY <1>1, <1>4, <2>1, <3>2 DEF MinInt
    <3>4. QED
      BY <1>1, <2>1, <3>3 DEF Int64, MinInt, MaxInt
  <2>2. CASE ~ (a = MinInt /\ b = -1)
    <3>1. CASE k < Half
      BY <1>1, <1>3, <1>4, <2>2, <3>1 DEF Int64, MinInt, MaxInt
    <3>2. CASE ~ (k < Half)
      <4>1. k = Half /\ m = Half /\ n = 1
        BY <1>1, <1>2, <1>3, <3>2
      <4>2. a = MinInt /\ b = 1
        BY <1>1, <1>3a, <2>2, <4>1 DEF Abs, MinInt
      <4>3. q = - Half
        BY <1>1, <1>4, <4>1, <4>2 DEF MinInt
      <4>4. QED
        BY <1>1, <2>2, <4>3 DEF Int64, MinInt, MaxInt
    <3>3. QED
      BY <3>1, <3>2
  <2>3. QED
    BY <2>1, <2>2
<1>10. QED
  BY <1>4, <1>7, <1>8, <1>9

LEMMA Outcomes ==
  /\ \A v : /\ Value(v).is = "value" /\ Value(v).val = v
            /\ Value(v).is # "panic" /\ Value(v).is # "error"
  /\ Panic.is = "panic" /\ Panic.is # "value" /\ Panic.is # "error"
  /\ Error.is = "error" /\ Error.is # "value" /\ Error.is # "panic"
BY DEF Value, Panic, Error

LEMMA CheckedIs ==
  ASSUME NEW v
  PROVE  /\ Checked(v).is # "error"
         /\ Checked(v).is = "panic" <=> v \notin Int64
         /\ Checked(v).is = "value" => Checked(v).val = v
BY Outcomes DEF Checked

LEMMA DividesIs ==
  ASSUME NEW a \in Int64, NEW b \in Int64, b # 0, NEW v
  PROVE  /\ Divides(a, b, v).is # "error"
         /\ Divides(a, b, v).is = "panic" <=> (a = MinInt /\ b = -1)
         /\ Divides(a, b, v).is = "value" => Divides(a, b, v).val = v /\ Quotient(a, b) \in Int64
BY Outcomes, DivisionTheorem DEF Divides

(* What CalcExact says of a line and its outcome.                            *)
ExactFor(a, op, b, is, v) ==
  /\ is = "error" <=> op = "other" \/ (op \in {"/", "%"} /\ b = 0)
  /\ is = "panic" <=> \/ op = "+" /\ a + b \notin Int64
                      \/ op = "-" /\ a - b \notin Int64
                      \/ op = "*" /\ a * b \notin Int64
                      \/ op \in {"/", "%"} /\ a = MinInt /\ b = -1
  /\ is = "value" => /\ op = "+" => v - b = a
                     /\ op = "-" => v + b = a
                     /\ op = "*" => v = a * b
                     /\ op = "/" => \E r \in Int64 : Divided(a, b, v, r)
                     /\ op = "%" => \E q \in Int64 : Divided(a, b, q, v)
Exact(s) == ExactFor(s.a, s.op, s.b, s.result.is, s.result.val)

LEMMA CommandExact ==
  ASSUME NEW a \in Int64, NEW b \in Int64, NEW op \in Operators
  PROVE  Exact([a |-> a, op |-> op, b |-> b, result |-> CalcCommand(a, op, b)])
<1> DEFINE c == CalcCommand(a, op, b)
           s == [a |-> a, op |-> op, b |-> b, result |-> c]
<1>1. a \in Int /\ b \in Int
  BY HalfIsNumber DEF Int64, MinInt, MaxInt
<1> DEFINE is == c.is
           v == c.val
<1>2. SUFFICES ExactFor(a, op, b, is, v)
  BY DEF Exact
<1>3. CASE op = "+"
  <2>1. c = Checked(a + b)
    BY <1>3 DEF CalcCommand
  <2>2. is # "error" /\ (is = "panic" <=> a + b \notin Int64) /\ (is = "value" => v = a + b)
    BY <2>1, CheckedIs
  <2> HIDE DEF is, v
  <2>3. QED
    BY <1>1, <1>3, <2>2 DEF ExactFor
<1>4. CASE op = "-"
  <2>1. c = Checked(a - b)
    BY <1>4 DEF CalcCommand
  <2>2. is # "error" /\ (is = "panic" <=> a - b \notin Int64) /\ (is = "value" => v = a - b)
    BY <2>1, CheckedIs
  <2> HIDE DEF is, v
  <2>3. QED
    BY <1>1, <1>4, <2>2 DEF ExactFor
<1>5. CASE op = "*"
  <2>1. c = Checked(a * b)
    BY <1>5 DEF CalcCommand
  <2>2. is # "error" /\ (is = "panic" <=> a * b \notin Int64) /\ (is = "value" => v = a * b)
    BY <2>1, CheckedIs
  <2> HIDE DEF is, v
  <2>3. QED
    BY <1>5, <2>2 DEF ExactFor
<1>6. CASE op = "/" /\ b # 0
  <2>1. c = Divides(a, b, Quotient(a, b))
    BY <1>6 DEF CalcCommand
  <2>2. /\ Remainder(a, b) \in Int64 /\ Divided(a, b, Quotient(a, b), Remainder(a, b))
    BY <1>6, DivisionTheorem
  <2>3. QED
    <3>1. /\ is # "error" /\ (is = "panic" <=> a = MinInt /\ b = -1)
          /\ is = "value" => v = Quotient(a, b) /\ Quotient(a, b) \in Int64
      BY <1>6, <2>1, DividesIs
    <3> HIDE DEF is, v
    <3>2. QED
      BY <1>6, <2>2, <3>1 DEF ExactFor
<1>7. CASE op = "%" /\ b # 0
  <2>1. c = Divides(a, b, Remainder(a, b))
    BY <1>7 DEF CalcCommand
  <2>2. Divided(a, b, Quotient(a, b), Remainder(a, b))
    BY <1>7, DivisionTheorem
  <2>3. QED
    <3>1. /\ is # "error" /\ (is = "panic" <=> a = MinInt /\ b = -1)
          /\ is = "value" => v = Remainder(a, b) /\ Quotient(a, b) \in Int64
      BY <1>7, <2>1, DividesIs
    <3> HIDE DEF is, v
    <3>2. QED
      BY <1>7, <2>2, <3>1 DEF ExactFor
<1>8. CASE op = "other" \/ (op \in {"/", "%"} /\ b = 0)
  <2>1. c = Error
    BY <1>8 DEF CalcCommand
  <2>2. is = "error" /\ ~ (b = 0 /\ b = -1)
    BY <2>1, Outcomes
  <2> HIDE DEF is, v
  <2>3. QED
    BY <1>8, <2>2 DEF ExactFor
<1>9. QED
  BY <1>3, <1>4, <1>5, <1>6, <1>7, <1>8 DEF Operators

(* calc never shows a wrong number and stops the kernel exactly when a result *)
(* leaves the type, for operands of every width: sums, differences, products, *)
(* quotients cut off towards zero and their remainders.                       *)
THEOREM CalcIsExact == SpecShell => []CalcExact
<1> DEFINE Inv == shown # Nothing => Exact(shown)
<1>1. InitShell => Inv
  BY DEF InitShell
<1>2. Inv /\ [NextShell]_<<vars, shown>> => Inv'
  <2> SUFFICES ASSUME Inv, [NextShell]_<<vars, shown>> PROVE Inv'
    OBVIOUS
  <2>1. CASE CalcRuns
    BY <2>1, CommandExact DEF CalcRuns, Calculate
  <2>2. CASE shown' = Nothing \/ shown' = shown
    BY <2>2
  <2>3. QED
    BY <2>1, <2>2 DEF NextShell
<1>3. Inv => CalcExact
  BY DEF CalcExact, Exact, ExactFor
<1>4. QED
  BY <1>1, <1>2, <1>3, PTL DEF SpecShell

-----------------------------------------------------------------------------
(* The clock.                                                                *)

LEMMA SixFields ==
  /\ Fields = {"second", "minute", "hour", "day", "month", "year"}
  /\ DOMAIN Registers = 1 .. 6 /\ Len(Registers) = 6
  /\ Registers[1] = "second" /\ Registers[2] = "minute" /\ Registers[3] = "hour"
  /\ Registers[4] = "day" /\ Registers[5] = "month" /\ Registers[6] = "year"
BY DEF Fields, Registers

Index(f) == CHOOSE n \in DOMAIN Registers : Registers[n] = f

LEMMA Indices ==
  /\ Index("second") = 1 /\ Index("minute") = 2 /\ Index("hour") = 3
  /\ Index("day") = 4 /\ Index("month") = 5 /\ Index("year") = 6
  /\ \A f \in Fields : Index(f) \in 1 .. 6 /\ Registers[Index(f)] = f
<1>1. \A f \in Fields : \E n \in DOMAIN Registers : Registers[n] = f
  BY DEF Fields
<1>2. \A f \in Fields : Index(f) \in DOMAIN Registers /\ Registers[Index(f)] = f
  BY <1>1 DEF Index
<1>3. QED
  BY <1>2, SixFields

(* The values of a time of the calendar.                                     *)
LEMMA TimeIs ==
  ASSUME NEW t
  PROVE  t \in Times <=>
           /\ t \in [Fields -> 0 .. 99]
           /\ t["second"] \in 0 .. 59 /\ t["minute"] \in 0 .. 59 /\ t["hour"] \in 0 .. 23
           /\ t["day"] \in 1 .. DaysIn(t["month"], t["year"])
           /\ t["month"] \in 1 .. 12 /\ t["year"] \in 0 .. 99
<1>1. /\ LastValue(t, "second") = 59 /\ LastValue(t, "minute") = 59 /\ LastValue(t, "hour") = 23
      /\ LastValue(t, "day") = DaysIn(t["month"], t["year"])
      /\ LastValue(t, "month") = 12 /\ LastValue(t, "year") = 99
  BY DEF LastValue
<1>2. /\ FirstValue("second") = 0 /\ FirstValue("minute") = 0 /\ FirstValue("hour") = 0
      /\ FirstValue("day") = 1 /\ FirstValue("month") = 1 /\ FirstValue("year") = 0
  BY DEF FirstValue
<1>3. QED
  BY <1>1, <1>2, SixFields DEF Times

LEMMA MonthLengths ==
  ASSUME NEW m, NEW y PROVE DaysIn(m, y) \in 28 .. 31
BY DEF DaysIn

(* A tick leads from one time of the calendar to another.                    *)
LEMMA TickInCalendar ==
  ASSUME NEW t \in Times
  PROVE  Tick(t) \in Times
<1> DEFINE T == Tick(t)
           D == DaysIn(t["month"], t["year"])
<1>1. /\ t \in [Fields -> 0 .. 99]
      /\ t["second"] \in 0 .. 59 /\ t["minute"] \in 0 .. 59 /\ t["hour"] \in 0 .. 23
      /\ t["day"] \in 1 .. D /\ t["month"] \in 1 .. 12 /\ t["year"] \in 0 .. 99
  BY TimeIs
<1>2. /\ LastValue(t, "second") = 59 /\ LastValue(t, "minute") = 59 /\ LastValue(t, "hour") = 23
      /\ LastValue(t, "day") = D /\ LastValue(t, "month") = 12 /\ LastValue(t, "year") = 99
  BY DEF LastValue
<1>3. /\ FirstValue("second") = 0 /\ FirstValue("minute") = 0 /\ FirstValue("hour") = 0
      /\ FirstValue("day") = 1 /\ FirstValue("month") = 1 /\ FirstValue("year") = 0
  BY DEF FirstValue
<1>4. \A f \in Fields :
        T[f] = IF ~ Carried(t, Index(f)) THEN t[f]
               ELSE IF t[f] = LastValue(t, f) THEN FirstValue(f) ELSE t[f] + 1
  BY DEF Tick, Index
<1>5. DOMAIN T = Fields
  BY DEF Tick
<1> DEFINE C4 == Carried(t, 4)
           C5 == Carried(t, 5)
           C6 == Carried(t, 6)
<1>6. (C5 => C4 /\ t["day"] = D) /\ (C6 => C5)
  <2>1. C6 => C5
    BY DEF Carried
  <2>2. C5 => C4
    BY DEF Carried
  <2>3. C5 => t["day"] = D
    BY <1>2, SixFields DEF Carried
  <2>4. QED
    BY <2>1, <2>2, <2>3
<1> HIDE DEF T, C4, C5, C6, D
<1>7. T["second"] \in 0 .. 59 /\ T["minute"] \in 0 .. 59 /\ T["hour"] \in 0 .. 23
  BY <1>1, <1>2, <1>3, <1>4, SixFields
<1>8. /\ T["day"] = IF ~ C4 THEN t["day"] ELSE IF t["day"] = D THEN 1 ELSE t["day"] + 1
      /\ T["month"] = IF ~ C5 THEN t["month"] ELSE IF t["month"] = 12 THEN 1 ELSE t["month"] + 1
      /\ T["year"] = IF ~ C6 THEN t["year"] ELSE IF t["year"] = 99 THEN 0 ELSE t["year"] + 1
  BY <1>2, <1>3, <1>4, SixFields, Indices DEF C4, C5, C6
<1>9. T["month"] \in 1 .. 12 /\ T["year"] \in 0 .. 99
  BY <1>1, <1>8
<1>10. T["day"] \in 1 .. DaysIn(T["month"], T["year"])
  <2>1. D \in 28 .. 31 /\ DaysIn(T["month"], T["year"]) \in 28 .. 31
    BY MonthLengths DEF D
  <2>2. CASE C5
    BY <1>6, <1>8, <2>1, <2>2
  <2>3. CASE ~ C5
    <3>1. T["month"] = t["month"] /\ T["year"] = t["year"]
      BY <1>6, <1>8, <2>3
    <3>2. DaysIn(T["month"], T["year"]) = D
      BY <3>1 DEF D
    <3>3. QED
      BY <1>1, <1>8, <2>1, <3>2
  <2>4. QED
    BY <2>2, <2>3
<1>11. T \in [Fields -> 0 .. 99]
  <2>1. T = [f \in Fields |-> T[f]]
    BY <1>5 DEF T, Tick
  <2>2. T["day"] \in 0 .. 99
    BY <1>10, MonthLengths
  <2>3. \A f \in Fields : T[f] \in 0 .. 99
    BY <1>7, <1>9, <2>2, SixFields
  <2>4. QED
    BY <2>1, <2>3
<1>12. QED
  BY <1>7, <1>9, <1>10, <1>11, TimeIs DEF T

Modes == [bcd : BOOLEAN, h24 : BOOLEAN]

(* The byte for value v of a field, and for hour h on the 12-hour clock.      *)
Coded(v) == IF mode.bcd THEN Bcd(v) ELSE v
TwelveHour(h) == Coded(IF h % 12 = 0 THEN 12 ELSE h % 12) + (IF h >= 12 THEN 128 ELSE 0)

(* The byte of a register at time t.                                          *)
ByteAt(t, f) == IF f = "hour" /\ ~ mode.h24 THEN TwelveHour(t["hour"]) ELSE Coded(t[f])

LEMMA ByteAtNow ==
  ASSUME NEW f \in Fields
  PROVE  RegisterByte(f) = ByteAt(now, f)
BY DEF RegisterByte, ByteAt, TwelveHour, Coded

(* BCD is undone by the conversion.                                           *)
LEMMA BcdRoundTrip ==
  ASSUME NEW v \in 0 .. 99
  PROVE  FromBcd(Bcd(v)) = v /\ Bcd(v) \in Nat
BY DEF FromBcd, Bcd

(* So is the 12-hour clock, up to noon and midnight.                          *)
LEMMA HourRoundTrip ==
  ASSUME NEW h \in 0 .. 23
  PROVE  LET w == IF h % 12 = 0 THEN 12 ELSE h % 12
             p == IF h >= 12 THEN 128 ELSE 0
             back == IF w + p >= 128 THEN To24(w + p) ELSE w + p
         IN  /\ w \in 1 .. 12 /\ HourFromBcd(Bcd(w) + p) = w + p /\ HourFromBcd(Bcd(h)) = h
             /\ back = IF h % 12 = 0 THEN 12 - h ELSE h
<1> DEFINE w == IF h % 12 = 0 THEN 12 ELSE h % 12
           p == IF h >= 12 THEN 128 ELSE 0
           back == IF w + p >= 128 THEN To24(w + p) ELSE w + p
<1>1. w \in 1 .. 12 /\ p \in {0, 128}
  OBVIOUS
<1>2. HourFromBcd(Bcd(h)) = h
  <2>1. Bcd(h) \in 0 .. 127 /\ FromBcd(Bcd(h)) = h
    BY BcdRoundTrip DEF Bcd
  <2>2. QED
    BY <2>1 DEF HourFromBcd
<1>3. HourFromBcd(Bcd(w) + p) = w + p
  <2> HIDE DEF w, p
  <2>1. Bcd(w) \in 0 .. 127 /\ FromBcd(Bcd(w)) = w
    BY <1>1, BcdRoundTrip DEF Bcd
  <2>2. (Bcd(w) + p) % 128 = Bcd(w) /\ ((Bcd(w) + p) \div 128) * 128 = p
    BY <1>1, <2>1
  <2>3. QED
    BY <2>1, <2>2 DEF HourFromBcd
<1>4. back = IF h % 12 = 0 THEN 12 - h ELSE h
  <2>1. CASE h < 12
    BY <2>1
  <2>2. CASE h >= 12
    <3>1. w + p >= 128 /\ (w + p) % 128 = w
      BY <1>1, <2>2
    <3>2. back = (w + 12) % 24
      BY <3>1 DEF To24
    <3>3. CASE h = 12
      BY <3>2, <3>3
    <3>4. CASE h > 12
      <4>1. h % 12 = h - 12 /\ w = h - 12
        BY <3>4
      <4>2. QED
        BY <3>2, <3>4, <4>1
    <3>5. QED
      BY <2>2, <3>3, <3>4
  <2>3. QED
    BY <2>1, <2>2
<1>5. QED
  BY <1>1, <1>2, <1>3, <1>4

LEMMA TwoFieldsReplaced ==
  ASSUME NEW g, DOMAIN g = Fields, g = [f \in Fields |-> g[f]], NEW h, NEW y
  PROVE  /\ [g EXCEPT !.hour = h, !.year = y]
               = [f \in Fields |-> IF f = "hour" THEN h ELSE IF f = "year" THEN y ELSE g[f]]
         /\ [g EXCEPT !.year = y, !.hour = h]
               = [f \in Fields |-> IF f = "hour" THEN h ELSE IF f = "year" THEN y ELSE g[f]]
BY SixFields

(* The registers of one instant are converted to that instant, whatever their *)
(* format, but for the hour when the dial of the 12-hour clock shows 12.      *)
ConvertedFrom(a, t) ==
  /\ \A f \in Fields \ {"hour"} : a[f] = AsRtcTime(t)[f]
  /\ TwelveOnTheDial(t) \/ a.hour = t.hour

LEMMA ConversionIsRight ==
  ASSUME NEW t \in Times, mode \in Modes, NEW r, \A f \in Fields : r[Index(f)] = ByteAt(t, f)
  PROVE  ConvertedFrom(Converted(r), t)
<1> DEFINE raw == [f \in Fields |-> r[Index(f)]]
           bin == IF ~ mode.bcd THEN raw
                  ELSE [f \in Fields |-> IF f = "hour" THEN HourFromBcd(raw[f]) ELSE FromBcd(raw[f])]
           hr  == t["hour"]
           w   == IF hr % 12 = 0 THEN 12 ELSE hr % 12
           p   == IF hr >= 12 THEN 128 ELSE 0
           hour == IF ~ mode.h24 /\ bin["hour"] >= 128 THEN To24(bin["hour"]) ELSE bin["hour"]
           year == 2000 + bin["year"]
<1>1. /\ t \in [Fields -> 0 .. 99] /\ t["hour"] \in 0 .. 23
      /\ mode.bcd \in BOOLEAN /\ mode.h24 \in BOOLEAN
  BY TimeIs DEF Modes
<1>2. /\ w \in 1 .. 12 /\ HourFromBcd(Bcd(w) + p) = w + p /\ HourFromBcd(Bcd(hr)) = hr
      /\ (IF w + p >= 128 THEN To24(w + p) ELSE w + p) = IF hr % 12 = 0 THEN 12 - hr ELSE hr
  <2> HIDE DEF hr
  <2>1. hr \in 0 .. 23
    BY <1>1 DEF hr
  <2>2. QED
    BY <2>1, HourRoundTrip
<1>3. Converted(r) = [bin EXCEPT !.hour = hour, !.year = year]
  BY DEF Converted, Index
<1>4. DOMAIN bin = Fields /\ bin = [f \in Fields |-> bin[f]]
  BY <1>1
<1>5. \A f \in Fields : raw[f] = ByteAt(t, f)
  OBVIOUS
<1>6. \A f \in Fields : f # "hour" => bin[f] = t[f]
  <2>1. SUFFICES ASSUME NEW f \in Fields, f # "hour" PROVE bin[f] = t[f]
    OBVIOUS
  <2>2. t[f] \in 0 .. 99 /\ raw[f] = Coded(t[f])
    BY <1>1, <1>5, <2>1 DEF ByteAt
  <2> HIDE DEF raw
  <2>3. CASE mode.bcd
    BY <2>1, <2>2, <2>3, BcdRoundTrip DEF Coded
  <2>4. CASE ~ mode.bcd
    BY <2>2, <2>4 DEF Coded
  <2>5. QED
    BY <2>3, <2>4
<1>7. bin["hour"] = IF mode.h24 THEN hr ELSE w + p
  <2>1. "hour" \in Fields /\ raw["hour"] = ByteAt(t, "hour")
    BY <1>5, SixFields
  <2>2. ByteAt(t, "hour") = IF mode.h24 THEN Coded(hr) ELSE Coded(w) + p
    BY DEF ByteAt, TwelveHour
  <2> HIDE DEF raw, hr, w, p
  <2>3. CASE mode.bcd
    <3>1. bin["hour"] = HourFromBcd(raw["hour"])
      BY <2>1, <2>3
    <3> HIDE DEF bin
    <3>2. QED
      BY <1>2, <2>1, <2>2, <2>3, <3>1 DEF Coded
  <2>4. CASE ~ mode.bcd
    <3>1. bin["hour"] = raw["hour"]
      BY <2>4
    <3> HIDE DEF bin
    <3>2. QED
      BY <2>1, <2>2, <2>4, <3>1 DEF Coded
  <2>5. QED
    BY <2>3, <2>4
<1>8. TwelveOnTheDial(t) \/ hour = t["hour"]
  <2>1. SUFFICES ASSUME mode.h24 \/ hr % 12 # 0 PROVE hour = hr
    BY DEF TwelveOnTheDial
  <2> HIDE DEF bin, hr, w, p
  <2>2. QED
    BY <1>2, <1>7, <2>1, SMTT(20)
<1>9. year = 2000 + t["year"]
  <2> HIDE DEF bin
  <2>1. QED
    BY <1>6, SixFields, SMTT(20)
<1> HIDE DEF bin, hour, year
<1>10. [bin EXCEPT !.hour = hour, !.year = year]
         = [f \in Fields |-> IF f = "hour" THEN hour ELSE IF f = "year" THEN year ELSE bin[f]]
  BY <1>4, TwoFieldsReplaced
<1>11. \A f \in Fields \ {"hour"} : AsRtcTime(t)[f] = IF f = "year" THEN year ELSE t[f]
  <2>1. DOMAIN t = Fields
    BY <1>1
  <2>2. QED
    BY <1>9, <2>1, SMTT(20) DEF AsRtcTime
<1>12. Converted(r) = [f \in Fields |-> IF f = "hour" THEN hour ELSE IF f = "year" THEN year ELSE bin[f]]
  BY <1>3, <1>10
<1>13. \A f \in Fields \ {"hour"} : Converted(r)[f] = AsRtcTime(t)[f]
  BY <1>6, <1>11, <1>12
<1>14. Converted(r).hour = hour
  BY <1>12, SixFields
<1>15. QED
  BY <1>8, <1>13, <1>14 DEF ConvertedFrom

(* The inductive invariant.  As long as no handler ran, the registers read    *)
(* so far are those of the instant at which the flag was found clear, and if  *)
(* the flag has been raised since, the clock cannot advance before the        *)
(* accesses that are left.                                                    *)
ClockTyped ==
  /\ now \in Times /\ asked \in Times /\ mode \in Modes
  /\ lead \in Nat /\ uip \in BOOLEAN /\ delayed \in BOOLEAN
  /\ regs \in Seq(Nat) /\ Len(regs) <= 6

Snapshot ==
  pc = "read" /\ ~ delayed =>
    /\ now = asked
    /\ uip => lead + Len(regs) > 6
    /\ \A i \in 1 .. Len(regs) : regs[i] = ByteAt(asked, Registers[i])

ClockInv == ClockTyped /\ Snapshot /\ UndisturbedReadIsExact

LEMMA ByteIsNumber ==
  ASSUME NEW t \in Times, NEW f \in Fields
  PROVE  ByteAt(t, f) \in Nat
<1>1. t[f] \in 0 .. 99 /\ t["hour"] \in 0 .. 23
  BY TimeIs
<1>2. \A v \in 0 .. 99 : Coded(v) \in Nat
  BY BcdRoundTrip DEF Coded
<1>3. t["hour"] % 12 \in 0 .. 99
  BY <1>1
<1>4. QED
  BY <1>1, <1>2, <1>3 DEF ByteAt, TwelveHour

LEMMA ClockInit == Init => ClockInv
<1> SUFFICES ASSUME Init PROVE ClockInv
  OBVIOUS
<1>1. /\ now \in Times /\ asked \in Times /\ mode \in Modes /\ pc = "idle"
      /\ lead = 0 /\ uip = FALSE /\ delayed = FALSE
  BY RtcAssumption DEF Init, RtcAssumption, Modes
<1>2. regs \in Seq(Nat) /\ Len(regs) <= 6
  BY DEF Init
<1>3. ClockTyped
  BY <1>1, <1>2 DEF ClockTyped
<1>4. QED
  BY <1>1, <1>3 DEF ClockInv, Snapshot, UndisturbedReadIsExact

LEMMA ClockStep == ClockInv /\ [Next]_vars => ClockInv'
<1> SUFFICES ASSUME ClockInv, [Next]_vars PROVE ClockInv'
  OBVIOUS
<1>1. LEAD \in Nat /\ LEAD > 6
  BY RtcAssumption, SixFields DEF RtcAssumption
<1>2. ClockTyped /\ Snapshot /\ UndisturbedReadIsExact
  BY DEF ClockInv
<1>3. mode' = mode
  BY DEF Next, vars, clock, reader, UpdateBegins, UpdateEnds, CpuElsewhere, PortAccess,
         Call, WaitForUpdate, ReadRegister, ReadRegisterB, Return
(* What is shown of an answer stays right while the reader does not move.     *)
<1>4. ASSUME UNCHANGED <<pc, answer, asked>>, delayed' = delayed PROVE UndisturbedReadIsExact'
  BY <1>2, <1>3, <1>4 DEF UndisturbedReadIsExact, TwelveOnTheDial, AsRtcTime
(* Nor do the bytes that were read.                                          *)
<1>5. \A t, f : ByteAt(t, f)' = ByteAt(t, f)
  BY <1>3 DEF ByteAt, TwelveHour, Coded
<1>6. CASE UpdateBegins
  <2>1. /\ uip' = TRUE /\ lead' = LEAD
        /\ UNCHANGED <<now, mode, pc, regs, answer, asked, delayed>>
    BY <1>6 DEF UpdateBegins, reader
  <2>2. ClockTyped'
    BY <1>1, <1>2, <2>1 DEF ClockTyped
  <2>3. Snapshot'
    BY <1>1, <1>2, <1>5, <2>1 DEF ClockTyped, Snapshot
  <2>4. QED
    BY <1>4, <2>1, <2>2, <2>3 DEF ClockInv
<1>7. CASE UpdateEnds
  <2>1. /\ uip /\ lead = 0 /\ uip' = FALSE /\ now' = Tick(now)
        /\ UNCHANGED <<mode, lead, pc, regs, answer, asked, delayed>>
    BY <1>7 DEF UpdateEnds, reader
  <2>2. ClockTyped'
    BY <1>2, <2>1, TickInCalendar DEF ClockTyped
  <2>3. ~ (pc = "read" /\ ~ delayed)
    BY <1>2, <2>1 DEF ClockTyped, Snapshot
  <2>4. Snapshot'
    BY <2>1, <2>3 DEF Snapshot
  <2>5. QED
    BY <1>4, <2>1, <2>2, <2>4 DEF ClockInv
<1>8. CASE CpuElsewhere
  <2>1. /\ lead' = 0 /\ delayed' = (delayed \/ pc = "read")
        /\ UNCHANGED <<now, mode, uip, pc, regs, answer, asked>>
    BY <1>8 DEF CpuElsewhere
  <2>2. ClockTyped'
    BY <1>2, <2>1 DEF ClockTyped
  <2>3. Snapshot'
    BY <2>1 DEF Snapshot
  <2>4. UndisturbedReadIsExact'
    <3>1. CASE pc = "read"
      BY <2>1, <3>1 DEF UndisturbedReadIsExact
    <3>2. CASE pc # "read"
      <4>1. delayed' = delayed
        BY <1>2, <2>1, <3>2 DEF ClockTyped
      <4>2. QED
        BY <1>4, <2>1, <4>1
    <3>3. QED
      BY <3>1, <3>2
  <2>5. QED
    BY <2>2, <2>3, <2>4 DEF ClockInv
<1>9. CASE Call
  <2>1. pc' = "wait" /\ UNCHANGED <<now, mode, uip, lead, regs, answer, asked, delayed>>
    BY <1>9 DEF Call, clock
  <2>2. QED
    BY <1>2, <2>1 DEF ClockInv, ClockTyped, Snapshot, UndisturbedReadIsExact
<1>10. CASE WaitForUpdate
  <2>1. /\ pc = "wait" /\ lead' = (IF lead = 0 THEN 0 ELSE lead - 1)
        /\ UNCHANGED <<now, mode, uip, answer>>
        /\ IF uip THEN UNCHANGED <<pc, regs, asked, delayed>>
           ELSE pc' = "read" /\ regs' = <<>> /\ asked' = now /\ delayed' = FALSE
    BY <1>10 DEF WaitForUpdate, PortAccess
  <2>2. lead' \in Nat
    BY <1>2, <2>1 DEF ClockTyped
  <2>3. CASE uip
    BY <1>2, <2>1, <2>2, <2>3 DEF ClockInv, ClockTyped, Snapshot, UndisturbedReadIsExact
  <2>4. CASE ~ uip
    <3>1. uip' = FALSE /\ pc' = "read" /\ asked' = now /\ delayed' = FALSE /\ UNCHANGED <<now, mode>>
      BY <1>2, <2>1, <2>4 DEF ClockTyped
    <3>2. regs' \in Seq(Nat) /\ Len(regs') = 0 /\ Len(regs') <= 6
      BY <2>1, <2>4
    <3>3. ClockTyped'
      BY <1>2, <2>2, <3>1, <3>2 DEF ClockTyped
    <3>4. QED
      BY <3>1, <3>2, <3>3 DEF ClockInv, Snapshot, UndisturbedReadIsExact
  <2>5. QED
    BY <2>3, <2>4
<1>11. CASE ReadRegister
  <2> DEFINE n == Len(regs)
  <2>1. /\ pc = "read" /\ n < 6 /\ lead' = (IF lead = 0 THEN 0 ELSE lead - 1)
        /\ regs' = Append(regs, RegisterByte(Registers[n + 1]))
        /\ UNCHANGED <<now, mode, uip, pc, answer, asked, delayed>>
    BY <1>11, SixFields DEF ReadRegister, PortAccess
  <2>2. n \in Nat /\ n + 1 \in 1 .. 6
    BY <1>2, <2>1 DEF ClockTyped
  <2>3. Registers[n + 1] \in Fields
    BY <2>2, SixFields DEF Fields
  <2>4. /\ RegisterByte(Registers[n + 1]) = ByteAt(now, Registers[n + 1])
        /\ ByteAt(now, Registers[n + 1]) \in Nat
    BY <1>2, <2>3, ByteAtNow, ByteIsNumber DEF ClockTyped
  <2>5. /\ regs' \in Seq(Nat) /\ Len(regs') = n + 1
        /\ regs'[n + 1] = ByteAt(now, Registers[n + 1])
        /\ \A i \in 1 .. n : regs'[i] = regs[i]
    BY <1>2, <2>1, <2>4 DEF ClockTyped
  <2>6. ClockTyped'
    BY <1>2, <2>1, <2>2, <2>5 DEF ClockTyped
  <2>7. Snapshot'
    <3>1. SUFFICES ASSUME ~ delayed
                   PROVE  /\ now = asked
                          /\ uip => lead' + Len(regs') > 6
                          /\ \A i \in 1 .. Len(regs') : regs'[i] = ByteAt(asked, Registers[i])
      BY <1>5, <2>1 DEF Snapshot
    <3>2. /\ now = asked /\ (uip => lead + n > 6)
          /\ \A i \in 1 .. n : regs[i] = ByteAt(asked, Registers[i])
      BY <1>2, <2>1, <3>1 DEF Snapshot
    <3>3. uip => lead' + Len(regs') > 6
      BY <1>2, <2>1, <2>2, <2>5, <3>2 DEF ClockTyped
    <3>4. \A i \in 1 .. n + 1 : i \in 1 .. n \/ i = n + 1
      BY <2>2
    <3>5. QED
      BY <2>5, <3>2, <3>3, <3>4
  <2>8. QED
    BY <1>4, <2>1, <2>6, <2>7 DEF ClockInv
<1>12. CASE ReadRegisterB
  <2>1. /\ pc = "read" /\ Len(regs) = 6 /\ lead' = (IF lead = 0 THEN 0 ELSE lead - 1)
        /\ pc' = "done" /\ answer' = Converted(regs)
        /\ UNCHANGED <<now, mode, uip, regs, asked, delayed>>
    BY <1>12, SixFields DEF ReadRegisterB, PortAccess
  <2>2. ClockTyped'
    <3>1. lead' \in Nat
      BY <1>2, <2>1 DEF ClockTyped
    <3>2. QED
      BY <1>2, <2>1, <3>1 DEF ClockTyped
  <2>3. ASSUME ~ delayed PROVE ConvertedFrom(Converted(regs), asked)
    <3>1. \A i \in 1 .. 6 : regs[i] = ByteAt(asked, Registers[i])
      BY <1>2, <2>1, <2>3 DEF Snapshot
    <3>2. \A f \in Fields : regs[Index(f)] = ByteAt(asked, f)
      BY <3>1, Indices
    <3>3. asked \in Times /\ mode \in Modes
      BY <1>2 DEF ClockTyped
    <3>4. QED
      BY <3>2, <3>3, ConversionIsRight
  <2>4. TwelveOnTheDial(asked)' = TwelveOnTheDial(asked) /\ AsRtcTime(asked)' = AsRtcTime(asked)
    BY <1>3, <2>1 DEF TwelveOnTheDial, AsRtcTime
  <2>5. UndisturbedReadIsExact'
    BY <2>1, <2>3, <2>4 DEF UndisturbedReadIsExact, ConvertedFrom
  <2>6. QED
    BY <2>1, <2>2, <2>5 DEF ClockInv, Snapshot
<1>13. CASE Return
  <2>1. /\ pc' = "idle" /\ regs' = <<>> /\ delayed' = FALSE
        /\ UNCHANGED <<now, mode, uip, lead, asked>>
    BY <1>13 DEF Return, clock
  <2>2. regs' \in Seq(Nat) /\ Len(regs') <= 6
    BY <2>1
  <2>3. pc' = "idle" /\ delayed' = FALSE /\ UNCHANGED <<now, mode, uip, lead, asked>>
    BY <2>1
  <2>4. ClockTyped'
    BY <1>2, <2>2, <2>3 DEF ClockTyped
  <2>5. QED
    BY <2>3, <2>4 DEF ClockInv, Snapshot, UndisturbedReadIsExact
<1>14. CASE UNCHANGED vars
  <2>1. UNCHANGED <<now, mode, uip, lead, pc, regs, answer, asked, delayed>>
    BY <1>14 DEF vars, clock, reader
  <2>2. ClockTyped' /\ Snapshot'
    BY <1>2, <1>5, <2>1 DEF ClockTyped, Snapshot
  <2>3. QED
    BY <1>4, <2>1, <2>2 DEF ClockInv
<1>15. QED
  BY <1>6, <1>7, <1>8, <1>9, <1>10, <1>11, <1>12, <1>13, <1>14 DEF Next

(* read_rtc returns one instant although it reads the registers one by one    *)
(* and the clock may advance at any time: a read that no handler interrupted  *)
(* returns the time at which it found the flag clear, in every format, from   *)
(* every time of the calendar and after any number of updates; only of the    *)
(* hour is nothing said when the dial of the 12-hour clock shows 12, which     *)
(* the code converts wrongly.                                                 *)
THEOREM ReadsAreExact == SpecShell => []UndisturbedReadIsExact
<1>1. InitShell => ClockInv
  BY ClockInit DEF InitShell
<1>2. ClockInv /\ [NextShell]_<<vars, shown>> => ClockInv'
  <2> SUFFICES ASSUME ClockInv, [NextShell]_<<vars, shown>> PROVE ClockInv'
    OBVIOUS
  <2>1. [Next]_vars
    BY DEF NextShell, CalcRuns
  <2>2. QED
    BY <2>1, ClockStep
<1>3. ClockInv => UndisturbedReadIsExact
  BY DEF ClockInv
<1>4. QED
  BY <1>1, <1>2, <1>3, PTL DEF SpecShell
=============================================================================
