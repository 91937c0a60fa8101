---------------------------- MODULE ConsoleProofs ----------------------------
(***************************************************************************)
(* Proofs about Console: for any number of strokes on either device and    *)
(* any limits of the input buffer, whatever the interleaving of the        *)
(* handlers with the shell.                                                *)
(***************************************************************************)
EXTENDS Console, Induction

Lines   == Seq(Strokes)
Echoes  == Devices \X Nat
Buffers == [line : Lines, ready : Seq(Lines), history : Seq(Lines),
            handled : Seq(Strokes), echo : Seq(Echoes)]

-----------------------------------------------------------------------------
(* The input buffer.                                                         *)

(* A buffer within its limits.                                               *)
WithinLimits(b) ==
  /\ b \in Buffers
  /\ Len(b.line) <= MAX_LINE_LEN /\ \A i \in DOMAIN b.line : b.line[i].kind = "Char"
  /\ Len(b.ready) <= MAX_QUEUE_DEPTH /\ Len(b.history) <= MAX_HISTORY

LEMMA StrokeIs ==
  ASSUME NEW s \in Strokes
  PROVE  /\ s.dev \in Devices /\ s.n \in Nat /\ s.kind \in Kinds /\ s = Stroke(s.dev, s.n, s.kind)
         /\ s.n <= TYPED_MAX /\ <<s.dev, s.n>> \in Echoes
<1>1. PICK d \in Devices, n \in 0 .. TYPED_MAX, k \in Kinds : s = Stroke(d, n, k)
  BY DEF Strokes
<1>2. s.dev = d /\ s.n = n /\ s.kind = k
  BY <1>1 DEF Stroke
<1>3. n \in Nat /\ n <= TYPED_MAX
  BY LimitsAssumption DEF LimitsAssumption
<1>4. QED
  BY <1>1, <1>2, <1>3 DEF Echoes

LEMMA PushBoundedIs ==
  ASSUME NEW S, NEW q \in Seq(S), NEW x \in S, NEW max \in Nat \ {0}, Len(q) <= max
  PROVE  PushBounded(q, x, max) \in Seq(S) /\ Len(PushBounded(q, x, max)) <= max
<1>1. CASE Len(q) >= max
  <2>1. q # <<>> /\ Tail(q) \in Seq(S) /\ Len(Tail(q)) = Len(q) - 1
    BY <1>1
  <2>2. PushBounded(q, x, max) = Append(Tail(q), x)
    BY <1>1 DEF PushBounded
  <2>3. QED
    BY <2>1, <2>2
<1>2. CASE ~ (Len(q) >= max)
  <2>1. PushBounded(q, x, max) = Append(q, x)
    BY <1>2 DEF PushBounded
  <2>2. QED
    BY <1>2, <2>1
<1>3. QED
  BY <1>1, <1>2

(* What handling a stroke makes of each field.                               *)
LEMMA HandleFields ==
  ASSUME NEW b \in Buffers, NEW s \in Strokes
  PROVE  LET a == HandleEvent(b, s)
             k == s.kind
         IN  /\ a.line = IF k = "Char" /\ Len(b.line) < MAX_LINE_LEN THEN Append(b.line, s)
                         ELSE IF k = "Enter" THEN <<>>
                         ELSE IF k = "Backspace" /\ b.line # <<>> THEN Front(b.line) ELSE b.line
             /\ a.ready = IF k = "Enter" THEN PushBounded(b.ready, b.line, MAX_QUEUE_DEPTH) ELSE b.ready
             /\ a.history = IF k = "Enter" /\ b.line # <<>>
                            THEN PushBounded(b.history, b.line, MAX_HISTORY) ELSE b.history
             /\ a.handled = IF k = "Ignored" THEN b.handled ELSE Append(b.handled, s)
             /\ a.echo = IF k \in {"Char", "Enter"} \/ (k = "Backspace" /\ b.line # <<>>)
                         THEN Append(b.echo, <<s.dev, s.n>>) ELSE b.echo
             /\ a = [line |-> a.line, ready |-> a.ready, history |-> a.history,
                     handled |-> a.handled, echo |-> a.echo]
<1>1. s.kind \in Kinds
  BY StrokeIs
<1>2. CASE s.kind = "Char"
  BY <1>2 DEF HandleEvent, PushChar, Buffers
<1>3. CASE s.kind = "Enter"
  BY <1>3 DEF HandleEvent, CommitLine, Buffers
<1>4. CASE s.kind = "Ignored"
  BY <1>4 DEF HandleEvent, Buffers
<1>5. CASE s.kind = "Backspace"
  BY <1>5 DEF HandleEvent, Buffers
<1>6. QED
  BY <1>1, <1>2, <1>3, <1>4, <1>5 DEF Kinds

(* The line and the history depend on these fields only.                     *)
LineAfter(l, s) ==
  IF s.kind = "Char" /\ Len(l) < MAX_LINE_LEN THEN Append(l, s)
  ELSE IF s.kind = "Enter" THEN <<>>
  ELSE IF s.kind = "Backspace" /\ l # <<>> THEN Front(l) ELSE l
HistoryAfter(h, l, s) ==
  IF s.kind = "Enter" /\ l # <<>> THEN PushBounded(h, l, MAX_HISTORY) ELSE h

LEMMA HandleLine ==
  ASSUME NEW b \in Buffers, NEW s \in Strokes
  PROVE  /\ HandleEvent(b, s).line = LineAfter(b.line, s)
         /\ HandleEvent(b, s).history = HistoryAfter(b.history, b.line, s)
<1>1. HandleEvent(b, s).line = LineAfter(b.line, s)
  BY HandleFields, Zenon DEF LineAfter
<1>2. HandleEvent(b, s).history = HistoryAfter(b.history, b.line, s)
  BY HandleFields, Zenon DEF HistoryAfter
<1>3. QED
  BY <1>1, <1>2

LEMMA HandleTyped ==
  ASSUME NEW b \in Buffers, NEW s \in Strokes
  PROVE  HandleEvent(b, s) \in Buffers
<1> DEFINE a == HandleEvent(b, s)
<1>1. /\ b.line \in Lines /\ b.ready \in Seq(Lines) /\ b.history \in Seq(Lines)
      /\ b.handled \in Seq(Strokes) /\ b.echo \in Seq(Echoes)
  BY DEF Buffers
<1>2. ASSUME NEW q \in Seq(Lines), NEW x \in Lines, NEW m \in Nat \ {0}
      PROVE  PushBounded(q, x, m) \in Seq(Lines)
  BY DEF PushBounded
<1>3. Append(b.line, s) \in Lines /\ <<>> \in Lines /\ (b.line # <<>> => Front(b.line) \in Lines)
  BY <1>1 DEF Lines, Front
<1>4. a.line \in Lines
  <2> DEFINE l == b.line
             m == a.line
  <2>1. m = IF s.kind = "Char" /\ Len(l) < MAX_LINE_LEN THEN Append(l, s)
            ELSE IF s.kind = "Enter" THEN <<>>
            ELSE IF s.kind = "Backspace" /\ l # <<>> THEN Front(l) ELSE l
    BY HandleFields, Zenon
  <2> HIDE DEF l, m
  <2>2. m = Append(l, s) \/ m = <<>> \/ (l # <<>> /\ m = Front(l)) \/ m = l
    BY <2>1
  <2>3. l \in Lines /\ Append(l, s) \in Lines /\ <<>> \in Lines /\ (l # <<>> => Front(l) \in Lines)
    BY <1>1, <1>3 DEF l
  <2>4. m \in Lines
    BY <2>2, <2>3, Zenon
  <2>5. QED
    BY <2>4 DEF m
<1>5. a.ready \in Seq(Lines) /\ a.history \in Seq(Lines)
  <2>1. MAX_QUEUE_DEPTH \in Nat \ {0} /\ MAX_HISTORY \in Nat \ {0}
    BY LimitsAssumption DEF LimitsAssumption
  <2>2. /\ PushBounded(b.ready, b.line, MAX_QUEUE_DEPTH) \in Seq(Lines)
        /\ PushBounded(b.history, b.line, MAX_HISTORY) \in Seq(Lines)
    BY <1>1, <1>2, <2>1
  <2>3. QED
    BY <1>1, <2>2, HandleFields, Zenon
<1>6. a.handled \in Seq(Strokes)
  <2>1. Append(b.handled, s) \in Seq(Strokes)
    BY <1>1
  <2>2. QED
    BY <1>1, <2>1, HandleFields, Zenon
<1>7. a.echo \in Seq(Echoes)
  <2>1. Append(b.echo, <<s.dev, s.n>>) \in Seq(Echoes)
    BY <1>1, StrokeIs
  <2>2. QED
    BY <1>1, <2>1, HandleFields, Zenon
<1>8. a = [line |-> a.line, ready |-> a.ready, history |-> a.history,
           handled |-> a.handled, echo |-> a.echo]
  BY HandleFields, Zenon
<1> HIDE DEF a
<1>9. a \in Buffers
  BY <1>4, <1>5, <1>6, <1>7, <1>8, Zenon DEF Buffers
<1>10. QED
  BY <1>9 DEF a

(* Handling a stroke keeps a buffer within its limits.                       *)
LEMMA HandleKeepsLimits ==
  ASSUME NEW b, WithinLimits(b), NEW s \in Strokes
  PROVE  WithinLimits(HandleEvent(b, s))
<1> DEFINE a == HandleEvent(b, s)
<1>1. b \in Buffers /\ a \in Buffers
  BY HandleTyped DEF WithinLimits
<1>2. b.line \in Lines /\ b.ready \in Seq(Lines) /\ b.history \in Seq(Lines)
  BY <1>1 DEF Buffers
<1>3. MAX_QUEUE_DEPTH \in Nat \ {0} /\ MAX_HISTORY \in Nat \ {0} /\ MAX_LINE_LEN \in Nat \ {0}
  BY LimitsAssumption DEF LimitsAssumption
<1>4. Len(a.ready) <= MAX_QUEUE_DEPTH
  <2>1. Len(PushBounded(b.ready, b.line, MAX_QUEUE_DEPTH)) <= MAX_QUEUE_DEPTH
    <3>1. Len(b.ready) <= MAX_QUEUE_DEPTH
      BY DEF WithinLimits
    <3>2. QED
      BY <1>2, <1>3, <3>1, PushBoundedIs
  <2>2. Len(b.ready) <= MAX_QUEUE_DEPTH
    BY DEF WithinLimits
  <2>3. QED
    BY <1>1, <2>1, <2>2, HandleFields, Zenon
<1>5. Len(a.history) <= MAX_HISTORY
  <2>1. Len(PushBounded(b.history, b.line, MAX_HISTORY)) <= MAX_HISTORY
    <3>1. Len(b.history) <= MAX_HISTORY
      BY DEF WithinLimits
    <3>2. QED
      BY <1>2, <1>3, <3>1, PushBoundedIs
  <2>2. Len(b.history) <= MAX_HISTORY
    BY DEF WithinLimits
  <2>3. QED
    BY <1>1, <2>1, <2>2, HandleFields, Zenon
<1>6. Len(a.line) <= MAX_LINE_LEN /\ \A i \in DOMAIN a.line : a.line[i].kind = "Char"
  <2> DEFINE l == b.line
             m == a.line
  <2>1. l \in Seq(Strokes) /\ Len(l) <= MAX_LINE_LEN /\ \A i \in DOMAIN l : l[i].kind = "Char"
    BY <1>2 DEF WithinLimits, Lines
  <2>2. m = IF s.kind = "Char" /\ Len(l) < MAX_LINE_LEN THEN Append(l, s)
            ELSE IF s.kind = "Enter" THEN <<>>
            ELSE IF s.kind = "Backspace" /\ l # <<>> THEN Front(l) ELSE l
    BY <1>1, HandleFields, Zenon
  <2> HIDE DEF l, m
  <2>3. CASE s.kind = "Char" /\ Len(l) < MAX_LINE_LEN
    <3>1. m = Append(l, s)
      BY <2>2, <2>3
    <3>2. QED
      BY <1>3, <2>1, <2>3, <3>1 DEF m
  <2>4. CASE m = <<>>
    BY <1>3, <2>4 DEF m
  <2>5. CASE l # <<>> /\ m = Front(l)
    <3>1. Len(m) = Len(l) - 1 /\ \A i \in DOMAIN m : i \in DOMAIN l /\ m[i] = l[i]
      <4>1. /\ m \in Seq(Strokes) /\ Len(l) \in Nat /\ Len(m) = Len(l) - 1
            /\ \A i \in 1 .. Len(l) - 1 : m[i] = l[i]
        BY <2>1, <2>5, FrontIs
      <4>2. QED
        BY <2>1, <4>1
    <3>2. QED
      BY <1>3, <2>1, <3>1 DEF m
  <2>6. CASE m = l
    BY <2>1, <2>6 DEF m
  <2>7. QED
    BY <2>2, <2>3, <2>4, <2>5, <2>6
<1>7. QED
  BY <1>1, <1>4, <1>5, <1>6 DEF WithinLimits

-----------------------------------------------------------------------------
(* Handling several strokes.                                                 *)

HandleAll(b, q) == FoldLeft(HandleEvent, b, q)

(* The buffer after the first n strokes, for every n.                        *)
StrokeByStroke(f, b, q) ==
  /\ f \in [0 .. Len(q) -> Buffers]
  /\ f[0] = b
  /\ \A n \in 0 .. Len(q) - 1 : f[n + 1] = HandleEvent(f[n], q[n + 1])

LEMMA HandleAllFold ==
  ASSUME NEW b \in Buffers, NEW q \in Seq(Strokes)
  PROVE  \E f : StrokeByStroke(f, b, q) /\ HandleAll(b, q) = f[Len(q)]
<1> DEFINE M == Len(q)
           G == [i \in 1 .. M |-> [a \in Buffers |-> HandleEvent(a, q[i])]]
<1>1. M \in Nat /\ DOMAIN q = 1 .. M
  OBVIOUS
<1>2. ASSUME NEW i \in 1 .. M, NEW a \in Buffers
      PROVE  G[i][a] = HandleEvent(a, q[i]) /\ G[i][a] \in Buffers
  <2>1. q[i] \in Strokes
    OBVIOUS
  <2>2. G[i][a] = HandleEvent(a, q[i])
    OBVIOUS
  <2> HIDE DEF G
  <2>3. QED
    BY <2>1, <2>2, HandleTyped
<1> DEFINE Body(F) == [s \in SUBSET (DOMAIN q) |->
                         IF s = {} THEN b ELSE HandleEvent(F[s \ {Max(s)}], q[Max(s)])]
<1>3. HandleAll(b, q) = (CHOOSE F : F = Body(F))[DOMAIN q]
  BY DEF HandleAll, FoldLeft, MapThenFoldSet
<1>4. \E F : F = Body(F)
  <2>1. PICK F \in [SUBSET (1 .. M) -> Buffers] : F = FoldBody(F, G, b, M)
    <3>1. M \in Nat /\ StaysIn(Buffers, G, M)
      BY <1>1, <1>2, Zenon DEF StaysIn
    <3> HIDE DEF G, M
    <3>2. HasFold(Buffers, G, b, M)
      BY <3>1, FoldExists
    <3>3. QED
      BY <3>2 DEF HasFold
  <2>2. ASSUME NEW s \in SUBSET (1 .. M), s # {}
        PROVE  G[Max(s)][F[s \ {Max(s)}]] = HandleEvent(F[s \ {Max(s)}], q[Max(s)])
    <3>1. Max(s) \in 1 .. M /\ s \ {Max(s)} \in SUBSET (1 .. M)
      BY <1>1, <2>2, MaxOfPositions
    <3>2. F[s \ {Max(s)}] \in Buffers
      BY <3>1
    <3> HIDE DEF G, M
    <3>3. QED
      BY <1>2, <3>1, <3>2
  <2>3. F = Body(F)
    <3> HIDE DEF G, M
    <3>1. QED
      BY <1>1, <2>1, <2>2 DEF FoldBody
  <2>4. QED
    BY <2>3
<1> DEFINE F == CHOOSE F : F = Body(F)
           f == [n \in 0 .. M |-> F[1 .. n]]
<1>5. F = Body(F)
  BY <1>4
<1>6. \A s \in SUBSET (1 .. M) :
         F[s] = IF s = {} THEN b ELSE HandleEvent(F[s \ {Max(s)}], q[Max(s)])
  <2> HIDE DEF F
  <2>1. QED
    BY <1>1, <1>5
<1>7. f[0] = b /\ HandleAll(b, q) = f[M]
  <2>1. 1 .. 0 = {} /\ {} \in SUBSET (1 .. M)
    OBVIOUS
  <2>2. HandleAll(b, q) = F[1 .. M] /\ M \in 0 .. M /\ 0 \in 0 .. M
    BY <1>1, <1>3
  <2> HIDE DEF F
  <2>3. F[1 .. 0] = b
    BY <1>6, <2>1
  <2>4. QED
    BY <2>2, <2>3
<1>8. ASSUME NEW n \in 0 .. M - 1 PROVE f[n + 1] = HandleEvent(f[n], q[n + 1])
  <2>1. /\ 1 .. n + 1 \in SUBSET (1 .. M) /\ 1 .. n + 1 # {}
        /\ Max(1 .. n + 1) = n + 1
        /\ (1 .. n + 1) \ {n + 1} = 1 .. n
    BY <1>1, PrefixPositions
  <2> HIDE DEF F
  <2>2. F[1 .. n + 1] = HandleEvent(F[1 .. n], q[n + 1])
    BY <1>6, <2>1
  <2>3. QED
    BY <1>1, <2>2
<1>9. \A n \in 0 .. M : f[n] \in Buffers
  <2> DEFINE P == {n \in Nat : n <= M => f[n] \in Buffers}
  <2> HIDE DEF f, G
  <2>1. 0 \in P
    BY <1>1, <1>7
  <2>2. ASSUME NEW n \in Nat, n \in P PROVE n + 1 \in P
    <3>1. SUFFICES ASSUME n + 1 <= M PROVE f[n + 1] \in Buffers
      OBVIOUS
    <3>2. n \in 0 .. M - 1 /\ f[n] \in Buffers /\ n + 1 \in 1 .. M
      BY <1>1, <2>2, <3>1
    <3>3. q[n + 1] \in Strokes
      BY <3>2
    <3>4. QED
      BY <1>8, <3>2, <3>3, HandleTyped
  <2>3. \A n \in Nat : n \in P
    <3> HIDE DEF P
    <3>1. QED
      BY <2>1, <2>2, Induct
  <2>4. QED
    BY <1>1, <2>3
<1>10. StrokeByStroke(f, b, q)
  <2>1. f \in [0 .. M -> Buffers]
    <3>1. f = [n \in 0 .. M |-> f[n]]
      OBVIOUS
    <3> HIDE DEF f
    <3>2. QED
      BY <1>9, <3>1
  <2> HIDE DEF f
  <2>2. QED
    BY <2>1, <1>7, <1>8 DEF StrokeByStroke
<1>11. QED
  BY <1>7, <1>10

(* What every stroke keeps, handling all of them keeps.                      *)
LEMMA HandleAllKeeps ==
  ASSUME NEW I, NEW b \in Buffers, b \in I, NEW q \in Seq(Strokes),
         \A a \in Buffers : \A i \in 1 .. Len(q) : a \in I => HandleEvent(a, q[i]) \in I
  PROVE  HandleAll(b, q) \in I /\ HandleAll(b, q) \in Buffers
<1>1. PICK f : StrokeByStroke(f, b, q) /\ HandleAll(b, q) = f[Len(q)]
  BY HandleAllFold
<1> DEFINE M == Len(q)
           P == {n \in Nat : n <= M => f[n] \in I}
<1>2. M \in Nat
  OBVIOUS
<1>3. /\ f[0] = b
      /\ \A n \in 0 .. M : f[n] \in Buffers
      /\ \A n \in 0 .. M - 1 : f[n + 1] = HandleEvent(f[n], q[n + 1])
  BY <1>1 DEF StrokeByStroke
<1>4. 0 \in P
  BY <1>3
<1>5. ASSUME NEW n \in Nat, n \in P PROVE n + 1 \in P
  <2>1. SUFFICES ASSUME n + 1 <= M PROVE f[n + 1] \in I
    OBVIOUS
  <2> HIDE DEF M
  <2>2. n \in 0 .. M - 1 /\ n \in 0 .. M /\ n + 1 \in 1 .. M /\ f[n] \in I
    BY <1>2, <1>5, <2>1
  <2>3. f[n] \in Buffers /\ f[n + 1] = HandleEvent(f[n], q[n + 1])
    BY <1>3, <2>2
  <2>4. QED
    BY <2>2, <2>3 DEF M
<1>6. \A n \in Nat : n \in P
  <2> HIDE DEF P
  <2>1. QED
    BY <1>4, <1>5, Induct
<1>7. M \in 0 .. M /\ f[M] \in I
  BY <1>2, <1>6
<1>8. QED
  BY <1>1, <1>3, <1>7

LEMMA HandleAllTyped ==
  ASSUME NEW b \in Buffers, NEW q \in Seq(Strokes)
  PROVE  HandleAll(b, q) \in Buffers
<1>1. PICK f : StrokeByStroke(f, b, q) /\ HandleAll(b, q) = f[Len(q)]
  BY HandleAllFold
<1>2. Len(q) \in 0 .. Len(q)
  OBVIOUS
<1>3. QED
  BY <1>1, <1>2 DEF StrokeByStroke

LEMMA HandleAllKeepsLimits ==
  ASSUME NEW b, WithinLimits(b), NEW q \in Seq(Strokes)
  PROVE  WithinLimits(HandleAll(b, q))
<1> DEFINE I == {a \in Buffers : WithinLimits(a)}
<1>1. b \in Buffers /\ b \in I
  BY DEF WithinLimits
<1>2. \A a \in Buffers : \A i \in 1 .. Len(q) : a \in I => HandleEvent(a, q[i]) \in I
  <2>1. \A i \in 1 .. Len(q) : q[i] \in Strokes
    OBVIOUS
  <2>2. QED
    BY <2>1, HandleKeepsLimits, HandleTyped
<1>3. HandleAll(b, q) \in I
  <2> HIDE DEF I
  <2>1. QED
    BY <1>1, <1>2, HandleAllKeeps
<1>4. QED
  BY <1>3

(* The last stroke is handled after the others.                              *)
LEMMA HandleAllNone ==
  ASSUME NEW b \in Buffers
  PROVE  HandleAll(b, <<>>) = b
<1>1. <<>> \in Seq(Strokes) /\ Len(<<>>) = 0
  OBVIOUS
<1>2. PICK f : StrokeByStroke(f, b, <<>>) /\ HandleAll(b, <<>>) = f[Len(<<>>)]
  BY <1>1, HandleAllFold
<1>3. QED
  BY <1>1, <1>2 DEF StrokeByStroke

LEMMA HandleAllAppend ==
  ASSUME NEW b \in Buffers, NEW q \in Seq(Strokes), NEW s \in Strokes
  PROVE  HandleAll(b, Append(q, s)) = HandleEvent(HandleAll(b, q), s)
<1> DEFINE r == Append(q, s)
           M == Len(q)
<1>1. /\ r \in Seq(Strokes) /\ M \in Nat /\ Len(r) = M + 1
      /\ r[M + 1] = s /\ \A i \in 1 .. M : r[i] = q[i]
  OBVIOUS
<1>2. PICK f : StrokeByStroke(f, b, q) /\ HandleAll(b, q) = f[Len(q)]
  BY HandleAllFold
<1>3. PICK g : StrokeByStroke(g, b, r) /\ HandleAll(b, r) = g[Len(r)]
  <2> HIDE DEF r
  <2>1. QED
    BY <1>1, HandleAllFold
<1> DEFINE P == {n \in Nat : n <= M => f[n] = g[n]}
<1> HIDE DEF r, M
<1>4. /\ f[0] = b /\ g[0] = b
      /\ \A n \in 0 .. M - 1 : f[n + 1] = HandleEvent(f[n], q[n + 1])
      /\ \A n \in 0 .. M : g[n + 1] = HandleEvent(g[n], r[n + 1])
  <2>1. \A n \in 0 .. M : n \in 0 .. (M + 1) - 1
    BY <1>1
  <2>2. QED
    BY <1>1, <1>2, <1>3, <2>1 DEF StrokeByStroke, M
<1>5. 0 \in P
  BY <1>4
<1>6. ASSUME NEW n \in Nat, n \in P PROVE n + 1 \in P
  <2>1. SUFFICES ASSUME n + 1 <= M PROVE f[n + 1] = g[n + 1]
    OBVIOUS
  <2>2. n \in 0 .. M - 1 /\ n \in 0 .. M /\ n + 1 \in 1 .. M /\ f[n] = g[n]
    BY <1>1, <1>6, <2>1
  <2>3. r[n + 1] = q[n + 1]
    BY <1>1, <2>2
  <2>4. QED
    BY <1>4, <2>2, <2>3
<1>7. \A n \in Nat : n \in P
  <2> HIDE DEF P
  <2>1. QED
    BY <1>5, <1>6, Induct
<1>8. f[M] = g[M] /\ g[M + 1] = HandleEvent(g[M], r[M + 1])
  <2>1. M \in 0 .. M
    BY <1>1
  <2>2. QED
    BY <1>1, <1>4, <1>7, <2>1
<1>9. HandleAll(b, q) = f[M] /\ HandleAll(b, r) = g[M + 1]
  BY <1>1, <1>2, <1>3 DEF M
<1>10. HandleAll(b, r) = HandleEvent(HandleAll(b, q), s)
  BY <1>1, <1>8, <1>9
<1>11. QED
  BY <1>10 DEF r

-----------------------------------------------------------------------------
(* How often a stroke occurs in a sequence.                                  *)

LEMMA OccurrencesFinite ==
  ASSUME NEW S, NEW q \in Seq(S), NEW s
  PROVE  IsFiniteSet({i \in DOMAIN q : q[i] = s}) /\ Occurrences(s, q) \in Nat
<1>1. DOMAIN q = 1 .. Len(q) /\ Len(q) \in Int
  OBVIOUS
<1>2. IsFiniteSet(DOMAIN q)
  BY <1>1, FS_Interval
<1>3. IsFiniteSet({i \in DOMAIN q : q[i] = s})
  BY <1>2, FS_Subset
<1>4. QED
  BY <1>3, FS_CardinalityType DEF Occurrences

LEMMA OccurrencesNone ==
  ASSUME NEW S, NEW q \in Seq(S), NEW s, \A i \in DOMAIN q : q[i] # s
  PROVE  Occurrences(s, q) = 0
<1>1. {i \in DOMAIN q : q[i] = s} = {}
  OBVIOUS
<1>2. QED
  BY <1>1, FS_EmptySet DEF Occurrences

LEMMA OccurrencesAppend ==
  ASSUME NEW S, NEW q \in Seq(S), NEW x \in S, NEW s
  PROVE  Occurrences(s, Append(q, x)) = Occurrences(s, q) + (IF x = s THEN 1 ELSE 0)
<1> DEFINE p == Append(q, x)
           N == Len(q)
           T == {i \in DOMAIN q : q[i] = s}
<1>1. /\ N \in Nat /\ DOMAIN q = 1 .. N /\ DOMAIN p = 1 .. N + 1
      /\ p[N + 1] = x /\ \A i \in 1 .. N : p[i] = q[i]
  OBVIOUS
<1>2. IsFiniteSet(T) /\ Cardinality(T) \in Nat /\ Occurrences(s, q) = Cardinality(T)
  BY OccurrencesFinite DEF Occurrences
<1>3. N + 1 \notin T
  BY <1>1
<1> HIDE DEF p, N
<1>4. CASE x = s
  <2>1. {i \in DOMAIN p : p[i] = s} = T \cup {N + 1}
    BY <1>1, <1>4
  <2> HIDE DEF T
  <2>2. Cardinality(T \cup {N + 1}) = Cardinality(T) + 1
    BY <1>2, <1>3, FS_AddElement
  <2>3. Occurrences(s, p) = Occurrences(s, q) + 1
    BY <1>2, <2>1, <2>2 DEF Occurrences
  <2>4. QED
    BY <1>4, <2>3 DEF p
<1>5. CASE x # s
  <2>1. {i \in DOMAIN p : p[i] = s} = T
    BY <1>1, <1>5
  <2> HIDE DEF T
  <2>2. Occurrences(s, p) = Cardinality(T)
    BY <2>1 DEF Occurrences
  <2>3. QED
    BY <1>2, <1>5, <2>2 DEF p
<1>6. QED
  BY <1>4, <1>5

LEMMA OccurrencesTail ==
  ASSUME NEW S, NEW q \in Seq(S), q # <<>>, NEW s
  PROVE  Occurrences(s, q) = Occurrences(s, Tail(q)) + (IF Head(q) = s THEN 1 ELSE 0)
<1> DEFINE p == Tail(q)
           N == Len(q)
           T == {i \in DOMAIN p : p[i] = s}
           U == {i \in 2 .. N : q[i] = s}
           h == [i \in T |-> i + 1]
<1>1. /\ N \in Nat \ {0} /\ DOMAIN q = 1 .. N /\ p \in Seq(S) /\ DOMAIN p = 1 .. N - 1
      /\ q[1] = Head(q) /\ \A i \in 1 .. N - 1 : p[i] = q[i + 1]
  OBVIOUS
<1>2. IsFiniteSet(T) /\ Cardinality(T) \in Nat /\ Occurrences(s, p) = Cardinality(T)
  BY <1>1, OccurrencesFinite DEF Occurrences
<1> HIDE DEF p, N
<1>3. ExistsBijection(T, U)
  <2>1. h \in [T -> U] /\ \A i, j \in T : h[i] = h[j] => i = j
    BY <1>1
  <2>2. ASSUME NEW u \in U PROVE \E i \in T : h[i] = u
    <3>1. u - 1 \in T /\ h[u - 1] = u
      BY <1>1, <2>2
    <3>2. QED
      BY <3>1
  <2> HIDE DEF h, T, U
  <2>3. h \in Bijection(T, U)
    BY <2>1, <2>2 DEF Bijection, Injection, Surjection, IsInjective
  <2>4. QED
    BY <2>3 DEF ExistsBijection
<1>4. IsFiniteSet(U) /\ Cardinality(U) = Cardinality(T)
  <2> HIDE DEF T, U
  <2>1. QED
    BY <1>2, <1>3, FS_Bijection
<1>5. 1 \notin U
  BY <1>1
<1>6. CASE Head(q) = s
  <2>1. {i \in DOMAIN q : q[i] = s} = U \cup {1}
    BY <1>1, <1>6
  <2> HIDE DEF T, U
  <2>2. Cardinality(U \cup {1}) = Cardinality(U) + 1
    BY <1>4, <1>5, FS_AddElement
  <2>3. Occurrences(s, q) = Occurrences(s, p) + 1
    BY <1>2, <1>4, <2>1, <2>2 DEF Occurrences
  <2>4. QED
    BY <1>6, <2>3 DEF p
<1>7. CASE Head(q) # s
  <2>1. {i \in DOMAIN q : q[i] = s} = U
    BY <1>1, <1>7
  <2> HIDE DEF T, U
  <2>2. Occurrences(s, q) = Cardinality(U)
    BY <2>1 DEF Occurrences
  <2>3. QED
    BY <1>2, <1>4, <1>7, <2>2 DEF p
<1>8. QED
  BY <1>6, <1>7

LEMMA PrefixAppend ==
  ASSUME NEW S, NEW q \in Seq(S), NEW n \in 0 .. Len(q) - 1
  PROVE  /\ SubSeq(q, 1, n) \in Seq(S) /\ q[n + 1] \in S
         /\ SubSeq(q, 1, n + 1) = Append(SubSeq(q, 1, n), q[n + 1])
<1>1. n \in Nat /\ n + 1 \in 1 .. Len(q) /\ n <= Len(q)
  OBVIOUS
<1>2. SubSeq(q, 1, n) \in Seq(S) /\ Len(SubSeq(q, 1, n)) = n /\ q[n + 1] \in S
  BY <1>1
<1>3. \A i \in 1 .. n : SubSeq(q, 1, n)[i] = q[i]
  BY <1>1
<1>4. /\ SubSeq(q, 1, n + 1) \in Seq(S) /\ Len(SubSeq(q, 1, n + 1)) = n + 1
      /\ \A i \in 1 .. n + 1 : SubSeq(q, 1, n + 1)[i] = q[i]
  BY <1>1
<1> DEFINE u == SubSeq(q, 1, n + 1)
           v == SubSeq(q, 1, n)
           x == q[n + 1]
<1>5. /\ u \in Seq(S) /\ Len(u) = n + 1 /\ v \in Seq(S) /\ Len(v) = n /\ x \in S
      /\ u[n + 1] = x /\ \A i \in 1 .. n : u[i] = v[i]
  BY <1>1, <1>2, <1>3, <1>4
<1> HIDE DEF u, v, x
<1>6. u = Append(v, x)
  BY <1>1, <1>5
<1>7. QED
  BY <1>2, <1>6 DEF u, v, x

LEMMA RestIs ==
  ASSUME NEW S, NEW q \in Seq(S), NEW e \in 0 .. Len(q)
  PROVE  LET r == SubSeq(q, e + 1, Len(q))
         IN  /\ r \in Seq(S) /\ Len(r) = Len(q) - e
             /\ \A j \in 1 .. Len(q) - e : r[j] = q[e + j]
<1> DEFINE r == SubSeq(q, e + 1, Len(q))
<1>1. Len(q) \in Nat /\ e \in Nat /\ e <= Len(q) /\ \A i \in 1 .. Len(q) : q[i] \in S
  OBVIOUS
<1>2. r \in Seq(S) /\ Len(r) = Len(q) - e
  BY <1>1
<1>3. ASSUME NEW j \in 1 .. Len(q) - e PROVE r[j] = q[e + j]
  <2>1. r[j] = q[(e + 1) + j - 1]
    BY <1>1
  <2>2. (e + 1) + j - 1 = e + j
    BY <1>1
  <2>3. QED
    BY <2>1, <2>2
<1>4. QED
  BY <1>2, <1>3

(* A stroke is before the n-th, is the n-th, or is after it.                  *)
LEMMA OccurrencesAround ==
  ASSUME NEW S, NEW q \in Seq(S), NEW n \in 1 .. Len(q), NEW s
  PROVE  Occurrences(s, q) = Occurrences(s, SubSeq(q, 1, n - 1))
                             + (IF q[n] = s THEN 1 ELSE 0)
                             + Occurrences(s, SubSeq(q, n + 1, Len(q)))
<1> DEFINE M == Len(q)
           a(i) == SubSeq(q, 1, i)
           b(i) == SubSeq(q, i + 1, M)
           Q(i) == Occurrences(s, q) = Occurrences(s, a(i)) + Occurrences(s, b(i))
           P == {i \in Nat : i <= M => Q(i)}
<1>1. M \in Nat
  OBVIOUS
<1>2. ASSUME NEW i \in 0 .. M - 1
      PROVE  /\ a(i) \in Seq(S) /\ q[i + 1] \in S /\ a(i + 1) = Append(a(i), q[i + 1])
             /\ b(i) \in Seq(S) /\ b(i + 1) \in Seq(S)
             /\ b(i) # <<>> /\ Head(b(i)) = q[i + 1] /\ Tail(b(i)) = b(i + 1)
  <2>1. a(i) \in Seq(S) /\ q[i + 1] \in S /\ a(i + 1) = Append(a(i), q[i + 1])
    BY PrefixAppend
  <2>2. /\ b(i) \in Seq(S) /\ Len(b(i)) = M - i /\ b(i) # <<>>
        /\ \A j \in 1 .. M - i : b(i)[j] = q[i + j]
    <3>1. i \in 0 .. Len(q)
      OBVIOUS
    <3>2. /\ b(i) \in Seq(S) /\ Len(b(i)) = M - i
          /\ \A j \in 1 .. M - i : b(i)[j] = q[i + j]
      BY <3>1, RestIs
    <3> HIDE DEF b, M
    <3>3. b(i) # <<>>
      BY <1>1, <3>2
    <3>4. QED
      BY <3>2, <3>3
  <2>3. /\ b(i + 1) \in Seq(S) /\ Len(b(i + 1)) = M - (i + 1)
        /\ \A j \in 1 .. M - (i + 1) : b(i + 1)[j] = q[i + 1 + j]
    <3> DEFINE e == i + 1
    <3>1. e \in 0 .. Len(q)
      BY <1>1
    <3> HIDE DEF e
    <3>2. /\ b(e) \in Seq(S) /\ Len(b(e)) = M - e
          /\ \A j \in 1 .. M - e : b(e)[j] = q[e + j]
      BY <3>1, RestIs
    <3> HIDE DEF b, M
    <3>3. QED
      BY <3>2 DEF e
  <2> HIDE DEF b, M
  <2>4. Head(b(i)) = q[i + 1]
    BY <1>1, <2>2
  <2>5. Tail(b(i)) = b(i + 1)
    <3> DEFINE u == Tail(b(i))
    <3>1. u \in Seq(S) /\ Len(u) = M - (i + 1) /\ \A j \in 1 .. M - (i + 1) : u[j] = b(i)[j + 1]
      BY <1>1, <2>2
    <3> HIDE DEF u
    <3>2. \A j \in 1 .. M - (i + 1) : u[j] = q[i + 1 + j]
      BY <1>1, <2>2, <3>1
    <3>3. u = b(i + 1)
      BY <1>1, <2>3, <3>1, <3>2
    <3>4. QED
      BY <3>3 DEF u
  <2>6. QED
    BY <2>1, <2>2, <2>3, <2>4, <2>5
<1>3. ASSUME NEW i \in 0 .. M - 1
      PROVE  /\ Occurrences(s, b(i)) = Occurrences(s, b(i + 1)) + (IF q[i + 1] = s THEN 1 ELSE 0)
             /\ Occurrences(s, a(i + 1)) = Occurrences(s, a(i)) + (IF q[i + 1] = s THEN 1 ELSE 0)
             /\ Occurrences(s, a(i)) \in Nat /\ Occurrences(s, b(i + 1)) \in Nat
  <2> HIDE DEF a, b, M
  <2>1. Occurrences(s, b(i)) = Occurrences(s, Tail(b(i))) + (IF Head(b(i)) = s THEN 1 ELSE 0)
    BY <1>2, OccurrencesTail
  <2>2. Occurrences(s, Append(a(i), q[i + 1]))
          = Occurrences(s, a(i)) + (IF q[i + 1] = s THEN 1 ELSE 0)
    BY <1>2, OccurrencesAppend
  <2>3. Occurrences(s, a(i)) \in Nat /\ Occurrences(s, b(i + 1)) \in Nat
    BY <1>2, OccurrencesFinite
  <2>4. QED
    BY <1>2, <2>1, <2>2, <2>3
<1>4. 0 \in P
  <2>1. a(0) = <<>> /\ b(0) = q
    OBVIOUS
  <2>2. Occurrences(s, <<>>) = 0
    <3>1. <<>> \in Seq(S) /\ \A i \in DOMAIN <<>> : <<>>[i] # s
      OBVIOUS
    <3>2. QED
      BY <3>1, OccurrencesNone
  <2>3. Occurrences(s, q) \in Nat
    BY OccurrencesFinite
  <2> HIDE DEF a, b
  <2>4. QED
    BY <2>1, <2>2, <2>3
<1>5. ASSUME NEW i \in Nat, i \in P PROVE i + 1 \in P
  <2> HIDE DEF a, b, M
  <2>1. SUFFICES ASSUME i + 1 <= M PROVE Q(i + 1)
    <3> HIDE DEF Q
    <3>1. QED
      OBVIOUS
  <2>2. i \in 0 .. M - 1 /\ Q(i)
    <3> HIDE DEF Q
    <3>1. QED
      BY <1>1, <1>5, <2>1
  <2>3. QED
    BY <1>3, <2>2
<1>6. \A i \in Nat : i \in P
  <2> HIDE DEF P
  <2>1. QED
    BY <1>4, <1>5, Induct
<1>7. n - 1 \in 0 .. M - 1 /\ Q(n - 1) /\ (n - 1) + 1 = n
  <2>1. n - 1 \in 0 .. M - 1 /\ (n - 1) + 1 = n /\ n - 1 \in Nat /\ n - 1 <= M
    BY <1>1
  <2> HIDE DEF Q, M
  <2>2. Q(n - 1)
    BY <1>6, <2>1
  <2>3. QED
    BY <2>1, <2>2
<1>8. Occurrences(s, b(n - 1)) = Occurrences(s, b(n)) + (IF q[n] = s THEN 1 ELSE 0)
  <2> HIDE DEF a, b, M
  <2>1. QED
    BY <1>3, <1>7
<1>9. Occurrences(s, a(n - 1)) \in Nat /\ Occurrences(s, b(n)) \in Nat
  <2> HIDE DEF a, b, M
  <2>1. QED
    BY <1>3, <1>7
<1> DEFINE x == IF q[n] = s THEN 1 ELSE 0
           oa == Occurrences(s, a(n - 1))
           ob == Occurrences(s, b(n))
<1>10. x \in Nat /\ oa \in Nat /\ ob \in Nat
  BY <1>9
<1>11. Occurrences(s, q) = oa + (ob + x)
  BY <1>7, <1>8
<1> HIDE DEF x, oa, ob
<1>12. Occurrences(s, q) = oa + x + ob
  BY <1>10, <1>11
<1>13. QED
  BY <1>12 DEF x, oa, ob

(* Every stroke that means something is recorded as often as it is handled.  *)
LEMMA HandleAllCounts ==
  ASSUME NEW b \in Buffers, NEW q \in Seq(Strokes), NEW s \in Strokes, s.kind # "Ignored"
  PROVE  Occurrences(s, HandleAll(b, q).handled) = Occurrences(s, b.handled) + Occurrences(s, q)
<1>1. PICK f : StrokeByStroke(f, b, q) /\ HandleAll(b, q) = f[Len(q)]
  BY HandleAllFold
<1> DEFINE M == Len(q)
           Q(n) == Occurrences(s, f[n].handled)
                     = Occurrences(s, b.handled) + Occurrences(s, SubSeq(q, 1, n))
           P == {n \in Nat : n <= M => Q(n)}
<1>2. M \in Nat
  OBVIOUS
<1>3. /\ f[0] = b
      /\ \A n \in 0 .. M : f[n] \in Buffers
      /\ \A n \in 0 .. M - 1 : f[n + 1] = HandleEvent(f[n], q[n + 1])
  BY <1>1 DEF StrokeByStroke
<1>4. b.handled \in Seq(Strokes) /\ Occurrences(s, b.handled) \in Nat
  <2>1. b.handled \in Seq(Strokes)
    BY DEF Buffers
  <2>2. QED
    BY <2>1, OccurrencesFinite
<1>5. 0 \in P
  <2>1. Occurrences(s, <<>>) = 0
    <3>1. <<>> \in Seq(Strokes) /\ \A i \in DOMAIN <<>> : <<>>[i] # s
      OBVIOUS
    <3>2. QED
      BY <3>1, OccurrencesNone
  <2>2. SubSeq(q, 1, 0) = <<>>
    OBVIOUS
  <2>3. Q(0)
    <3> DEFINE c == Occurrences(s, b.handled)
    <3>1. c \in Nat /\ f[0].handled = b.handled
      BY <1>3, <1>4
    <3> HIDE DEF c
    <3>2. c = c + 0
      BY <3>1
    <3>3. QED
      BY <3>1, <3>2, <2>1, <2>2, Zenon DEF c
  <2> HIDE DEF Q
  <2>4. QED
    BY <2>3
<1>6. ASSUME NEW n \in Nat, n \in P PROVE n + 1 \in P
  <2>1. SUFFICES ASSUME n + 1 <= M PROVE Q(n + 1)
    <3> HIDE DEF Q
    <3>1. QED
      OBVIOUS
  <2>2. n \in 0 .. M - 1 /\ n \in 0 .. M /\ Q(n)
    <3> HIDE DEF Q
    <3>1. QED
      BY <1>2, <1>6, <2>1
  <2> DEFINE a == f[n]
             x == q[n + 1]
             v == SubSeq(q, 1, n)
  <2>3. /\ a \in Buffers /\ f[n + 1] = HandleEvent(a, x)
        /\ v \in Seq(Strokes) /\ x \in Strokes /\ SubSeq(q, 1, n + 1) = Append(v, x)
    BY <1>3, <2>2, PrefixAppend
  <2>4. Occurrences(s, a.handled) = Occurrences(s, b.handled) + Occurrences(s, v)
    BY <2>2
  <2> HIDE DEF a, x, v
  <2>5. a.handled \in Seq(Strokes)
    BY <2>3 DEF Buffers
  <2>6. f[n + 1].handled = IF x.kind = "Ignored" THEN a.handled ELSE Append(a.handled, x)
    BY <2>3, HandleFields, Zenon
  <2>7. Occurrences(s, v) \in Nat
    BY <2>3, OccurrencesFinite
  <2>8. Occurrences(s, Append(v, x)) = Occurrences(s, v) + (IF x = s THEN 1 ELSE 0)
    BY <2>3, OccurrencesAppend
  <2>9. Occurrences(s, Append(a.handled, x)) = Occurrences(s, a.handled) + (IF x = s THEN 1 ELSE 0)
    BY <2>3, <2>5, OccurrencesAppend
  <2>10. Occurrences(s, f[n + 1].handled)
           = Occurrences(s, b.handled) + Occurrences(s, Append(v, x))
    <3>1. CASE x.kind = "Ignored"
      <4>1. x # s /\ f[n + 1].handled = a.handled
        BY <2>6, <3>1
      <4>2. QED
        BY <1>4, <2>4, <2>7, <2>8, <4>1
    <3>2. CASE x.kind # "Ignored"
      <4>1. f[n + 1].handled = Append(a.handled, x)
        BY <2>6, <3>2
      <4>2. QED
        BY <1>4, <2>4, <2>7, <2>8, <2>9, <4>1
    <3>3. QED
      BY <3>1, <3>2
  <2>11. QED
    BY <2>3, <2>10
<1>7. \A n \in Nat : n \in P
  <2> HIDE DEF P
  <2>1. QED
    BY <1>5, <1>6, Induct
<1>8. Q(M)
  <2> HIDE DEF Q
  <2>1. QED
    BY <1>2, <1>7
<1>9. SubSeq(q, 1, M) = q
  OBVIOUS
<1>10. QED
  BY <1>1, <1>8, <1>9

-----------------------------------------------------------------------------
(* The waiting lines are the newest of those committed.                      *)

EndsWith(t, s) ==
  Len(s) <= Len(t) /\ \A i \in 1 .. Len(s) : s[i] = t[i + (Len(t) - Len(s))]

LEMMA SuffixIs ==
  ASSUME NEW S, NEW s \in Seq(S), NEW t \in Seq(S)
  PROVE  IsSuffix(s, t) <=> EndsWith(t, s)
<1> DEFINE m == Len(s)
           n == Len(t)
           u == Reverse(s)
           v == Reverse(t)
<1>1. m \in Nat /\ n \in Nat
  OBVIOUS
<1>2. u \in Seq(S) /\ Len(u) = m /\ \A i \in 1 .. m : u[i] = s[(m - i) + 1]
  BY DEF Reverse
<1>3. v \in Seq(S) /\ Len(v) = n /\ \A i \in 1 .. n : v[i] = t[(n - i) + 1]
  BY DEF Reverse
<1>4. IsSuffix(s, t) <=> m <= n /\ u = SubSeq(v, 1, m)
  <2>1. IsSuffix(s, t) <=> Len(u) <= Len(v) /\ u = SubSeq(v, 1, Len(u))
    <3>1. SubSeq(u, 1, Len(u)) = u
      BY <1>2
    <3>2. QED
      BY <3>1 DEF IsSuffix, IsPrefix
  <2>2. QED
    BY <1>2, <1>3, <2>1
<1> HIDE DEF u, v
<1>5. ASSUME m <= n
      PROVE  u = SubSeq(v, 1, m) <=> \A i \in 1 .. m : u[i] = v[i]
  <2> HIDE DEF m, n
  <2>1. SubSeq(v, 1, m) \in Seq(S) /\ Len(SubSeq(v, 1, m)) = m
    BY <1>1, <1>3, <1>5
  <2>2. \A i \in 1 .. m : SubSeq(v, 1, m)[i] = v[i]
    BY <1>1, <1>3, <1>5
  <2>3. QED
    BY <1>2, <2>1, <2>2
<1>6. ASSUME m <= n
      PROVE  (\A i \in 1 .. m : u[i] = v[i]) <=> (\A i \in 1 .. m : s[i] = t[i + (n - m)])
  <2> HIDE DEF m, n
  <2>1. ASSUME NEW i \in 1 .. m
        PROVE  /\ (m - i) + 1 \in 1 .. m /\ i \in 1 .. n
               /\ u[(m - i) + 1] = s[i] /\ v[(m - i) + 1] = t[i + (n - m)]
    <3>1. (m - i) + 1 \in 1 .. m /\ (m - i) + 1 \in 1 .. n /\ i \in 1 .. n
      BY <1>1, <1>6
    <3>2. (m - ((m - i) + 1)) + 1 = i /\ (n - ((m - i) + 1)) + 1 = i + (n - m)
      BY <1>1
    <3>3. QED
      BY <1>2, <1>3, <3>1, <3>2
  <2>2. ASSUME \A i \in 1 .. m : u[i] = v[i], NEW i \in 1 .. m PROVE s[i] = t[i + (n - m)]
    BY <2>1, <2>2
  <2>3. ASSUME \A i \in 1 .. m : s[i] = t[i + (n - m)], NEW i \in 1 .. m PROVE u[i] = v[i]
    <3>1. (m - i) + 1 \in 1 .. m
      BY <2>1
    <3>2. (m - ((m - i) + 1)) + 1 = i
      BY <1>1
    <3>3. u[i] = s[(m - i) + 1] /\ v[i] = t[((m - i) + 1) + (n - m)]
      <4>1. u[(m - ((m - i) + 1)) + 1] = s[(m - i) + 1]
        BY <2>1, <3>1
      <4>2. v[(m - ((m - i) + 1)) + 1] = t[((m - i) + 1) + (n - m)]
        BY <2>1, <3>1
      <4>3. QED
        BY <3>2, <4>1, <4>2
    <3>4. QED
      BY <2>3, <3>1, <3>3
  <2>4. QED
    BY <2>2, <2>3
<1>7. QED
  BY <1>4, <1>5, <1>6 DEF EndsWith

LEMMA SuffixTail ==
  ASSUME NEW S, NEW s \in Seq(S), NEW t \in Seq(S), EndsWith(t, s), s # <<>>
  PROVE  EndsWith(t, Tail(s))
<1> DEFINE m == Len(s)
           n == Len(t)
           u == Tail(s)
<1>1. /\ m \in Nat \ {0} /\ n \in Nat /\ u \in Seq(S) /\ Len(u) = m - 1
      /\ \A i \in 1 .. m - 1 : u[i] = s[i + 1]
  OBVIOUS
<1>2. m <= n /\ \A i \in 1 .. m : s[i] = t[i + (n - m)]
  BY DEF EndsWith
<1> HIDE DEF m, n, u
<1>3. ASSUME NEW i \in 1 .. m - 1 PROVE u[i] = t[i + (n - (m - 1))]
  <2>1. i + 1 \in 1 .. m /\ (i + 1) + (n - m) = i + (n - (m - 1))
    BY <1>1
  <2>2. QED
    BY <1>1, <1>2, <2>1
<1>4. m - 1 <= n
  BY <1>1, <1>2
<1>5. QED
  BY <1>1, <1>3, <1>4 DEF EndsWith, u, n

LEMMA SuffixAppend ==
  ASSUME NEW S, NEW s \in Seq(S), NEW t \in Seq(S), EndsWith(t, s), NEW x \in S
  PROVE  EndsWith(Append(t, x), Append(s, x))
<1> DEFINE m == Len(s)
           n == Len(t)
           u == Append(s, x)
           v == Append(t, x)
<1>1. /\ m \in Nat /\ n \in Nat
      /\ Len(u) = m + 1 /\ u[m + 1] = x /\ \A i \in 1 .. m : u[i] = s[i]
      /\ Len(v) = n + 1 /\ v[n + 1] = x /\ \A i \in 1 .. n : v[i] = t[i]
  OBVIOUS
<1>2. m <= n /\ \A i \in 1 .. m : s[i] = t[i + (n - m)]
  BY DEF EndsWith
<1> HIDE DEF m, n, u, v
<1>3. ASSUME NEW i \in 1 .. m + 1 PROVE u[i] = v[i + ((n + 1) - (m + 1))]
  <2>1. CASE i = m + 1
    <3>1. i + ((n + 1) - (m + 1)) = n + 1
      BY <1>1, <2>1
    <3>2. QED
      BY <1>1, <2>1, <3>1
  <2>2. CASE i \in 1 .. m
    <3>1. i + ((n + 1) - (m + 1)) = i + (n - m) /\ i + (n - m) \in 1 .. n
      BY <1>1, <1>2, <2>2
    <3>2. QED
      BY <1>1, <1>2, <2>2, <3>1
  <2>3. QED
    BY <1>1, <2>1, <2>2
<1>4. m + 1 <= n + 1
  BY <1>1, <1>2
<1>5. EndsWith(v, u)
  BY <1>1, <1>3, <1>4 DEF EndsWith
<1>6. QED
  BY <1>5 DEF u, v

(* A full queue drops its oldest line; the longer one is full if the other is. *)
LEMMA SuffixPush ==
  ASSUME NEW S, NEW s \in Seq(S), NEW t \in Seq(S), EndsWith(t, s), NEW x \in S,
         NEW max \in Nat \ {0}, Len(t) <= max
  PROVE  EndsWith(PushBounded(t, x, max), PushBounded(s, x, max))
<1> DEFINE m == Len(s)
           n == Len(t)
<1>1. m \in Nat /\ n \in Nat /\ m <= n /\ n <= max
  BY DEF EndsWith
<1>2. CASE m >= max
  <2>1. m = n /\ n >= max /\ \A i \in 1 .. m : s[i] = t[i + (n - m)]
    BY <1>1, <1>2 DEF EndsWith
  <2>2. s = t
    BY <2>1
  <2>3. PushBounded(t, x, max) \in Seq(S)
    BY <1>1, PushBoundedIs
  <2> DEFINE p == PushBounded(t, x, max)
  <2> HIDE DEF p
  <2>4. EndsWith(p, p)
    BY <2>3 DEF EndsWith, p
  <2>5. QED
    BY <2>2, <2>4 DEF p
<1>3. CASE m < max
  <2>1. PushBounded(s, x, max) = Append(s, x)
    BY <1>1, <1>3 DEF PushBounded
  <2>2. CASE n < max
    <3>1. PushBounded(t, x, max) = Append(t, x)
      BY <1>1, <2>2 DEF PushBounded
    <3>2. QED
      BY <2>1, <3>1, SuffixAppend
  <2>3. CASE n = max
    <3>1. PushBounded(t, x, max) = Append(Tail(t), x)
      BY <2>3 DEF PushBounded
    <3> DEFINE u == Tail(t)
    <3>2. u \in Seq(S) /\ Len(u) = n - 1 /\ \A i \in 1 .. n - 1 : u[i] = t[i + 1]
      BY <2>3
    <3>3. \A i \in 1 .. m : s[i] = t[i + (n - m)]
      BY DEF EndsWith
    <3> HIDE DEF u, m, n
    <3>4. m <= n - 1 /\ \A i \in 1 .. m : s[i] = u[i + ((n - 1) - m)]
      <4>1. m <= n - 1
        BY <1>1, <1>3, <2>3
      <4>2. ASSUME NEW i \in 1 .. m PROVE s[i] = u[i + ((n - 1) - m)]
        <5>1. i + ((n - 1) - m) \in 1 .. n - 1 /\ (i + ((n - 1) - m)) + 1 = i + (n - m)
          BY <1>1, <4>1
        <5>2. QED
          BY <3>2, <3>3, <5>1
      <4>3. QED
        BY <4>1, <4>2
    <3>5. EndsWith(u, s)
      BY <3>2, <3>4 DEF EndsWith, m
    <3>6. EndsWith(Append(u, x), Append(s, x))
      BY <3>2, <3>5, SuffixAppend
    <3>7. QED
      BY <2>1, <3>1, <3>6 DEF u
  <2>4. QED
    BY <1>1, <2>2, <2>3
<1>4. QED
  BY <1>1, <1>2, <1>3

(* The buffer b is what the strokes it records make of an empty one.         *)
Replayed(b) ==
  LET r == HandleAll(EmptyBuffer, b.handled)
  IN  /\ b.line = r.line
      /\ b.history = r.history
      /\ EndsWith(r.ready, b.ready)

LEMMA EmptyWithinLimits == WithinLimits(EmptyBuffer)
<1>1. EmptyBuffer \in Buffers
  BY DEF EmptyBuffer, Buffers, Lines
<1>2. EmptyBuffer.line = <<>> /\ EmptyBuffer.ready = <<>> /\ EmptyBuffer.history = <<>>
  BY DEF EmptyBuffer
<1>3. QED
  BY <1>1, <1>2, LimitsAssumption DEF WithinLimits, LimitsAssumption

LEMMA ReplayStep ==
  ASSUME NEW b \in Buffers, Replayed(b), NEW s \in Strokes
  PROVE  Replayed(HandleEvent(b, s))
<1> DEFINE a == HandleEvent(b, s)
           r == HandleAll(EmptyBuffer, b.handled)
           e == HandleEvent(r, s)
<1>1. b.line = r.line /\ b.history = r.history /\ EndsWith(r.ready, b.ready)
  BY DEF Replayed
<1>2. b.handled \in Seq(Strokes) /\ b.ready \in Seq(Lines) /\ b.line \in Lines
  BY DEF Buffers
<1>3. WithinLimits(r)
  BY <1>2, EmptyWithinLimits, HandleAllKeepsLimits
<1>4. r \in Buffers /\ Len(r.ready) <= MAX_QUEUE_DEPTH
  BY <1>3 DEF WithinLimits
<1>5. r.ready \in Seq(Lines)
  BY <1>4 DEF Buffers
<1>6. HandleAll(EmptyBuffer, Append(b.handled, s)) = e
  <2>1. EmptyBuffer \in Buffers
    BY EmptyWithinLimits DEF WithinLimits
  <2>2. QED
    BY <1>2, <2>1, HandleAllAppend
<1> HIDE DEF r
<1>7. CASE s.kind = "Ignored"
  <2>1. a = b
    BY <1>7 DEF HandleEvent
  <2>2. QED
    BY <2>1
<1>8. CASE s.kind # "Ignored"
  <2>1. a.handled = Append(b.handled, s)
    BY <1>8, HandleFields, Zenon
  <2>2. a.line = e.line /\ a.history = e.history
    <3>1. a.line = LineAfter(b.line, s) /\ e.line = LineAfter(r.line, s)
      BY <1>4, HandleLine
    <3>2. a.history = HistoryAfter(b.history, b.line, s) /\ e.history = HistoryAfter(r.history, r.line, s)
      BY <1>4, HandleLine
    <3>3. QED
      BY <1>1, <3>1, <3>2, Zenon
  <2>3. EndsWith(e.ready, a.ready)
    <3>1. CASE s.kind = "Enter"
      <4>1. a.ready = PushBounded(b.ready, b.line, MAX_QUEUE_DEPTH)
        BY <3>1, HandleFields, Zenon
      <4>2. e.ready = PushBounded(r.ready, r.line, MAX_QUEUE_DEPTH)
        BY <1>4, <3>1, HandleFields, Zenon
      <4>3. MAX_QUEUE_DEPTH \in Nat \ {0}
        BY LimitsAssumption DEF LimitsAssumption
      <4>4. EndsWith(PushBounded(r.ready, b.line, MAX_QUEUE_DEPTH),
                     PushBounded(b.ready, b.line, MAX_QUEUE_DEPTH))
        BY <1>1, <1>2, <1>4, <1>5, <4>3, SuffixPush
      <4>5. QED
        BY <1>1, <4>1, <4>2, <4>4, Zenon
    <3>2. CASE s.kind # "Enter"
      <4>1. a.ready = b.ready
        BY <3>2, HandleFields, Zenon
      <4>2. e.ready = r.ready
        BY <1>4, <3>2, HandleFields, Zenon
      <4>3. QED
        BY <1>1, <4>1, <4>2, Zenon
    <3>3. QED
      BY <3>1, <3>2
  <2> HIDE DEF a, e
  <2>4. HandleAll(EmptyBuffer, a.handled) = e
    BY <1>6, <2>1
  <2>5. Replayed(a)
    BY <2>2, <2>3, <2>4, Zenon DEF Replayed
  <2>6. QED
    BY <2>5 DEF a
<1>9. QED
  BY <1>7, <1>8

LEMMA HandleAllReplay ==
  ASSUME NEW b \in Buffers, Replayed(b), NEW q \in Seq(Strokes)
  PROVE  Replayed(HandleAll(b, q))
<1> DEFINE I == {a \in Buffers : Replayed(a)}
<1>1. b \in I
  OBVIOUS
<1>2. \A a \in Buffers : \A i \in 1 .. Len(q) : a \in I => HandleEvent(a, q[i]) \in I
  <2>1. \A i \in 1 .. Len(q) : q[i] \in Strokes
    OBVIOUS
  <2>2. QED
    BY <2>1, ReplayStep, HandleTyped
<1>3. HandleAll(b, q) \in I
  <2> HIDE DEF I
  <2>1. QED
    BY <1>1, <1>2, HandleAllKeeps
<1>4. QED
  BY <1>3

(* Handling strokes that were typed records strokes that were typed.         *)
TypedIn(t, s) == s.n <= Len(t[s.dev])
AllTypedIn(t, q) == \A i \in DOMAIN q : TypedIn(t, q[i])

LEMMA AllTypedAppend ==
  ASSUME NEW t, NEW q \in Seq(Strokes), AllTypedIn(t, q), NEW s \in Strokes, TypedIn(t, s)
  PROVE  AllTypedIn(t, Append(q, s))
<1> DEFINE p == Append(q, s)
<1>1. ASSUME NEW i \in DOMAIN p PROVE p[i] = s \/ (i \in DOMAIN q /\ p[i] = q[i])
  OBVIOUS
<1> HIDE DEF p
<1>2. ASSUME NEW i \in DOMAIN p PROVE TypedIn(t, p[i])
  BY <1>1, Zenon DEF AllTypedIn
<1>3. QED
  BY <1>2 DEF AllTypedIn, p

LEMMA HandleKeepsTyped ==
  ASSUME NEW t, NEW b \in Buffers, AllTypedIn(t, b.handled), NEW s \in Strokes, TypedIn(t, s)
  PROVE  AllTypedIn(t, HandleEvent(b, s).handled)
<1>1. b.handled \in Seq(Strokes)
  BY DEF Buffers
<1>2. AllTypedIn(t, Append(b.handled, s))
  BY <1>1, AllTypedAppend
<1>3. HandleEvent(b, s).handled = IF s.kind = "Ignored" THEN b.handled ELSE Append(b.handled, s)
  BY HandleFields, Zenon
<1>4. QED
  BY <1>2, <1>3

LEMMA HandleAllKeepsTyped ==
  ASSUME NEW t, NEW b \in Buffers, AllTypedIn(t, b.handled),
         NEW q \in Seq(Strokes), AllTypedIn(t, q)
  PROVE  AllTypedIn(t, HandleAll(b, q).handled)
<1> DEFINE I == {a \in Buffers : AllTypedIn(t, a.handled)}
<1>1. b \in I
  OBVIOUS
<1>2. \A a \in Buffers : \A i \in 1 .. Len(q) : a \in I => HandleEvent(a, q[i]) \in I
  <2>1. \A i \in 1 .. Len(q) : q[i] \in Strokes /\ TypedIn(t, q[i])
    BY DEF AllTypedIn
  <2>2. QED
    BY <2>1, HandleKeepsTyped, HandleTyped
<1>3. HandleAll(b, q) \in I
  <2> HIDE DEF I
  <2>1. QED
    BY <1>1, <1>2, HandleAllKeeps
<1>4. QED
  BY <1>3

-----------------------------------------------------------------------------
(* What one writer printed.                                                  *)

Prints == [by : {"isr", "shell"}, what : (Devices \cup {"output", "prompt"}) \X Nat]

KeepBy(who, seen, p) == IF p.by = who THEN Append(seen, p) ELSE seen

PrintByPrint(f, who, out, S) ==
  /\ f \in [0 .. Len(out) -> Seq(S)]
  /\ f[0] = <<>>
  /\ \A n \in 0 .. Len(out) - 1 : f[n + 1] = KeepBy(who, f[n], out[n + 1])

LEMMA ByFold ==
  ASSUME NEW S, NEW out \in Seq(S), NEW who
  PROVE  \E f : PrintByPrint(f, who, out, S) /\ By(who, out) = f[Len(out)]
<1> DEFINE M == Len(out)
           A == Seq(S)
           G == [i \in 1 .. M |-> [a \in A |-> KeepBy(who, a, out[i])]]
<1>1. M \in Nat /\ DOMAIN out = 1 .. M /\ <<>> \in A
  OBVIOUS
<1>2. ASSUME NEW i \in 1 .. M, NEW a \in A
      PROVE  G[i][a] = KeepBy(who, a, out[i]) /\ G[i][a] \in A
  <2>1. out[i] \in S
    OBVIOUS
  <2>2. G[i][a] = KeepBy(who, a, out[i])
    OBVIOUS
  <2>3. KeepBy(who, a, out[i]) \in A
    BY <2>1 DEF KeepBy
  <2>4. QED
    BY <2>2, <2>3, Zenon
<1> DEFINE Body(F) == [s \in SUBSET (DOMAIN out) |->
                         IF s = {} THEN <<>> ELSE KeepBy(who, F[s \ {Max(s)}], out[Max(s)])]
<1>3. By(who, out) = (CHOOSE F : F = Body(F))[DOMAIN out]
  BY DEF By, KeepBy, FoldLeft, MapThenFoldSet
<1>4. \E F : F = Body(F)
  <2>1. PICK F \in [SUBSET (1 .. M) -> A] : F = FoldBody(F, G, <<>>, M)
    <3>1. M \in Nat /\ <<>> \in A /\ StaysIn(A, G, M)
      BY <1>1, <1>2, Zenon DEF StaysIn
    <3> HIDE DEF G, M, A
    <3>2. HasFold(A, G, <<>>, M)
      BY <3>1, FoldExists
    <3>3. QED
      BY <3>2 DEF HasFold
  <2>2. ASSUME NEW s \in SUBSET (1 .. M), s # {}
        PROVE  G[Max(s)][F[s \ {Max(s)}]] = KeepBy(who, F[s \ {Max(s)}], out[Max(s)])
    <3>1. Max(s) \in 1 .. M /\ s \ {Max(s)} \in SUBSET (1 .. M)
      BY <1>1, <2>2, MaxOfPositions
    <3>2. F[s \ {Max(s)}] \in A
      BY <3>1
    <3> HIDE DEF G, M, A
    <3>3. QED
      BY <1>2, <3>1, <3>2
  <2>3. F = Body(F)
    <3> HIDE DEF G, M, A
    <3>1. QED
      BY <1>1, <2>1, <2>2 DEF FoldBody
  <2>4. QED
    BY <2>3
<1> DEFINE F == CHOOSE F : F = Body(F)
           f == [n \in 0 .. M |-> F[1 .. n]]
<1>5. F = Body(F)
  BY <1>4
<1>6. \A s \in SUBSET (1 .. M) :
         F[s] = IF s = {} THEN <<>> ELSE KeepBy(who, F[s \ {Max(s)}], out[Max(s)])
  <2> HIDE DEF F
  <2>1. QED
    BY <1>1, <1>5
<1>7. f[0] = <<>> /\ By(who, out) = f[M]
  <2>1. 1 .. 0 = {} /\ {} \in SUBSET (1 .. M)
    OBVIOUS
  <2>2. By(who, out) = F[1 .. M] /\ M \in 0 .. M /\ 0 \in 0 .. M
    BY <1>1, <1>3
  <2> HIDE DEF F
  <2>3. F[1 .. 0] = <<>>
    BY <1>6, <2>1
  <2>4. QED
    BY <2>2, <2>3
<1>8. ASSUME NEW n \in 0 .. M - 1 PROVE f[n + 1] = KeepBy(who, f[n], out[n + 1])
  <2>1. /\ 1 .. n + 1 \in SUBSET (1 .. M) /\ 1 .. n + 1 # {}
        /\ Max(1 .. n + 1) = n + 1
        /\ (1 .. n + 1) \ {n + 1} = 1 .. n
    BY <1>1, PrefixPositions
  <2> HIDE DEF F
  <2>2. F[1 .. n + 1] = KeepBy(who, F[1 .. n], out[n + 1])
    BY <1>6, <2>1
  <2>3. QED
    BY <1>1, <2>2
<1>9. \A n \in 0 .. M : f[n] \in A
  <2> DEFINE P == {n \in Nat : n <= M => f[n] \in A}
  <2> HIDE DEF f, G, A
  <2>1. 0 \in P
    BY <1>1, <1>7
  <2>2. ASSUME NEW n \in Nat, n \in P PROVE n + 1 \in P
    <3>1. SUFFICES ASSUME n + 1 <= M PROVE f[n + 1] \in A
      OBVIOUS
    <3>2. n \in 0 .. M - 1 /\ f[n] \in A /\ n + 1 \in 1 .. M
      BY <1>1, <2>2, <3>1
    <3>3. QED
      BY <1>2, <1>8, <3>2
  <2>3. \A n \in Nat : n \in P
    <3> HIDE DEF P
    <3>1. QED
      BY <2>1, <2>2, Induct
  <2>4. QED
    BY <1>1, <2>3
<1>10. PrintByPrint(f, who, out, S)
  <2>1. f \in [0 .. M -> A]
    <3>1. f = [n \in 0 .. M |-> f[n]]
      OBVIOUS
    <3> HIDE DEF f, A
    <3>2. QED
      BY <1>9, <3>1
  <2> HIDE DEF f
  <2>2. QED
    BY <2>1, <1>7, <1>8 DEF PrintByPrint
<1>11. QED
  BY <1>7, <1>10

LEMMA ByTyped ==
  ASSUME NEW S, NEW out \in Seq(S), NEW who
  PROVE  By(who, out) \in Seq(S)
<1>1. PICK f : PrintByPrint(f, who, out, S) /\ By(who, out) = f[Len(out)]
  BY ByFold
<1>2. Len(out) \in 0 .. Len(out)
  OBVIOUS
<1>3. QED
  BY <1>1, <1>2 DEF PrintByPrint

LEMMA ByNothing ==
  ASSUME NEW who
  PROVE  By(who, <<>>) = <<>>
<1>1. <<>> \in Seq(Prints) /\ Len(<<>>) = 0
  OBVIOUS
<1>2. PICK f : PrintByPrint(f, who, <<>>, Prints) /\ By(who, <<>>) = f[Len(<<>>)]
  BY <1>1, ByFold
<1>3. QED
  BY <1>1, <1>2 DEF PrintByPrint

LEMMA ByAppend ==
  ASSUME NEW S, NEW out \in Seq(S), NEW p \in S, NEW who
  PROVE  By(who, Append(out, p)) = KeepBy(who, By(who, out), p)
<1> DEFINE r == Append(out, p)
           M == Len(out)
<1>1. /\ r \in Seq(S) /\ M \in Nat /\ Len(r) = M + 1
      /\ r[M + 1] = p /\ \A i \in 1 .. M : r[i] = out[i]
  OBVIOUS
<1>2. PICK f : PrintByPrint(f, who, out, S) /\ By(who, out) = f[Len(out)]
  BY ByFold
<1>3. PICK g : PrintByPrint(g, who, r, S) /\ By(who, r) = g[Len(r)]
  <2> HIDE DEF r
  <2>1. QED
    BY <1>1, ByFold
<1> DEFINE P == {n \in Nat : n <= M => f[n] = g[n]}
<1> HIDE DEF r, M
<1>4. /\ f[0] = <<>> /\ g[0] = <<>>
      /\ \A n \in 0 .. M - 1 : f[n + 1] = KeepBy(who, f[n], out[n + 1])
      /\ \A n \in 0 .. M : g[n + 1] = KeepBy(who, g[n], r[n + 1])
  <2>1. \A n \in 0 .. M : n \in 0 .. (M + 1) - 1
    BY <1>1
  <2>2. QED
    BY <1>1, <1>2, <1>3, <2>1 DEF PrintByPrint, M
<1>5. 0 \in P
  BY <1>4
<1>6. ASSUME NEW n \in Nat, n \in P PROVE n + 1 \in P
  <2>1. SUFFICES ASSUME n + 1 <= M PROVE f[n + 1] = g[n + 1]
    OBVIOUS
  <2>2. n \in 0 .. M - 1 /\ n \in 0 .. M /\ n + 1 \in 1 .. M /\ f[n] = g[n]
    BY <1>1, <1>6, <2>1
  <2>3. r[n + 1] = out[n + 1]
    BY <1>1, <2>2
  <2>4. QED
    BY <1>4, <2>2, <2>3
<1>7. \A n \in Nat : n \in P
  <2> HIDE DEF P
  <2>1. QED
    BY <1>5, <1>6, Induct
<1>8. f[M] = g[M] /\ g[M + 1] = KeepBy(who, g[M], r[M + 1])
  <2>1. M \in 0 .. M
    BY <1>1
  <2>2. QED
    BY <1>1, <1>4, <1>7, <2>1
<1>9. By(who, out) = f[M] /\ By(who, r) = g[M + 1]
  BY <1>1, <1>2, <1>3 DEF M
<1>10. By(who, r) = KeepBy(who, By(who, out), p)
  BY <1>1, <1>8, <1>9
<1>11. QED
  BY <1>10 DEF r

LEMMA ConcatAppend ==
  ASSUME NEW S, NEW u \in Seq(S), NEW v \in Seq(S), NEW x \in S
  PROVE  u \o Append(v, x) = Append(u \o v, x) /\ u \o v \in Seq(S)
OBVIOUS

LEMMA ConcatEmpty ==
  ASSUME NEW S, NEW u \in Seq(S)
  PROVE  u \o <<>> = u
OBVIOUS

LEMMA EchoesAreOutput ==
  ASSUME NEW e \in Seq(Echoes)
  PROVE  /\ PrintedBy("isr", e) \in Seq(Prints)
         /\ \A i \in 1 .. Len(PrintedBy("isr", e)) : PrintedBy("isr", e)[i].by = "isr"
<1>1. Len(e) \in Nat /\ DOMAIN e = 1 .. Len(e) /\ \A i \in 1 .. Len(e) : e[i] \in Echoes
  OBVIOUS
<1>2. \A x \in Echoes : [by |-> "isr", what |-> x] \in Prints
  BY DEF Echoes, Prints
<1> DEFINE N == Len(e)
<1> HIDE DEF N
<1>3. PrintedBy("isr", e) = [i \in 1 .. N |-> [by |-> "isr", what |-> e[i]]]
  BY <1>1 DEF PrintedBy, N
<1>4. \A i \in 1 .. N : [by |-> "isr", what |-> e[i]] \in Prints
  BY <1>1, <1>2 DEF N
<1>5. N \in Nat
  BY <1>1 DEF N
<1>6. PrintedBy("isr", e) \in [1 .. N -> Prints] /\ \A i \in 1 .. N : PrintedBy("isr", e)[i].by = "isr"
  <2>1. \A i \in 1 .. N : PrintedBy("isr", e)[i] = [by |-> "isr", what |-> e[i]]
    BY <1>3, Zenon
  <2>2. \A i \in 1 .. N : PrintedBy("isr", e)[i].by = "isr"
    <3>1. \A x : [by |-> "isr", what |-> x].by = "isr"
      OBVIOUS
    <3>2. QED
      BY <2>1, <3>1, Zenon
  <2>3. PrintedBy("isr", e) \in [1 .. N -> Prints]
    BY <1>3, <1>4, Zenon
  <2>4. QED
    BY <2>2, <2>3
<1> DEFINE ps == PrintedBy("isr", e)
<1> HIDE DEF ps
<1>7. ps \in Seq(Prints) /\ Len(ps) = N /\ \A i \in 1 .. N : ps[i].by = "isr"
  <2>1. ps \in [1 .. N -> Prints] /\ \A i \in 1 .. N : ps[i].by = "isr"
    BY <1>6 DEF ps
  <2>2. ps \in Seq(Prints) /\ Len(ps) = N
    BY <1>5, <2>1
  <2>3. QED
    BY <2>1, <2>2
<1>8. QED
  BY <1>7 DEF ps

(* A handler's output is its own on either console.                          *)
LEMMA ByHandler ==
  ASSUME NEW out \in Seq(Prints), NEW e \in Seq(Echoes)
  PROVE  LET ps == PrintedBy("isr", e)
         IN  /\ out \o ps \in Seq(Prints)
             /\ By("shell", out \o ps) = By("shell", out)
             /\ By("isr", out \o ps) = By("isr", out) \o ps
<1> DEFINE ps == PrintedBy("isr", e)
           M == Len(ps)
           v(n) == SubSeq(ps, 1, n)
           Q(n) == /\ By("shell", out \o v(n)) = By("shell", out)
                   /\ By("isr", out \o v(n)) = By("isr", out) \o v(n)
           P == {n \in Nat : n <= M => Q(n)}
<1>1. ps \in Seq(Prints) /\ \A i \in 1 .. M : ps[i].by = "isr"
  BY EchoesAreOutput
<1> HIDE DEF ps
<1>2. M \in Nat /\ v(0) = <<>> /\ v(M) = ps
  BY <1>1
<1>3. By("isr", out) \in Seq(Prints) /\ By("shell", out) \in Seq(Prints)
  BY ByTyped
<1>4. 0 \in P
  <2>1. out \o <<>> = out /\ By("isr", out) \o <<>> = By("isr", out)
    BY <1>3, ConcatEmpty
  <2>2. Q(0)
    BY <1>2, <2>1, Zenon
  <2> HIDE DEF Q
  <2>3. QED
    BY <2>2
<1>5. ASSUME NEW n \in Nat, n \in P PROVE n + 1 \in P
  <2>1. SUFFICES ASSUME n + 1 <= M PROVE Q(n + 1)
    <3> HIDE DEF Q
    <3>1. QED
      OBVIOUS
  <2>2. n \in 0 .. M - 1 /\ n + 1 \in 1 .. M /\ Q(n)
    <3> HIDE DEF Q
    <3>1. QED
      BY <1>2, <1>5, <2>1
  <2> DEFINE w == v(n)
             x == ps[n + 1]
  <2>3. w \in Seq(Prints) /\ x \in Prints /\ v(n + 1) = Append(w, x) /\ x.by = "isr"
    BY <1>1, <2>2, PrefixAppend
  <2>4. By("shell", out \o w) = By("shell", out) /\ By("isr", out \o w) = By("isr", out) \o w
    BY <2>2, Zenon
  <2> HIDE DEF w, x, v
  <2>5. out \o v(n + 1) = Append(out \o w, x) /\ out \o w \in Seq(Prints)
    <3>1. out \o Append(w, x) = Append(out \o w, x) /\ out \o w \in Seq(Prints)
      BY <2>3, ConcatAppend
    <3>2. QED
      BY <2>3, <3>1, Zenon
  <2>6. /\ By("shell", Append(out \o w, x)) = KeepBy("shell", By("shell", out \o w), x)
        /\ By("isr", Append(out \o w, x)) = KeepBy("isr", By("isr", out \o w), x)
    BY <2>3, <2>5, ByAppend
  <2>7. By("shell", out \o v(n + 1)) = By("shell", out)
    BY <2>3, <2>4, <2>5, <2>6 DEF KeepBy
  <2>8. By("isr", out \o v(n + 1)) = By("isr", out) \o v(n + 1)
    <3>1. By("isr", out) \o Append(w, x) = Append(By("isr", out) \o w, x)
      BY <1>3, <2>3, ConcatAppend
    <3>2. By("isr", out \o v(n + 1)) = Append(By("isr", out) \o w, x)
      BY <2>3, <2>4, <2>5, <2>6, Zenon DEF KeepBy
    <3>3. QED
      BY <2>3, <3>1, <3>2
  <2>9. QED
    BY <2>7, <2>8, Zenon
<1>6. \A n \in Nat : n \in P
  <2> HIDE DEF P
  <2>1. QED
    BY <1>4, <1>5, Induct
<1>7. Q(M)
  <2> HIDE DEF Q
  <2>1. QED
    BY <1>2, <1>6
<1>8. out \o ps \in Seq(Prints)
  BY <1>1
<1>9. QED
  BY <1>2, <1>7, <1>8, Zenon DEF ps

(* So is the shell's.                                                        *)
LEMMA ByShell ==
  ASSUME NEW out \in Seq(Prints),
         NEW what \in (Devices \cup {"output", "prompt"}) \X Nat
  PROVE  LET p == [by |-> "shell", what |-> what]
         IN  /\ p \in Prints
             /\ out \o PrintedBy("shell", <<what>>) = Append(out, p)
             /\ Append(out, p) \in Seq(Prints)
             /\ By("shell", Append(out, p)) = Append(By("shell", out), p)
             /\ By("isr", Append(out, p)) = By("isr", out)
<1> DEFINE p == [by |-> "shell", what |-> what]
<1>1. p \in Prints /\ p.by = "shell"
  BY DEF Prints
<1>2. PrintedBy("shell", <<what>>) = <<p>>
  <2>1. DOMAIN <<what>> = {1} /\ <<what>>[1] = what
    OBVIOUS
  <2>2. PrintedBy("shell", <<what>>) = [i \in {1} |-> p]
    BY <2>1 DEF PrintedBy
  <2> HIDE DEF p
  <2>3. [i \in {1} |-> p] = <<p>>
    OBVIOUS
  <2>4. QED
    BY <2>2, <2>3
<1> HIDE DEF p
<1>3. out \o <<p>> = Append(out, p) /\ Append(out, p) \in Seq(Prints)
  BY <1>1
<1>4. /\ By("shell", Append(out, p)) = KeepBy("shell", By("shell", out), p)
      /\ By("isr", Append(out, p)) = KeepBy("isr", By("isr", out), p)
  BY <1>1, ByAppend
<1>5. /\ By("shell", Append(out, p)) = Append(By("shell", out), p)
      /\ By("isr", Append(out, p)) = By("isr", out)
  BY <1>1, <1>4 DEF KeepBy
<1>6. QED
  BY <1>1, <1>2, <1>3, <1>5, Zenon DEF p

-----------------------------------------------------------------------------
(* The inductive invariant.                                                  *)

DevicesOK ==
  /\ typed \in [Devices -> Seq(Strokes)] /\ rx \in [Devices -> Seq(Strokes)]
  /\ Len(typed["kbd"]) + Len(typed["uart"]) <= TYPED_MAX
  /\ lastKey \in Strokes /\ reg \in Strokes /\ irq \in [Devices -> BOOLEAN]

(* No stroke is anywhere before it is typed.                                 *)
OnlyTyped ==
  /\ \A d \in Devices : \A i \in DOMAIN typed[d] : typed[d][i].dev = d /\ typed[d][i].n = i
  /\ \A d \in Devices : AllTypedIn(typed, rx[d]) /\ \A i \in DOMAIN rx[d] : rx[d][i].dev = d
  /\ AllTypedIn(typed, handled)
  /\ lastKey.dev = "kbd" /\ TypedIn(typed, lastKey) /\ TypedIn(typed, reg)

BufferOK == WithinLimits(Buffer) /\ Replayed(Buffer)

(* Where the strokes that mean something are.                                *)
WasTyped(s) == s.kind # "Ignored" /\ s.n \in DOMAIN typed[s.dev] /\ typed[s.dev][s.n] = s
PlacesOK ==
  \A s \in Strokes : WasTyped(s) => Places(s) >= 1 /\ (s.dev = "uart" => Places(s) = 1)

ShellOK == /\ executed \in Seq(Lines) /\ pc \in PCs /\ port \in Devices
           /\ stuck \subseteq Strokes

(* What the shell has printed on the serial port and not yet on the other.   *)
Pending == [by   |-> "shell",
            what |-> IF pc = "echoVga" THEN <<reg.dev, reg.n>>
                     ELSE <<IF pc = "outVga" THEN "output" ELSE "prompt", Len(executed)>>]
PendingIsLast ==
  MidPrint => LET s == By("shell", serialOut) IN s # <<>> /\ s[Len(s)] = Pending

OutputsOK ==
  /\ serialOut \in Seq(Prints) /\ vgaOut \in Seq(Prints)
  /\ ConsolesComplete
  /\ PendingIsLast

ConsoleInv == DevicesOK /\ OnlyTyped /\ BufferOK /\ PlacesOK /\ ShellOK /\ OutputsOK

-----------------------------------------------------------------------------
(* What the parts of the actions do.                                         *)

LEMMA BufferIs ==
  ASSUME BufferOK
  PROVE  /\ Buffer \in Buffers /\ Buffer.handled = handled /\ Buffer.line = line
         /\ Buffer.ready = ready /\ Buffer.history = history /\ Buffer.echo = <<>>
         /\ handled \in Seq(Strokes) /\ line \in Lines /\ ready \in Seq(Lines)
         /\ history \in Seq(Lines)
<1>1. Buffer \in Buffers
  BY DEF BufferOK, WithinLimits
<1>2. /\ Buffer.handled = handled /\ Buffer.line = line /\ Buffer.ready = ready
      /\ Buffer.history = history /\ Buffer.echo = <<>>
  BY DEF Buffer
<1>3. /\ Buffer.handled \in Seq(Strokes) /\ Buffer.line \in Lines /\ Buffer.ready \in Seq(Lines)
      /\ Buffer.history \in Seq(Lines)
  BY <1>1 DEF Buffers
<1>4. QED
  BY <1>1, <1>2, <1>3, Zenon

LEMMA StoredBuffer ==
  ASSUME NEW b, WithinLimits(b), Replayed(b), StoreBuffer(b)
  PROVE  BufferOK' /\ handled' = b.handled
<1>1. b \in Buffers
  BY DEF WithinLimits
<1>2. /\ b.line \in Lines /\ b.ready \in Seq(Lines) /\ b.history \in Seq(Lines)
      /\ b.handled \in Seq(Strokes)
  BY <1>1 DEF Buffers
<1> DEFINE c == [line |-> b.line, ready |-> b.ready, history |-> b.history,
                 handled |-> b.handled, echo |-> <<>>]
<1>3. Buffer' = c
  BY DEF Buffer, StoreBuffer
<1>4. c.line = b.line /\ c.ready = b.ready /\ c.history = b.history /\ c.handled = b.handled
  OBVIOUS
<1>5. c \in Buffers
  BY <1>2 DEF Buffers
<1> HIDE DEF c
<1>6. WithinLimits(c)
  BY <1>4, <1>5 DEF WithinLimits
<1>7. Replayed(c)
  BY <1>4, Zenon DEF Replayed
<1>8. QED
  BY <1>3, <1>6, <1>7 DEF BufferOK, StoreBuffer

(* An interrupt handler.                                                     *)
LEMMA HandlerEffect ==
  ASSUME BufferOK, AllTypedIn(typed, handled),
         NEW strokes \in Seq(Strokes), AllTypedIn(typed, strokes), HandledByIsr(strokes)
  PROVE  /\ BufferOK' /\ AllTypedIn(typed, handled')
         /\ \A s \in Strokes : s.kind # "Ignored"
              => Occurrences(s, handled') = Occurrences(s, handled) + Occurrences(s, strokes)
         /\ \E e \in Seq(Echoes) : /\ serialOut' = serialOut \o PrintedBy("isr", e)
                                   /\ vgaOut' = vgaOut \o PrintedBy("isr", e)
<1> DEFINE after == HandleAll(Buffer, strokes)
<1>1. /\ StoreBuffer(after)
      /\ serialOut' = serialOut \o PrintedBy("isr", after.echo)
      /\ vgaOut' = vgaOut \o PrintedBy("isr", after.echo)
  BY DEF HandledByIsr, HandleAll
<1>2. Buffer \in Buffers /\ Buffer.handled = handled
  BY BufferIs
<1>3. WithinLimits(after)
  BY HandleAllKeepsLimits DEF BufferOK
<1>4. Replayed(after)
  BY <1>2, HandleAllReplay DEF BufferOK
<1>5. AllTypedIn(typed, after.handled)
  BY <1>2, HandleAllKeepsTyped
<1>6. ASSUME NEW s \in Strokes, s.kind # "Ignored"
      PROVE  Occurrences(s, after.handled) = Occurrences(s, handled) + Occurrences(s, strokes)
  <2>1. Occurrences(s, after.handled) = Occurrences(s, Buffer.handled) + Occurrences(s, strokes)
    BY <1>2, <1>6, HandleAllCounts
  <2>2. QED
    BY <1>2, <2>1
<1>7. after.echo \in Seq(Echoes)
  <2>1. after \in Buffers
    BY <1>3 DEF WithinLimits
  <2> HIDE DEF after
  <2>2. QED
    BY <2>1 DEF Buffers
<1> HIDE DEF after
<1>8. BufferOK' /\ handled' = after.handled
  BY <1>1, <1>3, <1>4, StoredBuffer
<1>9. QED
  BY <1>1, <1>5, <1>6, <1>7, <1>8, Zenon

(* The shell's section in the input buffer.                                  *)
LEMMA PollHandleEffect ==
  ASSUME BufferOK, AllTypedIn(typed, handled), reg \in Strokes, TypedIn(typed, reg), PollHandle
  PROVE  /\ BufferOK' /\ AllTypedIn(typed, handled')
         /\ \A s \in Strokes : s.kind # "Ignored"
              => Occurrences(s, handled') = Occurrences(s, handled) + (IF reg = s THEN 1 ELSE 0)
<1> DEFINE after == HandleEvent(Buffer, reg)
<1>1. StoreBuffer(after)
  BY DEF PollHandle
<1>2. Buffer \in Buffers /\ Buffer.handled = handled /\ handled \in Seq(Strokes)
  BY BufferIs
<1>3. WithinLimits(after)
  BY HandleKeepsLimits DEF BufferOK
<1>4. Replayed(after)
  BY <1>2, ReplayStep DEF BufferOK
<1>5. AllTypedIn(typed, after.handled)
  BY <1>2, HandleKeepsTyped
<1>6. after.handled = IF reg.kind = "Ignored" THEN Buffer.handled ELSE Append(Buffer.handled, reg)
  BY <1>2, HandleFields, Zenon
<1>7. ASSUME NEW s \in Strokes, s.kind # "Ignored"
      PROVE  Occurrences(s, after.handled) = Occurrences(s, handled) + (IF reg = s THEN 1 ELSE 0)
  <2> HIDE DEF after
  <2>1. Occurrences(s, handled) \in Nat
    BY <1>2, OccurrencesFinite
  <2>2. CASE reg.kind = "Ignored"
    <3>1. reg # s /\ after.handled = handled
      BY <1>2, <1>6, <1>7, <2>2
    <3>2. QED
      BY <2>1, <3>1
  <2>3. CASE reg.kind # "Ignored"
    <3>1. after.handled = Append(handled, reg)
      BY <1>2, <1>6, <2>3
    <3>2. Occurrences(s, Append(handled, reg)) = Occurrences(s, handled) + (IF reg = s THEN 1 ELSE 0)
      BY <1>2, OccurrencesAppend
    <3>3. QED
      BY <3>1, <3>2
  <2>4. QED
    BY <2>2, <2>3
<1> HIDE DEF after
<1>8. BufferOK' /\ handled' = after.handled
  BY <1>1, <1>3, <1>4, StoredBuffer
<1>9. QED
  BY <1>5, <1>7, <1>8, Zenon

(* Reading a data port: what it answers, and what it leaves in the device.   *)
LEMMA PortAnswer ==
  ASSUME DevicesOK, OnlyTyped, NEW d \in Devices
  PROVE  DataPort(d) \in Strokes /\ DataPort(d).dev = d /\ TypedIn(typed, DataPort(d))
<1> DEFINE q == rx[d]
<1>1. q \in Seq(Strokes) /\ AllTypedIn(typed, q) /\ \A i \in DOMAIN q : q[i].dev = d
  BY DEF DevicesOK, OnlyTyped
<1>2. CASE q # <<>>
  <2>1. DataPort(d) = Head(q)
    BY <1>2 DEF DataPort
  <2> HIDE DEF q
  <2>2. Head(q) = q[1] /\ 1 \in DOMAIN q /\ q[1] \in Strokes
    BY <1>1, <1>2
  <2>3. QED
    BY <1>1, <2>1, <2>2 DEF AllTypedIn
<1>3. CASE q = <<>> /\ d = "kbd"
  <2>1. DataPort(d) = lastKey
    BY <1>3 DEF DataPort
  <2>2. QED
    BY <1>3, <2>1 DEF DevicesOK, OnlyTyped
<1>4. CASE q = <<>> /\ d # "kbd"
  <2>1. DataPort(d) = NoStroke("uart") /\ d = "uart"
    BY <1>4 DEF DataPort, Devices
  <2>2. 0 \in 0 .. TYPED_MAX
    BY LimitsAssumption DEF LimitsAssumption
  <2>3. NoStroke("uart") \in Strokes
    BY <2>2 DEF NoStroke, Strokes, Devices, Kinds
  <2>4. NoStroke("uart").dev = "uart" /\ NoStroke("uart").n = 0
    BY DEF NoStroke, Stroke
  <2>5. typed["uart"] \in Seq(Strokes)
    BY DEF DevicesOK, Devices
  <2>6. TypedIn(typed, NoStroke("uart"))
    BY <2>4, <2>5 DEF TypedIn
  <2>7. QED
    BY <2>1, <2>3, <2>4, <2>6
<1>5. QED
  BY <1>2, <1>3, <1>4

LEMMA ReadEffect ==
  ASSUME DevicesOK, OnlyTyped, NEW d \in Devices, NEW l \in BOOLEAN, ReadDataPort(d, l)
  PROVE  /\ typed' = typed /\ rx' \in [Devices -> Seq(Strokes)] /\ irq' \in [Devices -> BOOLEAN]
         /\ lastKey' \in Strokes /\ lastKey'.dev = "kbd" /\ TypedIn(typed, lastKey')
         /\ \A e \in Devices : /\ AllTypedIn(typed, rx'[e])
                               /\ \A i \in DOMAIN rx'[e] : rx'[e][i].dev = e
<1>1. typed' = typed
  BY DEF ReadDataPort
<1>2. irq' \in [Devices -> BOOLEAN]
  <2>1. irq' = [irq EXCEPT ![d] = l \/ (d = "kbd" /\ Len(rx[d]) > 1)]
    BY DEF ReadDataPort
  <2>2. irq \in [Devices -> BOOLEAN]
    BY DEF DevicesOK
  <2>3. QED
    BY <2>1, <2>2, Zenon
<1>3. lastKey' \in Strokes /\ lastKey'.dev = "kbd" /\ TypedIn(typed, lastKey')
  <2>1. lastKey' = IF d = "kbd" THEN DataPort(d) ELSE lastKey
    BY DEF ReadDataPort
  <2>2. QED
    BY <2>1, PortAnswer DEF DevicesOK, OnlyTyped
<1> DEFINE q == rx[d]
           r == IF q = <<>> THEN q ELSE Tail(q)
<1>4. rx' = [rx EXCEPT ![d] = r]
  BY DEF ReadDataPort
<1>5. q \in Seq(Strokes) /\ AllTypedIn(typed, q) /\ \A i \in DOMAIN q : q[i].dev = d
  BY DEF DevicesOK, OnlyTyped
<1>6. r \in Seq(Strokes) /\ \A i \in DOMAIN r : \E j \in DOMAIN q : r[i] = q[j]
  <2> HIDE DEF q
  <2>1. CASE q = <<>>
    BY <1>5, <2>1
  <2>2. CASE q # <<>>
    <3>1. /\ r \in Seq(Strokes) /\ Len(r) = Len(q) - 1 /\ Len(q) \in Nat
          /\ \A i \in 1 .. Len(q) - 1 : r[i] = q[i + 1]
      BY <1>5, <2>2
    <3> HIDE DEF r
    <3>2. ASSUME NEW i \in DOMAIN r PROVE i + 1 \in DOMAIN q /\ r[i] = q[i + 1]
      BY <1>5, <3>1
    <3>3. QED
      BY <3>1, <3>2
  <2>3. QED
    BY <2>1, <2>2
<1> HIDE DEF q, r
<1>7. AllTypedIn(typed, r) /\ \A i \in DOMAIN r : r[i].dev = d
  BY <1>5, <1>6, Zenon DEF AllTypedIn
<1>8. rx \in [Devices -> Seq(Strokes)]
  BY DEF DevicesOK
<1>9. rx' \in [Devices -> Seq(Strokes)] /\ rx'[d] = r /\ \A e \in Devices : e # d => rx'[e] = rx[e]
  BY <1>4, <1>6, <1>8
<1>10. ASSUME NEW e \in Devices
       PROVE  AllTypedIn(typed, rx'[e]) /\ \A i \in DOMAIN rx'[e] : rx'[e][i].dev = e
  <2>1. CASE e = d
    BY <1>7, <1>9, <2>1, Zenon
  <2>2. CASE e # d
    <3>1. rx'[e] = rx[e]
      BY <1>9, <2>2
    <3>2. AllTypedIn(typed, rx[e]) /\ \A i \in DOMAIN rx[e] : rx[e][i].dev = e
      BY DEF OnlyTyped
    <3>3. QED
      BY <3>1, <3>2, Zenon
  <2>3. QED
    BY <2>1, <2>2
<1>11. QED
  BY <1>1, <1>2, <1>3, <1>9, <1>10, Zenon

(* No byte of the UART is read twice or lost; the keyboard may answer again.  *)
LEMMA ReadCounts ==
  ASSUME DevicesOK, OnlyTyped, NEW d \in Devices, NEW l \in BOOLEAN, ReadDataPort(d, l),
         NEW s \in Strokes, s.n # 0
  PROVE  LET before == Occurrences(s, rx[s.dev])
             left   == Occurrences(s, rx'[s.dev])
             read   == IF DataPort(d) = s THEN 1 ELSE 0
         IN  /\ before \in Nat /\ left \in Nat
             /\ left + read >= before
             /\ s.dev = "uart" => left + read = before
<1> DEFINE before == Occurrences(s, rx[s.dev])
           left   == Occurrences(s, rx'[s.dev])
           read   == IF DataPort(d) = s THEN 1 ELSE 0
<1>1. s.dev \in Devices
  BY StrokeIs
<1>2. rx[s.dev] \in Seq(Strokes) /\ rx'[s.dev] \in Seq(Strokes)
  <2>1. rx' \in [Devices -> Seq(Strokes)] /\ rx \in [Devices -> Seq(Strokes)]
    BY ReadEffect DEF DevicesOK
  <2>2. QED
    BY <1>1, <2>1
<1>3. before \in Nat /\ left \in Nat
  BY <1>2, OccurrencesFinite
<1>4. rx \in [Devices -> Seq(Strokes)] /\ rx' = [rx EXCEPT ![d] = IF @ = <<>> THEN @ ELSE Tail(@)]
  BY DEF DevicesOK, ReadDataPort
<1>5. DataPort(d).dev = d
  BY PortAnswer
<1>6. CASE s.dev # d
  <2>1. rx'[s.dev] = rx[s.dev]
    BY <1>1, <1>4, <1>6
  <2>2. DataPort(d) # s
    BY <1>5, <1>6
  <2> HIDE DEF before, left
  <2>3. left = before
    BY <2>1 DEF left, before
  <2>4. QED
    BY <1>3, <2>2, <2>3 DEF left, before
<1>7. CASE s.dev = d /\ rx[d] # <<>>
  <2>1. rx'[d] = Tail(rx[d]) /\ DataPort(d) = Head(rx[d])
    BY <1>4, <1>7 DEF DataPort
  <2> DEFINE q == rx[d]
  <2>2. q \in Seq(Strokes) /\ q # <<>>
    BY <1>4, <1>7
  <2> HIDE DEF q
  <2>3. Occurrences(s, q) = Occurrences(s, Tail(q)) + (IF Head(q) = s THEN 1 ELSE 0)
    BY <2>2, OccurrencesTail
  <2>4. before = left + read
    BY <1>7, <2>1, <2>3, Zenon DEF q
  <2> HIDE DEF before, left, read
  <2>5. read \in Nat
    BY DEF read
  <2>6. left + read >= before /\ left + read = before
    BY <1>3, <2>4, <2>5
  <2>7. QED
    BY <1>3, <2>6, Zenon DEF before, left, read
<1>8. CASE s.dev = d /\ rx[d] = <<>>
  <2>1. rx'[d] = <<>>
    BY <1>4, <1>8
  <2>2. Occurrences(s, <<>>) = 0
    <3>1. <<>> \in Seq(Strokes) /\ \A i \in DOMAIN <<>> : <<>>[i] # s
      OBVIOUS
    <3>2. QED
      BY <3>1, OccurrencesNone
  <2>3. before = 0 /\ left = 0
    BY <1>8, <2>1, <2>2, Zenon
  <2>4. s.dev = "uart" => read = 0
    <3>1. SUFFICES ASSUME s.dev = "uart" PROVE DataPort(d) # s
      OBVIOUS
    <3>2. DataPort(d) = NoStroke("uart")
      BY <1>8, <3>1 DEF DataPort
    <3>3. NoStroke("uart").n = 0
      BY DEF NoStroke, Stroke
    <3>4. QED
      BY <3>2, <3>3
  <2> HIDE DEF before, left, read
  <2>5. read \in Nat
    BY DEF read
  <2>6. left + read >= before /\ (s.dev = "uart" => left + read = before)
    BY <2>3, <2>4, <2>5
  <2>7. QED
    BY <1>3, <2>6, Zenon DEF before, left, read
<1>9. QED
  BY <1>6, <1>7, <1>8

-----------------------------------------------------------------------------
(* Every step keeps the invariant.                                           *)

LEMMA ConsoleInit == Init => ConsoleInv
<1> SUFFICES ASSUME Init PROVE ConsoleInv
  OBVIOUS
<1> USE DEF Init
<1>1. NoStroke("kbd") \in Strokes /\ NoStroke("kbd").dev = "kbd" /\ NoStroke("kbd").n = 0
  <2>1. 0 \in 0 .. TYPED_MAX
    BY LimitsAssumption DEF LimitsAssumption
  <2>2. QED
    BY <2>1 DEF NoStroke, Strokes, Stroke, Devices, Kinds
<1>2. DevicesOK
  <2>1. Len(<<>>) + Len(<<>>) <= TYPED_MAX
    BY LimitsAssumption DEF LimitsAssumption
  <2>2. Len(typed["kbd"]) + Len(typed["uart"]) <= TYPED_MAX
    BY <2>1 DEF Devices
  <2>3. <<>> \in Seq(Strokes)
    OBVIOUS
  <2>4. QED
    BY <1>1, <2>2, <2>3 DEF DevicesOK
<1>3. OnlyTyped
  <2>1. TypedIn(typed, NoStroke("kbd"))
    BY <1>1 DEF TypedIn, Devices
  <2>2. \A d \in Devices : typed[d] = <<>> /\ rx[d] = <<>>
    OBVIOUS
  <2>3. AllTypedIn(typed, <<>>)
    BY DEF AllTypedIn
  <2>4. QED
    BY <1>1, <2>1, <2>2, <2>3 DEF OnlyTyped
<1>4. BufferOK
  <2>1. Buffer = EmptyBuffer
    BY DEF Buffer, EmptyBuffer
  <2>2. EmptyBuffer \in Buffers /\ EmptyBuffer.handled = <<>> /\ EmptyBuffer.ready = <<>>
    BY EmptyWithinLimits DEF WithinLimits, EmptyBuffer
  <2>3. HandleAll(EmptyBuffer, <<>>) = EmptyBuffer
    BY <2>2, HandleAllNone
  <2>4. EndsWith(<<>>, <<>>)
    BY DEF EndsWith
  <2>5. Replayed(EmptyBuffer)
    BY <2>2, <2>3, <2>4, Zenon DEF Replayed
  <2>6. QED
    BY <2>1, <2>5, EmptyWithinLimits DEF BufferOK
<1>5. PlacesOK
  <2>1. ASSUME NEW s \in Strokes PROVE ~ WasTyped(s)
    <3>1. s.dev \in Devices
      BY StrokeIs
    <3>2. typed[s.dev] = <<>>
      BY <3>1
    <3>3. QED
      BY <3>2 DEF WasTyped
  <2>2. QED
    BY <2>1 DEF PlacesOK
<1>6. ShellOK
  BY DEF ShellOK, PCs, Devices
<1>7. OutputsOK
  <2>1. \A who : By(who, <<>>) = <<>>
    BY ByNothing
  <2>2. ~ MidPrint
    BY DEF MidPrint
  <2>3. QED
    BY <2>1, <2>2 DEF OutputsOK, ConsolesComplete, PendingIsLast
<1>8. QED
  BY <1>2, <1>3, <1>4, <1>5, <1>6, <1>7 DEF ConsoleInv

(* Someone types: the stroke is new, and it is in its device alone.          *)
LEMMA TypeStep ==
  ASSUME ConsoleInv, Alive, NEW d \in Devices, NEW k \in Kinds, Type(d, k)
  PROVE  ConsoleInv'
<1> DEFINE N == Len(typed[d])
           x == Stroke(d, N + 1, k)
<1> USE DEF ConsoleInv
<1>1. /\ typed \in [Devices -> Seq(Strokes)] /\ rx \in [Devices -> Seq(Strokes)]
      /\ irq \in [Devices -> BOOLEAN]
  BY DEF DevicesOK
<1>2. /\ Len(typed["kbd"]) + Len(typed["uart"]) < TYPED_MAX
      /\ typed' = [typed EXCEPT ![d] = Append(@, x)]
      /\ rx' = [rx EXCEPT ![d] = Append(@, x)]
      /\ irq' = [irq EXCEPT !["kbd"] = @ \/ (d = "kbd" /\ rx[d] = <<>>)]
      /\ UNCHANGED <<lastKey, buffer, shell, outputs>>
  BY DEF Type
<1>3. \A e \in Devices : typed[e] \in Seq(Strokes) /\ Len(typed[e]) \in Nat /\ rx[e] \in Seq(Strokes)
  BY <1>1
<1>4. /\ UNCHANGED <<lastKey, line, ready, history, handled, pc, port, reg, stuck, executed>>
      /\ UNCHANGED <<serialOut, vgaOut>>
  BY <1>2 DEF buffer, shell, outputs
<1>5. N \in Nat /\ x \in Strokes /\ x.dev = d /\ x.n = N + 1
  <2>1. "kbd" \in Devices /\ "uart" \in Devices /\ (d = "kbd" \/ d = "uart")
    BY DEF Devices
  <2>2. N \in Nat
    BY <1>3
  <2>3. N + 1 \in 0 .. TYPED_MAX
    <3>1. Len(typed["kbd"]) \in Nat /\ Len(typed["uart"]) \in Nat
      BY <1>3, <2>1
    <3> DEFINE a == Len(typed["kbd"])
               b == Len(typed["uart"])
    <3>2. a \in Nat /\ b \in Nat /\ a + b < TYPED_MAX /\ TYPED_MAX \in Nat /\ (N = a \/ N = b)
      BY <1>2, <2>1, <3>1, LimitsAssumption DEF LimitsAssumption
    <3> HIDE DEF a, b, N
    <3>3. QED
      BY <2>2, <3>2
  <2>4. x \in Strokes
    BY <2>3 DEF Strokes
  <2>5. QED
    BY <2>2, <2>4 DEF Stroke
<1> HIDE DEF x
<1>6. /\ typed' \in [Devices -> Seq(Strokes)] /\ typed'[d] = Append(typed[d], x)
      /\ \A e \in Devices : e # d => typed'[e] = typed[e]
  BY <1>1, <1>2, <1>3, <1>5
<1>7. /\ rx' \in [Devices -> Seq(Strokes)] /\ rx'[d] = Append(rx[d], x)
      /\ \A e \in Devices : e # d => rx'[e] = rx[e]
  BY <1>1, <1>2, <1>3, <1>5
<1>8. /\ Len(typed'[d]) = N + 1 /\ typed'[d][N + 1] = x
      /\ DOMAIN typed'[d] = 1 .. N + 1 /\ DOMAIN typed[d] = 1 .. N
      /\ \A i \in 1 .. N : typed'[d][i] = typed[d][i]
  <2> DEFINE q == typed[d]
  <2>1. q \in Seq(Strokes)
    BY <1>3
  <2> HIDE DEF q
  <2>2. /\ Len(Append(q, x)) = Len(q) + 1 /\ Append(q, x)[Len(q) + 1] = x
        /\ DOMAIN Append(q, x) = 1 .. Len(q) + 1 /\ DOMAIN q = 1 .. Len(q)
        /\ \A i \in 1 .. Len(q) : Append(q, x)[i] = q[i]
    BY <1>5, <2>1
  <2>3. QED
    BY <1>6, <2>2, Zenon DEF q
<1>9. ASSUME NEW s \in Strokes, TypedIn(typed, s) PROVE TypedIn(typed', s)
  <2>1. s.dev \in Devices /\ s.n \in Nat
    BY StrokeIs
  <2>2. s.n <= Len(typed[s.dev]) /\ Len(typed[s.dev]) \in Nat
    BY <1>3, <1>9, <2>1 DEF TypedIn
  <2>3. CASE s.dev = d
    BY <1>5, <1>8, <2>1, <2>2, <2>3 DEF TypedIn
  <2>4. CASE s.dev # d
    <3>1. typed'[s.dev] = typed[s.dev]
      BY <1>6, <2>1, <2>4
    <3>2. QED
      BY <2>2, <3>1 DEF TypedIn
  <2>5. QED
    BY <2>3, <2>4
<1>10. ASSUME NEW q \in Seq(Strokes), AllTypedIn(typed, q) PROVE AllTypedIn(typed', q)
  <2>1. \A i \in DOMAIN q : q[i] \in Strokes
    OBVIOUS
  <2>2. QED
    BY <1>9, <1>10, <2>1 DEF AllTypedIn
<1>11. TypedIn(typed', x)
  BY <1>5, <1>8 DEF TypedIn
<1>12. DevicesOK'
  <2>1. Len(typed'["kbd"]) + Len(typed'["uart"]) <= TYPED_MAX
    <3>1. "kbd" \in Devices /\ "uart" \in Devices /\ (d = "kbd" \/ d = "uart")
      BY DEF Devices
    <3> DEFINE a == Len(typed["kbd"])
               b == Len(typed["uart"])
               a1 == Len(typed'["kbd"])
               b1 == Len(typed'["uart"])
    <3>2. a \in Nat /\ b \in Nat /\ a + b < TYPED_MAX /\ TYPED_MAX \in Nat
      BY <1>2, <1>3, <3>1, LimitsAssumption DEF LimitsAssumption
    <3>3. (a1 = a + 1 /\ b1 = b) \/ (a1 = a /\ b1 = b + 1)
      BY <1>6, <1>8, <3>1
    <3> HIDE DEF a, b, a1, b1
    <3>4. a1 + b1 <= TYPED_MAX
      BY <3>2, <3>3
    <3>5. QED
      BY <3>4 DEF a1, b1
  <2>2. irq' \in [Devices -> BOOLEAN]
    BY <1>1, <1>2, Zenon
  <2>3. lastKey' \in Strokes /\ reg' \in Strokes
    BY <1>4 DEF DevicesOK
  <2>4. QED
    BY <1>6, <1>7, <2>1, <2>2, <2>3 DEF DevicesOK
<1>13. OnlyTyped'
  <2>1. ASSUME NEW e \in Devices, NEW i \in DOMAIN typed'[e]
        PROVE  typed'[e][i].dev = e /\ typed'[e][i].n = i
    <3>1. ASSUME NEW j \in DOMAIN typed[e] PROVE typed[e][j].dev = e /\ typed[e][j].n = j
      BY DEF OnlyTyped
    <3>2. CASE e # d
      BY <1>6, <2>1, <3>1, <3>2
    <3>3. CASE e = d /\ i = N + 1
      BY <1>5, <1>8, <3>3
    <3>4. CASE e = d /\ i # N + 1
      <4>1. i \in 1 .. N
        BY <1>5, <1>8, <2>1, <3>4
      <4>2. QED
        BY <1>8, <3>1, <3>4, <4>1
    <3>5. QED
      BY <3>2, <3>3, <3>4
  <2>2. ASSUME NEW e \in Devices
        PROVE  AllTypedIn(typed', rx'[e]) /\ \A i \in DOMAIN rx'[e] : rx'[e][i].dev = e
    <3>1. /\ rx[e] \in Seq(Strokes) /\ AllTypedIn(typed', rx[e])
          /\ \A i \in DOMAIN rx[e] : rx[e][i].dev = e
      BY <1>3, <1>10 DEF OnlyTyped
    <3>2. CASE e # d
      BY <1>7, <3>1, <3>2
    <3>3. CASE e = d
      <4> DEFINE q == rx[d]
                 p == Append(q, x)
      <4>1. q \in Seq(Strokes) /\ AllTypedIn(typed', q) /\ \A i \in DOMAIN q : q[i].dev = d
        BY <3>1, <3>3
      <4> HIDE DEF q
      <4>2. AllTypedIn(typed', p)
        BY <1>5, <1>11, <4>1, AllTypedAppend
      <4>3. ASSUME NEW i \in DOMAIN p PROVE p[i] = x \/ (i \in DOMAIN q /\ p[i] = q[i])
        BY <1>5, <4>1
      <4> HIDE DEF p
      <4>4. \A i \in DOMAIN p : p[i].dev = d
        BY <1>5, <4>1, <4>3, Zenon
      <4>5. QED
        BY <1>7, <3>3, <4>2, <4>4, Zenon DEF p, q
    <3>4. QED
      BY <3>2, <3>3
  <2>3. AllTypedIn(typed', handled')
    <3>1. handled \in Seq(Strokes) /\ AllTypedIn(typed, handled) /\ handled' = handled
      BY <1>4, BufferIs DEF OnlyTyped
    <3>2. QED
      BY <1>10, <3>1
  <2>4. lastKey'.dev = "kbd" /\ TypedIn(typed', lastKey') /\ TypedIn(typed', reg')
    BY <1>4, <1>9 DEF OnlyTyped, DevicesOK
  <2>5. QED
    BY <2>1, <2>2, <2>3, <2>4 DEF OnlyTyped
<1>14. BufferOK'
  <2>1. Buffer' = Buffer
    BY <1>4 DEF Buffer
  <2>2. QED
    BY <2>1 DEF BufferOK
<1>15. PlacesOK'
  <2>1. SUFFICES ASSUME NEW s \in Strokes, WasTyped(s)'
                 PROVE  Places(s)' >= 1 /\ (s.dev = "uart" => Places(s)' = 1)
    BY DEF PlacesOK
  <2>2. s.dev \in Devices /\ s.n \in Nat
    BY StrokeIs
  <2>3. s.kind # "Ignored" /\ s.n \in DOMAIN typed'[s.dev] /\ typed'[s.dev][s.n] = s
    BY <2>1 DEF WasTyped
  <2> DEFINE r == Occurrences(s, rx[s.dev])
             h == Occurrences(s, handled)
             c == IF HeldByShell(s) THEN 1 ELSE 0
             r1 == Occurrences(s, rx'[s.dev])
  <2>4. r \in Nat /\ h \in Nat /\ c \in Nat
    <3>1. rx[s.dev] \in Seq(Strokes) /\ handled \in Seq(Strokes)
      BY <1>3, <2>2, BufferIs
    <3>2. QED
      BY <3>1, OccurrencesFinite
  <2>5. Places(s) = r + h + c /\ Places(s)' = r1 + h + c
    BY <1>4 DEF Places, HeldByShell, Alive
  <2>6. CASE s = x
    <3>1. r1 = r + 1
      <4>1. rx[d] \in Seq(Strokes) /\ s.dev = d
        BY <1>3, <1>5, <2>6
      <4>2. Occurrences(s, Append(rx[d], x)) = Occurrences(s, rx[d]) + (IF x = s THEN 1 ELSE 0)
        BY <1>5, <4>1, OccurrencesAppend
      <4>3. QED
        BY <1>7, <2>6, <4>1, <4>2
    <3>2. ~ TypedIn(typed, s)
      BY <1>5, <2>6 DEF TypedIn
    <3>3. r = 0
      <4>1. rx[d] \in Seq(Strokes) /\ AllTypedIn(typed, rx[d]) /\ s.dev = d
        BY <1>3, <1>5, <2>6 DEF OnlyTyped
      <4>2. \A i \in DOMAIN rx[d] : rx[d][i] # s
        BY <3>2, <4>1, Zenon DEF AllTypedIn
      <4>3. QED
        BY <4>1, <4>2, OccurrencesNone
    <3>4. h = 0
      <4>1. handled \in Seq(Strokes) /\ AllTypedIn(typed, handled)
        BY BufferIs DEF OnlyTyped
      <4>2. \A i \in DOMAIN handled : handled[i] # s
        BY <3>2, <4>1, Zenon DEF AllTypedIn
      <4>3. QED
        BY <4>1, <4>2, OccurrencesNone
    <3>5. c = 0
      BY <3>2 DEF HeldByShell, OnlyTyped
    <3> HIDE DEF r, h, c, r1
    <3>6. r1 + h + c = 1
      BY <3>1, <3>3, <3>4, <3>5
    <3>7. QED
      BY <2>5, <3>6
  <2>7. CASE s # x
    <3>1. r1 = r
      <4>1. CASE s.dev = d
        <5>1. rx[d] \in Seq(Strokes)
          BY <1>3
        <5>2. Occurrences(s, Append(rx[d], x)) = Occurrences(s, rx[d]) + (IF x = s THEN 1 ELSE 0)
          BY <1>5, <5>1, OccurrencesAppend
        <5>3. r1 = r + 0
          BY <1>7, <2>7, <4>1, <5>2
        <5> HIDE DEF r, r1
        <5>4. QED
          BY <2>4, <5>3
      <4>2. CASE s.dev # d
        BY <1>7, <2>2, <4>2
      <4>3. QED
        BY <4>1, <4>2
    <3>2. WasTyped(s)
      <4>1. CASE s.dev = d
        <5>1. s.n # N + 1 /\ s.n \in 1 .. N + 1
          BY <1>8, <2>3, <2>7, <4>1
        <5>2. s.n \in 1 .. N
          BY <1>5, <5>1
        <5>3. QED
          BY <1>8, <2>3, <4>1, <5>2 DEF WasTyped
      <4>2. CASE s.dev # d
        BY <1>6, <2>2, <2>3, <4>2 DEF WasTyped
      <4>3. QED
        BY <4>1, <4>2
    <3>3. Places(s) >= 1 /\ (s.dev = "uart" => Places(s) = 1)
      BY <3>2 DEF PlacesOK
    <3>4. QED
      BY <2>5, <3>1, <3>3
  <2>8. QED
    BY <2>6, <2>7
<1>16. ShellOK' /\ OutputsOK'
  <2>1. MidPrint' = MidPrint /\ Pending' = Pending
    BY <1>4 DEF MidPrint, Pending
  <2>2. QED
    BY <1>4, <2>1 DEF ShellOK, OutputsOK, ConsolesComplete, PendingIsLast
<1>17. QED
  BY <1>12, <1>13, <1>14, <1>15, <1>16

(* A step that leaves the devices and the handled strokes as they are, and    *)
(* the polling loop with what it holds.                                       *)
LEMMA NoStrokeMoves ==
  ASSUME DevicesOK, OnlyTyped, PlacesOK, irq' \in [Devices -> BOOLEAN],
         UNCHANGED <<typed, rx, lastKey, reg, stuck, handled>>,
         pc' = "handle" <=> pc = "handle"
  PROVE  DevicesOK' /\ OnlyTyped' /\ PlacesOK'
<1>1. DevicesOK'
  BY DEF DevicesOK
<1>2. OnlyTyped'
  BY DEF OnlyTyped
<1>3. ASSUME NEW s \in Strokes PROVE WasTyped(s)' = WasTyped(s) /\ Places(s)' = Places(s)
  <2>1. WasTyped(s)' = WasTyped(s)
    BY DEF WasTyped
  <2>2. HeldByShell(s)' = HeldByShell(s)
    BY DEF HeldByShell
  <2>3. Places(s)' = Places(s)
    BY <2>2 DEF Places
  <2>4. QED
    BY <2>1, <2>3
<1>4. PlacesOK'
  BY <1>3 DEF PlacesOK
<1>5. QED
  BY <1>1, <1>2, <1>4

LEMMA SameBuffer ==
  ASSUME BufferOK, UNCHANGED buffer
  PROVE  BufferOK' /\ handled' = handled
<1>1. UNCHANGED <<line, ready, history, handled>>
  BY DEF buffer
<1>2. Buffer' = Buffer
  BY <1>1 DEF Buffer
<1>3. QED
  BY <1>1, <1>2 DEF BufferOK

(* The consoles in a step that prints nothing.                               *)
LEMMA NothingPrinted ==
  ASSUME OutputsOK, UNCHANGED <<serialOut, vgaOut>>, ~ MidPrint, ~ MidPrint'
  PROVE  OutputsOK'
BY DEF OutputsOK, ConsolesComplete, PendingIsLast

(* A handler prints on both consoles, wherever the shell is.                 *)
LEMMA HandlerPrints ==
  ASSUME OutputsOK, UNCHANGED <<pc, reg, executed>>, NEW e \in Seq(Echoes),
         serialOut' = serialOut \o PrintedBy("isr", e), vgaOut' = vgaOut \o PrintedBy("isr", e)
  PROVE  OutputsOK'
<1>1. serialOut \in Seq(Prints) /\ vgaOut \in Seq(Prints)
  BY DEF OutputsOK
<1>2. /\ serialOut' \in Seq(Prints)
      /\ By("shell", serialOut') = By("shell", serialOut)
      /\ By("isr", serialOut') = By("isr", serialOut) \o PrintedBy("isr", e)
  BY <1>1, ByHandler, Zenon
<1>3. /\ vgaOut' \in Seq(Prints)
      /\ By("shell", vgaOut') = By("shell", vgaOut)
      /\ By("isr", vgaOut') = By("isr", vgaOut) \o PrintedBy("isr", e)
  BY <1>1, ByHandler, Zenon
<1>4. MidPrint' = MidPrint /\ Pending' = Pending
  BY DEF MidPrint, Pending
<1>5. ConsolesComplete
  BY DEF OutputsOK
<1>6. ConsolesComplete'
  BY <1>2, <1>3, <1>4, <1>5 DEF ConsolesComplete
<1>7. PendingIsLast'
  BY <1>2, <1>4 DEF OutputsOK, PendingIsLast
<1>8. QED
  BY <1>2, <1>3, <1>6, <1>7 DEF OutputsOK

(* The shell's two prints.                                                   *)
LEMMA SerialPrinted ==
  ASSUME OutputsOK, ~ MidPrint, MidPrint',
         NEW what \in (Devices \cup {"output", "prompt"}) \X Nat,
         serialOut' = serialOut \o PrintedBy("shell", <<what>>), vgaOut' = vgaOut,
         Pending' = [by |-> "shell", what |-> what]
  PROVE  OutputsOK'
<1> DEFINE p == [by |-> "shell", what |-> what]
           s == By("shell", serialOut)
<1>1. serialOut \in Seq(Prints) /\ vgaOut \in Seq(Prints)
  BY DEF OutputsOK
<1>2. /\ p \in Prints /\ serialOut' = Append(serialOut, p) /\ serialOut' \in Seq(Prints)
      /\ By("shell", Append(serialOut, p)) = Append(s, p)
      /\ By("isr", Append(serialOut, p)) = By("isr", serialOut)
  BY <1>1, ByShell, Zenon
<1>3. By("shell", serialOut') = Append(s, p) /\ By("isr", serialOut') = By("isr", serialOut)
  BY <1>2, Zenon
<1>4. s \in Seq(Prints)
  BY <1>1, ByTyped
<1>5. By("isr", serialOut) = By("isr", vgaOut) /\ By("shell", vgaOut) = s
  BY DEF OutputsOK, ConsolesComplete
<1>6. Pending' = p
  OBVIOUS
<1> HIDE DEF s, p
<1>7. Front(Append(s, p)) = s /\ Append(s, p) # <<>> /\ Append(s, p)[Len(Append(s, p))] = p
  <2> DEFINE q == Append(s, p)
             f == Front(q)
  <2>1. /\ Len(s) \in Nat /\ q \in Seq(Prints) /\ q # <<>> /\ Len(q) = Len(s) + 1
        /\ q[Len(s) + 1] = p /\ \A i \in 1 .. Len(s) : q[i] = s[i]
    BY <1>2, <1>4
  <2> HIDE DEF q
  <2>2. f \in Seq(Prints) /\ Len(f) = Len(q) - 1 /\ \A i \in 1 .. Len(q) - 1 : f[i] = q[i]
    BY <2>1, FrontIs
  <2>3. Len(f) = Len(s) /\ \A i \in 1 .. Len(s) : f[i] = s[i]
    <3> DEFINE n == Len(s)
    <3> HIDE DEF n, f
    <3>1. n \in Nat /\ Len(q) - 1 = n
      BY <2>1 DEF n
    <3>2. Len(f) = n /\ \A i \in 1 .. n : f[i] = q[i]
      BY <2>2, <3>1
    <3>3. QED
      BY <2>1, <3>2 DEF n
  <2> HIDE DEF f
  <2>4. f = s
    BY <1>4, <2>2, <2>3
  <2>5. QED
    BY <2>1, <2>4 DEF f, q
<1>8. ConsolesComplete'
  BY <1>3, <1>5, <1>7, Zenon DEF ConsolesComplete
<1>9. PendingIsLast'
  BY <1>3, <1>6, <1>7 DEF PendingIsLast
<1>10. QED
  BY <1>1, <1>2, <1>8, <1>9 DEF OutputsOK

LEMMA VgaPrinted ==
  ASSUME OutputsOK, MidPrint, ~ MidPrint',
         NEW what \in (Devices \cup {"output", "prompt"}) \X Nat,
         vgaOut' = vgaOut \o PrintedBy("shell", <<what>>), serialOut' = serialOut,
         Pending = [by |-> "shell", what |-> what]
  PROVE  OutputsOK'
<1> DEFINE p == [by |-> "shell", what |-> what]
           s == By("shell", serialOut)
<1>1. serialOut \in Seq(Prints) /\ vgaOut \in Seq(Prints)
  BY DEF OutputsOK
<1>2. /\ p \in Prints /\ vgaOut' = Append(vgaOut, p) /\ vgaOut' \in Seq(Prints)
      /\ By("shell", Append(vgaOut, p)) = Append(By("shell", vgaOut), p)
      /\ By("isr", Append(vgaOut, p)) = By("isr", vgaOut)
  BY <1>1, ByShell, Zenon
<1>3. By("shell", vgaOut') = Append(By("shell", vgaOut), p) /\ By("isr", vgaOut') = By("isr", vgaOut)
  BY <1>2, Zenon
<1>4. s \in Seq(Prints) /\ s # <<>> /\ s[Len(s)] = p
  BY <1>1, ByTyped DEF OutputsOK, PendingIsLast
<1>5. By("isr", serialOut) = By("isr", vgaOut) /\ By("shell", vgaOut) = Front(s)
  BY DEF OutputsOK, ConsolesComplete
<1> HIDE DEF s, p
<1>6. Append(Front(s), p) = s
  <2> DEFINE f == Front(s)
  <2>1. /\ f \in Seq(Prints) /\ Len(s) \in Nat \ {0} /\ Len(f) = Len(s) - 1
        /\ \A i \in 1 .. Len(s) - 1 : f[i] = s[i]
    BY <1>4, FrontIs
  <2> HIDE DEF f
  <2> DEFINE q == Append(f, p)
  <2>2. /\ q \in Seq(Prints) /\ Len(q) = Len(f) + 1 /\ q[Len(f) + 1] = p
        /\ \A i \in 1 .. Len(f) : q[i] = f[i]
    BY <1>2, <2>1
  <2> HIDE DEF q
  <2> DEFINE n == Len(s)
  <2>3. n \in Nat \ {0} /\ Len(q) = n /\ q[n] = s[n] /\ \A i \in 1 .. n - 1 : q[i] = s[i]
    BY <1>4, <2>1, <2>2
  <2>4. \A i \in 1 .. n : q[i] = s[i]
    <3> HIDE DEF n
    <3>1. \A i \in 1 .. n : i = n \/ i \in 1 .. n - 1
      BY <2>3
    <3>2. QED
      BY <2>3, <3>1
  <2>5. q = s
    BY <1>4, <2>2, <2>3, <2>4
  <2>6. QED
    BY <2>5 DEF f, q
<1>7. ConsolesComplete'
  BY <1>3, <1>5, <1>6, Zenon DEF ConsolesComplete, s
<1>8. PendingIsLast'
  BY DEF PendingIsLast
<1>9. QED
  BY <1>1, <1>2, <1>7, <1>8 DEF OutputsOK

LEMMA UartInterruptStep ==
  ASSUME ConsoleInv, Alive, UartInterrupt
  PROVE  ConsoleInv'
<1> USE DEF ConsoleInv
<1>1. /\ UNCHANGED <<typed, rx, lastKey, line, ready, history, handled>>
      /\ UNCHANGED <<pc, port, reg, stuck, executed, serialOut, vgaOut>>
      /\ irq' = [irq EXCEPT !["uart"] = TRUE]
  BY DEF UartInterrupt, buffer, shell, outputs
<1>2. irq' \in [Devices -> BOOLEAN]
  <2>1. irq \in [Devices -> BOOLEAN]
    BY DEF DevicesOK
  <2>2. QED
    BY <1>1, <2>1, Zenon
<1>3. DevicesOK' /\ OnlyTyped' /\ PlacesOK'
  BY <1>1, <1>2, NoStrokeMoves
<1>4. BufferOK'
  <2>1. UNCHANGED buffer
    BY DEF UartInterrupt
  <2>2. QED
    BY <2>1, SameBuffer
<1>5. ShellOK' /\ OutputsOK'
  <2>1. MidPrint' = MidPrint /\ Pending' = Pending
    BY <1>1 DEF MidPrint, Pending
  <2>2. QED
    BY <1>1, <2>1 DEF ShellOK, OutputsOK, ConsolesComplete, PendingIsLast
<1>6. QED
  BY <1>3, <1>4, <1>5

LEMMA KeyboardHandlerStep ==
  ASSUME ConsoleInv, Alive, KeyboardHandler
  PROVE  ConsoleInv'
<1> USE DEF ConsoleInv
<1> DEFINE k == DataPort("kbd")
<1>1. ReadDataPort("kbd", FALSE) /\ HandledByIsr(<<k>>) /\ UNCHANGED <<pc, port, reg, stuck, executed>>
  BY DEF KeyboardHandler, shell
<1>2. "kbd" \in Devices /\ FALSE \in BOOLEAN
  BY DEF Devices
<1>3. k \in Strokes /\ k.dev = "kbd" /\ TypedIn(typed, k)
  BY <1>2, PortAnswer
<1>4. /\ typed' = typed /\ rx' \in [Devices -> Seq(Strokes)] /\ irq' \in [Devices -> BOOLEAN]
      /\ lastKey' \in Strokes /\ lastKey'.dev = "kbd" /\ TypedIn(typed, lastKey')
      /\ \A e \in Devices : /\ AllTypedIn(typed, rx'[e])
                            /\ \A i \in DOMAIN rx'[e] : rx'[e][i].dev = e
  BY <1>1, <1>2, ReadEffect
<1> HIDE DEF k
<1>5. <<k>> \in Seq(Strokes) /\ AllTypedIn(typed, <<k>>)
  BY <1>3 DEF AllTypedIn
<1>6. /\ BufferOK' /\ AllTypedIn(typed, handled')
      /\ \A s \in Strokes : s.kind # "Ignored"
           => Occurrences(s, handled') = Occurrences(s, handled) + Occurrences(s, <<k>>)
      /\ \E e \in Seq(Echoes) : /\ serialOut' = serialOut \o PrintedBy("isr", e)
                                /\ vgaOut' = vgaOut \o PrintedBy("isr", e)
  BY <1>1, <1>5, HandlerEffect DEF OnlyTyped
<1>7. DevicesOK'
  BY <1>1, <1>4 DEF DevicesOK
<1>8. OnlyTyped'
  BY <1>1, <1>4, <1>6 DEF OnlyTyped
<1>9. PlacesOK'
  <2>1. SUFFICES ASSUME NEW s \in Strokes, WasTyped(s)'
                 PROVE  Places(s)' >= 1 /\ (s.dev = "uart" => Places(s)' = 1)
    BY DEF PlacesOK
  <2>2. WasTyped(s) /\ s.kind # "Ignored"
    BY <1>4, <2>1 DEF WasTyped
  <2>3. s.n # 0
    <3>1. s.dev \in Devices
      BY StrokeIs
    <3>2. typed[s.dev] \in Seq(Strokes) /\ s.n \in DOMAIN typed[s.dev]
      BY <2>2, <3>1 DEF WasTyped, DevicesOK
    <3>3. QED
      BY <3>2
  <2> DEFINE r == Occurrences(s, rx[s.dev])
             h == Occurrences(s, handled)
             c == IF HeldByShell(s) THEN 1 ELSE 0
             r1 == Occurrences(s, rx'[s.dev])
             x == IF k = s THEN 1 ELSE 0
  <2>4. r \in Nat /\ r1 \in Nat /\ r1 + x >= r /\ (s.dev = "uart" => r1 + x = r)
    BY <1>1, <1>2, <2>3, ReadCounts DEF k
  <2>5. h \in Nat /\ c \in Nat /\ x \in Nat
    <3>1. handled \in Seq(Strokes)
      BY BufferIs
    <3>2. QED
      BY <3>1, OccurrencesFinite
  <2>6. Occurrences(s, handled') = h + x
    <3>1. Occurrences(s, <<k>>) = x
      <4>1. <<>> \in Seq(Strokes) /\ <<k>> = Append(<<>>, k) /\ \A i \in DOMAIN <<>> : <<>>[i] # s
        OBVIOUS
      <4>2. Occurrences(s, <<>>) = 0
        BY <4>1, OccurrencesNone
      <4>3. Occurrences(s, Append(<<>>, k)) = Occurrences(s, <<>>) + x
        BY <1>3, <4>1, OccurrencesAppend
      <4> HIDE DEF x
      <4>4. QED
        BY <2>5, <4>1, <4>2, <4>3
    <3>2. QED
      BY <1>6, <2>2, <3>1
  <2>7. Places(s) = r + h + c /\ Places(s)' = r1 + (h + x) + c
    BY <1>1, <2>6 DEF Places, HeldByShell, Alive
  <2>8. Places(s) >= 1 /\ (s.dev = "uart" => Places(s) = 1)
    BY <2>2 DEF PlacesOK
  <2> HIDE DEF r, h, c, r1, x
  <2>9. r1 + (h + x) + c >= r + h + c /\ (s.dev = "uart" => r1 + (h + x) + c = r + h + c)
    BY <2>4, <2>5
  <2>10. r + h + c \in Nat /\ r1 + (h + x) + c \in Nat
    BY <2>4, <2>5
  <2>11. QED
    BY <2>7, <2>8, <2>9, <2>10
<1>10. OutputsOK'
  <2>1. PICK e \in Seq(Echoes) : /\ serialOut' = serialOut \o PrintedBy("isr", e)
                                 /\ vgaOut' = vgaOut \o PrintedBy("isr", e)
    BY <1>6
  <2>2. QED
    BY <1>1, <2>1, HandlerPrints
<1>11. ShellOK'
  BY <1>1 DEF ShellOK
<1>12. QED
  BY <1>6, <1>7, <1>8, <1>9, <1>10, <1>11

LEMMA SerialHandlerStep ==
  ASSUME ConsoleInv, Alive, SerialHandler
  PROVE  ConsoleInv'
<1> USE DEF ConsoleInv
<1> DEFINE q == rx["uart"]
<1>1. /\ irq' = [irq EXCEPT !["uart"] = FALSE] /\ rx' = [rx EXCEPT !["uart"] = <<>>]
      /\ HandledByIsr(q) /\ UNCHANGED <<typed, lastKey, pc, port, reg, stuck, executed>>
  BY DEF SerialHandler, shell
<1>2. "uart" \in Devices /\ rx \in [Devices -> Seq(Strokes)] /\ irq \in [Devices -> BOOLEAN]
  BY DEF Devices, DevicesOK
<1>3. q \in Seq(Strokes) /\ AllTypedIn(typed, q)
  BY <1>2 DEF OnlyTyped
<1>4. irq' \in [Devices -> BOOLEAN]
  BY <1>1, <1>2, Zenon
<1>5. /\ rx' \in [Devices -> Seq(Strokes)] /\ rx'["uart"] = <<>>
      /\ \A e \in Devices : e # "uart" => rx'[e] = rx[e]
  BY <1>1, <1>2
<1>6. /\ BufferOK' /\ AllTypedIn(typed, handled')
      /\ \A s \in Strokes : s.kind # "Ignored"
           => Occurrences(s, handled') = Occurrences(s, handled) + Occurrences(s, q)
      /\ \E e \in Seq(Echoes) : /\ serialOut' = serialOut \o PrintedBy("isr", e)
                                /\ vgaOut' = vgaOut \o PrintedBy("isr", e)
  <2> HIDE DEF q
  <2>1. QED
    BY <1>1, <1>3, HandlerEffect DEF OnlyTyped
<1>7. DevicesOK'
  BY <1>1, <1>4, <1>5 DEF DevicesOK
<1>8. OnlyTyped'
  <2>1. ASSUME NEW e \in Devices
        PROVE  AllTypedIn(typed, rx'[e]) /\ \A i \in DOMAIN rx'[e] : rx'[e][i].dev = e
    <3>1. CASE e = "uart"
      <4>1. rx'[e] = <<>>
        BY <1>5, <3>1
      <4>2. QED
        BY <4>1 DEF AllTypedIn
    <3>2. CASE e # "uart"
      BY <1>5, <3>2 DEF OnlyTyped
    <3>3. QED
      BY <3>1, <3>2
  <2>2. QED
    BY <1>1, <1>6, <2>1 DEF OnlyTyped
<1>9. PlacesOK'
  <2>1. SUFFICES ASSUME NEW s \in Strokes, WasTyped(s)'
                 PROVE  Places(s)' >= 1 /\ (s.dev = "uart" => Places(s)' = 1)
    BY DEF PlacesOK
  <2>2. WasTyped(s) /\ s.kind # "Ignored" /\ s.dev \in Devices
    BY <1>1, <2>1, StrokeIs DEF WasTyped
  <2> DEFINE r == Occurrences(s, rx[s.dev])
             h == Occurrences(s, handled)
             c == IF HeldByShell(s) THEN 1 ELSE 0
             r1 == Occurrences(s, rx'[s.dev])
             x == Occurrences(s, q)
  <2>3. r \in Nat /\ h \in Nat /\ c \in Nat /\ x \in Nat
    <3>1. handled \in Seq(Strokes) /\ rx[s.dev] \in Seq(Strokes)
      BY <1>2, <2>2, BufferIs
    <3>2. QED
      BY <1>3, <3>1, OccurrencesFinite
  <2>4. Occurrences(s, handled') = h + x
    BY <1>6, <2>2
  <2>5. Places(s) = r + h + c /\ Places(s)' = r1 + (h + x) + c
    BY <1>1, <2>4 DEF Places, HeldByShell, Alive
  <2>6. Places(s) >= 1 /\ (s.dev = "uart" => Places(s) = 1)
    BY <2>2 DEF PlacesOK
  <2>7. (s.dev = "uart" /\ x = r /\ r1 = 0) \/ (s.dev # "uart" /\ r1 = r)
    <3>1. CASE s.dev = "uart"
      <4>1. <<>> \in Seq(Strokes) /\ \A i \in DOMAIN <<>> : <<>>[i] # s
        OBVIOUS
      <4>2. Occurrences(s, <<>>) = 0
        BY <4>1, OccurrencesNone
      <4>3. QED
        BY <1>5, <3>1, <4>2
    <3>2. CASE s.dev # "uart"
      BY <1>5, <2>2, <3>2
    <3>3. QED
      BY <3>1, <3>2
  <2> HIDE DEF r, h, c, r1, x
  <2>8. /\ r1 + (h + x) + c >= r + h + c /\ (s.dev = "uart" => r1 + (h + x) + c = r + h + c)
        /\ r + h + c \in Nat /\ r1 + (h + x) + c \in Nat
    <3>1. CASE s.dev = "uart" /\ x = r /\ r1 = 0
      <4>1. r1 + (h + x) + c = r + h + c /\ r + h + c \in Nat
        BY <2>3, <3>1
      <4>2. QED
        BY <4>1
    <3>2. CASE s.dev # "uart" /\ r1 = r
      BY <2>3, <3>2
    <3>3. QED
      BY <2>7, <3>1, <3>2
  <2>9. QED
    BY <2>5, <2>6, <2>8
<1>10. OutputsOK'
  <2>1. PICK e \in Seq(Echoes) : /\ serialOut' = serialOut \o PrintedBy("isr", e)
                                 /\ vgaOut' = vgaOut \o PrintedBy("isr", e)
    BY <1>6
  <2>2. QED
    BY <1>1, <2>1, HandlerPrints
<1>11. ShellOK'
  BY <1>1 DEF ShellOK
<1>12. QED
  BY <1>6, <1>7, <1>8, <1>9, <1>10, <1>11

(* A handler that never returns keeps the stroke it was handling.            *)
LEMMA KeyboardHandlerDiesStep ==
  ASSUME ConsoleInv, Alive, KeyboardHandlerDies
  PROVE  ConsoleInv'
<1> USE DEF ConsoleInv
<1> DEFINE k == DataPort("kbd")
<1>1. /\ ReadDataPort("kbd", FALSE) /\ stuck' = {k}
      /\ UNCHANGED <<buffer, pc, port, reg, executed, serialOut, vgaOut>>
  BY DEF KeyboardHandlerDies, outputs
<1>2. "kbd" \in Devices /\ FALSE \in BOOLEAN
  BY DEF Devices
<1>3. k \in Strokes /\ k.dev = "kbd" /\ TypedIn(typed, k)
  BY <1>2, PortAnswer
<1>4. /\ typed' = typed /\ rx' \in [Devices -> Seq(Strokes)] /\ irq' \in [Devices -> BOOLEAN]
      /\ lastKey' \in Strokes /\ lastKey'.dev = "kbd" /\ TypedIn(typed, lastKey')
      /\ \A e \in Devices : /\ AllTypedIn(typed, rx'[e])
                            /\ \A i \in DOMAIN rx'[e] : rx'[e][i].dev = e
  BY <1>1, <1>2, ReadEffect
<1> HIDE DEF k
<1>5. BufferOK' /\ handled' = handled
  BY <1>1, SameBuffer
<1>6. DevicesOK'
  BY <1>1, <1>4 DEF DevicesOK
<1>7. OnlyTyped'
  BY <1>1, <1>4, <1>5 DEF OnlyTyped
<1>8. PlacesOK'
  <2>1. SUFFICES ASSUME NEW s \in Strokes, WasTyped(s)'
                 PROVE  Places(s)' >= 1 /\ (s.dev = "uart" => Places(s)' = 1)
    BY DEF PlacesOK
  <2>2. WasTyped(s) /\ s.kind # "Ignored"
    BY <1>4, <2>1 DEF WasTyped
  <2>3. s.n # 0
    <3>1. s.dev \in Devices
      BY StrokeIs
    <3>2. typed[s.dev] \in Seq(Strokes) /\ s.n \in DOMAIN typed[s.dev]
      BY <2>2, <3>1 DEF WasTyped, DevicesOK
    <3>3. QED
      BY <3>2
  <2> DEFINE r == Occurrences(s, rx[s.dev])
             h == Occurrences(s, handled)
             r1 == Occurrences(s, rx'[s.dev])
             x == IF k = s THEN 1 ELSE 0
             c == IF HeldByShell(s) THEN 1 ELSE 0
             c1 == IF HeldByShell(s) \/ s = k THEN 1 ELSE 0
  <2>4. r \in Nat /\ r1 \in Nat /\ r1 + x >= r /\ (s.dev = "uart" => r1 + x = r)
    BY <1>1, <1>2, <2>3, ReadCounts DEF k
  <2>5. h \in Nat /\ x \in Nat /\ c \in Nat /\ c1 \in Nat
    <3>1. handled \in Seq(Strokes)
      BY BufferIs
    <3>2. QED
      BY <3>1, OccurrencesFinite
  <2>6. Places(s) = r + h + c
    BY DEF Places, Alive
  <2>7. Places(s)' = r1 + h + c1
    BY <1>1, <1>5 DEF Places, HeldByShell
  <2>8. Places(s) >= 1 /\ (s.dev = "uart" => Places(s) = 1)
    BY <2>2 DEF PlacesOK
  <2>9. (c1 = 1 /\ s.dev # "uart") \/ (c1 = c /\ x = 0)
    BY <1>3
  <2> HIDE DEF r, h, r1, x, c, c1
  <2>10. r1 + h + c1 >= 1 /\ (s.dev = "uart" => r1 + h + c1 = r + h + c)
    <3>1. CASE c1 = 1 /\ s.dev # "uart"
      BY <2>4, <2>5, <3>1
    <3>2. CASE c1 = c /\ x = 0
      BY <2>4, <2>5, <2>6, <2>8, <3>2
    <3>3. QED
      BY <2>9, <3>1, <3>2
  <2>11. QED
    BY <2>6, <2>7, <2>8, <2>10
<1>9. ShellOK'
  BY <1>1, <1>3 DEF ShellOK
<1>10. OutputsOK'
  <2>1. MidPrint' = MidPrint /\ Pending' = Pending
    BY <1>1 DEF MidPrint, Pending
  <2>2. QED
    BY <1>1, <2>1 DEF OutputsOK, ConsolesComplete, PendingIsLast
<1>11. QED
  BY <1>5, <1>6, <1>7, <1>8, <1>9, <1>10

(* Part of what was typed, taken by positions.                               *)
LEMMA PartOfTyped ==
  ASSUME NEW t, NEW q \in Seq(Strokes), AllTypedIn(t, q), NEW d,
         \A i \in DOMAIN q : q[i].dev = d,
         NEW a \in 1 .. Len(q) + 1, NEW b \in 0 .. Len(q)
  PROVE  /\ SubSeq(q, a, b) \in Seq(Strokes) /\ AllTypedIn(t, SubSeq(q, a, b))
         /\ \A i \in DOMAIN SubSeq(q, a, b) : SubSeq(q, a, b)[i].dev = d
<1> DEFINE p == SubSeq(q, a, b)
<1>1. /\ p \in Seq(Strokes)
      /\ \A i \in DOMAIN p : a + i - 1 \in DOMAIN q /\ p[i] = q[a + i - 1]
  OBVIOUS
<1> HIDE DEF p
<1>2. \A i \in DOMAIN p : TypedIn(t, p[i]) /\ p[i].dev = d
  BY <1>1, Zenon DEF AllTypedIn
<1>3. QED
  BY <1>1, <1>2 DEF AllTypedIn, p

LEMMA SerialHandlerDiesStep ==
  ASSUME ConsoleInv, Alive, SerialHandlerDies
  PROVE  ConsoleInv'
<1> USE DEF ConsoleInv
<1> DEFINE q == rx["uart"]
<1>1. "uart" \in Devices /\ rx \in [Devices -> Seq(Strokes)] /\ irq \in [Devices -> BOOLEAN]
  BY DEF Devices, DevicesOK
<1>2. PICK n \in DOMAIN q : /\ HandledByIsr(SubSeq(q, 1, n - 1)) /\ stuck' = {q[n]}
                            /\ rx' = [rx EXCEPT !["uart"] = SubSeq(@, n + 1, Len(@))]
  BY DEF SerialHandlerDies
<1>3. irq' = [irq EXCEPT !["uart"] = FALSE] /\ UNCHANGED <<typed, lastKey, pc, port, reg, executed>>
  BY DEF SerialHandlerDies
<1> DEFINE before == SubSeq(q, 1, n - 1)
           rest   == SubSeq(q, n + 1, Len(q))
           k      == q[n]
<1>4. /\ q \in Seq(Strokes) /\ AllTypedIn(typed, q) /\ \A i \in DOMAIN q : q[i].dev = "uart"
  BY <1>1 DEF OnlyTyped
<1>5. HandledByIsr(before) /\ stuck' = {k} /\ rx' = [rx EXCEPT !["uart"] = rest]
  BY <1>2
<1> HIDE DEF q
<1>6. n \in 1 .. Len(q) /\ k \in Strokes /\ k.dev = "uart"
  BY <1>2, <1>4
<1>7. /\ before \in Seq(Strokes) /\ AllTypedIn(typed, before)
      /\ rest \in Seq(Strokes) /\ AllTypedIn(typed, rest)
      /\ \A i \in DOMAIN rest : rest[i].dev = "uart"
  <2>1. /\ 1 \in 1 .. Len(q) + 1 /\ n - 1 \in 0 .. Len(q)
        /\ n + 1 \in 1 .. Len(q) + 1 /\ Len(q) \in 0 .. Len(q)
    BY <1>4, <1>6
  <2> HIDE DEF before, rest
  <2>2. before \in Seq(Strokes) /\ AllTypedIn(typed, before)
    BY <1>4, <2>1, PartOfTyped DEF before
  <2>3. /\ rest \in Seq(Strokes) /\ AllTypedIn(typed, rest)
        /\ \A i \in DOMAIN rest : rest[i].dev = "uart"
    BY <1>4, <2>1, PartOfTyped DEF rest
  <2>4. QED
    BY <2>2, <2>3
<1>8. \A s : Occurrences(s, q) = Occurrences(s, before) + (IF k = s THEN 1 ELSE 0) + Occurrences(s, rest)
  BY <1>4, <1>6, OccurrencesAround
<1> HIDE DEF before, rest, k
<1>9. irq' \in [Devices -> BOOLEAN]
  BY <1>1, <1>3, Zenon
<1>10. /\ rx' \in [Devices -> Seq(Strokes)] /\ rx'["uart"] = rest
       /\ \A e \in Devices : e # "uart" => rx'[e] = rx[e]
  BY <1>1, <1>5, <1>7
<1>11. /\ BufferOK' /\ AllTypedIn(typed, handled')
       /\ \A s \in Strokes : s.kind # "Ignored"
            => Occurrences(s, handled') = Occurrences(s, handled) + Occurrences(s, before)
       /\ \E e \in Seq(Echoes) : /\ serialOut' = serialOut \o PrintedBy("isr", e)
                                 /\ vgaOut' = vgaOut \o PrintedBy("isr", e)
  BY <1>5, <1>7, HandlerEffect DEF OnlyTyped
<1>12. DevicesOK'
  BY <1>3, <1>9, <1>10 DEF DevicesOK
<1>13. OnlyTyped'
  <2>1. ASSUME NEW e \in Devices
        PROVE  AllTypedIn(typed, rx'[e]) /\ \A i \in DOMAIN rx'[e] : rx'[e][i].dev = e
    <3>1. CASE e = "uart"
      BY <1>7, <1>10, <3>1, Zenon
    <3>2. CASE e # "uart"
      BY <1>10, <3>2 DEF OnlyTyped
    <3>3. QED
      BY <3>1, <3>2
  <2>2. QED
    BY <1>3, <1>11, <2>1 DEF OnlyTyped
<1>14. PlacesOK'
  <2>1. SUFFICES ASSUME NEW s \in Strokes, WasTyped(s)'
                 PROVE  Places(s)' >= 1 /\ (s.dev = "uart" => Places(s)' = 1)
    BY DEF PlacesOK
  <2>2. WasTyped(s) /\ s.kind # "Ignored" /\ s.dev \in Devices
    BY <1>3, <2>1, StrokeIs DEF WasTyped
  <2> DEFINE r == Occurrences(s, rx[s.dev])
             h == Occurrences(s, handled)
             r1 == Occurrences(s, rx'[s.dev])
             y == Occurrences(s, before)
             x == IF k = s THEN 1 ELSE 0
             z == Occurrences(s, rest)
             c == IF HeldByShell(s) THEN 1 ELSE 0
             c1 == IF HeldByShell(s) \/ s = k THEN 1 ELSE 0
  <2>3. /\ r \in Nat /\ h \in Nat /\ y \in Nat /\ x \in Nat /\ z \in Nat
        /\ c \in Nat /\ c1 \in Nat
    <3>1. handled \in Seq(Strokes) /\ rx[s.dev] \in Seq(Strokes)
      BY <1>1, <2>2, BufferIs
    <3>2. QED
      BY <1>7, <3>1, OccurrencesFinite
  <2>4. Occurrences(s, handled') = h + y
    BY <1>11, <2>2
  <2>5. Places(s) = r + h + c
    BY DEF Places, Alive
  <2>6. Places(s)' = r1 + (h + y) + c1
    BY <1>3, <1>5, <2>4 DEF Places, HeldByShell
  <2>7. Places(s) >= 1 /\ (s.dev = "uart" => Places(s) = 1)
    BY <2>2 DEF PlacesOK
  <2>8. \/ s.dev = "uart" /\ r = y + x + z /\ r1 = z
        \/ s.dev # "uart" /\ r1 = r /\ x = 0
    <3>1. CASE s.dev = "uart"
      BY <1>8, <1>10, <3>1 DEF q
    <3>2. CASE s.dev # "uart"
      BY <1>6, <1>10, <2>2, <3>2
    <3>3. QED
      BY <3>1, <3>2
  <2>9. (x = 1 /\ c1 = 1) \/ (x = 0 /\ c1 = c)
    OBVIOUS
  <2>10. c = 0 \/ c = 1
    OBVIOUS
  <2> HIDE DEF r, h, r1, y, x, z, c, c1
  <2>11. CASE s.dev = "uart" /\ r = y + x + z /\ r1 = z
    <3>1. r + h + c = 1
      BY <2>5, <2>7, <2>11
    <3>2. r1 + (h + y) + c1 = 1
      BY <2>3, <2>9, <2>10, <2>11, <3>1
    <3>3. QED
      BY <2>6, <3>2
  <2>12. CASE s.dev # "uart" /\ r1 = r /\ x = 0
    <3>1. r + h + c >= 1 /\ c1 = c
      BY <2>5, <2>7, <2>9, <2>12
    <3>2. r1 + (h + y) + c1 >= 1
      BY <2>3, <2>12, <3>1
    <3>3. QED
      BY <2>6, <2>12, <3>2
  <2>13. QED
    BY <2>8, <2>11, <2>12
<1>15. OutputsOK'
  <2>1. PICK e \in Seq(Echoes) : /\ serialOut' = serialOut \o PrintedBy("isr", e)
                                 /\ vgaOut' = vgaOut \o PrintedBy("isr", e)
    BY <1>11
  <2>2. QED
    BY <1>3, <2>1, HandlerPrints
<1>16. ShellOK'
  BY <1>3, <1>5, <1>6 DEF ShellOK
<1>17. QED
  BY <1>11, <1>12, <1>13, <1>14, <1>15, <1>16

(* The shell's own section may be the one that never ends.                   *)
LEMMA PollDiesStep ==
  ASSUME ConsoleInv, Alive, PollDies
  PROVE  ConsoleInv'
<1> USE DEF ConsoleInv
<1>1. /\ pc = "handle" /\ stuck' = {reg} /\ UNCHANGED <<buffer, pc, port, reg, executed>>
      /\ UNCHANGED <<typed, rx, lastKey, irq, serialOut, vgaOut>>
  BY DEF PollDies, devices, outputs
<1>2. BufferOK' /\ handled' = handled
  BY <1>1, SameBuffer
<1>3. DevicesOK'
  BY <1>1 DEF DevicesOK
<1>4. OnlyTyped'
  BY <1>1, <1>2 DEF OnlyTyped
<1>5. PlacesOK'
  <2>1. ASSUME NEW s \in Strokes PROVE WasTyped(s)' = WasTyped(s) /\ Places(s)' = Places(s)
    <3>1. WasTyped(s)' = WasTyped(s)
      BY <1>1 DEF WasTyped
    <3>2. (HeldByShell(s)' \/ s \in stuck') <=> (HeldByShell(s) \/ s \in stuck)
      BY <1>1 DEF HeldByShell, Alive
    <3>3. Places(s)' = Places(s)
      BY <1>1, <1>2, <3>2 DEF Places
    <3>4. QED
      BY <3>1, <3>3
  <2>2. QED
    BY <2>1 DEF PlacesOK
<1>6. ShellOK'
  BY <1>1 DEF ShellOK, DevicesOK
<1>7. OutputsOK'
  <2>1. MidPrint' = MidPrint /\ Pending' = Pending
    BY <1>1 DEF MidPrint, Pending
  <2>2. QED
    BY <1>1, <2>1 DEF OutputsOK, ConsolesComplete, PendingIsLast
<1>8. QED
  BY <1>2, <1>3, <1>4, <1>5, <1>6, <1>7

(* The shell reads a port: the stroke moves from the device to the loop.     *)
LEMMA PollReadStep ==
  ASSUME ConsoleInv, Alive, PollRead
  PROVE  ConsoleInv'
<1> USE DEF ConsoleInv
<1> DEFINE k == DataPort(port)
<1>1. /\ pc = "read" /\ pc' = "handle" /\ reg' = k /\ ReadDataPort(port, irq[port])
      /\ UNCHANGED <<buffer, port, stuck, executed>> /\ UNCHANGED <<serialOut, vgaOut>>
  BY DEF PollRead, Goto, outputs
<1>2. port \in Devices /\ irq[port] \in BOOLEAN
  <2>1. port \in Devices /\ irq \in [Devices -> BOOLEAN]
    BY DEF ShellOK, DevicesOK
  <2>2. QED
    BY <2>1, Zenon
<1>3. k \in Strokes /\ k.dev = port /\ TypedIn(typed, k)
  BY <1>2, PortAnswer
<1>4. /\ typed' = typed /\ rx' \in [Devices -> Seq(Strokes)] /\ irq' \in [Devices -> BOOLEAN]
      /\ lastKey' \in Strokes /\ lastKey'.dev = "kbd" /\ TypedIn(typed, lastKey')
      /\ \A e \in Devices : /\ AllTypedIn(typed, rx'[e])
                            /\ \A i \in DOMAIN rx'[e] : rx'[e][i].dev = e
  BY <1>1, <1>2, ReadEffect
<1> HIDE DEF k
<1>5. BufferOK' /\ handled' = handled
  BY <1>1, SameBuffer
<1>6. DevicesOK'
  BY <1>1, <1>3, <1>4 DEF DevicesOK
<1>7. OnlyTyped'
  BY <1>1, <1>3, <1>4, <1>5 DEF OnlyTyped
<1>8. PlacesOK'
  <2>1. SUFFICES ASSUME NEW s \in Strokes, WasTyped(s)'
                 PROVE  Places(s)' >= 1 /\ (s.dev = "uart" => Places(s)' = 1)
    BY DEF PlacesOK
  <2>2. WasTyped(s) /\ s.kind # "Ignored"
    BY <1>4, <2>1 DEF WasTyped
  <2>3. s.n # 0
    <3>1. s.dev \in Devices
      BY StrokeIs
    <3>2. typed[s.dev] \in Seq(Strokes) /\ s.n \in DOMAIN typed[s.dev]
      BY <2>2, <3>1 DEF WasTyped, DevicesOK
    <3>3. QED
      BY <3>2
  <2> DEFINE r == Occurrences(s, rx[s.dev])
             h == Occurrences(s, handled)
             r1 == Occurrences(s, rx'[s.dev])
             x == IF k = s THEN 1 ELSE 0
  <2>4. r \in Nat /\ r1 \in Nat /\ r1 + x >= r /\ (s.dev = "uart" => r1 + x = r)
    BY <1>1, <1>2, <2>3, ReadCounts DEF k
  <2>5. h \in Nat /\ x \in Nat
    <3>1. handled \in Seq(Strokes)
      BY BufferIs
    <3>2. QED
      BY <3>1, OccurrencesFinite
  <2>6. Places(s) = r + h + 0 /\ Places(s)' = r1 + h + x
    BY <1>1, <1>5 DEF Places, HeldByShell, Alive
  <2>7. Places(s) >= 1 /\ (s.dev = "uart" => Places(s) = 1)
    BY <2>2 DEF PlacesOK
  <2> HIDE DEF r, h, r1, x
  <2>8. /\ r1 + h + x >= r + h + 0 /\ (s.dev = "uart" => r1 + h + x = r + h + 0)
        /\ r + h + 0 \in Nat /\ r1 + h + x \in Nat
    BY <2>4, <2>5
  <2>9. QED
    BY <2>6, <2>7, <2>8
<1>9. ShellOK'
  BY <1>1 DEF ShellOK, PCs
<1>10. OutputsOK'
  <2>1. ~ MidPrint /\ ~ MidPrint'
    BY <1>1 DEF MidPrint
  <2>2. QED
    BY <1>1, <2>1, NothingPrinted
<1>11. QED
  BY <1>5, <1>6, <1>7, <1>8, <1>9, <1>10

(* The shell edits the line: the stroke moves from the loop to the buffer.   *)
LEMMA PollHandleStep ==
  ASSUME ConsoleInv, Alive, PollHandle
  PROVE  ConsoleInv'
<1> USE DEF ConsoleInv
<1>1. /\ pc = "handle" /\ pc' \in {"status", "echoSerial"}
      /\ UNCHANGED <<typed, rx, lastKey, irq, port, reg, stuck, executed, serialOut, vgaOut>>
  BY DEF PollHandle, Goto, devices, outputs
<1>2. reg \in Strokes /\ TypedIn(typed, reg) /\ AllTypedIn(typed, handled)
  BY DEF DevicesOK, OnlyTyped
<1>3. /\ BufferOK' /\ AllTypedIn(typed, handled')
      /\ \A s \in Strokes : s.kind # "Ignored"
           => Occurrences(s, handled') = Occurrences(s, handled) + (IF reg = s THEN 1 ELSE 0)
  BY <1>2, PollHandleEffect
<1>4. DevicesOK'
  BY <1>1 DEF DevicesOK
<1>5. OnlyTyped'
  BY <1>1, <1>3 DEF OnlyTyped
<1>6. PlacesOK'
  <2>1. SUFFICES ASSUME NEW s \in Strokes, WasTyped(s)'
                 PROVE  Places(s)' >= 1 /\ (s.dev = "uart" => Places(s)' = 1)
    BY DEF PlacesOK
  <2>2. WasTyped(s) /\ s.kind # "Ignored" /\ s.dev \in Devices
    BY <1>1, <2>1, StrokeIs DEF WasTyped
  <2> DEFINE r == Occurrences(s, rx[s.dev])
             h == Occurrences(s, handled)
             x == IF reg = s THEN 1 ELSE 0
  <2>3. r \in Nat /\ h \in Nat /\ x \in Nat
    <3>1. handled \in Seq(Strokes) /\ rx[s.dev] \in Seq(Strokes)
      BY <2>2, BufferIs DEF DevicesOK
    <3>2. QED
      BY <3>1, OccurrencesFinite
  <2>4. Occurrences(s, handled') = h + x
    BY <1>3, <2>2
  <2>5. Places(s) = r + h + x /\ Places(s)' = r + (h + x) + 0
    BY <1>1, <2>4 DEF Places, HeldByShell, Alive
  <2>6. Places(s) >= 1 /\ (s.dev = "uart" => Places(s) = 1)
    BY <2>2 DEF PlacesOK
  <2> HIDE DEF r, h, x
  <2>7. r + (h + x) + 0 = r + h + x
    BY <2>3
  <2>8. QED
    BY <2>5, <2>6, <2>7
<1>7. ShellOK'
  BY <1>1 DEF ShellOK, PCs
<1>8. OutputsOK'
  <2>1. ~ MidPrint /\ ~ MidPrint'
    BY <1>1 DEF MidPrint
  <2>2. QED
    BY <1>1, <2>1, NothingPrinted
<1>9. QED
  BY <1>3, <1>4, <1>5, <1>6, <1>7, <1>8

(* Steps of the shell between its sections.                                  *)
LEMMA QuietStep ==
  ASSUME ConsoleInv, UNCHANGED <<devices, buffer, reg, stuck, outputs>>, executed' = executed,
         pc \notin {"handle"}, pc' \notin {"handle"}, ~ MidPrint, ~ MidPrint',
         pc' \in PCs, port' \in Devices
  PROVE  ConsoleInv'
<1> USE DEF ConsoleInv
<1>1. UNCHANGED <<typed, rx, lastKey, irq, serialOut, vgaOut>>
  BY DEF devices, outputs
<1>2. BufferOK' /\ handled' = handled
  BY SameBuffer
<1>3. irq' \in [Devices -> BOOLEAN]
  BY <1>1 DEF DevicesOK
<1>4. DevicesOK' /\ OnlyTyped' /\ PlacesOK'
  BY <1>1, <1>2, <1>3, NoStrokeMoves
<1>5. ShellOK'
  BY DEF ShellOK
<1>6. OutputsOK'
  BY <1>1, NothingPrinted
<1>7. QED
  BY <1>2, <1>4, <1>5, <1>6

LEMMA PopLineStep ==
  ASSUME ConsoleInv, PopLine
  PROVE  ConsoleInv'
<1> USE DEF ConsoleInv
<1>1. CASE ready = <<>>
  <2>1. /\ pc = "pop" /\ pc' = "idle"
        /\ UNCHANGED <<devices, buffer, port, reg, stuck, executed, outputs>>
    BY <1>1 DEF PopLine, Goto
  <2>2. ~ MidPrint /\ ~ MidPrint' /\ pc' \in PCs /\ port' \in Devices
    BY <2>1 DEF MidPrint, PCs, ShellOK
  <2>3. QED
    BY <2>1, <2>2, QuietStep
<1>2. CASE ready # <<>>
  <2>1. /\ pc = "pop" /\ pc' \in {"outSerial", "promptSerial"}
        /\ executed' = Append(executed, Head(ready)) /\ ready' = Tail(ready)
        /\ UNCHANGED <<devices, line, history, handled, port, reg, stuck, outputs>>
    BY <1>2 DEF PopLine, Goto
  <2>2. UNCHANGED <<typed, rx, lastKey, irq, serialOut, vgaOut>>
    BY <2>1 DEF devices, outputs
  <2>3. /\ ready \in Seq(Lines) /\ line \in Lines /\ history \in Seq(Lines)
        /\ handled \in Seq(Strokes)
    BY BufferIs
  <2>4. Head(ready) \in Lines /\ Tail(ready) \in Seq(Lines) /\ Len(Tail(ready)) <= Len(ready)
    BY <1>2, <2>3
  <2>5. BufferOK'
    <3> DEFINE c == [line |-> line, ready |-> Tail(ready), history |-> history,
                     handled |-> handled, echo |-> <<>>]
    <3>1. Buffer' = c
      BY <2>1 DEF Buffer
    <3>2. /\ c.line = line /\ c.ready = Tail(ready) /\ c.history = history
          /\ c.handled = handled
      OBVIOUS
    <3>3. c \in Buffers
      BY <2>3, <2>4 DEF Buffers
    <3>4. /\ Buffer.line = line /\ Buffer.ready = ready /\ Buffer.history = history
          /\ Buffer.handled = handled
      BY BufferIs
    <3> HIDE DEF c
    <3>5. WithinLimits(c)
      <4>1. /\ Len(line) <= MAX_LINE_LEN /\ (\A i \in DOMAIN line : line[i].kind = "Char")
            /\ Len(ready) <= MAX_QUEUE_DEPTH /\ Len(history) <= MAX_HISTORY
        BY <3>4 DEF BufferOK, WithinLimits
      <4>2. Len(Tail(ready)) <= MAX_QUEUE_DEPTH
        <5>1. MAX_QUEUE_DEPTH \in Nat /\ Len(ready) \in Nat /\ Len(Tail(ready)) = Len(ready) - 1
          BY <1>2, <2>3, LimitsAssumption DEF LimitsAssumption
        <5>2. QED
          BY <4>1, <5>1
      <4>3. QED
        BY <3>2, <3>3, <4>1, <4>2, Zenon DEF WithinLimits
    <3>6. Replayed(c)
      <4> DEFINE r == HandleAll(EmptyBuffer, handled)
      <4>1. line = r.line /\ history = r.history /\ EndsWith(r.ready, ready)
        BY <3>4 DEF BufferOK, Replayed
      <4>2. r.ready \in Seq(Lines)
        <5>1. EmptyBuffer \in Buffers
          BY EmptyWithinLimits DEF WithinLimits
        <5>2. r \in Buffers
          BY <2>3, <5>1, HandleAllTyped
        <5> HIDE DEF r
        <5>3. QED
          BY <5>2 DEF Buffers
      <4>3. EndsWith(r.ready, Tail(ready))
        BY <1>2, <2>3, <4>1, <4>2, SuffixTail
      <4>4. QED
        BY <3>2, <4>1, <4>3, Zenon DEF Replayed
    <3>7. QED
      BY <3>1, <3>5, <3>6 DEF BufferOK
  <2>6. DevicesOK' /\ OnlyTyped' /\ PlacesOK'
    <3>1. irq' \in [Devices -> BOOLEAN]
      BY <2>2 DEF DevicesOK
    <3>2. QED
      BY <2>1, <2>2, <3>1, NoStrokeMoves
  <2>7. ShellOK'
    <3>1. executed \in Seq(Lines)
      BY DEF ShellOK
    <3>2. Append(executed, Head(ready)) \in Seq(Lines)
      BY <2>4, <3>1
    <3>3. QED
      BY <2>1, <3>2 DEF ShellOK, PCs
  <2>8. OutputsOK'
    <3>1. ~ MidPrint /\ ~ MidPrint'
      BY <2>1 DEF MidPrint
    <3>2. QED
      BY <2>2, <3>1, NothingPrinted
  <2>9. QED
    BY <2>5, <2>6, <2>7, <2>8
<1>3. QED
  BY <1>1, <1>2

(* The two halves of a print of the shell.                                   *)
LEMMA SerialPrintStep ==
  ASSUME ConsoleInv, NEW what \in (Devices \cup {"output", "prompt"}) \X Nat, SerialPrint(what),
         UNCHANGED stuck, pc \notin {"handle"}, pc' \notin {"handle"}, pc' \in PCs, ~ MidPrint, MidPrint',
         Pending' = [by |-> "shell", what |-> what]
  PROVE  ConsoleInv'
<1> USE DEF ConsoleInv
<1>1. /\ UNCHANGED <<typed, rx, lastKey, irq, buffer, port, reg, executed, vgaOut>>
      /\ serialOut' = serialOut \o PrintedBy("shell", <<what>>)
  BY DEF SerialPrint, devices
<1>2. BufferOK' /\ handled' = handled
  BY <1>1, SameBuffer
<1>3. irq' \in [Devices -> BOOLEAN]
  BY <1>1 DEF DevicesOK
<1>4. DevicesOK' /\ OnlyTyped' /\ PlacesOK'
  BY <1>1, <1>2, <1>3, NoStrokeMoves
<1>5. ShellOK'
  BY <1>1 DEF ShellOK
<1>6. OutputsOK'
  BY <1>1, SerialPrinted
<1>7. QED
  BY <1>2, <1>4, <1>5, <1>6

LEMMA VgaPrintStep ==
  ASSUME ConsoleInv, NEW what \in (Devices \cup {"output", "prompt"}) \X Nat, VgaPrint(what),
         UNCHANGED stuck, pc \notin {"handle"}, pc' \notin {"handle"}, pc' \in PCs, MidPrint, ~ MidPrint',
         Pending = [by |-> "shell", what |-> what]
  PROVE  ConsoleInv'
<1> USE DEF ConsoleInv
<1>1. /\ UNCHANGED <<typed, rx, lastKey, irq, buffer, port, reg, executed, serialOut>>
      /\ vgaOut' = vgaOut \o PrintedBy("shell", <<what>>)
  BY DEF VgaPrint, devices
<1>2. BufferOK' /\ handled' = handled
  BY <1>1, SameBuffer
<1>3. irq' \in [Devices -> BOOLEAN]
  BY <1>1 DEF DevicesOK
<1>4. DevicesOK' /\ OnlyTyped' /\ PlacesOK'
  BY <1>1, <1>2, <1>3, NoStrokeMoves
<1>5. ShellOK'
  BY <1>1 DEF ShellOK
<1>6. OutputsOK'
  BY <1>1, VgaPrinted
<1>7. QED
  BY <1>2, <1>4, <1>5, <1>6

LEMMA PrintsStep ==
  ASSUME ConsoleInv, PollEcho \/ CommandOutput \/ PrintPrompt
  PROVE  ConsoleInv'
<1> DEFINE all == (Devices \cup {"output", "prompt"}) \X Nat
<1>1. /\ <<reg.dev, reg.n>> \in all
      /\ <<"output", Len(executed)>> \in all /\ <<"prompt", Len(executed)>> \in all
  <2>1. reg.dev \in Devices /\ reg.n \in Nat
    BY StrokeIs DEF ConsoleInv, DevicesOK
  <2>2. Len(executed) \in Nat
    BY DEF ConsoleInv, ShellOK
  <2>3. QED
    BY <2>1, <2>2
<1> HIDE DEF all
<1>2. CASE Goto("echoSerial", "echoVga") /\ SerialPrint(<<reg.dev, reg.n>>)
  <2> DEFINE w == <<reg.dev, reg.n>>
  <2>1. pc \notin {"handle"} /\ pc' \notin {"handle"} /\ pc' \in PCs /\ ~ MidPrint /\ MidPrint' /\ UNCHANGED stuck
    BY <1>2 DEF Goto, MidPrint, PCs
  <2>2. Pending' = [by |-> "shell", what |-> w]
    BY <1>2 DEF Goto, Pending, SerialPrint
  <2> HIDE DEF w
  <2>3. QED
    BY <1>1, <1>2, <2>1, <2>2, SerialPrintStep DEF w, all
<1>3. CASE Goto("echoVga", "status") /\ VgaPrint(<<reg.dev, reg.n>>)
  <2> DEFINE w == <<reg.dev, reg.n>>
  <2>1. pc \notin {"handle"} /\ pc' \notin {"handle"} /\ pc' \in PCs /\ MidPrint /\ ~ MidPrint' /\ UNCHANGED stuck
    BY <1>3 DEF Goto, MidPrint, PCs
  <2>2. Pending = [by |-> "shell", what |-> w]
    BY <1>3 DEF Goto, Pending
  <2> HIDE DEF w
  <2>3. QED
    BY <1>1, <1>3, <2>1, <2>2, VgaPrintStep DEF w, all
<1>4. CASE Goto("outSerial", "outVga") /\ SerialPrint(<<"output", Len(executed)>>)
  <2> DEFINE w == <<"output", Len(executed)>>
  <2>1. pc \notin {"handle"} /\ pc' \notin {"handle"} /\ pc' \in PCs /\ ~ MidPrint /\ MidPrint' /\ UNCHANGED stuck
    BY <1>4 DEF Goto, MidPrint, PCs
  <2>2. Pending' = [by |-> "shell", what |-> w]
    BY <1>4 DEF Goto, Pending, SerialPrint
  <2> HIDE DEF w
  <2>3. QED
    BY <1>1, <1>4, <2>1, <2>2, SerialPrintStep DEF w, all
<1>5. CASE Goto("outVga", "promptSerial") /\ VgaPrint(<<"output", Len(executed)>>)
  <2> DEFINE w == <<"output", Len(executed)>>
  <2>1. pc \notin {"handle"} /\ pc' \notin {"handle"} /\ pc' \in PCs /\ MidPrint /\ ~ MidPrint' /\ UNCHANGED stuck
    BY <1>5 DEF Goto, MidPrint, PCs
  <2>2. Pending = [by |-> "shell", what |-> w]
    BY <1>5 DEF Goto, Pending
  <2> HIDE DEF w
  <2>3. QED
    BY <1>1, <1>5, <2>1, <2>2, VgaPrintStep DEF w, all
<1>6. CASE Goto("promptSerial", "promptVga") /\ SerialPrint(<<"prompt", Len(executed)>>)
  <2> DEFINE w == <<"prompt", Len(executed)>>
  <2>1. pc \notin {"handle"} /\ pc' \notin {"handle"} /\ pc' \in PCs /\ ~ MidPrint /\ MidPrint' /\ UNCHANGED stuck
    BY <1>6 DEF Goto, MidPrint, PCs
  <2>2. Pending' = [by |-> "shell", what |-> w]
    BY <1>6 DEF Goto, Pending, SerialPrint
  <2> HIDE DEF w
  <2>3. QED
    BY <1>1, <1>6, <2>1, <2>2, SerialPrintStep DEF w, all
<1>7. CASE Goto("promptVga", "idle") /\ VgaPrint(<<"prompt", Len(executed)>>)
  <2> DEFINE w == <<"prompt", Len(executed)>>
  <2>1. pc \notin {"handle"} /\ pc' \notin {"handle"} /\ pc' \in PCs /\ MidPrint /\ ~ MidPrint' /\ UNCHANGED stuck
    BY <1>7 DEF Goto, MidPrint, PCs
  <2>2. Pending = [by |-> "shell", what |-> w]
    BY <1>7 DEF Goto, Pending
  <2> HIDE DEF w
  <2>3. QED
    BY <1>1, <1>7, <2>1, <2>2, VgaPrintStep DEF w, all
<1>8. QED
  BY <1>2, <1>3, <1>4, <1>5, <1>6, <1>7 DEF PollEcho, CommandOutput, PrintPrompt

LEMMA ConsoleStep == ConsoleInv /\ [Next]_vars => ConsoleInv'
<1> SUFFICES ASSUME ConsoleInv, [Next]_vars PROVE ConsoleInv'
  OBVIOUS
<1>1. CASE RunOnce \/ PollStatus
  <2>1. /\ pc \in {"idle", "status"} /\ pc' \in {"status", "read", "pop"}
        /\ (port' = port \/ port' \in {"kbd", "uart"})
        /\ UNCHANGED <<devices, buffer, reg, stuck, outputs>> /\ executed' = executed
    BY <1>1 DEF RunOnce, PollStatus, Goto
  <2>2. /\ pc \notin {"handle"} /\ pc' \notin {"handle"} /\ ~ MidPrint /\ ~ MidPrint'
        /\ pc' \in PCs /\ port' \in Devices
    BY <2>1 DEF MidPrint, PCs, Devices, ConsoleInv, ShellOK
  <2>3. QED
    BY <2>1, <2>2, QuietStep
<1>2. CASE UNCHANGED vars \/ Halted
  <2>1. /\ UNCHANGED <<typed, rx, lastKey, irq, line, ready, history, handled>>
        /\ UNCHANGED <<pc, port, reg, stuck, executed, serialOut, vgaOut>>
    BY <1>2 DEF Halted, vars, devices, buffer, shell, outputs
  <2>2. BufferOK'
    <3>1. Buffer' = Buffer
      BY <2>1 DEF Buffer
    <3>2. QED
      BY <3>1 DEF ConsoleInv, BufferOK
  <2>3. DevicesOK' /\ OnlyTyped' /\ PlacesOK'
    <3>1. irq' \in [Devices -> BOOLEAN]
      BY <2>1 DEF ConsoleInv, DevicesOK
    <3>2. QED
      BY <2>1, <3>1, NoStrokeMoves DEF ConsoleInv
  <2>4. ShellOK' /\ OutputsOK'
    <3>1. MidPrint' = MidPrint /\ Pending' = Pending
      BY <2>1 DEF MidPrint, Pending
    <3>2. QED
      BY <2>1, <3>1 DEF ConsoleInv, ShellOK, OutputsOK, ConsolesComplete, PendingIsLast
  <2>5. QED
    BY <2>2, <2>3, <2>4 DEF ConsoleInv
<1>3. QED
  BY <1>1, <1>2, TypeStep, UartInterruptStep, KeyboardHandlerStep, SerialHandlerStep,
     KeyboardHandlerDiesStep, SerialHandlerDiesStep, PollReadStep, PollHandleStep, PollDiesStep,
     PopLineStep, PrintsStep DEF Next, Running, Shell

LEMMA ConsoleInvariant == Spec => []ConsoleInv
<1>1. QED
  BY ConsoleInit, ConsoleStep, PTL DEF Spec

-----------------------------------------------------------------------------
(* The theorems.                                                             *)

(* The line, the queue of lines and the history never outgrow the limits of   *)
(* input.rs, whichever of the handlers and the shell fills them.              *)
THEOREM BuffersBounded == Spec => []TypeOK
<1>1. ConsoleInv => TypeOK
  <2> SUFFICES ASSUME ConsoleInv PROVE TypeOK
    OBVIOUS
  <2>1. /\ line \in Seq(Strokes) /\ ready \in Seq(Lines) /\ history \in Seq(Lines)
        /\ executed \in Seq(Lines)
    BY BufferIs DEF ConsoleInv, ShellOK, Lines
  <2>2. /\ Len(line) <= MAX_LINE_LEN /\ (\A i \in DOMAIN line : line[i].kind = "Char")
        /\ Len(ready) <= MAX_QUEUE_DEPTH /\ Len(history) <= MAX_HISTORY
    BY BufferIs DEF ConsoleInv, BufferOK, WithinLimits
  <2>3. \A q \in {ready, history, executed} : \A i \in DOMAIN q : q[i] \in Seq(Strokes)
    BY <2>1 DEF Lines
  <2>4. QED
    BY <2>1, <2>2, <2>3 DEF ConsoleInv, DevicesOK, ShellOK, TypeOK
<1>2. QED
  BY <1>1, ConsoleInvariant, PTL

LEMMA StrokesPlaced ==
  ASSUME ConsoleInv, NEW d \in Devices, NEW i \in Meaningful(d)
  PROVE  Places(typed[d][i]) >= 1 /\ (d = "uart" => Places(typed[d][i]) = 1)
<1> DEFINE s == typed[d][i]
<1>1. typed[d] \in Seq(Strokes) /\ i \in DOMAIN typed[d] /\ s.kind # "Ignored"
  BY DEF ConsoleInv, DevicesOK, Meaningful
<1>2. s \in Strokes /\ s.dev = d /\ s.n = i
  BY <1>1 DEF ConsoleInv, OnlyTyped
<1> HIDE DEF s
<1>3. WasTyped(s)
  BY <1>1, <1>2 DEF WasTyped, s
<1>4. Places(s) >= 1 /\ (s.dev = "uart" => Places(s) = 1)
  BY <1>2, <1>3 DEF ConsoleInv, PlacesOK
<1>5. QED
  BY <1>2, <1>4 DEF s

(* The polling loop and the handler of IRQ4 read the UART without a lock, and  *)
(* every byte is handled exactly once.                                        *)
THEOREM SerialBytesOnce == Spec => []SerialExactlyOnce
<1>1. ConsoleInv => SerialExactlyOnce
  BY StrokesPlaced DEF SerialExactlyOnce, Devices
<1>2. QED
  BY <1>1, ConsoleInvariant, PTL

(* No key is lost between the polling loop and the handler of IRQ1.           *)
THEOREM KeysSurvive == Spec => []KeysNotLost
<1>1. ConsoleInv => KeysNotLost
  BY StrokesPlaced DEF KeysNotLost, Devices
<1>2. QED
  BY <1>1, ConsoleInvariant, PTL

(* The sections of the handlers and of the shell in the input buffer compose:  *)
(* the line and the history are the replay of the handled strokes, and the     *)
(* waiting lines the newest of those committed.                               *)
THEOREM EditsCompose == Spec => []BufferIsReplay
<1>1. ConsoleInv => BufferIsReplay
  <2> SUFFICES ASSUME ConsoleInv PROVE BufferIsReplay
    OBVIOUS
  <2> DEFINE r == HandleAll(EmptyBuffer, handled)
  <2>1. ready \in Seq(Lines) /\ handled \in Seq(Strokes)
    BY BufferIs DEF ConsoleInv
  <2>2. line = r.line /\ history = r.history /\ EndsWith(r.ready, ready)
    <3>1. /\ Buffer.handled = handled /\ Buffer.line = line /\ Buffer.ready = ready
          /\ Buffer.history = history
      BY BufferIs DEF ConsoleInv
    <3>2. QED
      BY <3>1 DEF ConsoleInv, BufferOK, Replayed
  <2>3. r.ready \in Seq(Lines)
    <3>1. EmptyBuffer \in Buffers
      BY EmptyWithinLimits DEF WithinLimits
    <3>2. r \in Buffers
      BY <2>1, <3>1, HandleAllTyped
    <3> HIDE DEF r
    <3>3. QED
      BY <3>2 DEF Buffers
  <2>4. IsSuffix(ready, r.ready)
    BY <2>1, <2>2, <2>3, SuffixIs
  <2>5. r = FoldLeft(HandleEvent, EmptyBuffer, handled)
    BY DEF HandleAll
  <2> HIDE DEF r
  <2>6. QED
    BY <2>2, <2>4, <2>5, Zenon DEF BufferIsReplay
<1>2. QED
  BY <1>1, ConsoleInvariant, PTL

(* Each writer's output is complete and in its own order on both consoles, up  *)
(* to the one print the shell is in the middle of.                            *)
THEOREM OutputsComplete == Spec => []ConsolesComplete
<1>1. ConsoleInv => ConsolesComplete
  BY DEF ConsoleInv, OutputsOK
<1>2. QED
  BY <1>1, ConsoleInvariant, PTL
=============================================================================
