------------------------------ MODULE Induction ------------------------------
(***************************************************************************)
(* Induction for the other proof modules: over the numbers, stated with a  *)
(* set in place of a predicate, and what it takes to reason about the      *)
(* FoldLeft of SequencesExt, which is defined by recursion over the sets   *)
(* of positions of a sequence, or about its Front.                         *)
(***************************************************************************)
EXTENDS Naturals, Sequences, SequencesExt, FiniteSetTheorems, TLAPS

(* A set of numbers has a least one: the intervals that end in its numbers    *)
(* are finite, and inclusion of finite sets is well-founded.                  *)
LEMMA LeastNumber ==
  ASSUME NEW T, T \subseteq Nat, T # {}
  PROVE  \E n \in T : \A m \in T : n <= m
<1> DEFINE U == {0 .. n : n \in T}
<1>1. U \subseteq FiniteSubsetsOf(Nat)
  <2>1. ASSUME NEW n \in T PROVE IsFiniteSet(0 .. n) /\ 0 .. n \subseteq Nat
    <3>1. n \in Int /\ 0 \in Int
      OBVIOUS
    <3>2. QED
      BY <3>1, FS_Interval
  <2>2. QED
    BY <2>1 DEF FiniteSubsetsOf
<1>2. U # {}
  OBVIOUS
<1>3. PICK x \in U : \A y \in U : ~ (<<y, x>> \in StrictSubsetOrdering(Nat))
  <2> HIDE DEF U
  <2>1. IsWellFoundedOn(StrictSubsetOrdering(Nat), FiniteSubsetsOf(Nat))
    BY FS_StrictSubsetOrderingWellFounded
  <2>2. QED
    BY <1>1, <1>2, <2>1, WFMin
<1>4. PICK n \in T : x = 0 .. n
  BY <1>3
<1>5. ASSUME NEW m \in T, m < n PROVE FALSE
  <2>1. 0 .. m \in U /\ 0 .. m \subseteq 0 .. n /\ 0 .. n \subseteq Nat /\ 0 .. m # 0 .. n
    <3>1. n \in 0 .. n /\ n \notin 0 .. m
      BY <1>5
    <3>2. QED
      BY <1>5, <3>1
  <2>2. <<0 .. m, 0 .. n>> \in StrictSubsetOrdering(Nat)
    BY <2>1, Zenon DEF StrictSubsetOrdering
  <2>3. QED
    BY <2>1, <2>2, <1>3, <1>4
<1>6. QED
  BY <1>5

(* Induction: a set with 0 that holds n + 1 whenever it holds n has them all. *)
LEMMA Induct ==
  ASSUME NEW P, 0 \in P, \A n \in Nat : n \in P => n + 1 \in P
  PROVE  \A n \in Nat : n \in P
<1>1. SUFFICES ASSUME Nat \ P # {} PROVE FALSE
  OBVIOUS
<1>2. PICK n \in Nat \ P : \A m \in Nat \ P : n <= m
  BY <1>1, LeastNumber
<1>3. n # 0 /\ n - 1 \in Nat /\ n - 1 \in P
  BY <1>2
<1>4. QED
  BY <1>2, <1>3

(* A set of numbers with a bound has a greatest one.                          *)
LEMMA GreatestNumber ==
  ASSUME NEW s \in SUBSET Nat, s # {}, NEW N \in Nat, \A y \in s : N >= y
  PROVE  Max(s) \in s /\ \A y \in s : Max(s) >= y
<1> DEFINE T == {m \in Nat : \A y \in s : m >= y}
<1>1. N \in T
  OBVIOUS
<1>2. PICK m \in T : \A k \in T : m <= k
  <2> HIDE DEF T
  <2>1. T \subseteq Nat
    BY DEF T
  <2>2. QED
    BY <1>1, <2>1, LeastNumber
<1>3. m \in s
  <2>1. SUFFICES ASSUME m \notin s PROVE FALSE
    OBVIOUS
  <2>2. \A y \in s : y \in Nat /\ m >= y /\ m # y /\ m \in Nat
    BY <2>1
  <2>3. m # 0 /\ m - 1 \in Nat
    <3>1. PICK y \in s : TRUE
      OBVIOUS
    <3>2. QED
      BY <2>2, <3>1
  <2>4. m - 1 \in T
    BY <2>2, <2>3
  <2>5. QED
    BY <1>2, <2>3, <2>4
<1>4. QED
  BY <1>3 DEF Max

(* The greatest of some positions of a sequence.                              *)
LEMMA MaxOfPositions ==
  ASSUME NEW N \in Nat, NEW s \in SUBSET (1 .. N), s # {}
  PROVE  Max(s) \in s /\ \A y \in s : Max(s) >= y
<1>1. s \in SUBSET Nat /\ \A y \in s : N >= y
  OBVIOUS
<1>2. QED
  BY <1>1, GreatestNumber

(* The least and the greatest value of a function on some positions.          *)
LEMMA MinAndMaxOfValues ==
  ASSUME NEW N \in Nat, NEW D \in SUBSET (1 .. N), D # {}, NEW g \in [D -> Nat]
  PROVE  LET s == {g[i] : i \in D}
         IN  /\ Min(s) \in Nat /\ Max(s) \in Nat
             /\ \A i \in D : Min(s) <= g[i] /\ g[i] <= Max(s)
<1> DEFINE s == {g[i] : i \in D}
           P == {n \in Nat : \E b \in Nat : \A i \in D : i <= n => g[i] <= b}
<1>1. \A n \in Nat : n \in P
  <2>1. 0 \in P
    OBVIOUS
  <2>2. ASSUME NEW n \in Nat, n \in P PROVE n + 1 \in P
    <3>1. PICK b \in Nat : \A i \in D : i <= n => g[i] <= b
      BY <2>2
    <3>2. CASE n + 1 \in D
      <4>1. b + g[n + 1] \in Nat /\ \A i \in D : i <= n + 1 => g[i] <= b + g[n + 1]
        BY <3>1, <3>2
      <4>2. QED
        BY <4>1
    <3>3. CASE n + 1 \notin D
      <4>1. \A i \in D : i <= n + 1 => g[i] <= b
        BY <3>1, <3>3
      <4>2. QED
        BY <4>1
    <3>4. QED
      BY <3>2, <3>3
  <2> HIDE DEF P
  <2>3. QED
    BY <2>1, <2>2, Induct
<1>2. PICK b \in Nat : \A i \in D : g[i] <= b
  <2>1. PICK b \in Nat : \A i \in D : i <= N => g[i] <= b
    BY <1>1
  <2>2. \A i \in D : i <= N
    OBVIOUS
  <2>3. QED
    BY <2>1, <2>2
<1>3. s \in SUBSET Nat /\ s # {} /\ \A y \in s : b >= y
  BY <1>2
<1>4. Max(s) \in s /\ \A y \in s : Max(s) >= y
  <2> HIDE DEF s
  <2>1. QED
    BY <1>2, <1>3, GreatestNumber
<1>5. Min(s) \in s /\ \A y \in s : Min(s) <= y
  <2> HIDE DEF s
  <2>1. \E n \in s : \A m \in s : n <= m
    BY <1>3, LeastNumber
  <2>2. QED
    BY <2>1 DEF Min
<1>6. \A i \in D : g[i] \in s /\ g[i] \in Nat
  OBVIOUS
<1> HIDE DEF s
<1>7. /\ Min(s) \in Nat /\ Max(s) \in Nat
      /\ \A i \in D : Min(s) <= g[i] /\ g[i] <= Max(s)
  BY <1>3, <1>4, <1>5, <1>6
<1>8. QED
  BY <1>7 DEF s

(* The greatest position of a set that holds the greatest of all.             *)
LEMMA MaxIsLast ==
  ASSUME NEW n \in Nat, NEW s \in SUBSET (1 .. n + 1), n + 1 \in s
  PROVE  Max(s) = n + 1
<1>1. n + 1 \in Nat /\ s # {}
  OBVIOUS
<1>2. Max(s) \in s /\ Max(s) >= n + 1
  BY <1>1, MaxOfPositions
<1>3. Max(s) \in 1 .. n + 1
  BY <1>2
<1>4. QED
  BY <1>2, <1>3
-----------------------------------------------------------------------------
(* FoldLeft folds over sets of positions, from the greatest down.  G[i][a] is *)
(* what the element at position i makes of a.                                 *)
FoldBody(F, G, base, N) ==
  [s \in SUBSET (1 .. N) |-> IF s = {} THEN base ELSE G[Max(s)][F[s \ {Max(s)}]]]

HasFold(A, G, base, N) ==
  \E F \in [SUBSET (1 .. N) -> A] : F = FoldBody(F, G, base, N)

StaysIn(A, G, N) == \A i \in 1 .. N : \A a \in A : G[i][a] \in A

(* There is a function of this kind.                                          *)
LEMMA FoldExists ==
  ASSUME NEW A, NEW base \in A, NEW M \in Nat, NEW G, StaysIn(A, G, M)
  PROVE  HasFold(A, G, base, M)
<1> USE DEF StaysIn
<1> DEFINE Q(N) == \E F \in [SUBSET (1 .. N) -> A] : F = FoldBody(F, G, base, N)
           P == {N \in Nat : N <= M => Q(N)}
<1>1. 0 \in P
  <2> DEFINE F == [s \in SUBSET (1 .. 0) |-> base]
  <2>1. F \in [SUBSET (1 .. 0) -> A]
    OBVIOUS
  <2>2. \A s \in SUBSET (1 .. 0) : s = {}
    OBVIOUS
  <2>3. F = FoldBody(F, G, base, 0)
    BY <2>2 DEF FoldBody
  <2>4. Q(0)
    BY <2>1, <2>3
  <2> HIDE DEF Q
  <2>5. QED
    BY <2>4
<1>2. ASSUME NEW N \in Nat, N \in P PROVE N + 1 \in P
  <2>1. SUFFICES ASSUME N + 1 <= M
                 PROVE  Q(N + 1)
    <3> HIDE DEF Q
    <3>1. QED
      OBVIOUS
  <2>2. PICK F \in [SUBSET (1 .. N) -> A] : F = FoldBody(F, G, base, N)
    <3>1. Q(N)
      <4> HIDE DEF Q
      <4>1. QED
        BY <1>2, <2>1
    <3>2. QED
      BY <3>1
  <2> DEFINE H == [s \in SUBSET (1 .. N + 1) |->
                     IF N + 1 \in s THEN G[N + 1][F[s \ {N + 1}]] ELSE F[s]]
  <2>3. \A s \in SUBSET (1 .. N + 1) : s \ {N + 1} \in SUBSET (1 .. N)
    <3>1. (1 .. N + 1) \ {N + 1} = 1 .. N
      OBVIOUS
    <3>2. QED
      BY <3>1
  <2>4. \A s \in SUBSET (1 .. N + 1) : N + 1 \notin s => s \in SUBSET (1 .. N)
    OBVIOUS
  <2>5. H \in [SUBSET (1 .. N + 1) -> A]
    <3>1. N + 1 \in 1 .. M
      BY <2>1
    <3>2. QED
      BY <2>2, <2>3, <2>4, <3>1
  <2>6. \A s \in SUBSET (1 .. N + 1) :
           H[s] = IF N + 1 \in s THEN G[N + 1][F[s \ {N + 1}]] ELSE F[s]
    OBVIOUS
  <2>7. \A s \in SUBSET (1 .. N) : F[s] = IF s = {} THEN base ELSE G[Max(s)][F[s \ {Max(s)}]]
    BY <2>2 DEF FoldBody
  <2>8. ASSUME NEW s \in SUBSET (1 .. N + 1)
        PROVE  H[s] = IF s = {} THEN base ELSE G[Max(s)][H[s \ {Max(s)}]]
    <3> HIDE DEF H
    <3>1. CASE N + 1 \in s
      <4>1. Max(s) = N + 1
        BY <3>1, MaxIsLast
      <4>2. s \ {N + 1} \in SUBSET (1 .. N + 1) /\ N + 1 \notin s \ {N + 1}
        OBVIOUS
      <4>3. H[s \ {N + 1}] = F[s \ {N + 1}]
        BY <2>6, <4>2
      <4>4. H[s] = G[N + 1][F[s \ {N + 1}]]
        BY <2>6, <3>1
      <4>5. QED
        BY <3>1, <4>1, <4>3, <4>4
    <3>2. CASE N + 1 \notin s
      <4>1. s \in SUBSET (1 .. N) /\ H[s] = F[s]
        BY <2>4, <2>6, <3>2
      <4>2. s \ {Max(s)} \in SUBSET (1 .. N + 1) /\ N + 1 \notin s \ {Max(s)}
        BY <3>2
      <4>3. H[s \ {Max(s)}] = F[s \ {Max(s)}]
        BY <2>6, <4>2
      <4>4. QED
        BY <2>7, <4>1, <4>3
    <3>3. QED
      BY <3>1, <3>2
  <2>9. H = FoldBody(H, G, base, N + 1)
    <3>1. H = [s \in SUBSET (1 .. N + 1) |-> H[s]]
      OBVIOUS
    <3> HIDE DEF H
    <3>2. QED
      BY <2>8, <3>1 DEF FoldBody
  <2>10. QED
    BY <2>5, <2>9
<1>3. \A N \in Nat : N \in P
  <2> HIDE DEF P
  <2>1. QED
    BY <1>1, <1>2, Induct
<1>4. Q(M)
  <2> HIDE DEF Q
  <2>1. QED
    BY <1>3
<1>5. QED
  BY <1>4 DEF HasFold

(* The last position of a prefix, and the prefix without it.                  *)
LEMMA PrefixPositions ==
  ASSUME NEW M \in Nat, NEW n \in 0 .. M - 1
  PROVE  /\ 1 .. n + 1 \in SUBSET (1 .. M) /\ 1 .. n + 1 # {}
         /\ Max(1 .. n + 1) = n + 1
         /\ (1 .. n + 1) \ {n + 1} = 1 .. n
<1>1. 1 .. n + 1 \in SUBSET (1 .. n + 1) /\ n + 1 \in 1 .. n + 1 /\ n \in Nat
  OBVIOUS
<1>2. Max(1 .. n + 1) = n + 1
  BY <1>1, MaxIsLast
<1>3. 1 .. n + 1 \in SUBSET (1 .. M)
  OBVIOUS
<1>4. (1 .. n + 1) \ {n + 1} = 1 .. n
  OBVIOUS
<1>5. QED
  BY <1>1, <1>2, <1>3, <1>4, Zenon

-----------------------------------------------------------------------------
(* What stands before the last element of a sequence.                         *)
LEMMA FrontIs ==
  ASSUME NEW S, NEW q \in Seq(S), q # <<>>
  PROVE  /\ Front(q) \in Seq(S) /\ Len(q) \in Nat \ {0} /\ Len(Front(q)) = Len(q) - 1
         /\ \A i \in 1 .. Len(q) - 1 : Front(q)[i] = q[i]
<1>1. Len(q) \in Nat \ {0} /\ Len(q) - 1 \in 0 .. Len(q) /\ \A i \in 1 .. Len(q) - 1 : q[i] \in S
  OBVIOUS
<1>2. Front(q) = SubSeq(q, 1, Len(q) - 1)
  BY DEF Front
<1> DEFINE n == Len(q) - 1
<1>3. n \in Nat /\ n <= Len(q)
  BY <1>1
<1> HIDE DEF n
<1>4. SubSeq(q, 1, n) \in Seq(S) /\ Len(SubSeq(q, 1, n)) = n
  BY <1>3
<1>5. \A i \in 1 .. n : SubSeq(q, 1, n)[i] = q[i]
  BY <1>3
<1>6. QED
  BY <1>1, <1>2, <1>4, <1>5, Zenon DEF n
=============================================================================
