--------------------------- MODULE BootMemoryProofs ---------------------------
(***************************************************************************)
(* Proofs about BootMemory: for every size of physical memory, every shape *)
(* of the firmware's memory map and every kernel file, the frames that the *)
(* allocator hands out are pairwise different, conventional and no part of *)
(* the loaded kernel.                                                      *)
(***************************************************************************)
EXTENDS BootMemory, Induction

Regions == [start : Frames, end : 1 .. FRAMES, type : RegionTypes]
Span(r) == r.start .. r.end - 1

-----------------------------------------------------------------------------
(* The frames of the usable regions.                                         *)

(* The frames of the first n regions, for every n: UsableFrames step by step. *)
Accumulates(f, rs) ==
  /\ f \in [0 .. Len(rs) -> Seq(Nat)]
  /\ f[0] = <<>>
  /\ \A n \in 0 .. Len(rs) - 1 : f[n + 1] = AddFrames(f[n], rs[n + 1])

LEMMA FramesOfType ==
  ASSUME NEW r, r.start \in Nat, r.end \in Nat, r.start < r.end
  PROVE  FramesOf(r) \in Seq(Nat) /\ Len(FramesOf(r)) = r.end - r.start
<1>1. r.end - r.start \in Nat
  OBVIOUS
<1>2. QED
  BY <1>1 DEF FramesOf

LEMMA UsableFramesFold ==
  ASSUME NEW rs, rs \in Seq(Regions), \A i \in 1 .. Len(rs) : rs[i].start < rs[i].end
  PROVE  \E f : Accumulates(f, rs) /\ UsableFrames(rs) = f[Len(rs)]
<1> DEFINE M == Len(rs)
           A == Seq(Nat)
           G == [i \in 1 .. M |-> [a \in A |-> AddFrames(a, rs[i])]]
<1>1. M \in Nat /\ DOMAIN rs = 1 .. M /\ <<>> \in A
  OBVIOUS
<1>2. ASSUME NEW i \in 1 .. M, NEW a \in A PROVE G[i][a] = AddFrames(a, rs[i]) /\ G[i][a] \in A
  <2>1. rs[i] \in Regions /\ rs[i].start < rs[i].end
    OBVIOUS
  <2>2. rs[i].start \in Nat /\ rs[i].end \in Nat
    BY <2>1 DEF Regions, Frames
  <2>3. FramesOf(rs[i]) \in A
    BY <2>1, <2>2, FramesOfType
  <2>4. QED
    BY <2>3 DEF AddFrames
<1> DEFINE Body(F) == [s \in SUBSET (DOMAIN rs) |->
                         IF s = {} THEN <<>> ELSE AddFrames(F[s \ {Max(s)}], rs[Max(s)])]
<1>3. UsableFrames(rs) = (CHOOSE F : F = Body(F))[DOMAIN rs]
  BY DEF UsableFrames, FoldLeft, MapThenFoldSet
<1>4. \E F : F = Body(F)
  <2>1. PICK F \in [SUBSET (1 .. M) -> A] : F = FoldBody(F, G, <<>>, M)
    <3>1. M \in Nat /\ <<>> \in A /\ StaysIn(A, G, M)
      BY <1>1, <1>2, Zenon DEF StaysIn
    <3> HIDE DEF G, M, A
    <3>2. HasFold(A, G, <<>>, M)
      BY <3>1, FoldExists
    <3>3. QED
      BY <3>2 DEF HasFold
  <2>2. ASSUME NEW s \in SUBSET (1 .. M), s # {}
        PROVE  G[Max(s)][F[s \ {Max(s)}]] = AddFrames(F[s \ {Max(s)}], rs[Max(s)])
    <3>1. Max(s) \in 1 .. M /\ s \ {Max(s)} \in SUBSET (1 .. M)
      BY <1>1, <2>2, MaxOfPositions
    <3>2. F[s \ {Max(s)}] \in A
      BY <3>1
    <3> HIDE DEF G, M, A
    <3>3. QED
      BY <1>2, <3>1, <3>2
  <2>3. F = Body(F)
    <3> HIDE DEF G, M, A
    <3>1. QED
      BY <1>1, <2>1, <2>2 DEF FoldBody
  <2>4. QED
    BY <2>3
<1> DEFINE F == CHOOSE F : F = Body(F)
           f == [n \in 0 .. M |-> F[1 .. n]]
<1>5. F = Body(F)
  BY <1>4
<1>6. \A s \in SUBSET (1 .. M) :
         F[s] = IF s = {} THEN <<>> ELSE AddFrames(F[s \ {Max(s)}], rs[Max(s)])
  <2> HIDE DEF F
  <2>1. QED
    BY <1>1, <1>5
<1>7. f[0] = <<>> /\ UsableFrames(rs) = f[M]
  <2>1. 1 .. 0 = {} /\ {} \in SUBSET (1 .. M)
    OBVIOUS
  <2>2. UsableFrames(rs) = F[1 .. M] /\ M \in 0 .. M /\ 0 \in 0 .. M
    BY <1>1, <1>3
  <2> HIDE DEF F
  <2>3. F[1 .. 0] = <<>>
    BY <1>6, <2>1
  <2>4. QED
    BY <2>2, <2>3
<1>8. ASSUME NEW n \in 0 .. M - 1 PROVE f[n + 1] = AddFrames(f[n], rs[n + 1])
  <2>1. /\ 1 .. n + 1 \in SUBSET (1 .. M) /\ 1 .. n + 1 # {}
        /\ Max(1 .. n + 1) = n + 1
        /\ (1 .. n + 1) \ {n + 1} = 1 .. n
    BY <1>1, PrefixPositions
  <2> HIDE DEF F
  <2>2. F[1 .. n + 1] = AddFrames(F[1 .. n], rs[n + 1])
    BY <1>6, <2>1
  <2>3. QED
    BY <1>1, <2>2
<1>9. \A n \in 0 .. M : f[n] \in A
  <2> DEFINE P == {n \in Nat : n <= M => f[n] \in A}
  <2> HIDE DEF f, G, A
  <2>1. 0 \in P
    BY <1>1, <1>7
  <2>2. ASSUME NEW n \in Nat, n \in P PROVE n + 1 \in P
    <3>1. SUFFICES ASSUME n + 1 <= M PROVE f[n + 1] \in A
      OBVIOUS
    <3>2. n \in 0 .. M - 1 /\ f[n] \in A /\ n + 1 \in 1 .. M
      BY <1>1, <2>2, <3>1
    <3>3. QED
      BY <1>2, <1>8, <3>2
  <2>3. \A n \in Nat : n \in P
    <3> HIDE DEF P
    <3>1. QED
      BY <2>1, <2>2, Induct
  <2>4. QED
    BY <1>1, <2>3
<1>10. Accumulates(f, rs)
  <2>1. f \in [0 .. M -> A]
    <3>1. f = [n \in 0 .. M |-> f[n]]
      OBVIOUS
    <3> HIDE DEF f, A
    <3>2. QED
      BY <1>9, <3>1
  <2> HIDE DEF f
  <2>2. QED
    BY <2>1, <1>7, <1>8 DEF Accumulates
<1>11. QED
  BY <1>7, <1>10

MapOK(rs) ==
  /\ rs \in Seq(Regions)
  /\ \A i \in 1 .. Len(rs) : rs[i].start < rs[i].end
  /\ \A i, j \in 1 .. Len(rs) : i # j => \A x \in Span(rs[i]) : x \notin Span(rs[j])

(* fs lists the frames of the usable ones among the first n regions, each of  *)
(* them once.                                                                 *)
OnlyUsable(fs, rs, n) ==
  \A k \in 1 .. Len(fs) : \E i \in 1 .. n : rs[i].type = "Usable" /\ fs[k] \in Span(rs[i])
AllUsable(fs, rs, n) ==
  \A i \in 1 .. n : rs[i].type = "Usable" => \A x \in Span(rs[i]) : \E k \in 1 .. Len(fs) : fs[k] = x
Once(fs) == \A k, l \in 1 .. Len(fs) : k # l => fs[k] # fs[l]
Lists(fs, rs, n) == OnlyUsable(fs, rs, n) /\ AllUsable(fs, rs, n) /\ Once(fs)

(* With the regions by address, frame 0 can only be the first.               *)
ByAddress(rs)   == \A i, j \in DOMAIN rs : i < j => rs[i].start < rs[j].start
ZeroFirst(fs)   == \A k \in 1 .. Len(fs) : k > 1 => fs[k] > 0

(* Numbers s to e - 1 at the positions after L.                               *)
LEMMA ShiftedPositions ==
  ASSUME NEW L \in Nat, NEW s \in Nat, NEW e \in Nat, s < e
  PROVE  LET H == L + (e - s)
         IN  /\ H \in Nat /\ \A k \in 1 .. L : k \in 1 .. H
             /\ \A k \in 1 .. H : k \in 1 .. L \/ k \in L + 1 .. H
             /\ \A k \in L + 1 .. H : /\ k - L \in 1 .. e - s
                                        /\ k \in 1 .. H
                                        /\ s + (k - L) - 1 \in s .. e - 1
             /\ \A k, l \in L + 1 .. H : k # l => s + (k - L) - 1 # s + (l - L) - 1
             /\ \A x \in s .. e - 1 : \E k \in L + 1 .. H : s + (k - L) - 1 = x
<1>1. \A x \in s .. e - 1 : /\ L + (x - s) + 1 \in L + 1 .. L + (e - s)
                             /\ s + ((L + (x - s) + 1) - L) - 1 = x
  OBVIOUS
<1>2. \A x \in s .. e - 1 : \E k \in L + 1 .. L + (e - s) : s + (k - L) - 1 = x
  BY <1>1
<1>3. QED
  BY <1>2

(* What AddFrames appends.                                                   *)
LEMMA Appended ==
  ASSUME NEW fs \in Seq(Nat), NEW r \in Regions, r.start < r.end, r.type = "Usable"
  PROVE  LET gs == AddFrames(fs, r)
         IN  /\ gs \in Seq(Nat) /\ Len(gs) = Len(fs) + (r.end - r.start)
             /\ r.start \in Nat /\ r.end \in Nat
             /\ \A k \in 1 .. Len(fs) : gs[k] = fs[k]
             /\ \A k \in Len(fs) + 1 .. Len(gs) : gs[k] = r.start + (k - Len(fs)) - 1
<1>1. r.start \in Nat /\ r.end \in Nat
  BY DEF Regions, Frames
<1>2. FramesOf(r) \in Seq(Nat) /\ Len(FramesOf(r)) = r.end - r.start
  BY <1>1, FramesOfType
<1>3. \A i \in 1 .. r.end - r.start : FramesOf(r)[i] = r.start + i - 1
  BY DEF FramesOf
<1>4. AddFrames(fs, r) = fs \o FramesOf(r)
  BY DEF AddFrames
<1> DEFINE g == FramesOf(r)
<1> HIDE DEF g
<1>5. g \in Seq(Nat) /\ Len(g) = r.end - r.start
  BY <1>2 DEF g
<1>6. /\ fs \o g \in Seq(Nat) /\ Len(fs \o g) = Len(fs) + (r.end - r.start)
      /\ \A k \in 1 .. Len(fs) : (fs \o g)[k] = fs[k]
  BY <1>5
<1>7. ASSUME NEW k \in Len(fs) + 1 .. Len(fs) + (r.end - r.start)
      PROVE  (fs \o g)[k] = r.start + (k - Len(fs)) - 1
  <2>1. k - Len(fs) \in 1 .. r.end - r.start
    BY <1>1
  <2>2. (fs \o g)[k] = g[k - Len(fs)]
    BY <1>1, <1>5
  <2>3. QED
    BY <1>3, <2>1, <2>2 DEF g
<1>8. QED
  BY <1>1, <1>4, <1>6, <1>7 DEF g

LEMMA ListsStep ==
  ASSUME NEW rs, MapOK(rs), NEW n \in 0 .. Len(rs) - 1,
         NEW fs \in Seq(Nat), Lists(fs, rs, n)
  PROVE  Lists(AddFrames(fs, rs[n + 1]), rs, n + 1)
<1> DEFINE r == rs[n + 1]
           gs == AddFrames(fs, r)
<1>1. r \in Regions /\ r.start < r.end /\ n \in Nat /\ Len(rs) \in Nat
  BY DEF MapOK
<1>2. CASE r.type # "Usable"
  <2>1. gs = fs
    BY <1>2 DEF AddFrames
  <2>2. \A i \in 1 .. n + 1 : i \in 1 .. n \/ i = n + 1
    BY <1>1
  <2>3. AllUsable(fs, rs, n + 1)
    BY <1>2, <2>2 DEF Lists, AllUsable
  <2>4. OnlyUsable(fs, rs, n + 1)
    <3>1. \A i \in 1 .. n : i \in 1 .. n + 1
      BY <1>1
    <3>2. QED
      BY <3>1, Zenon DEF Lists, OnlyUsable
  <2>5. QED
    BY <2>1, <2>3, <2>4 DEF Lists
<1>3. CASE r.type = "Usable"
  <2>1. /\ gs \in Seq(Nat) /\ Len(gs) = Len(fs) + (r.end - r.start)
        /\ r.start \in Nat /\ r.end \in Nat
        /\ \A k \in 1 .. Len(fs) : gs[k] = fs[k]
        /\ \A k \in Len(fs) + 1 .. Len(gs) : gs[k] = r.start + (k - Len(fs)) - 1
    <3> HIDE DEF r
    <3>1. QED
      BY <1>1, <1>3, Appended
  <2> HIDE DEF gs
  <2> DEFINE L == Len(fs)
             H == L + (r.end - r.start)
  <2>2. L \in Nat
    OBVIOUS
  <2> HIDE DEF r, L
  <2>2a. /\ Len(gs) = H /\ \A k \in 1 .. L : k \in 1 .. H
         /\ \A k \in 1 .. H : k \in 1 .. L \/ k \in L + 1 .. H
         /\ \A k \in L + 1 .. H : /\ k \in 1 .. H
                                    /\ r.start + (k - L) - 1 \in r.start .. r.end - 1
         /\ \A k, l \in L + 1 .. H : k # l => r.start + (k - L) - 1 # r.start + (l - L) - 1
         /\ \A x \in r.start .. r.end - 1 : \E k \in L + 1 .. H : r.start + (k - L) - 1 = x
    <3>1. Len(gs) = H
      BY <2>1 DEF L
    <3>2. r.start \in Nat /\ r.end \in Nat /\ r.start < r.end
      BY <1>1, <2>1
    <3> DEFINE s == r.start
               e == r.end
    <3> HIDE DEF s, e
    <3>3. s \in Nat /\ e \in Nat /\ s < e /\ H = L + (e - s)
      BY <3>2 DEF s, e
    <3> DEFINE K == L + (e - s)
    <3>4. /\ \A k \in 1 .. L : k \in 1 .. K
          /\ \A k \in 1 .. K : k \in 1 .. L \/ k \in L + 1 .. K
          /\ \A k \in L + 1 .. K : /\ k \in 1 .. K
                                     /\ s + (k - L) - 1 \in s .. e - 1
          /\ \A k, l \in L + 1 .. K : k # l => s + (k - L) - 1 # s + (l - L) - 1
          /\ \A x \in s .. e - 1 : \E k \in L + 1 .. K : s + (k - L) - 1 = x
      BY <2>2, <3>3, ShiftedPositions
    <3>5. H = K
      BY <3>3
    <3> HIDE DEF H, K
    <3>6. QED
      BY <3>1, <3>4, <3>5, Zenon DEF s, e
  <2> HIDE DEF H
  <2>2b. \A k \in L + 1 .. H : gs[k] = r.start + (k - L) - 1
    <3>1. \A k \in L + 1 .. Len(gs) : gs[k] = r.start + (k - L) - 1
      BY <2>1, Zenon DEF L
    <3>2. QED
      BY <2>2a, <3>1, Zenon
  <2>2c. \A k \in 1 .. L : gs[k] = fs[k]
    BY <2>1 DEF L
  <2>3. \A k \in L + 1 .. H : gs[k] \in Span(r)
    BY <2>2a, <2>2b DEF Span
  <2>5. \A i \in 1 .. n : i \in 1 .. n + 1 /\ i \in 1 .. Len(rs) /\ i # n + 1
    BY <1>1
  <2>5a. n + 1 \in 1 .. n + 1 /\ n + 1 \in 1 .. Len(rs)
    BY <1>1
  <2>6. OnlyUsable(gs, rs, n + 1)
    <3>1. SUFFICES ASSUME NEW k \in 1 .. H
                   PROVE  \E i \in 1 .. n + 1 : rs[i].type = "Usable" /\ gs[k] \in Span(rs[i])
      BY <2>2a DEF OnlyUsable
    <3>2. CASE k \in 1 .. L
      <4>1. PICK i \in 1 .. n : rs[i].type = "Usable" /\ fs[k] \in Span(rs[i])
        BY <3>2 DEF Lists, OnlyUsable, L
      <4>2. QED
        BY <2>2c, <2>5, <3>2, <4>1
    <3>3. CASE k \in L + 1 .. H
      BY <1>3, <2>3, <2>5a, <3>3 DEF r
    <3>4. QED
      BY <2>2a, <3>2, <3>3
  <2>7. AllUsable(gs, rs, n + 1)
    <3>1. SUFFICES ASSUME NEW i \in 1 .. n + 1, rs[i].type = "Usable", NEW x \in Span(rs[i])
                   PROVE  \E k \in 1 .. H : gs[k] = x
      BY <2>2a DEF AllUsable
    <3>2. CASE i \in 1 .. n
      <4>1. PICK k \in 1 .. L : fs[k] = x
        BY <3>1, <3>2 DEF Lists, AllUsable, L
      <4>2. QED
        BY <2>2a, <2>2c, <4>1
    <3>3. CASE i = n + 1
      <4>1. x \in r.start .. r.end - 1
        BY <3>3 DEF Span, r
      <4>2. PICK k \in L + 1 .. H : r.start + (k - L) - 1 = x
        BY <2>2a, <4>1
      <4>3. QED
        BY <2>2a, <2>2b, <4>2
    <3>4. QED
      BY <1>1, <3>2, <3>3
  <2>8. Once(gs)
    <3>1. \A k \in 1 .. L, l \in L + 1 .. H : gs[k] # gs[l]
      <4>1. SUFFICES ASSUME NEW k \in 1 .. L, NEW l \in L + 1 .. H,
                            gs[k] = gs[l]
                     PROVE  FALSE
        OBVIOUS
      <4>2. PICK i \in 1 .. n : fs[k] \in Span(rs[i])
        BY DEF Lists, OnlyUsable, L
      <4>3. gs[k] \in Span(rs[i]) /\ gs[k] \in Span(rs[n + 1])
        BY <2>2c, <2>3, <4>1, <4>2 DEF r
      <4>4. QED
        BY <2>5, <2>5a, <4>3 DEF MapOK
    <3>2. \A k, l \in 1 .. L : k # l => gs[k] # gs[l]
      BY <2>2c DEF Lists, Once, L
    <3>3. \A k, l \in L + 1 .. H : k # l => gs[k] # gs[l]
      BY <2>2a, <2>2b
    <3>4. QED
      BY <2>2a, <3>1, <3>2, <3>3 DEF Once
  <2>9. QED
    BY <2>6, <2>7, <2>8 DEF Lists, gs, r
<1>4. QED
  BY <1>2, <1>3

LEMMA ZeroFirstStep ==
  ASSUME NEW rs, MapOK(rs), ByAddress(rs), NEW n \in 0 .. Len(rs) - 1,
         NEW fs \in Seq(Nat), n = 0 => fs = <<>>, ZeroFirst(fs)
  PROVE  ZeroFirst(AddFrames(fs, rs[n + 1]))
<1> DEFINE r == rs[n + 1]
           gs == AddFrames(fs, r)
<1>1. r \in Regions /\ r.start < r.end /\ n \in Nat /\ Len(rs) \in Nat /\ DOMAIN rs = 1 .. Len(rs)
  BY DEF MapOK
<1>2. CASE r.type # "Usable"
  BY <1>2 DEF AddFrames
<1>3. CASE r.type = "Usable"
  <2>1. /\ gs \in Seq(Nat) /\ Len(gs) = Len(fs) + (r.end - r.start)
        /\ r.start \in Nat /\ r.end \in Nat
        /\ \A k \in 1 .. Len(fs) : gs[k] = fs[k]
        /\ \A k \in Len(fs) + 1 .. Len(gs) : gs[k] = r.start + (k - Len(fs)) - 1
    <3> HIDE DEF r
    <3>1. QED
      BY <1>1, <1>3, Appended
  <2>2. Len(fs) \in Nat /\ Len(gs) \in Nat
    BY <2>1
  <2>3. n > 0 => r.start > 0
    <3>1. SUFFICES ASSUME n > 0 PROVE r.start > 0
      OBVIOUS
    <3>2. 1 \in DOMAIN rs /\ n + 1 \in DOMAIN rs /\ 1 < n + 1 /\ rs[1] \in Regions
      BY <1>1, <3>1 DEF MapOK
    <3>3. rs[1].start \in Nat
      BY <3>2 DEF Regions, Frames
    <3>4. rs[1].start < rs[n + 1].start
      BY <3>2 DEF ByAddress
    <3>5. QED
      BY <2>1, <3>3, <3>4
  <2>4. n = 0 => Len(fs) = 0
    OBVIOUS
  <2> HIDE DEF gs, r
  <2>5. ASSUME NEW k \in 1 .. Len(gs), k > 1 PROVE gs[k] > 0
    <3>1. CASE k \in 1 .. Len(fs)
      BY <2>1, <2>5, <3>1 DEF ZeroFirst
    <3>2. CASE k \in Len(fs) + 1 .. Len(gs)
      BY <1>1, <2>1, <2>2, <2>3, <2>4, <2>5, <3>2
    <3>3. QED
      BY <2>2, <3>1, <3>2
  <2>6. QED
    BY <2>5 DEF ZeroFirst, gs, r
<1>4. QED
  BY <1>2, <1>3

(* The frames of the memory map: those of its usable regions, each once.     *)
LEMMA UsableFramesList ==
  ASSUME NEW rs, MapOK(rs)
  PROVE  /\ UsableFrames(rs) \in Seq(Nat)
         /\ Lists(UsableFrames(rs), rs, Len(rs))
         /\ ByAddress(rs) => ZeroFirst(UsableFrames(rs))
<1> DEFINE M == Len(rs)
<1>1. PICK f : Accumulates(f, rs) /\ UsableFrames(rs) = f[M]
  BY UsableFramesFold DEF MapOK
<1>2. M \in Nat
  BY DEF MapOK
<1> DEFINE Q(n) == /\ Lists(f[n], rs, n)
                   /\ n = 0 => f[n] = <<>>
                   /\ ByAddress(rs) => ZeroFirst(f[n])
           P == {n \in Nat : n <= M => Q(n)}
<1>3. 0 \in P
  <2>1. f[0] = <<>> /\ Len(<<>>) = 0
    BY <1>1 DEF Accumulates
  <2>2. Q(0)
    BY <2>1 DEF Lists, OnlyUsable, AllUsable, Once, ZeroFirst
  <2> HIDE DEF Q
  <2>3. QED
    BY <2>2
<1>4. ASSUME NEW n \in Nat, n \in P PROVE n + 1 \in P
  <2> HIDE DEF Q
  <2>1. SUFFICES ASSUME n + 1 <= M PROVE Q(n + 1)
    OBVIOUS
  <2>2. n \in 0 .. M - 1 /\ Q(n) /\ n + 1 # 0
    BY <1>2, <1>4, <2>1
  <2> USE DEF Q
  <2>3. f[n] \in Seq(Nat) /\ f[n + 1] = AddFrames(f[n], rs[n + 1])
    BY <1>1, <1>2, <2>2 DEF Accumulates
  <2> HIDE DEF P
  <2>4. Lists(f[n + 1], rs, n + 1)
    BY <2>2, <2>3, ListsStep
  <2>5. ByAddress(rs) => ZeroFirst(f[n + 1])
    BY <2>2, <2>3, ZeroFirstStep
  <2>6. QED
    BY <2>2, <2>4, <2>5
<1>5. \A n \in Nat : n \in P
  <2> HIDE DEF P
  <2>1. QED
    BY <1>3, <1>4, Induct
<1>6. UsableFrames(rs) \in Seq(Nat)
  BY <1>1, <1>2 DEF Accumulates
<1>7. Q(M)
  <2> HIDE DEF Q
  <2>1. QED
    BY <1>2, <1>5
<1>8. QED
  BY <1>1, <1>6, <1>7

-----------------------------------------------------------------------------
(* The inductive invariant.                                                  *)

Booting == pc \in {"copy", "heap", "running", "panicked"}

(* Before the kernel is in memory, nothing has been copied or handed out.    *)
NothingYet ==
  pc \in {"open", "load", "refused"} =>
    unread = {} /\ regions = <<>> /\ next = 0 /\ heap = <<>> /\ tables = <<>>

StateTyped ==
  /\ usage \in [Frames -> Uses]
  /\ elf \in Elfs
  /\ pc \in {"open", "load", "refused", "copy", "heap", "running", "panicked"}

(* The pages of the kernel are claimed.                                      *)
KernelClaimed ==
  Booting => /\ ~ NoLoadSegments
             /\ \A f \in ClaimedPages : f \in Frames /\ usage[f] = "loader"

(* A region is a descriptor of the final memory map that was read: it is     *)
(* usable if its frames are conventional memory.                             *)
FromDescriptor(r, use, left) ==
  \E d \in Descriptors(use) \ left :
     /\ r.start = d.start /\ r.end = d.end
     /\ r.type = IF d.type = "conventional" THEN "Usable" ELSE "Reserved"

MapCopied ==
  /\ unread \subseteq Descriptors(usage)
  /\ MapOK(regions) /\ Len(regions) <= MAX_REGIONS
  /\ \A i \in 1 .. Len(regions) : FromDescriptor(regions[i], usage, unread)

(* What was handed out, by its position among the usable frames: the frame   *)
(* of the first page, those of the tables, those of the other pages.         *)
Taken == Len(heap) + Len(tables)

FramesTaken ==
  /\ heap \in Seq(Nat) /\ Len(heap) <= HEAP_PAGES
  /\ tables \in Seq(Nat) /\ Len(tables) <= TABLES
  /\ Len(heap) = 0 => Len(tables) = 0
  /\ Len(heap) > 1 => Len(tables) = TABLES
  /\ Taken <= Len(UsableFrames(regions))
  /\ next = IF pc = "panicked" THEN Taken + 1 ELSE Taken
  /\ \A k \in 1 .. Len(heap) : heap[k] = UsableFrames(regions)[IF k = 1 THEN 1 ELSE k + TABLES]
  /\ \A k \in 1 .. Len(tables) : tables[k] = UsableFrames(regions)[k + 1]
  /\ pc = "copy" => heap = <<>> /\ tables = <<>>
  /\ pc = "panicked" => Taken = Len(UsableFrames(regions)) /\ Taken < HEAP_PAGES + TABLES

BootInv == NothingYet /\ StateTyped /\ KernelClaimed /\ MapCopied /\ FramesTaken

-----------------------------------------------------------------------------
(* Every step keeps it.                                                      *)

(* Descriptors are as long as they can be, so two of them share no frame.    *)
LEMMA DescriptorsApart ==
  ASSUME NEW use, NEW d \in Descriptors(use), NEW e \in Descriptors(use),
         NEW x \in Span(d), x \in Span(e)
  PROVE  d = e
<1>1. /\ FRAMES \in Nat
      /\ d \in [start : Frames, end : 1 .. FRAMES, type : Uses]
      /\ e \in [start : Frames, end : 1 .. FRAMES, type : Uses]
  BY BootAssumption DEF Descriptors, BootAssumption
<1>2. /\ d.start \in Nat /\ d.end \in Nat /\ e.start \in Nat /\ e.end \in Nat
      /\ d.end <= FRAMES /\ e.end <= FRAMES
  BY <1>1 DEF Frames
<1>3. /\ d.start < d.end /\ e.start < e.end
      /\ \A f \in d.start .. d.end - 1 : use[f] = d.type
      /\ \A f \in e.start .. e.end - 1 : use[f] = e.type
      /\ (d.start > 0 => use[d.start - 1] # d.type) /\ (e.start > 0 => use[e.start - 1] # e.type)
      /\ (d.end < FRAMES => use[d.end] # d.type) /\ (e.end < FRAMES => use[e.end] # e.type)
  BY DEF Descriptors
<1>4. d.type = e.type /\ x \in d.start .. d.end - 1 /\ x \in e.start .. e.end - 1
  BY <1>3 DEF Span
<1> DEFINE a == d.start
           b == d.end
           s == e.start
           u == e.end
<1>5. /\ a \in Nat /\ b \in Nat /\ s \in Nat /\ u \in Nat /\ b <= FRAMES /\ u <= FRAMES
      /\ x \in a .. b - 1 /\ x \in s .. u - 1
      /\ \A f \in a .. b - 1 : use[f] = d.type
      /\ \A f \in s .. u - 1 : use[f] = d.type
      /\ (a > 0 => use[a - 1] # d.type) /\ (s > 0 => use[s - 1] # d.type)
      /\ (b < FRAMES => use[b] # d.type) /\ (u < FRAMES => use[u] # d.type)
  BY <1>2, <1>3, <1>4
<1> HIDE DEF a, b, s, u
<1>6. a = s
  <2>1. ~ (a < s)
    BY <1>5
  <2>2. ~ (s < a)
    BY <1>5
  <2>3. QED
    BY <1>5, <2>1, <2>2
<1>7. b = u
  <2>1. ~ (b < u)
    BY <1>1, <1>5
  <2>2. ~ (u < b)
    BY <1>1, <1>5
  <2>3. QED
    BY <1>5, <2>1, <2>2
<1>8. QED
  BY <1>1, <1>4, <1>6, <1>7 DEF a, b, s, u

LEMMA SameKernel ==
  ASSUME elf' = elf
  PROVE  /\ ClaimedPages' = ClaimedPages /\ NoLoadSegments' = NoLoadSegments
         /\ Occupied' = Occupied
BY DEF ClaimedPages, NoLoadSegments, PageAfter, load_min, load_max, LoadSegments, Occupied, Bytes

(* A copied descriptor is a region apart from all the others.                *)
LEMMA MapGrows ==
  ASSUME MapCopied, NEW d \in unread
  PROVE  LET r == Region(d.start, d.end, IF d.type = "conventional" THEN "Usable" ELSE "Reserved")
             map == AddRegion(regions, r)
         IN  /\ MapOK(map) /\ Len(map) <= MAX_REGIONS
             /\ \A i \in 1 .. Len(map) : FromDescriptor(map[i], usage, unread \ {d})
<1> DEFINE r == Region(d.start, d.end, IF d.type = "conventional" THEN "Usable" ELSE "Reserved")
           map == AddRegion(regions, r)
           N == Len(regions)
<1>1. /\ d \in Descriptors(usage) /\ N \in Nat /\ regions \in Seq(Regions)
      /\ MAX_REGIONS \in Nat /\ N <= MAX_REGIONS
  BY BootAssumption DEF MapCopied, MapOK, BootAssumption
<1>2. /\ r.start = d.start /\ r.end = d.end
      /\ r.type = IF d.type = "conventional" THEN "Usable" ELSE "Reserved"
  BY DEF Region
<1>3. r \in Regions /\ r.start < r.end
  <2>1. d.start \in Frames /\ d.end \in 1 .. FRAMES /\ d.start < d.end
    BY <1>1 DEF Descriptors
  <2>2. QED
    BY <1>2, <2>1 DEF Regions, Region, RegionTypes
<1>4. FromDescriptor(r, usage, unread \ {d})
  BY <1>1, <1>2 DEF FromDescriptor
<1>5. \A i \in 1 .. N : FromDescriptor(regions[i], usage, unread \ {d})
  BY DEF MapCopied, FromDescriptor
<1>6. ASSUME NEW i \in 1 .. N, NEW x \in Span(regions[i]), x \in Span(r) PROVE FALSE
  <2>1. PICK e \in Descriptors(usage) \ unread : regions[i].start = e.start /\ regions[i].end = e.end
    BY DEF MapCopied, FromDescriptor
  <2>2. x \in Span(d) /\ x \in Span(e)
    BY <1>2, <1>6, <2>1 DEF Span
  <2>3. d = e
    BY <1>1, <2>1, <2>2, DescriptorsApart
  <2>4. QED
    BY <2>1, <2>3
<1> HIDE DEF r
<1>7. CASE N < MAX_REGIONS
  <2>1. map = Append(regions, r)
    BY <1>7 DEF AddRegion
  <2>2. /\ map \in Seq(Regions) /\ Len(map) = N + 1 /\ map[N + 1] = r
        /\ \A i \in 1 .. N : map[i] = regions[i]
    BY <1>1, <1>3, <2>1
  <2>3. \A i \in 1 .. Len(map) : i \in 1 .. N \/ i = N + 1
    BY <1>1, <2>2
  <2> HIDE DEF map
  <2>4. \A i \in 1 .. Len(map) : map[i].start < map[i].end
    BY <1>3, <2>2, <2>3 DEF MapCopied, MapOK
  <2>5. \A i \in 1 .. Len(map) : FromDescriptor(map[i], usage, unread \ {d})
    BY <1>4, <1>5, <2>2, <2>3
  <2>6. \A i, j \in 1 .. Len(map) : i # j => \A x \in Span(map[i]) : x \notin Span(map[j])
    <3>1. \A i, j \in 1 .. N : i # j => \A x \in Span(map[i]) : x \notin Span(map[j])
      BY <2>2 DEF MapCopied, MapOK
    <3>2. \A i \in 1 .. N : \A x \in Span(map[i]) : x \notin Span(map[N + 1])
      BY <1>6, <2>2
    <3>3. QED
      BY <2>3, <3>1, <3>2
  <2>7. Len(map) <= MAX_REGIONS
    BY <1>1, <1>7, <2>2
  <2>8. QED
    BY <2>2, <2>4, <2>5, <2>6, <2>7 DEF MapOK, map, r
<1>8. CASE ~ (N < MAX_REGIONS)
  <2>1. map = regions
    BY <1>8 DEF AddRegion
  <2>2. QED
    BY <1>1, <1>5, <2>1 DEF MapCopied, r
<1>9. QED
  BY <1>7, <1>8

(* A frame is taken: the one at the position after those taken before.        *)
LEMMA FrameTaken ==
  ASSUME MapCopied, FramesTaken, pc = "heap", HasFrame
  PROVE  /\ next = Taken /\ Taken \in Nat /\ Taken + 1 <= Len(UsableFrames(regions))
         /\ NextFrame = UsableFrames(regions)[Taken + 1] /\ NextFrame \in Nat
<1>1. UsableFrames(regions) \in Seq(Nat)
  BY UsableFramesList DEF MapCopied
<1>2. next = Taken /\ Taken \in Nat
  BY DEF FramesTaken, Taken
<1>3. Taken + 1 <= Len(UsableFrames(regions)) /\ Taken + 1 \in 1 .. Len(UsableFrames(regions))
  BY <1>1, <1>2 DEF HasFrame
<1>4. QED
  BY <1>1, <1>2, <1>3 DEF NextFrame

LEMMA BootInit == Init => BootInv
<1>1. SUFFICES ASSUME Init PROVE BootInv
  OBVIOUS
<1>2. NothingYet /\ StateTyped /\ KernelClaimed
  BY <1>1 DEF Init, NothingYet, StateTyped, KernelClaimed, Booting, Uses
<1>3. regions = <<>> /\ Len(regions) = 0 /\ unread = {}
  BY <1>1 DEF Init
<1>4. MapOK(regions) /\ MapCopied
  BY <1>1, <1>3, BootAssumption DEF MapOK, MapCopied, BootAssumption
<1>5. UsableFrames(regions) \in Seq(Nat)
  BY <1>4, UsableFramesList
<1>6. FramesTaken
  BY <1>1, <1>5, BootAssumption DEF Init, FramesTaken, Taken, BootAssumption
<1>7. QED
  BY <1>2, <1>4, <1>6 DEF BootInv

LEMMA BootStep == BootInv /\ [Next]_vars => BootInv'
<1> SUFFICES ASSUME BootInv, [Next]_vars PROVE BootInv'
  OBVIOUS
<1>1. UsableFrames(regions) \in Seq(Nat)
  BY UsableFramesList DEF BootInv, MapCopied
<1>2. /\ HEAP_PAGES \in Nat /\ TABLES \in Nat /\ MAX_REGIONS \in Nat /\ HEAP_PAGES > 0
      /\ Len(heap) \in Nat /\ Len(tables) \in Nat /\ Len(UsableFrames(regions)) \in Nat
  BY <1>1, BootAssumption DEF BootInv, FramesTaken, BootAssumption
<1>2a. /\ Len(heap) <= HEAP_PAGES /\ Len(tables) <= TABLES
       /\ (Len(heap) = 0 => Len(tables) = 0) /\ (Len(heap) > 1 => Len(tables) = TABLES)
  BY DEF BootInv, FramesTaken
(* Steps that only move pc.                                                  *)
<1>3. ASSUME UNCHANGED <<usage, elf, unread, regions, next, heap, tables>>,
             \/ pc = "open" /\ pc' \in {"load", "refused"}
             \/ pc = "load" /\ pc' = "refused"
             \/ pc = "copy" /\ pc' = "heap"
             \/ pc = "heap" /\ pc' = "running"
             \/ pc' = pc
      PROVE  BootInv'
  <2>1. NothingYet' /\ StateTyped'
    BY <1>3 DEF BootInv, NothingYet, StateTyped
  <2>2. KernelClaimed'
    BY <1>3, SameKernel DEF BootInv, KernelClaimed, Booting
  <2>3. MapCopied'
    BY <1>3 DEF BootInv, MapCopied
  <2>4. FramesTaken'
    BY <1>3 DEF BootInv, FramesTaken, Taken
  <2>5. QED
    BY <2>1, <2>2, <2>3, <2>4 DEF BootInv
<1>4. CASE LoadKernel
  <2>1. /\ pc = "load" /\ pc' = "copy" /\ CanLoad /\ elf' = elf
        /\ usage' = [f \in Frames |-> IF f \in ClaimedPages THEN "loader" ELSE usage[f]]
        /\ unread' = Descriptors(usage')
        /\ regions' = <<>> /\ heap' = <<>> /\ tables' = <<>> /\ next' = 0
    BY <1>4 DEF LoadKernel, BootInv, NothingYet
  <2>2. NothingYet' /\ StateTyped'
    BY <2>1 DEF BootInv, NothingYet, StateTyped, Uses
  <2>3. KernelClaimed'
    BY <2>1, SameKernel DEF KernelClaimed, CanLoad
  <2>4. MapOK(regions') /\ MapCopied'
    BY <1>2, <2>1 DEF MapCopied, MapOK
  <2>5. UsableFrames(regions') \in Seq(Nat)
    BY <2>4, UsableFramesList
  <2>6. FramesTaken'
    BY <1>2, <2>1, <2>5 DEF FramesTaken, Taken
  <2>7. QED
    BY <2>2, <2>3, <2>4, <2>6 DEF BootInv
<1>5. CASE CopyRegion
  <2>1. PICK d \in unread :
          /\ unread' = unread \ {d}
          /\ regions' = AddRegion(regions,
                          Region(d.start, d.end,
                                 IF d.type = "conventional" THEN "Usable" ELSE "Reserved"))
    BY <1>5 DEF CopyRegion
  <2>2. pc = "copy" /\ UNCHANGED <<usage, elf, next, heap, tables, pc>>
    BY <1>5 DEF CopyRegion
  <2>3. /\ MapOK(regions') /\ Len(regions') <= MAX_REGIONS
        /\ \A i \in 1 .. Len(regions') : FromDescriptor(regions'[i], usage, unread')
    BY <2>1, MapGrows DEF BootInv
  <2>4. MapCopied'
    BY <2>1, <2>2, <2>3 DEF MapCopied, BootInv
  <2>5. UsableFrames(regions') \in Seq(Nat)
    BY <2>3, UsableFramesList
  <2>6. heap = <<>> /\ tables = <<>> /\ next = 0
    BY <2>2 DEF BootInv, FramesTaken, Taken
  <2>7. FramesTaken'
    BY <1>2, <2>2, <2>5, <2>6 DEF FramesTaken, Taken
  <2>8. NothingYet' /\ StateTyped'
    BY <2>2 DEF BootInv, NothingYet, StateTyped
  <2>9. KernelClaimed'
    BY <2>2, SameKernel DEF BootInv, KernelClaimed, Booting
  <2>10. QED
    BY <2>4, <2>7, <2>8, <2>9 DEF BootInv
(* Steps that take a frame, or fail to.                                      *)
<1>6. ASSUME UNCHANGED <<usage, elf, unread, regions>>, pc = "heap", pc' \in {"heap", "panicked"},
             FramesTaken'
      PROVE  BootInv'
  <2>1. NothingYet' /\ StateTyped'
    BY <1>6 DEF BootInv, NothingYet, StateTyped
  <2>2. KernelClaimed'
    BY <1>6, SameKernel DEF BootInv, KernelClaimed, Booting
  <2>3. MapCopied'
    BY <1>6 DEF BootInv, MapCopied
  <2>4. QED
    BY <1>6, <2>1, <2>2, <2>3 DEF BootInv
<1>7. CASE MapPage
  <2>1. /\ pc = "heap" /\ ~ TableMissing /\ Len(heap) < HEAP_PAGES /\ HasFrame
        /\ heap' = Append(heap, NextFrame) /\ next' = next + 1
        /\ UNCHANGED <<usage, elf, unread, regions, tables, pc>>
    BY <1>7 DEF MapPage, Advance
  <2>2. /\ next = Taken /\ Taken \in Nat /\ Taken + 1 <= Len(UsableFrames(regions))
        /\ NextFrame = UsableFrames(regions)[Taken + 1] /\ NextFrame \in Nat
    BY <2>1, FrameTaken DEF BootInv
  <2>3. Taken = Len(heap) + Len(tables) /\ FramesTaken
    BY DEF Taken, BootInv
  <2>4. /\ heap' \in Seq(Nat) /\ Len(heap') = Len(heap) + 1 /\ heap'[Len(heap) + 1] = NextFrame
        /\ \A k \in 1 .. Len(heap) : heap'[k] = heap[k]
    BY <2>1, <2>2, <2>3 DEF FramesTaken
  <2>5. Len(heap) > 0 => Len(tables) = TABLES
    <3> DEFINE h == Len(heap)
               n == Len(tables)
    <3>1. /\ h \in Nat /\ n \in Nat /\ TABLES \in Nat /\ n <= TABLES
          /\ (h > 1 => n = TABLES) /\ ~ (h = 1 /\ n < TABLES)
      BY <1>2, <1>2a, <2>1 DEF TableMissing
    <3> HIDE DEF h, n
    <3>2. h > 0 => n = TABLES
      BY <3>1
    <3>3. QED
      BY <3>2 DEF h, n
  <2>6. Taken + 1 = IF Len(heap) + 1 = 1 THEN 1 ELSE (Len(heap) + 1) + TABLES
    BY <1>2, <1>2a, <2>3, <2>5
  <2>7. ASSUME NEW k \in 1 .. Len(heap')
        PROVE  heap'[k] = UsableFrames(regions)[IF k = 1 THEN 1 ELSE k + TABLES]
    <3>1. CASE k \in 1 .. Len(heap)
      BY <2>3, <2>4, <3>1 DEF FramesTaken
    <3>2. CASE k = Len(heap) + 1
      BY <2>2, <2>4, <2>6, <3>2
    <3>3. QED
      BY <1>2, <2>4, <3>1, <3>2
  <2>8. FramesTaken'
    <3>1. Taken' = Taken + 1
      BY <1>2, <2>1, <2>3, <2>4 DEF Taken
    <3>2. /\ Len(heap') <= HEAP_PAGES /\ Len(heap') # 0
          /\ Len(heap') > 1 => Len(tables) = TABLES
      BY <1>2, <2>1, <2>4, <2>5
    <3>3. Taken + 1 <= Len(UsableFrames(regions)) /\ next' = Taken + 1
      BY <2>1, <2>2
    <3>4. QED
      BY <1>2a, <2>1, <2>3, <2>4, <2>7, <3>1, <3>2, <3>3 DEF FramesTaken
  <2>9. QED
    BY <1>6, <2>1, <2>8
<1>8. CASE CreateTable
  <2>1. /\ pc = "heap" /\ TableMissing /\ HasFrame
        /\ tables' = Append(tables, NextFrame) /\ next' = next + 1
        /\ UNCHANGED <<usage, elf, unread, regions, heap, pc>>
    BY <1>8 DEF CreateTable, Advance
  <2>2. /\ next = Taken /\ Taken \in Nat /\ Taken + 1 <= Len(UsableFrames(regions))
        /\ NextFrame = UsableFrames(regions)[Taken + 1] /\ NextFrame \in Nat
    BY <2>1, FrameTaken DEF BootInv
  <2>3. Taken = Len(heap) + Len(tables) /\ FramesTaken
    BY DEF Taken, BootInv
  <2>4. /\ tables' \in Seq(Nat) /\ Len(tables') = Len(tables) + 1
        /\ tables'[Len(tables) + 1] = NextFrame
        /\ \A k \in 1 .. Len(tables) : tables'[k] = tables[k]
    BY <2>1, <2>2, <2>3 DEF FramesTaken
  <2>5. Len(heap) = 1 /\ Len(tables) < TABLES
    BY <2>1 DEF TableMissing
  <2>6. ASSUME NEW k \in 1 .. Len(tables')
        PROVE  tables'[k] = UsableFrames(regions)[k + 1]
    <3>1. CASE k \in 1 .. Len(tables)
      BY <2>3, <2>4, <3>1 DEF FramesTaken
    <3>2. CASE k = Len(tables) + 1
      <4>1. Taken + 1 = k + 1
        BY <1>2, <2>3, <2>5, <3>2
      <4>2. QED
        BY <2>2, <2>4, <3>2, <4>1
    <3>3. QED
      BY <1>2, <2>4, <3>1, <3>2
  <2>7. FramesTaken'
    <3>1. Taken' = Taken + 1
      BY <1>2, <2>1, <2>3, <2>4 DEF Taken
    <3>2. Len(tables') <= TABLES /\ Len(heap') = 1
      BY <1>2, <2>1, <2>4, <2>5
    <3>3. Taken + 1 <= Len(UsableFrames(regions)) /\ next' = Taken + 1
      BY <2>1, <2>2
    <3>4. QED
      BY <1>2a, <2>1, <2>3, <2>4, <2>6, <3>1, <3>2, <3>3 DEF FramesTaken
  <2>8. QED
    BY <1>6, <2>1, <2>7
<1>9. CASE OutOfFrames
  <2>1. /\ pc = "heap" /\ (TableMissing \/ Len(heap) < HEAP_PAGES) /\ ~ HasFrame
        /\ pc' = "panicked" /\ next' = next + 1
        /\ UNCHANGED <<usage, elf, unread, regions, heap, tables>>
    BY <1>9 DEF OutOfFrames, Advance
  <2>2. FramesTaken /\ Taken = Len(heap) + Len(tables) /\ next = Taken /\ Taken \in Nat
    BY <1>2, <2>1 DEF BootInv, FramesTaken, Taken
  <2>3. Taken = Len(UsableFrames(regions))
    BY <1>2, <2>1, <2>2 DEF HasFrame, FramesTaken
  <2>4. Taken < HEAP_PAGES + TABLES
    BY <1>2, <2>1, <2>2 DEF TableMissing, FramesTaken
  <2>5. FramesTaken'
    BY <1>2, <2>1, <2>2, <2>3, <2>4 DEF FramesTaken, Taken
  <2>6. QED
    BY <1>6, <2>1, <2>5
<1>10. CASE ReadKernel
  BY <1>3, <1>10 DEF ReadKernel
<1>11. CASE LoadFails
  BY <1>3, <1>11 DEF LoadFails
<1>12. CASE EnterKernel
  BY <1>3, <1>12 DEF EnterKernel
<1>13. CASE HeapReady
  BY <1>3, <1>13 DEF HeapReady
<1>14. CASE UNCHANGED vars
  BY <1>3, <1>14 DEF vars
<1>15. QED
  BY <1>4, <1>5, <1>7, <1>8, <1>9, <1>10, <1>11, <1>12, <1>13, <1>14 DEF Next, BootOver

LEMMA BootInvariant == Spec => []BootInv
BY BootInit, BootStep, PTL DEF Spec

-----------------------------------------------------------------------------
(* The pages of the kernel.                                                  *)

LEMMA DivMonotone ==
  ASSUME NEW p \in Nat \ {0}, NEW a \in Nat, NEW b \in Nat, a <= b
  PROVE  a \div p <= b \div p
<1> DEFINE m == a \div p
           n == b \div p
<1>1. m \in Nat /\ n \in Nat /\ p * m <= a /\ b < p * n + p
  OBVIOUS
<1> HIDE DEF m, n
<1>2. SUFFICES ASSUME m > n PROVE FALSE
  BY <1>1 DEF m, n
<1>3. p * m >= p * (n + 1)
  BY <1>1, <1>2
<1>4. p * (n + 1) = p * n + p
  BY <1>1
<1>5. QED
  BY <1>1, <1>3, <1>4

LEMMA DivSuccessor ==
  ASSUME NEW p \in Nat \ {0}, NEW a \in Nat
  PROVE  (a + p) \div p = (a \div p) + 1
OBVIOUS

LEMMA SegmentTyped ==
  ASSUME elf \in Elfs
  PROVE  /\ elf \in Seq(ProgramHeaders) /\ LoadSegments \in SUBSET (1 .. Len(elf))
         /\ \A i \in 1 .. Len(elf) : /\ elf[i].paddr \in Nat /\ elf[i].memsz \in Nat
                                      /\ elf[i].filesz \in Nat
<1>1. elf \in Seq(ProgramHeaders)
  BY BootAssumption DEF BootAssumption
<1>2. \A i \in 1 .. Len(elf) : elf[i] \in ProgramHeaders
  BY <1>1
<1>3. LoadSegments \in SUBSET (1 .. Len(elf))
  BY <1>1 DEF LoadSegments
<1>4. QED
  BY <1>1, <1>2, <1>3 DEF ProgramHeaders

LEMMA KernelPages ==
  ASSUME elf \in Elfs, LoadSegments # {}
  PROVE  /\ load_min \in Nat /\ load_max \in Nat
         /\ \A i \in LoadSegments : load_min <= elf[i].paddr /\ elf[i].paddr + elf[i].memsz <= load_max
<1> DEFINE N == Len(elf)
           D == LoadSegments
           lo == [i \in D |-> elf[i].paddr]
           hi == [i \in D |-> elf[i].paddr + elf[i].memsz]
<1>1. elf \in Seq(ProgramHeaders)
  BY SegmentTyped
<1>2. N \in Nat /\ D \in SUBSET (1 .. N)
  BY <1>1, SegmentTyped
<1>3. \A i \in D : elf[i].paddr \in Nat /\ elf[i].memsz \in Nat
  BY SegmentTyped
<1>4. lo \in [D -> Nat] /\ hi \in [D -> Nat]
  BY <1>3
<1>5. /\ load_min = Min({lo[i] : i \in D}) /\ load_max = Max({hi[i] : i \in D})
      /\ \A i \in D : lo[i] = elf[i].paddr /\ hi[i] = elf[i].paddr + elf[i].memsz
  BY DEF load_min, load_max
<1> HIDE DEF N, lo, hi, D
<1>6. D # {}
  BY DEF D
<1>7. /\ Min({lo[i] : i \in D}) \in Nat
      /\ \A j \in D : Min({lo[i] : i \in D}) <= lo[j]
  BY <1>2, <1>4, <1>6, MinAndMaxOfValues
<1>8. /\ Max({hi[i] : i \in D}) \in Nat
      /\ \A j \in D : hi[j] <= Max({hi[i] : i \in D})
  BY <1>2, <1>4, <1>6, MinAndMaxOfValues
<1>9. QED
  BY <1>5, <1>7, <1>8 DEF D

(* Every byte of a segment lies in a claimed page.                           *)
LEMMA KernelWithinPages ==
  ASSUME elf \in Elfs, NEW i \in LoadSegments, NEW a \in Bytes(i)
  PROVE  a \in Nat /\ a \div PAGE \in ClaimedPages /\ a \in ClaimedBytes
<1>1. /\ load_min \in Nat /\ load_max \in Nat /\ load_min <= elf[i].paddr
      /\ elf[i].paddr + elf[i].memsz <= load_max /\ PAGE \in Nat \ {0}
  BY KernelPages, BootAssumption DEF BootAssumption
<1>2. elf[i].paddr \in Nat /\ elf[i].memsz \in Nat
  BY SegmentTyped
<1>3. a \in Nat /\ load_min <= a /\ a + PAGE <= load_max + PAGE - 1 /\ a + PAGE \in Nat
        /\ load_max + PAGE - 1 \in Nat
  BY <1>1, <1>2 DEF Bytes
<1> DEFINE q == a \div PAGE
           s == load_min \div PAGE
           e == (load_max + PAGE - 1) \div PAGE
<1>4. s <= q
  BY <1>1, <1>3, DivMonotone
<1>5. q + 1 <= e
  <2>1. (a + PAGE) \div PAGE <= (load_max + PAGE - 1) \div PAGE
    BY <1>1, <1>3, DivMonotone
  <2>2. (a + PAGE) \div PAGE = (a \div PAGE) + 1
    BY <1>1, <1>3, DivSuccessor
  <2>3. QED
    BY <2>1, <2>2
<1>6. q \in Nat /\ s \in Nat /\ e \in Nat /\ PAGE * q <= a /\ a < PAGE * q + PAGE
  BY <1>1, <1>3
<1>7. q \in ClaimedPages
  <2>1. q \in s .. e - 1
    <3> HIDE DEF q, s, e
    <3>1. QED
      BY <1>4, <1>5, <1>6
  <2>2. QED
    BY <2>1 DEF ClaimedPages, PageAfter
<1>8. a \in s * PAGE .. e * PAGE - 1
  <2> HIDE DEF q, s, e
  <2>1. PAGE * s <= PAGE * q /\ PAGE * (q + 1) <= PAGE * e
    BY <1>1, <1>4, <1>5, <1>6
  <2>2. PAGE * (q + 1) = PAGE * q + PAGE
    BY <1>1, <1>6
  <2>3. s * PAGE = PAGE * s /\ e * PAGE = PAGE * e /\ s * PAGE \in Nat /\ e * PAGE \in Nat
    BY <1>1, <1>6
  <2>4. QED
    BY <1>1, <1>3, <1>6, <2>1, <2>2, <2>3
<1>9. QED
  BY <1>3, <1>7, <1>8 DEF ClaimedBytes, PageAfter

-----------------------------------------------------------------------------
(* The theorems.                                                             *)

(* Where the allocator found the i-th frame of heap \o tables, if h pages     *)
(* are mapped.                                                                *)
Position(i, h) == IF i <= h THEN IF i = 1 THEN 1 ELSE i + TABLES ELSE (i - h) + 1

LEMMA PositionsDiffer ==
  ASSUME NEW h \in Nat, NEW n \in Nat, n <= TABLES, h = 0 => n = 0, h > 1 => n = TABLES,
         NEW i \in 1 .. h + n
  PROVE  /\ Position(i, h) \in 1 .. h + n
         /\ \A j \in 1 .. h + n : i # j => Position(i, h) # Position(j, h)
BY BootAssumption DEF BootAssumption, Position

LEMMA HandedOutFrames ==
  ASSUME BootInv
  PROVE  LET h == Len(heap)
             UF == UsableFrames(regions)
         IN  /\ HandedOut \in Seq(Nat) /\ DOMAIN HandedOut = 1 .. Taken
             /\ \A i \in 1 .. Taken : /\ HandedOut[i] = UF[Position(i, h)]
                                       /\ Position(i, h) \in 1 .. Len(UF)
             /\ \A i, j \in 1 .. Taken : i # j => Position(i, h) # Position(j, h)
<1> DEFINE h == Len(heap)
           n == Len(tables)
           UF == UsableFrames(regions)
<1>1. UF \in Seq(Nat) /\ heap \in Seq(Nat) /\ tables \in Seq(Nat)
  BY UsableFramesList DEF BootInv, MapCopied, FramesTaken
<1>2. /\ h \in Nat /\ n \in Nat /\ n <= TABLES /\ (h = 0 => n = 0) /\ (h > 1 => n = TABLES)
      /\ h + n <= Len(UF) /\ Len(UF) \in Nat /\ Taken = h + n
  BY <1>1 DEF BootInv, FramesTaken, Taken
<1>3. /\ \A k \in 1 .. h : heap[k] = UF[IF k = 1 THEN 1 ELSE k + TABLES]
      /\ \A k \in 1 .. n : tables[k] = UF[k + 1]
  BY DEF BootInv, FramesTaken
<1>4. /\ HandedOut \in Seq(Nat) /\ DOMAIN HandedOut = 1 .. h + n
      /\ \A i \in 1 .. h + n : HandedOut[i] = IF i <= h THEN heap[i] ELSE tables[i - h]
  BY <1>1 DEF HandedOut
<1> HIDE DEF h, n, UF
<1>5. ASSUME NEW i \in 1 .. h + n PROVE HandedOut[i] = UF[Position(i, h)]
  <2>1. CASE i <= h
    <3>1. i \in 1 .. h
      BY <1>2, <2>1
    <3>2. QED
      BY <1>3, <1>4, <2>1, <3>1 DEF Position
  <2>2. CASE ~ (i <= h)
    <3>1. i - h \in 1 .. n
      BY <1>2, <2>2
    <3>2. QED
      BY <1>3, <1>4, <2>2, <3>1 DEF Position
  <2>3. QED
    BY <2>1, <2>2
<1>6. \A i \in 1 .. h + n : Position(i, h) \in 1 .. h + n
  BY <1>2, PositionsDiffer
<1>7. \A i, j \in 1 .. h + n : i # j => Position(i, h) # Position(j, h)
  BY <1>2, PositionsDiffer
<1>8. \A i \in 1 .. h + n : i \in 1 .. Len(UF)
  BY <1>2
<1>9. QED
  BY <1>2, <1>4, <1>5, <1>6, <1>7, <1>8 DEF h, UF

(* A usable frame is one of physical memory, conventional and in a region.   *)
LEMMA UsableFrameIs ==
  ASSUME BootInv, NEW k \in 1 .. Len(UsableFrames(regions))
  PROVE  LET f == UsableFrames(regions)[k] IN f \in Frames /\ usage[f] = "conventional"
<1> DEFINE f == UsableFrames(regions)[k]
<1>1. OnlyUsable(UsableFrames(regions), regions, Len(regions))
  BY UsableFramesList DEF BootInv, MapCopied, Lists
<1>2. PICK i \in 1 .. Len(regions) : regions[i].type = "Usable" /\ f \in Span(regions[i])
  BY <1>1 DEF OnlyUsable
<1> HIDE DEF f
<1>3. PICK d \in Descriptors(usage) :
          /\ regions[i].start = d.start /\ regions[i].end = d.end
          /\ regions[i].type = IF d.type = "conventional" THEN "Usable" ELSE "Reserved"
  BY DEF BootInv, MapCopied, FromDescriptor
<1>4. d.type = "conventional" /\ f \in d.start .. d.end - 1
  BY <1>2, <1>3 DEF Span
<1>5. /\ \A g \in d.start .. d.end - 1 : usage[g] = d.type
      /\ d.start \in Frames /\ d.end \in 1 .. FRAMES
  BY DEF Descriptors
<1>6. f \in Frames
  BY <1>4, <1>5, BootAssumption DEF Frames, BootAssumption
<1>7. QED
  BY <1>4, <1>5, <1>6 DEF f

(* Whatever the firmware's memory map and the kernel file are, the boot keeps *)
(* its variables within their types: at most MAX_REGIONS regions are copied,  *)
(* at most HEAP_PAGES pages mapped, and every frame used exists.              *)
THEOREM TypesKept == Spec => []TypeOK
<1>1. BootInv => TypeOK
  <2> SUFFICES ASSUME BootInv PROVE TypeOK
    OBVIOUS
  <2>1. /\ heap \in Seq(Nat) /\ tables \in Seq(Nat)
        /\ Len(heap) <= HEAP_PAGES /\ Len(tables) <= TABLES
    BY DEF BootInv, FramesTaken
  <2>2. \A i \in 1 .. Taken : HandedOut[i] \in Frames
    BY HandedOutFrames, UsableFrameIs
  <2>3. /\ \A k \in DOMAIN heap : k \in 1 .. Taken /\ HandedOut[k] = heap[k]
        /\ \A k \in DOMAIN tables : /\ Len(heap) + k \in 1 .. Taken
                                     /\ HandedOut[Len(heap) + k] = tables[k]
    BY <2>1 DEF HandedOut, Taken
  <2>4. ToSet(heap) \subseteq Frames /\ ToSet(tables) \subseteq Frames
    BY <2>2, <2>3 DEF ToSet
  <2>5. \A i \in DOMAIN regions : regions[i] \in [start : Frames, end : 1 .. FRAMES, type : RegionTypes]
    <3>1. regions \in Seq(Regions)
      BY DEF BootInv, MapCopied, MapOK
    <3>2. \A i \in DOMAIN regions : regions[i] \in Regions
      BY <3>1
    <3>3. QED
      BY <3>2 DEF Regions
  <2>6. QED
    BY <2>1, <2>4, <2>5 DEF BootInv, StateTyped, MapCopied, TypeOK
<1>2. QED
  BY <1>1, BootInvariant, PTL

(* No frame is handed out twice: the pages of the heap and its page tables    *)
(* are pairwise different, for every number of regions, pages and tables.     *)
THEOREM FramesHandedOutOnce == Spec => []NoFrameTwice
<1>1. BootInv => NoFrameTwice
  <2> SUFFICES ASSUME BootInv PROVE NoFrameTwice
    OBVIOUS
  <2> DEFINE UF == UsableFrames(regions)
  <2>1. \A k, l \in 1 .. Len(UF) : k # l => UF[k] # UF[l]
    BY UsableFramesList DEF BootInv, MapCopied, Lists, Once
  <2> HIDE DEF UF
  <2>2. QED
    BY <2>1, HandedOutFrames DEF NoFrameTwice, UF
<1>2. QED
  BY <1>1, BootInvariant, PTL

(* "every frame marked usable is not already in use" (memory.rs) holds of the *)
(* map the bootloader passes: the heap and its tables take conventional       *)
(* memory and never a frame with a byte of a loaded segment.                  *)
THEOREM NothingIsOverwritten == Spec => []NothingOverwritten
<1>1. BootInv => NothingOverwritten
  <2>1. SUFFICES ASSUME BootInv, NEW i \in DOMAIN HandedOut
                 PROVE  usage[HandedOut[i]] = "conventional" /\ HandedOut[i] \notin Occupied
    BY DEF NothingOverwritten
  <2> DEFINE f == HandedOut[i]
  <2>2. usage[f] = "conventional"
    BY <2>1, HandedOutFrames, UsableFrameIs
  <2>3. ASSUME f \in Occupied PROVE FALSE
    <3>1. PICK j \in LoadSegments : \E a \in Bytes(j) : f = a \div PAGE
      BY <2>3 DEF Occupied
    <3>2. f \in ClaimedPages
      BY <2>1, <3>1, KernelWithinPages DEF BootInv, StateTyped
    <3>3. Booting
      <4>1. SUFFICES ASSUME ~ Booting PROVE FALSE
        OBVIOUS
      <4>2. heap = <<>> /\ tables = <<>>
        BY <2>1, <4>1 DEF BootInv, NothingYet, StateTyped, Booting
      <4>3. QED
        BY <2>1, <4>2 DEF HandedOut
    <3>4. QED
      BY <2>1, <2>2, <3>2, <3>3 DEF BootInv, KernelClaimed
  <2>4. QED
    BY <2>2, <2>3
<1>2. QED
  BY <1>1, BootInvariant, PTL

(* If the firmware lists its memory by address, no page table ends up in the  *)
(* frame at address 0, which the kernel could reach only by a null pointer.   *)
THEOREM TablesNotAtNull == Spec => []NoTableAtNull
<1>1. BootInv => NoTableAtNull
  <2>1. SUFFICES ASSUME BootInv, ByAddress(regions), NEW k \in 1 .. Len(tables)
                 PROVE  tables[k] # 0
    <3>1. BootInv => DOMAIN tables = 1 .. Len(tables)
      BY DEF BootInv, FramesTaken
    <3>2. QED
      BY <3>1 DEF NoTableAtNull, ToSet, ByAddress
  <2> DEFINE UF == UsableFrames(regions)
  <2>2. UF \in Seq(Nat) /\ ZeroFirst(UF)
    BY <2>1, UsableFramesList DEF BootInv, MapCopied
  <2>3. tables[k] = UF[k + 1] /\ k + 1 \in 1 .. Len(UF) /\ k + 1 > 1
    <3>1. /\ heap \in Seq(Nat) /\ tables \in Seq(Nat) /\ (Len(heap) = 0 => Len(tables) = 0)
          /\ Len(heap) + Len(tables) <= Len(UF)
      BY <2>1 DEF BootInv, FramesTaken, Taken
    <3>2. Len(heap) \in Nat /\ Len(tables) \in Nat /\ Len(UF) \in Nat
      BY <2>2, <3>1
    <3>3. tables[k] = UF[k + 1]
      BY <2>1 DEF BootInv, FramesTaken
    <3> HIDE DEF UF
    <3>4. QED
      BY <3>1, <3>2, <3>3
  <2> HIDE DEF UF
  <2>4. UF[k + 1] \in Nat /\ UF[k + 1] > 0
    BY <2>2, <2>3 DEF ZeroFirst
  <2>5. QED
    BY <2>3, <2>4
<1>2. QED
  BY <1>1, BootInvariant, PTL

(* "heap initialization failed" means what it says: the conventional memory   *)
(* of the regions that were copied is too small for the heap and its tables.  *)
THEOREM PanicMeansShort == Spec => []PanicOnlyWhenShort
<1>1. BootInv => PanicOnlyWhenShort
  <2> DEFINE UF == UsableFrames(regions)
             C == {f \in Frames : usage[f] = "conventional"
                      /\ \E i \in DOMAIN regions : f \in regions[i].start .. regions[i].end - 1}
             D == 1 .. Len(UF)
             R == {UF[k] : k \in D}
  <2>1. SUFFICES ASSUME BootInv, pc = "panicked"
                 PROVE  Cardinality(C) < HEAP_PAGES + TABLES
    BY DEF PanicOnlyWhenShort
  <2>2. /\ UF \in Seq(Nat) /\ AllUsable(UF, regions, Len(regions))
        /\ DOMAIN regions = 1 .. Len(regions)
    <3>1. MapOK(regions)
      BY <2>1 DEF BootInv, MapCopied
    <3>2. DOMAIN regions = 1 .. Len(regions)
      BY <3>1 DEF MapOK
    <3>3. QED
      BY <3>1, <3>2, UsableFramesList DEF Lists
  <2>3. C \subseteq R
    <3>1. SUFFICES ASSUME NEW f \in C PROVE f \in R
      OBVIOUS
    <3>2. PICK i \in 1 .. Len(regions) : f \in regions[i].start .. regions[i].end - 1
      BY <2>2
    <3>3. PICK d \in Descriptors(usage) :
            /\ regions[i].start = d.start /\ regions[i].end = d.end
            /\ regions[i].type = IF d.type = "conventional" THEN "Usable" ELSE "Reserved"
      BY <2>1 DEF BootInv, MapCopied, FromDescriptor
    <3>4. d.type = "conventional"
      BY <3>2, <3>3 DEF Descriptors
    <3>5. QED
      BY <2>2, <3>2, <3>3, <3>4 DEF AllUsable, Span
  <2>4. IsFiniteSet(D) /\ Cardinality(D) = Len(UF)
    <3>1. Len(UF) \in Nat /\ 1 \in Int /\ Len(UF) \in Int
      BY <2>2
    <3>2. Len(UF) - 1 + 1 = Len(UF) /\ (1 > Len(UF) => Len(UF) = 0)
      BY <3>1
    <3>3. QED
      BY <3>1, <3>2, FS_Interval
  <2>5. IsFiniteSet(R) /\ Cardinality(R) <= Cardinality(D)
    <3> DEFINE g == [k \in D |-> UF[k]]
    <3>1. R = {g[k] : k \in D} /\ g \in Surjection(D, R)
      BY DEF Surjection
    <3> HIDE DEF g, D, R
    <3>2. QED
      BY <2>4, <3>1, FS_Surjection
  <2>6. Cardinality(C) <= Cardinality(R) /\ Cardinality(C) \in Nat /\ Cardinality(R) \in Nat
    <3> HIDE DEF C, R
    <3>1. IsFiniteSet(C) /\ Cardinality(C) <= Cardinality(R)
      BY <2>3, <2>5, FS_Subset
    <3>2. QED
      BY <2>5, <3>1, FS_CardinalityType
  <2>7. Len(UF) < HEAP_PAGES + TABLES /\ Len(UF) \in Nat
    BY <2>1, <2>2 DEF BootInv, FramesTaken
  <2> HIDE DEF C, R, D, UF
  <2>8. QED
    BY <2>4, <2>5, <2>6, <2>7, BootAssumption DEF BootAssumption
<1>2. QED
  BY <1>1, BootInvariant, PTL

-----------------------------------------------------------------------------
(* The loaded kernel.                                                        *)

(* What a linker promises of an executable and the bootloader does not check: *)
(* no segment has more bytes in the file than in memory, and no two overlap.  *)
WellLinked(e) ==
  \A i \in DOMAIN e : e[i].load =>
     /\ e[i].filesz <= e[i].memsz
     /\ \A j \in DOMAIN e : e[j].load /\ i # j =>
          \A a \in e[i].paddr .. e[i].paddr + e[i].memsz - 1 :
             a \notin e[j].paddr .. e[j].paddr + e[j].memsz - 1

(* What belongs at address a of segment i.                                    *)
Content(i, a) == IF a < elf[i].paddr + elf[i].filesz THEN <<i, a - elf[i].paddr>> ELSE Zero
SegmentsIn(memory) ==
  \A i \in LoadSegments : \A a \in Bytes(i) : a \in DOMAIN memory /\ memory[a] = Content(i, a)

(* Memory after the first n headers, for every n.                             *)
CopiesSegments(f) ==
  /\ f \in [0 .. Len(elf) -> [ClaimedBytes -> Nat \X Nat]]
  /\ f[0] = [a \in ClaimedBytes |-> Zero]
  /\ \A n \in 0 .. Len(elf) - 1 : f[n + 1] = CopySegment(f[n], n + 1)

LEMMA CopyTyped ==
  ASSUME elf \in Elfs, NEW i \in 1 .. Len(elf), NEW m \in [ClaimedBytes -> Nat \X Nat]
  PROVE  CopySegment(m, i) \in [ClaimedBytes -> Nat \X Nat]
<1>1. /\ elf[i].paddr \in Nat /\ elf[i].memsz \in Nat /\ elf[i].filesz \in Nat /\ i \in Nat
      /\ DOMAIN m = ClaimedBytes
  BY SegmentTyped
<1>2. \A a \in elf[i].paddr .. elf[i].paddr + elf[i].filesz - 1 : <<i, a - elf[i].paddr>> \in Nat \X Nat
  BY <1>1
<1>3. CASE ~ elf[i].load \/ elf[i].memsz = 0
  BY <1>3 DEF CopySegment
<1>4. CASE ~ (~ elf[i].load \/ elf[i].memsz = 0)
  <2>1. CopySegment(m, i) =
          [a \in ClaimedBytes |-> IF a \in elf[i].paddr .. elf[i].paddr + elf[i].filesz - 1
                                  THEN <<i, a - elf[i].paddr>> ELSE m[a]]
    BY <1>1, <1>4 DEF CopySegment
  <2>2. QED
    BY <1>2, <2>1
<1>5. QED
  BY <1>3, <1>4

LEMMA LoadedFold ==
  ASSUME elf \in Elfs
  PROVE  \E f : CopiesSegments(f) /\ Loaded = f[Len(elf)]
<1> DEFINE M == Len(elf)
           A == [ClaimedBytes -> Nat \X Nat]
           base == [a \in ClaimedBytes |-> Zero]
           G == [i \in 1 .. M |-> [m \in A |-> CopySegment(m, i)]]
<1>1. M \in Nat /\ DOMAIN elf = 1 .. M
  BY SegmentTyped
<1>2. base \in A
  BY DEF Zero
<1>3. ASSUME NEW i \in 1 .. M, NEW a \in A PROVE G[i][a] = CopySegment(a, i) /\ G[i][a] \in A
  <2>1. CopySegment(a, i) \in A
    BY CopyTyped
  <2>2. QED
    BY <2>1
<1> DEFINE Body(F) == [s \in SUBSET (1 .. M) |->
                         IF s = {} THEN base ELSE CopySegment(F[s \ {Max(s)}], Max(s))]
           order == [i \in 1 .. M |-> i]
           Fold(F) == [s \in SUBSET (DOMAIN order) |->
                         IF s = {} THEN base ELSE CopySegment(F[s \ {Max(s)}], order[Max(s)])]
<1>4. Loaded = (CHOOSE F : F = Fold(F))[DOMAIN order]
  BY <1>1 DEF Loaded, FoldLeft, MapThenFoldSet
<1>5. DOMAIN order = 1 .. M
  OBVIOUS
<1>6. ASSUME NEW s \in SUBSET (1 .. M), s # {}
      PROVE  order[Max(s)] = Max(s) /\ Max(s) \in 1 .. M /\ s \ {Max(s)} \in SUBSET (1 .. M)
  BY <1>1, <1>6, MaxOfPositions
<1>7. ASSUME NEW F PROVE Fold(F) = Body(F)
  <2> HIDE DEF order, base
  <2>1. QED
    BY <1>5, <1>6
<1>8. \E F : F = Fold(F)
  <2>1. PICK F \in [SUBSET (1 .. M) -> A] : F = FoldBody(F, G, base, M)
    <3>1. M \in Nat /\ base \in A /\ StaysIn(A, G, M)
      BY <1>1, <1>2, <1>3, Zenon DEF StaysIn
    <3> HIDE DEF G, M, A, base
    <3>2. HasFold(A, G, base, M)
      BY <3>1, FoldExists
    <3>3. QED
      BY <3>2 DEF HasFold
  <2>2. ASSUME NEW s \in SUBSET (1 .. M), s # {}
        PROVE  G[Max(s)][F[s \ {Max(s)}]] = CopySegment(F[s \ {Max(s)}], Max(s))
    <3>1. Max(s) \in 1 .. M /\ F[s \ {Max(s)}] \in A
      BY <1>6, <2>2
    <3> HIDE DEF G, M, A
    <3>2. QED
      BY <1>3, <3>1
  <2>3. F = Body(F)
    <3> HIDE DEF G, M, A, base
    <3>1. QED
      BY <2>1, <2>2 DEF FoldBody
  <2> HIDE DEF Fold, Body
  <2>4. QED
    BY <1>7, <2>3
<1> DEFINE F == CHOOSE F : F = Fold(F)
           f == [n \in 0 .. M |-> F[1 .. n]]
<1>9. F = Fold(F)
  BY <1>8
<1>10. \A s \in SUBSET (1 .. M) :
         F[s] = IF s = {} THEN base ELSE CopySegment(F[s \ {Max(s)}], Max(s))
  <2> HIDE DEF F, Fold
  <2>1. F = Body(F)
    BY <1>7, <1>9
  <2> HIDE DEF base
  <2>2. QED
    BY <2>1
<1>11. f[0] = base /\ Loaded = f[M]
  <2>1. 1 .. 0 = {} /\ {} \in SUBSET (1 .. M)
    OBVIOUS
  <2>2. Loaded = F[1 .. M] /\ M \in 0 .. M /\ 0 \in 0 .. M
    BY <1>1, <1>4, <1>5
  <2> HIDE DEF F, base
  <2>3. F[1 .. 0] = base
    BY <1>10, <2>1
  <2>4. QED
    BY <2>2, <2>3
<1>12. ASSUME NEW n \in 0 .. M - 1 PROVE f[n + 1] = CopySegment(f[n], n + 1)
  <2>1. /\ 1 .. n + 1 \in SUBSET (1 .. M) /\ 1 .. n + 1 # {}
        /\ Max(1 .. n + 1) = n + 1
        /\ (1 .. n + 1) \ {n + 1} = 1 .. n
    BY <1>1, PrefixPositions
  <2> HIDE DEF F
  <2>2. F[1 .. n + 1] = CopySegment(F[1 .. n], n + 1)
    BY <1>10, <2>1
  <2>3. QED
    BY <1>1, <2>2
<1>13. \A n \in 0 .. M : f[n] \in A
  <2> DEFINE P == {n \in Nat : n <= M => f[n] \in A}
  <2> HIDE DEF f, G, A, base
  <2>1. 0 \in P
    BY <1>2, <1>11
  <2>2. ASSUME NEW n \in Nat, n \in P PROVE n + 1 \in P
    <3>1. SUFFICES ASSUME n + 1 <= M PROVE f[n + 1] \in A
      OBVIOUS
    <3>2. n \in 0 .. M - 1 /\ f[n] \in A /\ n + 1 \in 1 .. M
      BY <1>1, <2>2, <3>1
    <3>3. QED
      BY <1>3, <1>12, <3>2
  <2>3. \A n \in Nat : n \in P
    <3> HIDE DEF P
    <3>1. QED
      BY <2>1, <2>2, Induct
  <2>4. QED
    BY <1>1, <2>3
<1>14. CopiesSegments(f)
  <2>1. f \in [0 .. M -> A]
    <3>1. f = [n \in 0 .. M |-> f[n]]
      OBVIOUS
    <3> HIDE DEF f, A
    <3>2. QED
      BY <1>13, <3>1
  <2> HIDE DEF f
  <2>2. QED
    BY <2>1, <1>11, <1>12 DEF CopiesSegments
<1>15. QED
  BY <1>11, <1>14

LEMMA LoadedIsComplete ==
  ASSUME elf \in Elfs, WellLinked(elf)
  PROVE  SegmentsIn(Loaded)
<1> DEFINE M == Len(elf)
<1>1. PICK f : CopiesSegments(f) /\ Loaded = f[M]
  BY LoadedFold
<1>2. M \in Nat /\ DOMAIN elf = 1 .. M /\ LoadSegments \in SUBSET (1 .. M)
  BY SegmentTyped
<1> DEFINE Right(n, i) == \A a \in Bytes(i) : f[n][a] = IF i <= n THEN Content(i, a) ELSE Zero
           Q(n) == \A i \in LoadSegments : Right(n, i)
           P == {n \in Nat : n <= M => Q(n)}
<1>3. \A n \in Nat : n <= M => f[n] \in [ClaimedBytes -> Nat \X Nat]
  BY <1>1, <1>2 DEF CopiesSegments
<1>4. \A i \in LoadSegments : Bytes(i) \subseteq ClaimedBytes
  BY KernelWithinPages
<1>5. 0 \in P
  <2>1. ASSUME NEW i \in LoadSegments, NEW a \in Bytes(i) PROVE f[0][a] = Zero /\ ~ (i <= 0)
    BY <1>1, <1>2, <1>4 DEF CopiesSegments
  <2>2. Q(0)
    BY <2>1
  <2> HIDE DEF Q
  <2>3. QED
    BY <2>2
<1>6. ASSUME NEW n \in Nat, n \in P PROVE n + 1 \in P
  <2> HIDE DEF Q
  <2>1. SUFFICES ASSUME n + 1 <= M PROVE Q(n + 1)
    OBVIOUS
  <2>2. Q(n) /\ n \in 0 .. M - 1 /\ n + 1 \in 1 .. M
    BY <1>2, <1>6, <2>1
  <2> HIDE DEF P
  <2> DEFINE k == n + 1
  <2>3. f[k] = CopySegment(f[n], k) /\ DOMAIN f[n] = ClaimedBytes
    BY <1>1, <1>2, <1>3, <2>1, <2>2 DEF CopiesSegments
  <2> SUFFICES ASSUME NEW i \in LoadSegments, NEW a \in Bytes(i)
               PROVE  f[k][a] = IF i <= k THEN Content(i, a) ELSE Zero
    BY DEF Q
  <2>4. /\ f[n][a] = IF i <= n THEN Content(i, a) ELSE Zero
        /\ a \in ClaimedBytes /\ i \in 1 .. M /\ elf[i].load
    BY <1>2, <1>4, <2>2 DEF Q, LoadSegments
  <2>5. /\ elf[i].paddr \in Nat /\ elf[i].memsz \in Nat /\ elf[i].filesz \in Nat
        /\ elf[k].paddr \in Nat /\ elf[k].memsz \in Nat /\ elf[k].filesz \in Nat
    BY <2>2, <2>4, SegmentTyped
  <2>6. a \in elf[i].paddr .. elf[i].paddr + elf[i].memsz - 1
    BY DEF Bytes
  <2>7. CASE i = k
    <3>1. elf[k].memsz # 0
      BY <2>5, <2>6, <2>7
    <3>2. f[k][a] = IF a \in elf[k].paddr .. elf[k].paddr + elf[k].filesz - 1
                    THEN <<k, a - elf[k].paddr>> ELSE f[n][a]
      BY <2>3, <2>4, <2>7, <3>1 DEF CopySegment
    <3>3. f[n][a] = Zero
      BY <2>4, <2>7
    <3>4. a \in elf[k].paddr .. elf[k].paddr + elf[k].filesz - 1
             <=> a < elf[k].paddr + elf[k].filesz
      BY <2>5, <2>6, <2>7
    <3>5. i <= k
      BY <2>7
    <3>6. QED
      BY <2>7, <3>2, <3>3, <3>4, <3>5 DEF Content
  <2>8. CASE i # k
    <3>1. f[k][a] = f[n][a]
      <4>1. CASE ~ elf[k].load \/ elf[k].memsz = 0
        BY <2>3, <4>1 DEF CopySegment
      <4>2. CASE ~ (~ elf[k].load \/ elf[k].memsz = 0)
        <5>1. elf[k].load /\ elf[k].filesz <= elf[k].memsz
          BY <1>2, <2>2, <4>2 DEF WellLinked
        <5>2. a \notin elf[k].paddr .. elf[k].paddr + elf[k].memsz - 1
          BY <1>2, <2>2, <2>4, <2>6, <2>8, <5>1 DEF WellLinked
        <5>3. a \notin elf[k].paddr .. elf[k].paddr + elf[k].filesz - 1
          BY <2>5, <5>1, <5>2
        <5>4. QED
          BY <2>3, <2>4, <4>2, <5>3 DEF CopySegment
      <4>3. QED
        BY <4>1, <4>2
    <3>2. i <= k <=> i <= n
      BY <1>2, <2>4, <2>8
    <3>3. QED
      BY <2>4, <3>1, <3>2
  <2>9. QED
    BY <2>7, <2>8
<1>7. \A n \in Nat : n \in P
  <2> HIDE DEF P
  <2>1. QED
    BY <1>5, <1>6, Induct
<1>8. Q(M)
  <2> HIDE DEF Q
  <2>1. QED
    BY <1>2, <1>7
<1>9. \A i \in LoadSegments : i <= M
  BY <1>2
<1>10. DOMAIN Loaded = ClaimedBytes
  BY <1>1, <1>2, <1>3
<1>11. QED
  BY <1>1, <1>4, <1>8, <1>9, <1>10 DEF SegmentsIn

(* The kernel is entered with every segment in place: the bytes of the file   *)
(* and zeros after them, wherever a segment begins and ends within its pages   *)
(* and whatever the order of the headers, for every well-linked kernel file.   *)
THEOREM KernelIsInPlace ==
  ASSUME \A e \in Elfs : WellLinked(e)
  PROVE  Spec => []SegmentsLoaded
<1> DEFINE Inv == elf \in Elfs /\ (Booting => SegmentsIn(image))
<1>1. Init => Inv
  BY DEF Init, Booting
<1>2. Inv /\ [Next]_vars => Inv'
  <2> SUFFICES ASSUME Inv, [Next]_vars PROVE Inv'
    OBVIOUS
  <2>1. elf' = elf
    BY DEF Next, vars, ReadKernel, LoadKernel, LoadFails, CopyRegion, EnterKernel,
           MapPage, CreateTable, OutOfFrames, HeapReady, BootOver
  <2>2. CASE LoadKernel
    <3>1. image' = Loaded
      BY <2>2 DEF LoadKernel
    <3>2. SegmentsIn(Loaded)
      BY LoadedIsComplete
    <3>3. SegmentsIn(image)'
      BY <2>1, <3>1, <3>2 DEF SegmentsIn, LoadSegments, Bytes, Content
    <3>4. QED
      BY <2>1, <3>3
  <2>3. CASE ~ LoadKernel
    <3>1. image' = image /\ (Booting' => Booting)
      BY <2>3 DEF Next, vars, Booting, ReadKernel, LoadFails, CopyRegion, EnterKernel,
             MapPage, CreateTable, OutOfFrames, HeapReady, BootOver
    <3>2. SegmentsIn(image) => SegmentsIn(image)'
      BY <2>1, <3>1 DEF SegmentsIn, LoadSegments, Bytes, Content
    <3>3. QED
      BY <2>1, <3>1, <3>2
  <2>4. QED
    BY <2>2, <2>3
<1>3. Inv => SegmentsLoaded
  BY DEF Booting, SegmentsIn, SegmentsLoaded, Content
<1>4. QED
  BY <1>1, <1>2, <1>3, PTL DEF Spec
=============================================================================
