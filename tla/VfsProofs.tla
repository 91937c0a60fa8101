------------------------------ MODULE VfsProofs ------------------------------
(***************************************************************************)
(* Proofs about Vfs.  Lookup is understood first, in any tree of nodes:     *)
(* when siblings have different names and every node has one parent, a node *)
(* is found by one path.  Then what a push, an overwrite and a removal do   *)
(* to what is found, and from that the theorems.                            *)
(***************************************************************************)
EXTENDS Vfs, Induction, SequenceTheorems

Spots  == Ids \cup {NoNode}
Kinds  == Contents \cup {"dir", None}
Labels == Names \cup {None, "/"}

-----------------------------------------------------------------------------
(* Lookup in a tree with nodes N and children K.                             *)

DirIn(N, i) == i # NoNode /\ N[i].content = "dir"
HitsIn(N, K, d, s) == {k \in DOMAIN K[d] : N[K[d][k]].name = s}
ChildIn(N, K, d, s) ==
  IF HitsIn(N, K, d, s) = {} THEN NoNode ELSE K[d][Min(HitsIn(N, K, d, s))]
StepIn(N, K, i, s) == IF DirIn(N, i) THEN ChildIn(N, K, i, s) ELSE NoNode
FindIn(N, K, i, q) ==
  LET at[k \in 0 .. Len(q)] == IF k = 0 THEN i ELSE StepIn(N, K, at[k - 1], q[k])
  IN  at[Len(q)]

LEMMA LookupIs ==
  /\ \A i : IsDir(i) = DirIn(nodes, i)
  /\ \A d, s : Hits(d, s) = HitsIn(nodes, kids, d, s)
  /\ \A d, s : ChildNamed(d, s) = ChildIn(nodes, kids, d, s)
  /\ \A d, s : Step(d, s) = StepIn(nodes, kids, d, s)
  /\ \A i, q : FindFrom(i, q) = FindIn(nodes, kids, i, q)
  /\ \A q : Find(q) = FindIn(nodes, kids, Root, q)
<1> USE DEF IsDir, DirIn, Hits, HitsIn, ChildNamed, ChildIn, Step, StepIn
<1>1. \A i : IsDir(i) = DirIn(nodes, i)
  OBVIOUS
<1>2. \A d, s : Hits(d, s) = HitsIn(nodes, kids, d, s)
  OBVIOUS
<1>3. \A d, s : ChildNamed(d, s) = ChildIn(nodes, kids, d, s)
  OBVIOUS
<1>4. \A d, s : Step(d, s) = StepIn(nodes, kids, d, s)
  OBVIOUS
<1>5. \A i, q : FindFrom(i, q) = FindIn(nodes, kids, i, q)
  BY DEF FindFrom, FindIn
<1>6. \A q : Find(q) = FindIn(nodes, kids, Root, q)
  BY <1>5 DEF Find
<1>7. QED
  BY <1>1, <1>2, <1>3, <1>4, <1>5, <1>6

LEMMA IdsAre ==
  /\ Ids \subseteq Nat /\ NoNode \notin Ids
  /\ {Root, 1, 2} \subseteq Ids /\ Root \notin {1, 2}
<1>1. MAX_NODES \in Nat /\ MAX_NODES >= 3
  BY VfsAssumption DEF VfsAssumption
<1>2. Ids \subseteq Nat /\ 0 \in Ids /\ 1 \in Ids /\ 2 \in Ids
  BY <1>1 DEF Ids
<1>3. QED
  BY <1>2 DEF Root, NoNode

(* The nodes form a tree: every directory owns its children alone, once each  *)
(* and under different names; a file owns nothing.                           *)
KidsOf(K, d) == {K[d][k] : k \in DOMAIN K[d]}

Typed(N, K) ==
  /\ N \in [Ids -> [name : Labels, content : Kinds]]
  /\ K \in [Ids -> Seq(Ids)]

Forest(N, K) ==
  /\ N[Root].content = "dir"
  /\ \A d \in Ids : KidsOf(K, d) # {} => N[d].content = "dir"
  /\ \A d \in Ids : \A c \in KidsOf(K, d) :
        c \in Ids /\ c # Root /\ N[c].name \in Names /\ N[c].content # None
  /\ \A d, e \in Ids : \A c \in KidsOf(K, d) : c \in KidsOf(K, e) => d = e
  /\ \A d \in Ids : \A b, c \in KidsOf(K, d) : N[b].name = N[c].name => b = c

OnceEach(K) == \A d \in Ids : \A k, l \in DOMAIN K[d] : K[d][k] = K[d][l] => k = l

Shape(N, K) == Typed(N, K) /\ Forest(N, K) /\ OnceEach(K)

(* c is the child of the directory i with the name s.                        *)
Child(N, K, i, c, s) ==
  i \in Ids /\ N[i].content = "dir" /\ c \in KidsOf(K, i) /\ N[c].name = s

(* Taking the first child of a name is taking the child of that name.        *)
LEMMA ChildIs ==
  ASSUME NEW N, NEW K, Shape(N, K), NEW i \in Ids, NEW s
  PROVE  /\ ChildIn(N, K, i, s) \in Spots
         /\ HitsIn(N, K, i, s) = {} <=> ChildIn(N, K, i, s) = NoNode
         /\ HitsIn(N, K, i, s) # {} =>
              /\ Min(HitsIn(N, K, i, s)) \in DOMAIN K[i]
              /\ ChildIn(N, K, i, s) = K[i][Min(HitsIn(N, K, i, s))]
         /\ \A c \in Ids : ChildIn(N, K, i, s) = c <=> c \in KidsOf(K, i) /\ N[c].name = s
<1> DEFINE H == HitsIn(N, K, i, s)
<1>1. K[i] \in Seq(Ids) /\ DOMAIN K[i] = 1 .. Len(K[i]) /\ Len(K[i]) \in Nat
  <2>1. K[i] \in Seq(Ids)
    BY DEF Shape, Typed
  <2>2. QED
    BY <2>1
<1>2. H \subseteq DOMAIN K[i] /\ \A k \in DOMAIN K[i] : k \in H <=> N[K[i][k]].name = s
  BY DEF HitsIn
<1>3. ASSUME H # {} PROVE Min(H) \in H
  <2>1. H \subseteq Nat
    BY <1>1, <1>2
  <2> HIDE DEF H
  <2>2. \E n \in H : \A m \in H : n <= m
    BY <1>3, <2>1, LeastNumber
  <2>3. QED
    BY <2>2 DEF Min
<1>4. ChildIn(N, K, i, s) = IF H = {} THEN NoNode ELSE K[i][Min(H)]
  BY DEF ChildIn
<1> HIDE DEF H
<1>5. \A k \in DOMAIN K[i] : K[i][k] \in Ids /\ K[i][k] # NoNode /\ K[i][k] \in KidsOf(K, i)
  BY <1>1, IdsAre DEF KidsOf
<1>6. \A b, c \in KidsOf(K, i) : N[b].name = N[c].name => b = c
  BY DEF Shape, Forest
<1>7. CASE H = {}
  <2>1. \A c \in Ids : c \in KidsOf(K, i) => N[c].name # s
    BY <1>2, <1>7 DEF KidsOf
  <2>2. QED
    BY <1>4, <1>7, <2>1, IdsAre DEF Spots, H
<1>8. CASE H # {}
  <2> DEFINE b == K[i][Min(H)]
  <2>1. Min(H) \in DOMAIN K[i] /\ N[b].name = s /\ ChildIn(N, K, i, s) = b
    BY <1>2, <1>3, <1>4, <1>8
  <2>2. b \in Ids /\ b # NoNode /\ b \in KidsOf(K, i)
    BY <1>5, <2>1
  <2>3. QED
    BY <1>6, <1>8, <2>1, <2>2 DEF Spots, H
<1>9. QED
  BY <1>7, <1>8

LEMMA StepIs ==
  ASSUME NEW N, NEW K, Shape(N, K), NEW i \in Spots, NEW s
  PROVE  /\ StepIn(N, K, i, s) \in Spots
         /\ \A c \in Ids : StepIn(N, K, i, s) = c <=> Child(N, K, i, c, s)
<1>1. CASE i \in Ids /\ N[i].content = "dir"
  <2>1. StepIn(N, K, i, s) = ChildIn(N, K, i, s)
    BY <1>1, IdsAre DEF StepIn, DirIn
  <2>2. QED
    BY <1>1, <2>1, ChildIs DEF Child
<1>2. CASE ~ (i \in Ids /\ N[i].content = "dir")
  <2>1. StepIn(N, K, i, s) = NoNode
    BY <1>2 DEF StepIn, DirIn, Spots
  <2>2. QED
    BY <1>2, <2>1, IdsAre DEF Child, Spots
<1>3. QED
  BY <1>1, <1>2

-----------------------------------------------------------------------------
(* Paths, one segment at a time.                                             *)

LEMMA AppendIs ==
  ASSUME NEW S, NEW q \in Seq(S), NEW s \in S
  PROVE  /\ Append(q, s) \in Seq(S) /\ Len(Append(q, s)) = Len(q) + 1 /\ Append(q, s) # <<>>
         /\ \A k \in 1 .. Len(q) : Append(q, s)[k] = q[k]
         /\ Append(q, s)[Len(q) + 1] = s
         /\ Front(Append(q, s)) = q /\ Last(Append(q, s)) = s
<1> DEFINE a == Append(q, s)
<1>1. /\ a \in Seq(S) /\ Len(a) = Len(q) + 1 /\ a # <<>> /\ Len(q) \in Nat
      /\ \A k \in 1 .. Len(q) : a[k] = q[k]
      /\ a[Len(q) + 1] = s
  OBVIOUS
<1> HIDE DEF a
<1>2. /\ Front(a) \in Seq(S) /\ Len(Front(a)) = Len(q)
      /\ \A k \in 1 .. Len(q) : Front(a)[k] = q[k]
  <2>1. /\ Front(a) \in Seq(S) /\ Len(Front(a)) = Len(a) - 1
        /\ \A k \in 1 .. Len(a) - 1 : Front(a)[k] = a[k]
    BY <1>1, FrontIs
  <2>2. QED
    BY <1>1, <2>1
<1>3. Front(a) = q
  <2> DEFINE f == Front(a)
  <2>1. f \in Seq(S) /\ Len(f) = Len(q) /\ \A k \in 1 .. Len(q) : f[k] = q[k]
    BY <1>2
  <2> HIDE DEF f
  <2>2. f = q
    BY <2>1
  <2>3. QED
    BY <2>2 DEF f
<1>4. Last(a) = s
  BY <1>1 DEF Last
<1>5. QED
  BY <1>1, <1>3, <1>4 DEF a

LEMMA FrontAndLast ==
  ASSUME NEW S, NEW q \in Seq(S), q # <<>>
  PROVE  /\ Front(q) \in Seq(S) /\ Last(q) \in S /\ q = Append(Front(q), Last(q))
         /\ Len(q) = Len(Front(q)) + 1
<1> DEFINE f == Front(q)
           l == Last(q)
           a == Append(f, l)
<1>1. /\ f \in Seq(S) /\ Len(q) \in Nat \ {0} /\ Len(f) = Len(q) - 1
      /\ \A k \in 1 .. Len(q) - 1 : f[k] = q[k]
  BY FrontIs
<1>2. l = q[Len(q)] /\ l \in S
  BY <1>1 DEF Last
<1> HIDE DEF f, l
<1>3. /\ a \in Seq(S) /\ Len(a) = Len(q)
      /\ \A k \in 1 .. Len(q) - 1 : a[k] = q[k]
      /\ a[Len(q)] = q[Len(q)]
  <2>1. /\ a \in Seq(S) /\ Len(a) = Len(f) + 1 
        /\ \A k \in 1 .. Len(f) : a[k] = f[k]
        /\ a[Len(f) + 1] = l
    BY <1>1, <1>2
  <2> HIDE DEF a
  <2>2. QED
    BY <1>1, <1>2, <2>1
<1>4. \A k \in 1 .. Len(q) : a[k] = q[k]
  BY <1>1, <1>3
<1>5. a = q
  <2> HIDE DEF a
  <2>1. QED
    BY <1>3, <1>4
<1>6. QED
  BY <1>1, <1>2, <1>5 DEF f, l

(* Induction over paths, with a set in place of a predicate.                  *)
LEMMA PathInduct ==
  ASSUME NEW S, NEW P, <<>> \in P,
         \A q \in Seq(S) : \A s \in S : q \in P => Append(q, s) \in P
  PROVE  \A q \in Seq(S) : q \in P
<1> DEFINE R == {n \in Nat : \A q \in Seq(S) : Len(q) = n => q \in P}
<1>1. 0 \in R
  <2>1. ASSUME NEW q \in Seq(S), Len(q) = 0 PROVE q = <<>>
    BY <2>1
  <2>2. QED
    BY <2>1
<1>2. ASSUME NEW n \in Nat, n \in R PROVE n + 1 \in R
  <2>1. ASSUME NEW q \in Seq(S), Len(q) = n + 1 PROVE q \in P
    <3>1. q # <<>>
      BY <2>1
    <3>2. /\ Front(q) \in Seq(S) /\ Last(q) \in S /\ q = Append(Front(q), Last(q))
          /\ Len(q) = Len(Front(q)) + 1
      BY <3>1, FrontAndLast
    <3>3. Len(Front(q)) = n
      BY <2>1, <3>2
    <3>4. Front(q) \in P
      BY <1>2, <3>2, <3>3
    <3>5. QED
      BY <3>2, <3>4
  <2>2. QED
    BY <2>1
<1>3. \A n \in Nat : n \in R
  <2> HIDE DEF R
  <2>1. QED
    BY <1>1, <1>2, Induct
<1>4. QED
  BY <1>3

(* The nodes passed on the way, for a path in any tree.                       *)
OnTheWay(f, N, K, i, q) ==
  /\ f \in [0 .. Len(q) -> Spots]
  /\ f[0] = i
  /\ \A k \in 1 .. Len(q) : f[k] = StepIn(N, K, f[k - 1], q[k])

Way(f, N, K, i, q) ==
  f = [k \in 0 .. Len(q) |-> IF k = 0 THEN i ELSE StepIn(N, K, f[k - 1], q[k])]

LEMMA WayExists ==
  ASSUME NEW N, NEW K, Shape(N, K), NEW i \in Spots, NEW q \in Seq(Names)
  PROVE  \E f : OnTheWay(f, N, K, i, q)
<1> DEFINE Good(f, n) == /\ f \in [0 .. n -> Spots] /\ f[0] = i
                         /\ \A k \in 1 .. n : f[k] = StepIn(N, K, f[k - 1], q[k])
           P == {n \in Nat : \E f : Good(f, n)}
<1>1. 0 \in P
  <2> DEFINE f == [k \in 0 .. 0 |-> i]
  <2>1. Good(f, 0)
    OBVIOUS
  <2>2. QED
    BY <2>1
<1>2. ASSUME NEW n \in Nat, n \in P PROVE n + 1 \in P
  <2>1. PICK f : Good(f, n)
    BY <1>2
  <2> DEFINE last == StepIn(N, K, f[n], q[n + 1])
             g == [k \in 0 .. n + 1 |-> IF k = n + 1 THEN last ELSE f[k]]
  <2>2. last \in Spots
    <3>1. f[n] \in Spots
      BY <2>1
    <3>2. QED
      BY <3>1, StepIs
  <2>3. g \in [0 .. n + 1 -> Spots] /\ g[0] = i
    <3> HIDE DEF last
    <3>1. QED
      BY <2>1, <2>2
  <2>4. ASSUME NEW k \in 1 .. n + 1 PROVE g[k] = StepIn(N, K, g[k - 1], q[k])
    <3>1. CASE k = n + 1
      <4>1. g[k] = last /\ g[k - 1] = f[n]
        BY <3>1
      <4> HIDE DEF g
      <4>2. QED
        BY <3>1, <4>1
    <3>2. CASE k # n + 1
      <4>1. g[k] = f[k] /\ g[k - 1] = f[k - 1] /\ k \in 1 .. n
        BY <3>2
      <4> HIDE DEF g
      <4>2. QED
        BY <2>1, <4>1
    <3>3. QED
      BY <3>1, <3>2
  <2>5. Good(g, n + 1)
    <3> HIDE DEF g
    <3>1. QED
      BY <2>3, <2>4
  <2>6. n + 1 \in Nat
    OBVIOUS
  <2>7. QED
    <3> HIDE DEF g, Good
    <3>1. QED
      BY <2>5, <2>6
<1>3. \A n \in Nat : n \in P
  <2> HIDE DEF P
  <2>1. QED
    BY <1>1, <1>2, Induct
<1>4. Len(q) \in Nat
  OBVIOUS
<1>5. QED
  BY <1>3, <1>4 DEF OnTheWay

(* Lookup follows it.                                                         *)
LEMMA FindIsWay ==
  ASSUME NEW N, NEW K, Shape(N, K), NEW i \in Spots, NEW q \in Seq(Names),
         NEW f, OnTheWay(f, N, K, i, q)
  PROVE  FindIn(N, K, i, q) = f[Len(q)]
<1> DEFINE M == Len(q)
           g == CHOOSE h : Way(h, N, K, i, q)
<1>1. M \in Nat
  OBVIOUS
<1>2. FindIn(N, K, i, q) = g[M]
  BY DEF FindIn, Way
<1>3. Way(f, N, K, i, q)
  <2>1. f = [k \in 0 .. M |-> f[k]]
    BY DEF OnTheWay
  <2>2. \A k \in 0 .. M : f[k] = IF k = 0 THEN i ELSE StepIn(N, K, f[k - 1], q[k])
    BY <1>1 DEF OnTheWay
  <2>3. QED
    BY <2>1, <2>2 DEF Way
<1>4. Way(g, N, K, i, q)
  BY <1>3
<1> HIDE DEF g
<1>5. g[0] = i /\ \A k \in 1 .. M : g[k] = StepIn(N, K, g[k - 1], q[k])
  BY <1>1, <1>4 DEF Way
<1>6. f[0] = i /\ \A k \in 1 .. M : f[k] = StepIn(N, K, f[k - 1], q[k])
  BY DEF OnTheWay
<1> HIDE DEF M
<1> DEFINE P == {n \in Nat : n <= M => g[n] = f[n]}
<1>7. 0 \in P
  BY <1>5, <1>6
<1>8. ASSUME NEW n \in Nat, n \in P PROVE n + 1 \in P
  <2>1. SUFFICES ASSUME n + 1 <= M PROVE g[n + 1] = f[n + 1]
    OBVIOUS
  <2>2. n + 1 \in 1 .. M /\ (n + 1) - 1 = n /\ g[n] = f[n]
    BY <1>1, <1>8, <2>1
  <2>3. g[n + 1] = StepIn(N, K, g[n], q[n + 1]) /\ f[n + 1] = StepIn(N, K, f[n], q[n + 1])
    BY <1>5, <1>6, <2>2
  <2>4. QED
    BY <2>2, <2>3
<1>9. \A n \in Nat : n \in P
  <2> HIDE DEF P
  <2>1. QED
    BY <1>7, <1>8, Induct
<1>10. g[M] = f[M]
  BY <1>1, <1>9
<1>11. QED
  BY <1>2, <1>10 DEF M

LEMMA FindTyped ==
  ASSUME NEW N, NEW K, Shape(N, K), NEW i \in Spots, NEW q \in Seq(Names)
  PROVE  FindIn(N, K, i, q) \in Spots
<1>1. PICK f : OnTheWay(f, N, K, i, q)
  BY WayExists
<1>2. f[Len(q)] \in Spots
  BY <1>1 DEF OnTheWay
<1>3. QED
  BY <1>1, <1>2, FindIsWay

LEMMA FindEmpty ==
  ASSUME NEW N, NEW K, Shape(N, K), NEW i \in Spots
  PROVE  FindIn(N, K, i, <<>>) = i
<1> DEFINE e == <<>>
<1>1. e \in Seq(Names) /\ Len(e) = 0
  OBVIOUS
<1> HIDE DEF e
<1>2. PICK f : OnTheWay(f, N, K, i, e)
  BY <1>1, WayExists
<1>3. f[0] = i
  BY <1>2 DEF OnTheWay
<1>4. FindIn(N, K, i, e) = f[Len(e)]
  BY <1>1, <1>2, FindIsWay
<1>5. QED
  BY <1>1, <1>3, <1>4 DEF e

LEMMA FindAppend ==
  ASSUME NEW N, NEW K, Shape(N, K), NEW i \in Spots, NEW q \in Seq(Names), NEW s \in Names
  PROVE  FindIn(N, K, i, Append(q, s)) = StepIn(N, K, FindIn(N, K, i, q), s)
<1> DEFINE a == Append(q, s)
<1>1. /\ a \in Seq(Names) /\ Len(a) = Len(q) + 1 /\ Len(q) \in Nat
      /\ \A k \in 1 .. Len(q) : a[k] = q[k]
      /\ a[Len(q) + 1] = s
  BY AppendIs
<1> HIDE DEF a
<1>2. PICK f : OnTheWay(f, N, K, i, a)
  BY <1>1, WayExists
<1>3. FindIn(N, K, i, a) = f[Len(q) + 1]
  BY <1>1, <1>2, FindIsWay
<1>4. f[Len(q) + 1] = StepIn(N, K, f[Len(q)], s)
  <2>1. Len(q) + 1 \in 1 .. Len(a) /\ (Len(q) + 1) - 1 = Len(q)
    BY <1>1
  <2>2. f[Len(q) + 1] = StepIn(N, K, f[(Len(q) + 1) - 1], a[Len(q) + 1])
    BY <1>2, <2>1 DEF OnTheWay
  <2>3. QED
    BY <1>1, <2>1, <2>2
<1> DEFINE g == [k \in 0 .. Len(q) |-> f[k]]
<1>5. OnTheWay(g, N, K, i, q)
  <2>1. \A k \in 0 .. Len(q) : g[k] = f[k] /\ f[k] \in Spots
    BY <1>1, <1>2 DEF OnTheWay
  <2>2. g \in [0 .. Len(q) -> Spots]
    BY <2>1
  <2> HIDE DEF g
  <2>3. g[0] = i
    BY <1>1, <1>2, <2>1 DEF OnTheWay
  <2>4. ASSUME NEW k \in 1 .. Len(q) PROVE g[k] = StepIn(N, K, g[k - 1], q[k])
    <3>1. k \in 1 .. Len(a) /\ k \in 0 .. Len(q) /\ k - 1 \in 0 .. Len(q)
      BY <1>1
    <3>2. f[k] = StepIn(N, K, f[k - 1], a[k])
      BY <1>2, <3>1 DEF OnTheWay
    <3>3. QED
      BY <1>1, <2>1, <3>1, <3>2
  <2>5. QED
    BY <2>2, <2>3, <2>4 DEF OnTheWay
<1>6. FindIn(N, K, i, q) = f[Len(q)]
  <2>1. g[Len(q)] = f[Len(q)]
    BY <1>1
  <2> HIDE DEF g
  <2>2. QED
    BY <1>5, <2>1, FindIsWay
<1>7. QED
  BY <1>3, <1>4, <1>6 DEF a

(* One segment more leads to a child.                                         *)
LEMMA FindChild ==
  ASSUME NEW N, NEW K, Shape(N, K), NEW i \in Spots, NEW q \in Seq(Names), NEW s \in Names
  PROVE  /\ FindIn(N, K, i, Append(q, s)) \in Spots
         /\ \A c \in Ids : FindIn(N, K, i, Append(q, s)) = c
                             <=> Child(N, K, FindIn(N, K, i, q), c, s)
<1>1. FindIn(N, K, i, q) \in Spots
  BY FindTyped
<1>2. QED
  BY <1>1, StepIs, FindAppend
-----------------------------------------------------------------------------
(* A node is found by one path.                                              *)

Found(N, K, q) == FindIn(N, K, Root, q)

LEMMA RootIsFound ==
  ASSUME NEW N, NEW K, Shape(N, K), NEW q \in Seq(Names)
  PROVE  /\ Found(N, K, q) \in Spots
         /\ Found(N, K, q) = Root <=> q = <<>>
<1>1. Root \in Spots
  BY IdsAre DEF Spots
<1>2. Found(N, K, q) \in Spots
  BY <1>1, FindTyped DEF Found
<1>3. Found(N, K, <<>>) = Root
  BY <1>1, FindEmpty DEF Found
<1>4. ASSUME q # <<>>, Found(N, K, q) = Root PROVE FALSE
  <2>1. Front(q) \in Seq(Names) /\ Last(q) \in Names /\ q = Append(Front(q), Last(q))
    BY <1>4, FrontAndLast
  <2>2. Child(N, K, FindIn(N, K, Root, Front(q)), Root, Last(q))
    BY <1>1, <1>4, <2>1, FindChild, IdsAre DEF Found
  <2>3. QED
    BY <2>2 DEF Child, Shape, Forest
<1>5. QED
  BY <1>2, <1>3, <1>4

LEMMA OnePath ==
  ASSUME NEW N, NEW K, Shape(N, K)
  PROVE  \A q, r \in Seq(Names) : Found(N, K, q) # NoNode /\ Found(N, K, q) = Found(N, K, r) => q = r
<1> DEFINE P == {q \in Seq(Names) : \A r \in Seq(Names) :
                   Found(N, K, q) # NoNode /\ Found(N, K, q) = Found(N, K, r) => q = r}
<1>1. <<>> \in P
  <2>1. <<>> \in Seq(Names)
    OBVIOUS
  <2>2. Found(N, K, <<>>) = Root
    BY <2>1, RootIsFound
  <2>3. \A r \in Seq(Names) : Found(N, K, r) = Root => <<>> = r
    BY RootIsFound
  <2>4. QED
    BY <2>1, <2>2, <2>3
<1>2. ASSUME NEW q \in Seq(Names), NEW s \in Names, q \in P PROVE Append(q, s) \in P
  <2> DEFINE a == Append(q, s)
             c == Found(N, K, a)
  <2>1. a \in Seq(Names) /\ a # <<>>
    BY AppendIs
  <2>2. SUFFICES ASSUME NEW r \in Seq(Names), c # NoNode, c = Found(N, K, r)
                 PROVE  a = r
    BY <2>1
  <2>3. c \in Ids /\ c # Root
    BY <2>1, <2>2, RootIsFound DEF Spots
  <2>4. r # <<>>
    BY <2>2, <2>3, RootIsFound
  <2>5. Front(r) \in Seq(Names) /\ Last(r) \in Names /\ r = Append(Front(r), Last(r))
    BY <2>4, FrontAndLast
  <2>6. Root \in Spots
    BY IdsAre DEF Spots
  <2>7. Child(N, K, Found(N, K, q), c, s)
    BY <2>3, <2>6, FindChild DEF Found
  <2> HIDE DEF c
  <2>8. Child(N, K, Found(N, K, Front(r)), c, Last(r))
    BY <2>2, <2>3, <2>5, <2>6, FindChild DEF Found
  <2>9. Found(N, K, q) = Found(N, K, Front(r)) /\ s = Last(r) /\ Found(N, K, q) # NoNode
    BY <2>7, <2>8, IdsAre DEF Child, Shape, Forest
  <2>10. q = Front(r)
    BY <1>2, <2>5, <2>9
  <2>11. QED
    BY <2>5, <2>9, <2>10
<1>3. \A q \in Seq(Names) : q \in P
  <2> HIDE DEF P
  <2>1. QED
    BY <1>1, <1>2, PathInduct
<1>4. QED
  BY <1>3

(* From a node on.                                                           *)
LEMMA FindConcat ==
  ASSUME NEW N, NEW K, Shape(N, K), NEW p \in Seq(Names)
  PROVE  \A q \in Seq(Names) : Found(N, K, p \o q) = FindIn(N, K, Found(N, K, p), q)
<1> DEFINE P == {q \in Seq(Names) : Found(N, K, p \o q) = FindIn(N, K, Found(N, K, p), q)}
<1>1. Found(N, K, p) \in Spots /\ Root \in Spots
  BY RootIsFound, IdsAre DEF Spots
<1>2. <<>> \in P
  <2>1. <<>> \in Seq(Names) /\ p \o <<>> = p
    OBVIOUS
  <2>2. QED
    BY <1>1, <2>1, FindEmpty
<1>3. ASSUME NEW q \in Seq(Names), NEW s \in Names, q \in P PROVE Append(q, s) \in P
  <2>1. /\ Append(q, s) \in Seq(Names) /\ p \o q \in Seq(Names)
        /\ p \o Append(q, s) = Append(p \o q, s)
    OBVIOUS
  <2>2. Found(N, K, Append(p \o q, s)) = StepIn(N, K, Found(N, K, p \o q), s)
    <3> DEFINE pq == p \o q
    <3>1. pq \in Seq(Names)
      BY <2>1
    <3> HIDE DEF pq
    <3>2. Found(N, K, Append(pq, s)) = StepIn(N, K, Found(N, K, pq), s)
      BY <1>1, <3>1, FindAppend DEF Found
    <3>3. QED
      BY <3>2 DEF pq
  <2>3. FindIn(N, K, Found(N, K, p), Append(q, s)) = StepIn(N, K, FindIn(N, K, Found(N, K, p), q), s)
    BY <1>1, FindAppend
  <2>4. QED
    BY <1>3, <2>1, <2>2, <2>3
<1>4. \A q \in Seq(Names) : q \in P
  <2> HIDE DEF P
  <2>1. QED
    BY <1>2, <1>3, PathInduct
<1>5. QED
  BY <1>4

-----------------------------------------------------------------------------
(* A new node: children.push(...).                                           *)

IsPush(N, K, M, L, par, id, s, kind) ==
  /\ par \in Ids /\ N[par].content = "dir"
  /\ id \in Ids /\ N[id] = Unused
  /\ s \in Names /\ kind \in Contents \cup {"dir"}
  /\ \A c \in KidsOf(K, par) : N[c].name # s
  /\ M = [N EXCEPT ![id] = Node(s, kind)]
  /\ L = [K EXCEPT ![par] = Append(@, id)]

LEMMA PushChanges ==
  ASSUME NEW N, NEW K, NEW M, NEW L, NEW par, NEW id, NEW s, NEW kind,
         Shape(N, K), IsPush(N, K, M, L, par, id, s, kind)
  PROVE  /\ id # Root /\ id # par /\ \A d \in Ids : id \notin KidsOf(K, d)
         /\ \A d \in Ids : d # id => M[d] = N[d]
         /\ M[id].name = s /\ M[id].content = kind /\ kind # None
         /\ \A d \in Ids : d # par => KidsOf(L, d) = KidsOf(K, d)
         /\ KidsOf(L, par) = KidsOf(K, par) \cup {id}
         /\ KidsOf(L, id) = {} /\ KidsOf(K, id) = {}
         /\ Typed(M, L) /\ OnceEach(L)
<1>1. par \in Ids /\ N[par].content = "dir" /\ id \in Ids /\ N[id] = Unused
  BY DEF IsPush
<1>2. N[id].content = None /\ None # "dir"
  <2>1. N[id].content = None
    BY <1>1 DEF Unused
  <2>2. None # "dir"
    BY DEF None
  <2>3. QED
    BY <2>1, <2>2
<1>3. kind # None /\ kind \in Kinds /\ s \in Labels
  BY VfsAssumption DEF VfsAssumption, IsPush, None, Kinds, Labels
<1>4. id # Root /\ id # par /\ \A d \in Ids : id \notin KidsOf(K, d)
  BY <1>1, <1>2 DEF Shape, Forest
<1>5. KidsOf(K, id) = {}
  BY <1>1, <1>2 DEF Shape, Forest
<1>6. N \in [Ids -> [name : Labels, content : Kinds]] /\ K \in [Ids -> Seq(Ids)]
  BY DEF Shape, Typed
<1> DEFINE n == Node(s, kind)
<1>7. n \in [name : Labels, content : Kinds] /\ n.name = s /\ n.content = kind
  BY <1>3 DEF Node
<1> HIDE DEF n
<1>8. M = [N EXCEPT ![id] = n]
  BY DEF IsPush, n
<1>9. M \in [Ids -> [name : Labels, content : Kinds]] /\ M[id] = n
      /\ \A d \in Ids : d # id => M[d] = N[d]
  BY <1>1, <1>6, <1>7, <1>8
<1> DEFINE q == Append(K[par], id)
<1>10. /\ K[par] \in Seq(Ids) /\ Len(K[par]) \in Nat /\ DOMAIN K[par] = 1 .. Len(K[par])
       /\ q \in Seq(Ids) /\ DOMAIN q = 1 .. Len(K[par]) + 1
       /\ \A k \in 1 .. Len(K[par]) : q[k] = K[par][k]
       /\ q[Len(K[par]) + 1] = id
  <2>1. K[par] \in Seq(Ids)
    BY <1>1, <1>6
  <2>2. QED
    BY <1>1, <2>1
<1> HIDE DEF q
<1>11. L = [K EXCEPT ![par] = q]
  BY DEF IsPush, q
<1>12. /\ L \in [Ids -> Seq(Ids)] /\ L[par] = q
       /\ \A d \in Ids : d # par => L[d] = K[d]
  BY <1>1, <1>6, <1>10, <1>11
<1>13. \A d \in Ids : d # par => KidsOf(L, d) = KidsOf(K, d)
  BY <1>12 DEF KidsOf
<1>14. KidsOf(L, par) = KidsOf(K, par) \cup {id}
  <2>1. \A k \in DOMAIN q : k \in DOMAIN K[par] \/ k = Len(K[par]) + 1
    BY <1>10
  <2>2. Len(K[par]) + 1 \in DOMAIN q /\ \A k \in DOMAIN K[par] : k \in DOMAIN q
    BY <1>10
  <2>3. KidsOf(L, par) = {q[k] : k \in DOMAIN q} /\ KidsOf(K, par) = {K[par][k] : k \in DOMAIN K[par]}
    BY <1>12, Zenon DEF KidsOf
  <2>4. \A k \in DOMAIN K[par] : q[k] = K[par][k]
    BY <1>10
  <2>5. \A k \in DOMAIN q : q[k] \in KidsOf(K, par) \cup {id}
    BY <1>10, <2>1, <2>3, <2>4
  <2>6. id \in KidsOf(L, par)
    BY <1>10, <2>2, <2>3
  <2>7. \A k \in DOMAIN K[par] : K[par][k] \in KidsOf(L, par)
    BY <2>2, <2>3, <2>4
  <2>8. QED
    BY <2>3, <2>5, <2>6, <2>7
<1>15. OnceEach(L)
  <2>1. ASSUME NEW d \in Ids, NEW k \in DOMAIN L[d], NEW l \in DOMAIN L[d], L[d][k] = L[d][l]
        PROVE  k = l
    <3>1. \A a, b \in DOMAIN K[d] : K[d][a] = K[d][b] => a = b
      BY DEF Shape, OnceEach
    <3>2. CASE d # par
      BY <1>12, <2>1, <3>1, <3>2
    <3>3. CASE d = par
      <4>1. \A a \in 1 .. Len(K[par]) : q[a] # id
        BY <1>1, <1>4, <1>10 DEF KidsOf
      <4> DEFINE n0 == Len(K[par])
      <4>2. /\ n0 \in Nat /\ k \in 1 .. n0 + 1 /\ l \in 1 .. n0 + 1 /\ q[k] = q[l]
        BY <1>10, <1>12, <2>1, <3>3
      <4>3. /\ \A a, b \in 1 .. n0 : q[a] = q[b] => a = b
            /\ \A a \in 1 .. n0 : q[a] # id
            /\ q[n0 + 1] = id
        BY <1>10, <3>1, <3>3, <4>1
      <4> HIDE DEF n0
      <4>4. QED
        BY <4>2, <4>3
    <3>4. QED
      BY <3>2, <3>3
  <2>2. QED
    BY <2>1 DEF OnceEach
<1>16. QED
  BY <1>1, <1>3, <1>4, <1>5, <1>7, <1>9, <1>12, <1>13, <1>14, <1>15 DEF Typed

LEMMA PushShape ==
  ASSUME NEW N, NEW K, NEW M, NEW L, NEW par, NEW id, NEW s, NEW kind,
         Shape(N, K), IsPush(N, K, M, L, par, id, s, kind)
  PROVE  Shape(M, L)
<1>1. /\ par \in Ids /\ N[par].content = "dir" /\ id \in Ids /\ s \in Names
      /\ \A c \in KidsOf(K, par) : N[c].name # s
  BY DEF IsPush
<1>2. /\ id # Root /\ id # par /\ \A d \in Ids : id \notin KidsOf(K, d)
      /\ \A d \in Ids : d # id => M[d] = N[d]
      /\ M[id].name = s /\ M[id].content = kind /\ kind # None
      /\ \A d \in Ids : d # par => KidsOf(L, d) = KidsOf(K, d)
      /\ KidsOf(L, par) = KidsOf(K, par) \cup {id}
      /\ KidsOf(L, id) = {}
      /\ Typed(M, L) /\ OnceEach(L)
  BY PushChanges
<1>3. Forest(N, K)
  BY DEF Shape
<1>4. M[Root].content = "dir"
  BY <1>2, <1>3, IdsAre DEF Forest
<1>5. ASSUME NEW d \in Ids, KidsOf(L, d) # {} PROVE M[d].content = "dir"
  BY <1>1, <1>2, <1>3, <1>5 DEF Forest
<1>6. ASSUME NEW d \in Ids, NEW c \in KidsOf(L, d)
      PROVE  /\ c \in KidsOf(K, d) \/ (d = par /\ c = id)
             /\ c \in Ids /\ c # Root /\ M[c].name \in Names /\ M[c].content # None
  <2>1. c \in KidsOf(K, d) \/ (d = par /\ c = id)
    <3>1. CASE d = par
      BY <1>2, <1>6, <3>1
    <3>2. CASE d # par
      BY <1>2, <1>6, <3>2
    <3>3. QED
      BY <3>1, <3>2
  <2>2. c \in KidsOf(K, d) =>
          c \in Ids /\ c # Root /\ N[c].name \in Names /\ N[c].content # None
    BY <1>3 DEF Forest
  <2>3. QED
    BY <1>1, <1>2, <2>1, <2>2
<1>7. ASSUME NEW d \in Ids, NEW e \in Ids, NEW c \in KidsOf(L, d), c \in KidsOf(L, e)
      PROVE  d = e
  BY <1>2, <1>3, <1>6, <1>7 DEF Forest
<1>8. ASSUME NEW d \in Ids, NEW b \in KidsOf(L, d), NEW c \in KidsOf(L, d), M[b].name = M[c].name
      PROVE  b = c
  <2>1. CASE b \in KidsOf(K, d) /\ c \in KidsOf(K, d)
    BY <1>2, <1>3, <1>8, <2>1 DEF Forest
  <2>2. CASE b = id /\ c \in KidsOf(K, par)
    BY <1>1, <1>2, <1>3, <1>8, <2>2 DEF Forest
  <2>3. CASE c = id /\ b \in KidsOf(K, par)
    BY <1>1, <1>2, <1>3, <1>8, <2>3 DEF Forest
  <2>4. QED
    BY <1>6, <2>1, <2>2, <2>3
<1>9. QED
  BY <1>2, <1>4, <1>5, <1>6, <1>7, <1>8 DEF Shape, Forest

(* Two trees in which a node has the same children answer alike.              *)
LEMMA SameStep ==
  ASSUME NEW N, NEW K, NEW M, NEW L, Shape(N, K), Shape(M, L), NEW i \in Spots, NEW s,
         \A c \in Ids : Child(N, K, i, c, s) <=> Child(M, L, i, c, s)
  PROVE  StepIn(M, L, i, s) = StepIn(N, K, i, s)
<1>1. StepIn(N, K, i, s) \in Spots /\ \A c \in Ids : StepIn(N, K, i, s) = c <=> Child(N, K, i, c, s)
  BY StepIs
<1>2. StepIn(M, L, i, s) \in Spots /\ \A c \in Ids : StepIn(M, L, i, s) = c <=> Child(M, L, i, c, s)
  BY StepIs
<1>3. QED
  BY <1>1, <1>2 DEF Spots

LEMMA KidsAreIds ==
  ASSUME NEW N, NEW K, Shape(N, K), NEW d \in Ids, NEW c \in KidsOf(K, d)
  PROVE  c \in Ids
BY DEF Shape, Forest

(* The new node is found by its path, and every other path leads where it    *)
(* led.                                                                      *)
LEMMA PushFinds ==
  ASSUME NEW N, NEW K, NEW M, NEW L, NEW par, NEW id, NEW s, NEW kind,
         Shape(N, K), IsPush(N, K, M, L, par, id, s, kind),
         NEW p \in Seq(Names), Found(N, K, p) = par
  PROVE  \A q \in Seq(Names) :
            Found(M, L, q) = IF q = Append(p, s) THEN id ELSE Found(N, K, q)
<1> DEFINE P == {q \in Seq(Names) : Found(M, L, q) = IF q = Append(p, s) THEN id ELSE Found(N, K, q)}
<1>1. /\ par \in Ids /\ N[par].content = "dir" /\ id \in Ids /\ s \in Names
      /\ \A c \in KidsOf(K, par) : N[c].name # s
  BY DEF IsPush
<1>2. /\ id # Root /\ id # par /\ \A d \in Ids : id \notin KidsOf(K, d)
      /\ \A d \in Ids : d # id => M[d] = N[d]
      /\ M[id].name = s
      /\ \A d \in Ids : d # par => KidsOf(L, d) = KidsOf(K, d)
      /\ KidsOf(L, par) = KidsOf(K, par) \cup {id}
      /\ KidsOf(L, id) = {} /\ KidsOf(K, id) = {}
  BY PushChanges
<1>3. Shape(M, L) /\ Root \in Spots /\ Append(p, s) # <<>> /\ Append(p, s) \in Seq(Names)
  BY <1>1, PushShape, IdsAre, AppendIs DEF Spots
<1>4. <<>> \in P
  <2>1. <<>> \in Seq(Names)
    OBVIOUS
  <2>2. Found(M, L, <<>>) = Root /\ Found(N, K, <<>>) = Root
    BY <1>3, <2>1, RootIsFound
  <2>3. QED
    BY <1>3, <2>1, <2>2
<1>5. ASSUME NEW q \in Seq(Names), NEW t \in Names, q \in P PROVE Append(q, t) \in P
  <2> DEFINE a == Append(q, t)
             d == Found(M, L, q)
  <2> SUFFICES a \in P
    OBVIOUS
  <2>1. a \in Seq(Names) /\ Front(a) = q /\ Last(a) = t /\ Len(a) = Len(q) + 1
    BY AppendIs
  <2>2. a = Append(p, s) <=> q = p /\ t = s
    BY <1>1, <2>1, AppendIs
  <2>3. Found(M, L, a) = StepIn(M, L, d, t) /\ Found(N, K, a) = StepIn(N, K, Found(N, K, q), t)
    BY <1>3, FindAppend DEF Found
  <2> HIDE DEF a
  <2>4. d \in Spots /\ Found(N, K, q) \in Spots
    BY <1>3, RootIsFound
  <2>5. CASE q = Append(p, s)
    <3>1. d = id /\ a # Append(p, s)
      <4>1. q # p
        BY <1>1, <2>5, AppendIs
      <4>2. QED
        BY <1>5, <2>2, <2>5, <4>1
    <3>2. StepIn(M, L, d, t) = NoNode
      <4>1. \A c \in Ids : ~ Child(M, L, id, c, t)
        BY <1>2 DEF Child
      <4>2. QED
        BY <1>3, <2>4, <3>1, <4>1, StepIs DEF Spots
    <3>3. Found(N, K, q) \notin Ids
      <4>1. \A c \in Ids : ~ Child(N, K, par, c, s)
        BY <1>1 DEF Child
      <4>2. QED
        BY <1>1, <1>3, <2>5, <4>1, FindChild DEF Found
    <3>4. StepIn(N, K, Found(N, K, q), t) = NoNode
      BY <2>4, <3>3 DEF Spots, StepIn, DirIn
    <3>5. QED
      BY <2>1, <2>3, <3>1, <3>2, <3>4
  <2>6. CASE q # Append(p, s) /\ a # Append(p, s)
    <3>1. d = Found(N, K, q) /\ d # id
      <4>1. d = Found(N, K, q)
        BY <1>5, <2>6
      <4>2. ASSUME Found(N, K, q) = id PROVE FALSE
        <5>1. q # <<>>
          BY <1>2, <4>2, RootIsFound
        <5>2. Front(q) \in Seq(Names) /\ Last(q) \in Names /\ q = Append(Front(q), Last(q))
          BY <5>1, FrontAndLast
        <5>3. Child(N, K, Found(N, K, Front(q)), id, Last(q))
          BY <1>1, <1>3, <4>2, <5>2, FindChild DEF Found
        <5>4. QED
          BY <1>2, <5>3 DEF Child
      <4>3. QED
        BY <4>1, <4>2
    <3> HIDE DEF d
    <3>2. d = par => t # s
      <4>1. d = par => q = p
        BY <1>1, <3>1, OnePath, IdsAre
      <4>2. QED
        BY <2>2, <2>6, <4>1
    <3>3. ASSUME NEW c \in Ids PROVE Child(N, K, d, c, t) <=> Child(M, L, d, c, t)
      <4>1. ASSUME d \in Ids PROVE M[d] = N[d] /\ (c \in KidsOf(K, d) => M[c] = N[c])
        BY <1>2, <3>1, <3>3, <4>1
      <4>2. ASSUME d \in Ids PROVE c \in KidsOf(L, d) <=> (c \in KidsOf(K, d) \/ (d = par /\ c = id))
        <5>1. CASE d = par
          BY <1>2, <5>1
        <5>2. CASE d # par
          BY <1>2, <4>2, <5>2
        <5>3. QED
          BY <5>1, <5>2
      <4>3. QED
        BY <1>2, <3>2, <4>1, <4>2 DEF Child
    <3>4. StepIn(M, L, d, t) = StepIn(N, K, d, t)
      BY <1>3, <2>4, <3>3, SameStep
    <3>5. QED
      BY <2>1, <2>3, <2>6, <3>1, <3>4 DEF d
  <2>7. CASE a = Append(p, s)
    <3>1. q = p /\ t = s /\ q # Append(p, s)
      BY <1>1, <2>2, <2>7, AppendIs
    <3>2. d = par
      BY <1>5, <3>1
    <3>3. Child(M, L, par, id, s)
      BY <1>1, <1>2 DEF Child
    <3>4. StepIn(M, L, d, t) = id
      BY <1>1, <1>3, <2>4, <3>1, <3>2, <3>3, StepIs
    <3>5. QED
      BY <2>1, <2>3, <2>7, <3>4
  <2>8. QED
    BY <2>5, <2>6, <2>7
<1>6. \A q \in Seq(Names) : q \in P
  <2> HIDE DEF P
  <2>1. QED
    BY <1>4, <1>5, PathInduct
<1>7. QED
  BY <1>6

-----------------------------------------------------------------------------
(* A file is overwritten: *content = ...                                     *)

IsOverwrite(N, M, b, data) ==
  /\ b \in Ids /\ N[b].content # "dir"
  /\ data \in Contents
  /\ M = [N EXCEPT ![b].content = data]

LEMMA OverwriteChanges ==
  ASSUME NEW N, NEW K, NEW M, NEW b, NEW data, Shape(N, K), IsOverwrite(N, M, b, data)
  PROVE  /\ Shape(M, K)
         /\ \A d \in Ids : /\ M[d].name = N[d].name
                           /\ M[d].content = "dir" <=> N[d].content = "dir"
                           /\ d # b => M[d] = N[d]
         /\ M[b].content = data
<1>1. b \in Ids /\ N[b].content # "dir" /\ data \in Contents /\ M = [N EXCEPT ![b].content = data]
  BY DEF IsOverwrite
<1>2. data # "dir" /\ data # None /\ data \in Kinds
  BY <1>1, VfsAssumption DEF VfsAssumption, None, Kinds
<1>3. N \in [Ids -> [name : Labels, content : Kinds]] /\ Forest(N, K)
  BY DEF Shape, Typed
<1> DEFINE n == [N[b] EXCEPT !.content = data]
<1>4. n \in [name : Labels, content : Kinds] /\ n.name = N[b].name /\ n.content = data
  BY <1>1, <1>2, <1>3
<1>5. M = [N EXCEPT ![b] = n]
  BY <1>1
<1> HIDE DEF n
<1>6. /\ M \in [Ids -> [name : Labels, content : Kinds]] /\ M[b] = n
      /\ \A d \in Ids : d # b => M[d] = N[d]
  BY <1>1, <1>3, <1>4, <1>5
<1>7. ASSUME NEW d \in Ids
      PROVE  /\ M[d].name = N[d].name
             /\ M[d].content = "dir" <=> N[d].content = "dir"
             /\ N[d].content # None => M[d].content # None
  BY <1>1, <1>2, <1>4, <1>6
<1>8. Forest(M, K)
  <2>1. M[Root].content = "dir"
    BY <1>3, <1>7, IdsAre DEF Forest
  <2>2. \A d \in Ids : KidsOf(K, d) # {} => M[d].content = "dir"
    BY <1>3, <1>7 DEF Forest
  <2>3. \A d \in Ids : \A c \in KidsOf(K, d) :
           c \in Ids /\ c # Root /\ M[c].name \in Names /\ M[c].content # None
    BY <1>3, <1>7 DEF Forest
  <2>4. \A d, e \in Ids : \A c \in KidsOf(K, d) : c \in KidsOf(K, e) => d = e
    BY <1>3 DEF Forest
  <2>5. \A d \in Ids : \A a, c \in KidsOf(K, d) : M[a].name = M[c].name => a = c
    BY <1>3, <1>7 DEF Forest
  <2>6. QED
    BY <2>1, <2>2, <2>3, <2>4, <2>5 DEF Forest
<1>9. QED
  BY <1>4, <1>6, <1>7, <1>8 DEF Shape, Typed

LEMMA OverwriteFinds ==
  ASSUME NEW N, NEW K, NEW M, NEW b, NEW data, Shape(N, K), IsOverwrite(N, M, b, data)
  PROVE  \A q \in Seq(Names) : Found(M, K, q) = Found(N, K, q)
<1> DEFINE P == {q \in Seq(Names) : Found(M, K, q) = Found(N, K, q)}
<1>1. /\ Shape(M, K)
      /\ \A d \in Ids : M[d].name = N[d].name /\ (M[d].content = "dir" <=> N[d].content = "dir")
  BY OverwriteChanges
<1>2. <<>> \in P
  <2>1. <<>> \in Seq(Names)
    OBVIOUS
  <2>2. Found(M, K, <<>>) = Root /\ Found(N, K, <<>>) = Root
    BY <1>1, <2>1, RootIsFound
  <2>3. QED
    BY <2>1, <2>2
<1>3. ASSUME NEW q \in Seq(Names), NEW t \in Names, q \in P PROVE Append(q, t) \in P
  <2> DEFINE d == Found(N, K, q)
  <2>1. Append(q, t) \in Seq(Names) /\ Root \in Spots
    BY AppendIs, IdsAre DEF Spots
  <2>2. /\ Found(M, K, Append(q, t)) = StepIn(M, K, d, t)
        /\ Found(N, K, Append(q, t)) = StepIn(N, K, d, t)
    BY <1>1, <1>3, <2>1, FindAppend DEF Found
  <2>3. d \in Spots
    BY RootIsFound
  <2> HIDE DEF d
  <2>4. ASSUME NEW c \in Ids PROVE Child(N, K, d, c, t) <=> Child(M, K, d, c, t)
    BY <1>1 DEF Child
  <2>5. StepIn(M, K, d, t) = StepIn(N, K, d, t)
    BY <1>1, <2>3, <2>4, SameStep
  <2>6. QED
    BY <2>1, <2>2, <2>5
<1>4. \A q \in Seq(Names) : q \in P
  <2> HIDE DEF P
  <2>1. QED
    BY <1>2, <1>3, PathInduct
<1>5. QED
  BY <1>4

-----------------------------------------------------------------------------
(* A node is dropped with what it owns: children.remove(k).                  *)

LEMMA PathsAre ==
  \A q : q \in Paths <=> q \in Seq(Names) /\ Len(q) <= MAX_DEPTH
<1>1. MAX_DEPTH \in Nat
  BY VfsAssumption DEF VfsAssumption
<1>2. ASSUME NEW q \in Paths PROVE q \in Seq(Names) /\ Len(q) <= MAX_DEPTH
  <2>1. PICK k \in 0 .. MAX_DEPTH : q \in [1 .. k -> Names]
    BY DEF Paths, SeqsUpTo
  <2>2. k \in Nat /\ q \in Seq(Names) /\ Len(q) = k
    BY <1>1, <2>1
  <2>3. QED
    BY <1>1, <2>1, <2>2
<1>3. ASSUME NEW q \in Seq(Names), Len(q) <= MAX_DEPTH PROVE q \in Paths
  <2>1. Len(q) \in 0 .. MAX_DEPTH /\ q \in [1 .. Len(q) -> Names]
    BY <1>1, <1>3
  <2>2. QED
    BY <2>1 DEF Paths, SeqsUpTo
<1>4. QED
  BY <1>2, <1>3

Below(N, K, i) == {FindIn(N, K, i, q) : q \in Paths} \ {NoNode}

IsDrop(N, K, M, L, par, k, gone) ==
  /\ par \in Ids /\ k \in DOMAIN K[par]
  /\ gone = Below(N, K, K[par][k])
  /\ par \notin gone
  /\ M = [i \in Ids |-> IF i \in gone THEN Unused ELSE N[i]]
  /\ L = [i \in Ids |-> IF i \in gone THEN <<>>
                        ELSE IF i = par THEN RemoveAt(K[i], k) ELSE K[i]]

(* What is dropped is the node itself and the children of what is dropped.    *)
LEMMA BelowIs ==
  ASSUME NEW N, NEW K, Shape(N, K), NEW b \in Ids
  PROVE  /\ b \in Below(N, K, b) /\ Below(N, K, b) \subseteq Ids
         /\ \A c \in Below(N, K, b) :
              c = b \/ \E d \in Ids : d \in Below(N, K, b) /\ c \in KidsOf(K, d)
<1>1. b \in Spots /\ b # NoNode /\ MAX_DEPTH \in Nat
  BY IdsAre, VfsAssumption DEF Spots, VfsAssumption
<1>2. <<>> \in Paths
  <2>1. <<>> \in Seq(Names) /\ Len(<<>>) <= MAX_DEPTH
    BY <1>1
  <2>2. QED
    BY <2>1, PathsAre
<1>3. FindIn(N, K, b, <<>>) = b
  BY <1>1, FindEmpty
<1>4. b \in Below(N, K, b)
  BY <1>1, <1>2, <1>3 DEF Below
<1>5. ASSUME NEW c \in Below(N, K, b)
      PROVE  c \in Ids /\ (c = b \/ \E d \in Ids : d \in Below(N, K, b) /\ c \in KidsOf(K, d))
  <2>1. PICK q \in Paths : c = FindIn(N, K, b, q) /\ c # NoNode
    BY DEF Below
  <2>2. q \in Seq(Names) /\ Len(q) <= MAX_DEPTH
    BY PathsAre
  <2>3. c \in Ids
    BY <1>1, <2>1, <2>2, FindTyped DEF Spots
  <2>4. CASE q = <<>>
    BY <1>3, <2>1, <2>3, <2>4
  <2>5. CASE q # <<>>
    <3> DEFINE f == Front(q)
               l == Last(q)
               d == FindIn(N, K, b, f)
    <3>1. f \in Seq(Names) /\ l \in Names /\ q = Append(f, l) /\ Len(q) = Len(f) + 1
      BY <2>2, <2>5, FrontAndLast
    <3> HIDE DEF f, l
    <3>2. Child(N, K, d, c, l)
      BY <1>1, <2>1, <2>3, <3>1, FindChild
    <3>7. d = FindIn(N, K, b, f)
      OBVIOUS
    <3> HIDE DEF d
    <3>3. f \in Paths
      <4>1. Len(f) <= MAX_DEPTH
        BY <1>1, <2>2, <3>1
      <4>2. QED
        BY <3>1, <4>1, PathsAre
    <3>4. d \in Ids /\ c \in KidsOf(K, d) /\ d # NoNode
      <4>1. d \in Ids /\ c \in KidsOf(K, d)
        BY <3>2 DEF Child
      <4>2. QED
        BY <4>1, IdsAre
    <3>5. d \in Below(N, K, b)
      <4>1. d \in {FindIn(N, K, b, e) : e \in Paths}
        BY <3>3, <3>7
      <4>2. QED
        BY <3>4, <4>1 DEF Below
    <3>6. QED
      BY <2>3, <3>4, <3>5
  <2>6. QED
    BY <2>4, <2>5
<1>6. QED
  BY <1>4, <1>5

LEMMA RemoveAtIs ==
  ASSUME NEW S, NEW q \in Seq(S), NEW k \in DOMAIN q
  PROVE  LET r == RemoveAt(q, k)
         IN  /\ r \in Seq(S) /\ Len(q) \in Nat /\ DOMAIN q = 1 .. Len(q)
             /\ DOMAIN r = 1 .. Len(q) - 1
             /\ \A j \in 1 .. Len(q) - 1 : r[j] = IF j < k THEN q[j] ELSE q[j + 1]
<1> DEFINE a == SubSeq(q, 1, k - 1)
           b == SubSeq(q, k + 1, Len(q))
           n == Len(q)
<1>1. n \in Nat /\ k \in 1 .. n /\ DOMAIN q = 1 .. n /\ \A j \in 1 .. n : q[j] \in S
  OBVIOUS
<1>2. /\ a \in Seq(S) /\ Len(a) = k - 1
      /\ \A j \in 1 .. k - 1 : a[j] = q[j]
  BY <1>1
<1>3. /\ b \in Seq(S) /\ Len(b) = n - k
      /\ \A j \in 1 .. n - k : b[j] = q[k + j]
  <2> HIDE DEF n
  <2>1. k + 1 \in Int /\ n \in Int /\ \A j \in k + 1 .. n : q[j] \in S
    BY <1>1
  <2>2. /\ SubSeq(q, k + 1, n) \in Seq(S)
        /\ Len(SubSeq(q, k + 1, n)) = IF k + 1 <= n THEN n - (k + 1) + 1 ELSE 0
        /\ \A j \in 1 .. n - (k + 1) + 1 : SubSeq(q, k + 1, n)[j] = q[k + 1 + j - 1]
    BY <2>1, SubSeqProperties
  <2>3. b = SubSeq(q, k + 1, n)
    BY DEF n
  <2> HIDE DEF b
  <2>4. \A j \in 1 .. n - k : j \in 1 .. n - (k + 1) + 1 /\ k + 1 + j - 1 = k + j
    BY <1>1
  <2>5. (IF k + 1 <= n THEN n - (k + 1) + 1 ELSE 0) = n - k
    BY <1>1
  <2>6. QED
    BY <2>2, <2>3, <2>4, <2>5
<1> HIDE DEF a, b
<1>4. RemoveAt(q, k) = a \o b
  BY DEF RemoveAt, a, b
<1> HIDE DEF n
<1> DEFINE r == a \o b
<1>5. /\ r \in Seq(S) /\ Len(r) = Len(a) + Len(b)
      /\ \A j \in 1 .. Len(a) + Len(b) : r[j] = IF j <= Len(a) THEN a[j] ELSE b[j - Len(a)]
  BY <1>2, <1>3, ConcatProperties
<1> HIDE DEF r
<1>6. Len(r) = n - 1 /\ DOMAIN r = 1 .. n - 1
  BY <1>1, <1>2, <1>3, <1>5
<1>7. ASSUME NEW j \in 1 .. n - 1 PROVE r[j] = IF j < k THEN q[j] ELSE q[j + 1]
  <2>1. r[j] = IF j <= k - 1 THEN a[j] ELSE b[j - (k - 1)]
    BY <1>1, <1>2, <1>3, <1>5
  <2>2. CASE j < k
    BY <1>1, <1>2, <2>1, <2>2
  <2>3. CASE ~ (j < k)
    <3>1. j - (k - 1) \in 1 .. n - k /\ k + (j - (k - 1)) = j + 1
      BY <1>1, <2>3
    <3>2. r[j] = b[j - (k - 1)]
      BY <1>1, <2>1, <2>3
    <3>3. QED
      BY <1>3, <2>3, <3>1, <3>2
  <2>4. QED
    BY <2>2, <2>3
<1>8. QED
  BY <1>1, <1>4, <1>5, <1>6, <1>7 DEF r, n

LEMMA DropChanges ==
  ASSUME NEW N, NEW K, NEW M, NEW L, NEW par, NEW k, NEW gone,
         Shape(N, K), IsDrop(N, K, M, L, par, k, gone)
  PROVE  /\ K[par][k] \in gone /\ K[par][k] \in KidsOf(K, par)
         /\ Root \notin gone /\ gone \subseteq Ids
         /\ \A d \in Ids : d \notin gone => M[d] = N[d]
         /\ \A d \in gone : KidsOf(L, d) = {}
         /\ \A d \in Ids : d \notin gone => /\ KidsOf(L, d) = KidsOf(K, d) \ {K[par][k]}
                                          /\ KidsOf(L, d) \cap gone = {}
         /\ Typed(M, L) /\ OnceEach(L)
<1> DEFINE b == K[par][k]
<1>1. /\ par \in Ids /\ k \in DOMAIN K[par]
      /\ gone = Below(N, K, b)
      /\ par \notin gone
      /\ M = [i \in Ids |-> IF i \in gone THEN Unused ELSE N[i]]
      /\ L = [i \in Ids |-> IF i \in gone THEN <<>>
                            ELSE IF i = par THEN RemoveAt(K[i], k) ELSE K[i]]
  BY DEF IsDrop
<1>2. N \in [Ids -> [name : Labels, content : Kinds]] /\ K \in [Ids -> Seq(Ids)]
  BY DEF Shape, Typed
<1>3. K[par] \in Seq(Ids) /\ b \in Ids /\ b \in KidsOf(K, par)
  <2>1. K[par] \in Seq(Ids)
    BY <1>1, <1>2
  <2>2. QED
    BY <1>1, <2>1 DEF KidsOf
<1>4. b \in gone /\ gone \subseteq Ids
      /\ \A c \in gone : c = b \/ \E d \in Ids : d \in gone /\ c \in KidsOf(K, d)
  BY <1>1, <1>3, BelowIs
<1>5. Root \notin gone
  BY <1>1, <1>3, <1>4 DEF Shape, Forest
<1>6. M \in [Ids -> [name : Labels, content : Kinds]] /\ \A d \in Ids : d \notin gone => M[d] = N[d]
  <2>1. Unused \in [name : Labels, content : Kinds]
    BY DEF Unused, Labels, Kinds
  <2>2. QED
    BY <1>1, <1>2, <2>1
<1> DEFINE r == RemoveAt(K[par], k)
           n == Len(K[par])
<1>7. /\ r \in Seq(Ids) /\ n \in Nat /\ DOMAIN K[par] = 1 .. n
      /\ DOMAIN r = 1 .. n - 1
      /\ \A j \in 1 .. n - 1 : r[j] = IF j < k THEN K[par][j] ELSE K[par][j + 1]
  BY <1>1, <1>3, RemoveAtIs
<1> HIDE DEF r
<1>8. ASSUME NEW d \in Ids
      PROVE  /\ d \in gone => L[d] = <<>>
             /\ d = par => L[d] = r
             /\ d \notin gone /\ d # par => L[d] = K[d]
  BY <1>1 DEF r
<1>9. L \in [Ids -> Seq(Ids)]
  <2>1. L = [i \in Ids |-> L[i]]
    BY <1>1
  <2>2. \A i \in Ids : L[i] \in Seq(Ids)
    <3>1. <<>> \in Seq(Ids)
      OBVIOUS
    <3>2. QED
      BY <1>2, <1>7, <1>8, <3>1
  <2>3. QED
    BY <2>1, <2>2
<1>10. \A i, j \in 1 .. n : K[par][i] = K[par][j] => i = j
  BY <1>1, <1>7 DEF Shape, OnceEach
<1>11. KidsOf(L, par) = KidsOf(K, par) \ {b}
  <2>1. KidsOf(L, par) = {r[j] : j \in DOMAIN r} /\ KidsOf(K, par) = {K[par][j] : j \in DOMAIN K[par]}
    BY <1>1, <1>8, Zenon DEF KidsOf
  <2> HIDE DEF n
  <2>2. ASSUME NEW j \in DOMAIN r
        PROVE  \E i \in DOMAIN K[par] : i # k /\ r[j] = K[par][i]
    <3>1. j \in 1 .. n - 1 /\ k \in 1 .. n
      BY <1>1, <1>7, <2>2
    <3>2. CASE j < k
      <4>1. j \in DOMAIN K[par] /\ j # k /\ r[j] = K[par][j]
        BY <1>7, <3>1, <3>2
      <4>2. QED
        BY <4>1
    <3>3. CASE ~ (j < k)
      <4>1. j + 1 \in DOMAIN K[par] /\ j + 1 # k /\ r[j] = K[par][j + 1]
        BY <1>7, <3>1, <3>3
      <4>2. QED
        BY <4>1
    <3>4. QED
      BY <3>2, <3>3
  <2>3. ASSUME NEW i \in DOMAIN K[par], i # k
        PROVE  \E j \in DOMAIN r : r[j] = K[par][i]
    <3>1. i \in 1 .. n /\ k \in 1 .. n
      BY <1>1, <1>7, <2>3
    <3>2. CASE i < k
      <4>1. i \in DOMAIN r /\ r[i] = K[par][i]
        BY <1>7, <3>1, <3>2
      <4>2. QED
        BY <4>1
    <3>3. CASE ~ (i < k)
      <4> DEFINE j == i - 1
      <4>1. j \in 1 .. n - 1 /\ ~ (j < k) /\ j + 1 = i
        BY <1>7, <2>3, <3>1, <3>3
      <4> HIDE DEF j
      <4>2. j \in DOMAIN r /\ r[j] = K[par][i]
        BY <1>7, <4>1
      <4>3. QED
        BY <4>2
    <3>4. QED
      BY <3>2, <3>3
  <2>4. \A i \in DOMAIN K[par] : K[par][i] = b <=> i = k
    BY <1>1, <1>7, <1>10
  <2> HIDE DEF b
  <2>5. \A c \in KidsOf(L, par) : c \in KidsOf(K, par) /\ c # b
    BY <2>1, <2>2, <2>4, Zenon
  <2>6. \A c \in KidsOf(K, par) : c # b => c \in KidsOf(L, par)
    <3>1. k \in DOMAIN K[par] /\ b = K[par][k]
      BY <1>1 DEF b
    <3>2. QED
      BY <2>1, <2>3, <2>4, <3>1, Zenon
  <2>7. QED
    BY <2>5, <2>6
<1>12. ASSUME NEW d \in Ids, d \notin gone
       PROVE  KidsOf(L, d) = KidsOf(K, d) \ {b} /\ KidsOf(L, d) \cap gone = {}
  <2>1. KidsOf(L, d) = KidsOf(K, d) \ {b}
    <3>1. CASE d = par
      BY <1>11, <3>1
    <3>2. CASE d # par
      <4>1. KidsOf(L, d) = KidsOf(K, d)
        BY <1>8, <1>12, <3>2 DEF KidsOf
      <4>2. b \notin KidsOf(K, d)
        BY <1>1, <1>3, <3>2 DEF Shape, Forest
      <4>3. QED
        BY <4>1, <4>2
    <3>3. QED
      BY <3>1, <3>2
  <2>2. ASSUME NEW c \in KidsOf(L, d), c \in gone PROVE FALSE
    <3>1. c \in KidsOf(K, d) /\ c # b
      BY <2>1, <2>2
    <3>2. PICK e \in Ids : e \in gone /\ c \in KidsOf(K, e)
      BY <1>4, <2>2, <3>1
    <3>3. d = e
      BY <3>1, <3>2 DEF Shape, Forest
    <3>4. QED
      BY <1>12, <3>2, <3>3
  <2>3. QED
    BY <2>1, <2>2
<1>13. ASSUME NEW d \in gone PROVE KidsOf(L, d) = {}
  <2>1. L[d] = <<>>
    BY <1>4, <1>8, <1>13
  <2>2. DOMAIN L[d] = {}
    BY <2>1
  <2>3. QED
    BY <2>2 DEF KidsOf
<1>14. OnceEach(L)
  <2>1. ASSUME NEW d \in Ids, NEW i \in DOMAIN L[d], NEW j \in DOMAIN L[d], L[d][i] = L[d][j]
        PROVE  i = j
    <3>1. CASE d \in gone
      <4>1. DOMAIN L[d] = {}
        <5>1. L[d] = <<>>
          BY <1>8, <3>1
        <5>2. QED
          BY <5>1
      <4>2. QED
        BY <2>1, <4>1
    <3>2. CASE d = par
      <4> HIDE DEF n
      <4>1. i \in 1 .. n - 1 /\ j \in 1 .. n - 1 /\ r[i] = r[j] /\ k \in 1 .. n
        BY <1>1, <1>7, <1>8, <2>1, <3>2
      <4> DEFINE i2 == IF i < k THEN i ELSE i + 1
                 j2 == IF j < k THEN j ELSE j + 1
      <4>2. r[i] = K[par][i2] /\ r[j] = K[par][j2] /\ i2 \in 1 .. n /\ j2 \in 1 .. n
        BY <1>7, <4>1
      <4>3. i2 = j2
        <5> HIDE DEF i2, j2
        <5>1. QED
          BY <1>10, <4>1, <4>2
      <4>4. QED
        BY <1>7, <4>1, <4>3
    <3>3. CASE d \notin gone /\ d # par
      <4>1. L[d] = K[d]
        BY <1>8, <3>3
      <4>2. QED
        BY <2>1, <4>1 DEF Shape, OnceEach
    <3>4. QED
      BY <3>1, <3>2, <3>3
  <2>2. QED
    BY <2>1 DEF OnceEach
<1>15. QED
  BY <1>3, <1>4, <1>5, <1>6, <1>9, <1>12, <1>13, <1>14 DEF Typed

LEMMA DropShape ==
  ASSUME NEW N, NEW K, NEW M, NEW L, NEW par, NEW k, NEW gone,
         Shape(N, K), IsDrop(N, K, M, L, par, k, gone)
  PROVE  Shape(M, L)
<1>1. /\ Root \notin gone /\ gone \subseteq Ids
      /\ \A d \in Ids : d \notin gone => M[d] = N[d]
      /\ \A d \in gone : KidsOf(L, d) = {}
      /\ \A d \in Ids : d \notin gone => /\ KidsOf(L, d) = KidsOf(K, d) \ {K[par][k]}
                                       /\ KidsOf(L, d) \cap gone = {}
      /\ Typed(M, L) /\ OnceEach(L)
  BY DropChanges
<1>2. Forest(N, K)
  BY DEF Shape
<1>3. ASSUME NEW d \in Ids, NEW c \in KidsOf(L, d)
      PROVE  /\ d \notin gone /\ M[d] = N[d] /\ c \in KidsOf(K, d)
             /\ c \in Ids /\ c \notin gone /\ M[c] = N[c]
  <2>1. d \notin gone
    BY <1>1, <1>3
  <2>2. c \in KidsOf(K, d) /\ c \notin gone
    BY <1>1, <1>3, <2>1
  <2>3. c \in Ids
    BY <1>2, <2>2 DEF Forest
  <2>4. QED
    BY <1>1, <2>1, <2>2, <2>3
<1>4. M[Root].content = "dir"
  BY <1>1, <1>2, IdsAre DEF Forest
<1>5. ASSUME NEW d \in Ids, KidsOf(L, d) # {} PROVE M[d].content = "dir"
  <2>1. PICK c : c \in KidsOf(L, d)
    BY <1>5
  <2>2. QED
    BY <1>2, <1>3, <2>1 DEF Forest
<1>6. ASSUME NEW d \in Ids, NEW c \in KidsOf(L, d)
      PROVE  c \in Ids /\ c # Root /\ M[c].name \in Names /\ M[c].content # None
  BY <1>2, <1>3, <1>6 DEF Forest
<1>7. ASSUME NEW d \in Ids, NEW e \in Ids, NEW c \in KidsOf(L, d), c \in KidsOf(L, e)
      PROVE  d = e
  BY <1>2, <1>3, <1>7 DEF Forest
<1>8. ASSUME NEW d \in Ids, NEW b \in KidsOf(L, d), NEW c \in KidsOf(L, d), M[b].name = M[c].name
      PROVE  b = c
  BY <1>2, <1>3, <1>8 DEF Forest
<1>9. QED
  BY <1>1, <1>4, <1>5, <1>6, <1>7, <1>8 DEF Shape, Forest

LEMMA PrefixIs ==
  ASSUME NEW S, NEW a \in Seq(S), NEW t \in Seq(S)
  PROVE  IsPrefix(a, t) <=> Len(a) <= Len(t) /\ \A k \in 1 .. Len(a) : a[k] = t[k]
<1> DEFINE n == Len(a)
<1>1. n \in Nat /\ Len(t) \in Nat
  OBVIOUS
<1>2. SUFFICES ASSUME n <= Len(t)
               PROVE  SubSeq(a, 1, n) = SubSeq(t, 1, n) <=> \A k \in 1 .. n : a[k] = t[k]
  BY DEF IsPrefix
<1> DEFINE u == SubSeq(t, 1, n)
<1>3. SubSeq(a, 1, n) = a
  BY SubSeqFull
<1>4. u \in Seq(S) /\ Len(u) = n
  BY <1>1, <1>2
<1>5. \A k \in 1 .. n : u[k] = t[k]
  BY <1>1, <1>2
<1> HIDE DEF u
<1>6. a = u <=> \A k \in 1 .. n : a[k] = u[k]
  BY <1>1, <1>4
<1>7. QED
  BY <1>3, <1>5, <1>6 DEF u

LEMMA PrefixOfAppend ==
  ASSUME NEW S, NEW a \in Seq(S), NEW q \in Seq(S), NEW s \in S
  PROVE  IsPrefix(a, Append(q, s)) <=> IsPrefix(a, q) \/ a = Append(q, s)
<1> DEFINE b == Append(q, s)
<1>1. /\ b \in Seq(S) /\ Len(b) = Len(q) + 1 /\ Len(q) \in Nat /\ Len(a) \in Nat
      /\ \A k \in 1 .. Len(q) : b[k] = q[k]
  BY AppendIs
<1> HIDE DEF b
<1>2. IsPrefix(a, b) <=> Len(a) <= Len(b) /\ \A k \in 1 .. Len(a) : a[k] = b[k]
  BY <1>1, PrefixIs
<1>3. IsPrefix(a, q) <=> Len(a) <= Len(q) /\ \A k \in 1 .. Len(a) : a[k] = q[k]
  BY PrefixIs
<1>4. CASE Len(a) <= Len(q)
  <2>1. a # b /\ \A k \in 1 .. Len(a) : b[k] = q[k]
    BY <1>1, <1>4
  <2>2. QED
    BY <1>1, <1>2, <1>3, <1>4, <2>1 DEF b
<1>5. CASE Len(a) = Len(b)
  <2>1. (\A k \in 1 .. Len(a) : a[k] = b[k]) <=> a = b
    BY <1>1, <1>5
  <2>2. QED
    BY <1>1, <1>2, <1>3, <1>5, <2>1 DEF b
<1>6. CASE Len(a) > Len(b)
  <2>1. a # b
    BY <1>1, <1>6
  <2>2. QED
    BY <1>1, <1>2, <1>3, <1>6, <2>1 DEF b
<1>7. QED
  BY <1>1, <1>4, <1>5, <1>6

LEMMA PrefixOfConcat ==
  ASSUME NEW S, NEW a \in Seq(S), NEW q \in Seq(S)
  PROVE  IsPrefix(a, a \o q)
<1> DEFINE b == a \o q
<1>1. /\ b \in Seq(S) /\ Len(b) = Len(a) + Len(q) /\ Len(q) \in Nat /\ Len(a) \in Nat
      /\ \A k \in 1 .. Len(a) + Len(q) : b[k] = IF k <= Len(a) THEN a[k] ELSE q[k - Len(a)]
  BY ConcatProperties
<1> HIDE DEF b
<1>2. Len(a) <= Len(b) /\ \A k \in 1 .. Len(a) : a[k] = b[k]
  BY <1>1
<1>3. IsPrefix(a, b)
  BY <1>1, <1>2, PrefixIs
<1>4. QED
  BY <1>3 DEF b

(* What lies below a node is found by the paths that lead through it.         *)
LEMMA BelowHasPrefix ==
  ASSUME NEW N, NEW K, Shape(N, K), NEW a \in Seq(Names), NEW q \in Seq(Names),
         Found(N, K, q) \in Below(N, K, Found(N, K, a))
  PROVE  IsPrefix(a, q)
<1>1. PICK r \in Paths : /\ Found(N, K, q) = FindIn(N, K, Found(N, K, a), r)
                         /\ Found(N, K, q) # NoNode
  BY DEF Below
<1>2. r \in Seq(Names)
  BY PathsAre
<1> DEFINE b == a \o r
<1>3. b \in Seq(Names) /\ IsPrefix(a, b) /\ Found(N, K, b) = FindIn(N, K, Found(N, K, a), r)
  BY <1>2, ConcatProperties, PrefixOfConcat, FindConcat
<1> HIDE DEF b
<1>4. q = b
  BY <1>1, <1>3, OnePath
<1>5. QED
  BY <1>3, <1>4

(* The paths through the dropped node lead nowhere, and every other path     *)
(* leads where it led.                                                       *)
LEMMA DropFinds ==
  ASSUME NEW N, NEW K, NEW M, NEW L, NEW par, NEW k, NEW gone,
         Shape(N, K), IsDrop(N, K, M, L, par, k, gone),
         NEW p \in Seq(Names), NEW s \in Names, Found(N, K, p) = par,
         Found(N, K, Append(p, s)) = K[par][k]
  PROVE  \A q \in Seq(Names) :
            /\ Found(M, L, q) = IF IsPrefix(Append(p, s), q) THEN NoNode ELSE Found(N, K, q)
            /\ ~ IsPrefix(Append(p, s), q) => Found(N, K, q) \notin gone
<1> DEFINE pre == Append(p, s)
           b == K[par][k]
           P == {q \in Seq(Names) : Found(M, L, q) = IF IsPrefix(pre, q) THEN NoNode ELSE Found(N, K, q)}
<1>1. /\ pre \in Seq(Names) /\ pre # <<>> /\ Len(pre) = Len(p) + 1 /\ Len(p) \in Nat
      /\ Front(pre) = p /\ Last(pre) = s /\ Found(N, K, pre) = b
  BY AppendIs
<1> HIDE DEF pre
<1>2. par \in Ids /\ k \in DOMAIN K[par] /\ gone = Below(N, K, b) /\ par \notin gone
  BY DEF IsDrop
<1>3. /\ b \in gone /\ b \in KidsOf(K, par) /\ gone \subseteq Ids
      /\ \A d \in Ids : d \notin gone => M[d] = N[d]
      /\ \A d \in Ids : d \notin gone => /\ KidsOf(L, d) = KidsOf(K, d) \ {b}
                                       /\ KidsOf(L, d) \cap gone = {}
  BY DropChanges
<1> HIDE DEF b
<1>4. Shape(M, L) /\ Root \in Spots /\ Forest(N, K) /\ b \in Ids /\ NoNode \notin Ids
  BY <1>3, DropShape, IdsAre DEF Spots, Shape
<1>5. N[b].name = s
  <2>1. Child(N, K, Found(N, K, p), b, s)
    BY <1>1, <1>4, FindChild DEF Found, pre
  <2>2. QED
    BY <2>1 DEF Child
<1>6. ASSUME NEW q \in Seq(Names), ~ IsPrefix(pre, q) PROVE Found(N, K, q) \notin gone
  BY <1>1, <1>2, <1>6, BelowHasPrefix
<1>7. <<>> \in P
  <2>1. <<>> \in Seq(Names)
    OBVIOUS
  <2>2. Found(M, L, <<>>) = Root /\ Found(N, K, <<>>) = Root
    BY <1>4, <2>1, RootIsFound
  <2>3. ~ IsPrefix(pre, <<>>)
    <3>1. Len(pre) > Len(<<>>)
      BY <1>1
    <3>2. Len(pre) \in Nat /\ Len(<<>>) \in Nat
      BY <1>1
    <3>3. QED
      BY <3>1, <3>2 DEF IsPrefix
  <2>4. QED
    BY <2>1, <2>2, <2>3
<1>8. ASSUME NEW q \in Seq(Names), NEW t \in Names, q \in P PROVE Append(q, t) \in P
  <2> DEFINE a == Append(q, t)
             d == Found(M, L, q)
  <2> SUFFICES a \in P
    OBVIOUS
  <2>1. /\ a \in Seq(Names) /\ Front(a) = q /\ Last(a) = t
        /\ IsPrefix(pre, a) <=> IsPrefix(pre, q) \/ pre = a
    BY <1>1, AppendIs, PrefixOfAppend
  <2>2. Found(M, L, a) = StepIn(M, L, d, t) /\ Found(N, K, a) = StepIn(N, K, Found(N, K, q), t)
    BY <1>4, FindAppend DEF Found
  <2>3. pre = a <=> q = p /\ t = s
    BY <1>1, <2>1 DEF pre
  <2> HIDE DEF a
  <2>4. d \in Spots /\ Found(N, K, q) \in Spots
    BY <1>4, RootIsFound
  <2>5. CASE IsPrefix(pre, q)
    <3>1. d = NoNode
      BY <1>8, <2>5
    <3>2. StepIn(M, L, d, t) = NoNode
      BY <3>1 DEF StepIn, DirIn
    <3>3. QED
      BY <2>1, <2>2, <2>5, <3>2
  <2>6. CASE ~ IsPrefix(pre, q) /\ pre = a
    <3>1. q = p /\ t = s /\ d = par
      BY <1>8, <2>3, <2>6
    <3>2. ASSUME NEW c \in Ids, Child(M, L, par, c, s) PROVE FALSE
      <4>1. c \in KidsOf(L, par) /\ M[c].name = s
        BY <3>2 DEF Child
      <4>2. c \in KidsOf(K, par) /\ c # b /\ N[c].name = s
        BY <1>2, <1>3, <4>1
      <4>3. QED
        BY <1>2, <1>3, <1>4, <1>5, <4>2 DEF Forest
    <3>3. StepIn(M, L, d, t) = NoNode
      BY <1>4, <2>4, <3>1, <3>2, StepIs DEF Spots
    <3>4. QED
      BY <2>1, <2>2, <2>6, <3>3
  <2>7. CASE ~ IsPrefix(pre, q) /\ pre # a
    <3>1. d = Found(N, K, q) /\ d \notin gone
      BY <1>6, <1>8, <2>7
    <3> HIDE DEF d
    <3>2. ASSUME d \in Ids, b \in KidsOf(K, d), t = s PROVE FALSE
      <4>1. d = par
        BY <1>2, <1>3, <1>4, <3>2 DEF Forest
      <4>2. q = p
        BY <1>2, <1>4, <3>1, <4>1, OnePath
      <4>3. QED
        BY <2>3, <2>7, <3>2, <4>2
    <3>3. ASSUME NEW c \in Ids, d \in Ids
          PROVE  Child(N, K, d, c, t) <=> Child(M, L, d, c, t)
      <4>1. M[d] = N[d]
        BY <1>3, <3>1, <3>3
      <4>2. c \in KidsOf(L, d) <=> c \in KidsOf(K, d) /\ c # b
        BY <1>3, <3>1, <3>3
      <4>3. c \in KidsOf(L, d) => M[c] = N[c]
        BY <1>3, <3>1, <3>3
      <4>4. c = b /\ c \in KidsOf(K, d) => N[c].name # t
        BY <1>5, <3>2, <3>3
      <4>5. QED
        BY <4>1, <4>2, <4>3, <4>4 DEF Child
    <3>4. ASSUME NEW c \in Ids PROVE Child(N, K, d, c, t) <=> Child(M, L, d, c, t)
      BY <3>3 DEF Child
    <3>5. StepIn(M, L, d, t) = StepIn(N, K, d, t)
      BY <1>4, <2>4, <3>4, SameStep
    <3>6. QED
      BY <2>1, <2>2, <2>7, <3>1, <3>5 DEF d
  <2>8. QED
    BY <2>5, <2>6, <2>7
<1>9. \A q \in Seq(Names) : q \in P
  <2> HIDE DEF P
  <2>1. QED
    BY <1>7, <1>8, PathInduct
<1>10. QED
  BY <1>6, <1>9 DEF pre

-----------------------------------------------------------------------------
(* The tree of paths that FileTree speaks of.                                *)

View(N, K) == [q \in {q \in Paths : Found(N, K, q) # NoNode} |-> N[Found(N, K, q)].content]

With(v, p, entry) == [q \in DOMAIN v \cup {p} |-> IF q = p THEN entry ELSE v[q]]
Without(v, p)     == [q \in {q \in DOMAIN v : ~ IsPrefix(p, q)} |-> v[q]]

LEMMA ViewIs ==
  /\ TreeView = View(nodes, kids)
  /\ TreeView' = View(nodes', kids')
  /\ \A q : Find(q) = Found(nodes, kids, q)
  /\ \A q : Find(q)' = Found(nodes', kids', q)
<1>1. \A q : Find(q) = Found(nodes, kids, q)
  BY LookupIs DEF Found
<1>2. \A q : Find(q)' = Found(nodes', kids', q)
  BY DEF Find, FindFrom, Step, IsDir, ChildNamed, Hits,
         Found, FindIn, StepIn, DirIn, ChildIn, HitsIn
<1>3. TreeView = View(nodes, kids)
  BY <1>1 DEF TreeView, View
<1>4. TreeView' = View(nodes', kids')
  BY <1>2 DEF TreeView, View
<1>5. QED
  BY <1>1, <1>2, <1>3, <1>4

LEMMA PushView ==
  ASSUME NEW N, NEW K, NEW M, NEW L, NEW par, NEW id, NEW s, NEW kind,
         Shape(N, K), IsPush(N, K, M, L, par, id, s, kind),
         NEW p \in Seq(Names), Found(N, K, p) = par, Append(p, s) \in Paths
  PROVE  View(M, L) = With(View(N, K), Append(p, s), kind)
<1> DEFINE a == Append(p, s)
           v == View(N, K)
<1>1. \A q \in Paths : q \in Seq(Names)
  BY PathsAre
<1>2. \A q \in Paths : Found(M, L, q) = IF q = a THEN id ELSE Found(N, K, q)
  BY <1>1, PushFinds
<1>3. /\ id \in Ids /\ id # Root /\ \A d \in Ids : id \notin KidsOf(K, d)
      /\ \A d \in Ids : d # id => M[d] = N[d]
      /\ M[id].content = kind
  <2>1. id \in Ids
    BY DEF IsPush
  <2>2. QED
    BY <2>1, PushChanges
<1>4. ASSUME NEW q \in Paths, Found(N, K, q) # NoNode
      PROVE  Found(N, K, q) \in Ids /\ Found(N, K, q) # id
  <2>1. q \in Seq(Names) /\ Found(N, K, q) \in Ids
    BY <1>1, <1>4, RootIsFound DEF Spots
  <2>2. ASSUME Found(N, K, q) = id PROVE FALSE
    <3>1. q # <<>>
      BY <1>3, <2>1, <2>2, RootIsFound
    <3>2. Front(q) \in Seq(Names) /\ Last(q) \in Names /\ q = Append(Front(q), Last(q))
      BY <2>1, <3>1, FrontAndLast
    <3>3. Root \in Spots
      BY IdsAre DEF Spots
    <3>4. Child(N, K, Found(N, K, Front(q)), id, Last(q))
      BY <1>3, <2>2, <3>2, <3>3, FindChild DEF Found
    <3>5. QED
      BY <1>3, <3>4 DEF Child
  <2>3. QED
    BY <2>1, <2>2
<1>5. a \in Paths /\ NoNode \notin Ids
  BY IdsAre
<1> HIDE DEF a
<1>6. \A q \in Paths : Found(M, L, q) # NoNode <=> q = a \/ Found(N, K, q) # NoNode
  BY <1>2, <1>3, <1>5
<1>7. \A q \in Paths : q = a \/ Found(N, K, q) # NoNode =>
         M[Found(M, L, q)].content = IF q = a THEN kind ELSE N[Found(N, K, q)].content
  BY <1>2, <1>3, <1>4
<1>8. {q \in Paths : Found(M, L, q) # NoNode} = {q \in Paths : Found(N, K, q) # NoNode} \cup {a}
  BY <1>5, <1>6
<1>9. DOMAIN v = {q \in Paths : Found(N, K, q) # NoNode}
      /\ \A q \in DOMAIN v : v[q] = N[Found(N, K, q)].content
  BY DEF View
<1> HIDE DEF v
<1>10. View(M, L) = With(v, a, kind)
  BY <1>7, <1>8, <1>9 DEF View, With
<1>11. QED
  BY <1>10 DEF a, v

LEMMA OverwriteView ==
  ASSUME NEW N, NEW K, NEW M, NEW b, NEW data, Shape(N, K), IsOverwrite(N, M, b, data),
         NEW p \in Paths, Found(N, K, p) = b
  PROVE  View(M, K) = With(View(N, K), p, data)
<1> DEFINE v == View(N, K)
<1>1. \A q \in Paths : q \in Seq(Names)
  BY PathsAre
<1>2. \A q \in Paths : Found(M, K, q) = Found(N, K, q)
  BY <1>1, OverwriteFinds
<1>3. b \in Ids /\ b # NoNode /\ M[b].content = data /\ \A d \in Ids : d # b => M[d] = N[d]
  <2>1. b \in Ids
    BY DEF IsOverwrite
  <2>2. QED
    BY <2>1, OverwriteChanges, IdsAre
<1>4. \A q \in Paths : Found(N, K, q) # NoNode =>
         Found(N, K, q) \in Ids /\ (Found(N, K, q) = b => q = p)
  BY <1>1, RootIsFound, OnePath DEF Spots
<1>5. \A q \in Paths : Found(N, K, q) # NoNode =>
         M[Found(M, K, q)].content = IF q = p THEN data ELSE N[Found(N, K, q)].content
  BY <1>2, <1>3, <1>4
<1>6. DOMAIN v = {q \in Paths : Found(N, K, q) # NoNode}
      /\ \A q \in DOMAIN v : v[q] = N[Found(N, K, q)].content
  BY DEF View
<1>7. {q \in Paths : Found(M, K, q) # NoNode} = DOMAIN v \cup {p}
  BY <1>2, <1>3, <1>6
<1> HIDE DEF v
<1>8. View(M, K) = With(v, p, data)
  <2>1. \A q \in DOMAIN v \cup {p} :
           M[Found(M, K, q)].content = IF q = p THEN data ELSE v[q]
    BY <1>3, <1>5, <1>6
  <2>2. View(M, K) = [q \in DOMAIN v \cup {p} |-> M[Found(M, K, q)].content]
    BY <1>7, Zenon DEF View
  <2>3. QED
    BY <2>1, <2>2 DEF With
<1>9. QED
  BY <1>8 DEF v

LEMMA DropView ==
  ASSUME NEW N, NEW K, NEW M, NEW L, NEW par, NEW k, NEW gone,
         Shape(N, K), IsDrop(N, K, M, L, par, k, gone),
         NEW p \in Seq(Names), NEW s \in Names, Found(N, K, p) = par,
         Found(N, K, Append(p, s)) = K[par][k]
  PROVE  View(M, L) = Without(View(N, K), Append(p, s))
<1> DEFINE a == Append(p, s)
           v == View(N, K)
<1>1. \A q \in Paths : q \in Seq(Names)
  BY PathsAre
<1>2. \A q \in Paths :
         /\ Found(M, L, q) = IF IsPrefix(a, q) THEN NoNode ELSE Found(N, K, q)
         /\ ~ IsPrefix(a, q) => Found(N, K, q) \notin gone
  <2>1. \A q \in Seq(Names) :
           /\ Found(M, L, q) = IF IsPrefix(a, q) THEN NoNode ELSE Found(N, K, q)
           /\ ~ IsPrefix(a, q) => Found(N, K, q) \notin gone
    BY DropFinds
  <2> HIDE DEF a
  <2>2. QED
    BY <1>1, <2>1
<1>3. \A d \in Ids : d \notin gone => M[d] = N[d]
  BY DropChanges
<1>4. \A q \in Paths : Found(N, K, q) # NoNode => Found(N, K, q) \in Ids
  BY <1>1, RootIsFound DEF Spots
<1>5. DOMAIN v = {q \in Paths : Found(N, K, q) # NoNode}
      /\ \A q \in DOMAIN v : v[q] = N[Found(N, K, q)].content
  BY DEF View
<1> HIDE DEF a, v
<1>6. {q \in Paths : Found(M, L, q) # NoNode} = {q \in DOMAIN v : ~ IsPrefix(a, q)}
  <2>1. \A q \in Paths : Found(M, L, q) # NoNode <=> Found(N, K, q) # NoNode /\ ~ IsPrefix(a, q)
    BY <1>2, Zenon
  <2>2. QED
    BY <1>5, <2>1
<1>7. \A q \in {q \in DOMAIN v : ~ IsPrefix(a, q)} : M[Found(M, L, q)].content = v[q]
  <2>1. ASSUME NEW q \in DOMAIN v, ~ IsPrefix(a, q) PROVE M[Found(M, L, q)].content = v[q]
    <3>1. q \in Paths /\ Found(N, K, q) # NoNode /\ v[q] = N[Found(N, K, q)].content
      BY <1>5
    <3>2. Found(M, L, q) = Found(N, K, q) /\ Found(N, K, q) \notin gone
      BY <1>2, <2>1, <3>1, Zenon
    <3>3. QED
      BY <1>3, <1>4, <3>1, <3>2
  <2>2. QED
    BY <2>1
<1>8. View(M, L) = Without(v, a)
  BY <1>6, <1>7 DEF View, Without
<1>9. QED
  BY <1>8 DEF a, v

-----------------------------------------------------------------------------
(* The invariant.  Commands are given for the paths of Paths only, so        *)
(* nothing lies deeper.                                                      *)

Deep(N, K) == \A q \in Seq(Names) : Found(N, K, q) # NoNode => q \in Paths

TreeInv == Shape(nodes, kids) /\ Deep(nodes, kids) /\ cwd \in Paths

LEMMA EntryIs ==
  ASSUME TreeInv, NEW p \in Paths
  PROVE  /\ p \in Seq(Names) /\ Find(p) = Found(nodes, kids, p) /\ Find(p) \in Spots
         /\ p \in DOMAIN TreeView <=> Find(p) # NoNode
         /\ p \in DOMAIN TreeView => TreeView[p] = nodes[Find(p)].content
         /\ Tree!IsDir(p) <=> IsDir(Find(p))
         /\ Tree!IsFile(p) <=> IsFile(Find(p))
<1>1. p \in Seq(Names) /\ Find(p) = Found(nodes, kids, p)
  BY PathsAre, ViewIs
<1>2. Find(p) \in Spots
  BY <1>1, RootIsFound DEF TreeInv
<1>3. /\ p \in DOMAIN TreeView <=> Find(p) # NoNode
      /\ p \in DOMAIN TreeView => TreeView[p] = nodes[Find(p)].content
  BY DEF TreeView
<1> HIDE DEF TreeView
<1>4. /\ Tree!IsDir(p) <=> IsDir(Find(p))
      /\ Tree!IsFile(p) <=> IsFile(Find(p))
  BY <1>3 DEF Tree!IsDir, Tree!IsFile, IsDir, IsFile
<1>5. QED
  BY <1>1, <1>2, <1>3, <1>4

LEMMA SameOperators ==
  /\ \A q : Tree!Front(q) = Front(q) /\ Tree!Last(q) = Last(q)
  /\ \A a, q : Tree!IsPrefix(a, q) = IsPrefix(a, q)
  /\ \A q : Tree!ToSet(q) = ToSet(q)
BY DEF Tree!Front, Tree!Last, Tree!IsPrefix, Tree!ToSet, Front, Last, IsPrefix, ToSet

(* The place of an entry.                                                     *)
LEMMA PlaceIs ==
  ASSUME TreeInv, NEW p \in Paths
  PROVE  /\ IsDir(Parent(p)) <=> Tree!HasPlace(p)
         /\ IsDir(Parent(p)) =>
              /\ Front(p) \in Seq(Names) /\ Last(p) \in Names /\ p = Append(Front(p), Last(p))
              /\ p # <<>> /\ Parent(p) = Found(nodes, kids, Front(p))
              /\ Parent(p) \in Ids /\ nodes[Parent(p)].content = "dir"
              /\ ChildNamed(Parent(p), Last(p)) = Found(nodes, kids, p)
         /\ p # <<>> /\ ~ IsDir(Parent(p)) => Find(p) = NoNode
<1>1. p \in Seq(Names) /\ Find(p) = Found(nodes, kids, p) /\ Shape(nodes, kids)
  BY EntryIs DEF TreeInv
<1>2. CASE p = <<>>
  BY <1>2 DEF Parent, IsDir, Tree!HasPlace
<1>3. CASE p # <<>>
  <2> DEFINE f == Front(p)
             l == Last(p)
  <2>1. f \in Seq(Names) /\ l \in Names /\ p = Append(f, l) /\ Len(p) = Len(f) + 1
    BY <1>1, <1>3, FrontAndLast
  <2>2. f \in Paths
    <3>1. Len(p) <= MAX_DEPTH /\ MAX_DEPTH \in Nat
      BY PathsAre, VfsAssumption DEF VfsAssumption
    <3>2. Len(f) <= MAX_DEPTH
      BY <2>1, <3>1
    <3>3. QED
      BY <2>1, <3>2, PathsAre
  <2>3. Parent(p) = Find(f)
    BY <1>3 DEF Parent
  <2> HIDE DEF f, l
  <2>4. Find(f) = Found(nodes, kids, f) /\ Find(f) \in Spots /\ (Tree!IsDir(f) <=> IsDir(Find(f)))
    BY <2>2, EntryIs
  <2>5. IsDir(Parent(p)) <=> Tree!HasPlace(p)
    BY <1>3, <2>3, <2>4, SameOperators DEF Tree!HasPlace, f
  <2>6. Root \in Spots
    BY IdsAre DEF Spots
  <2>7. Found(nodes, kids, p) = StepIn(nodes, kids, Find(f), l)
    BY <1>1, <2>1, <2>4, <2>6, FindAppend DEF Found
  <2>8. Found(nodes, kids, p) = IF IsDir(Find(f)) THEN ChildNamed(Find(f), l) ELSE NoNode
    BY <2>7, LookupIs DEF StepIn
  <2>9. IsDir(Find(f)) => Find(f) \in Ids /\ nodes[Find(f)].content = "dir"
    BY <2>4 DEF IsDir, Spots
  <2>10. QED
    BY <1>1, <1>3, <2>1, <2>3, <2>4, <2>5, <2>8, <2>9 DEF f, l
<1>4. QED
  BY <1>2, <1>3

LEMMA InvInit == Init => TreeInv
<1> SUFFICES ASSUME Init PROVE TreeInv
  OBVIOUS
<1>1. Root \in Ids /\ 1 \in Ids /\ 2 \in Ids /\ Root # 1 /\ Root # 2 /\ Root = 0
  BY IdsAre DEF Root
<1>2. \A id \in Ids :
         /\ id = Root => nodes[id] = Node("/", "dir")
         /\ id = 1 => nodes[id] = Node("bin", "dir")
         /\ id = 2 => nodes[id] = Node("init", "sh")
         /\ id \notin {Root, 1, 2} => nodes[id] = Unused
  BY <1>1 DEF Init
<1>3. \A id \in Ids :
         /\ id = Root => kids[id] = <<1>>
         /\ id = 1 => kids[id] = <<2>>
         /\ id \notin {Root, 1} => kids[id] = <<>>
  BY <1>1 DEF Init
<1>4. {"bin", "init"} \subseteq Names /\ "sh" \in Contents /\ MAX_DEPTH \in Nat /\ MAX_DEPTH >= 2
  BY VfsAssumption DEF VfsAssumption
<1>5. Typed(nodes, kids)
  <2>1. \A id \in Ids : nodes[id] \in [name : Labels, content : Kinds]
    <3>1. {Node("/", "dir"), Node("bin", "dir"), Node("init", "sh"), Unused}
             \subseteq [name : Labels, content : Kinds]
      BY <1>4 DEF Node, Unused, Labels, Kinds
    <3>2. QED
      BY <1>2, <3>1
  <2>2. \A id \in Ids : kids[id] \in Seq(Ids)
    <3>1. <<1>> \in Seq(Ids) /\ <<2>> \in Seq(Ids) /\ <<>> \in Seq(Ids)
      BY <1>1
    <3>2. QED
      BY <1>3, <3>1
  <2>3. nodes = [id \in Ids |-> nodes[id]] /\ kids = [id \in Ids |-> kids[id]]
    BY DEF Init
  <2>4. QED
    BY <2>1, <2>2, <2>3 DEF Typed
<1>6. KidsOf(kids, Root) = {1} /\ KidsOf(kids, 1) = {2}
  <2>1. kids[Root] = <<1>> /\ kids[1] = <<2>>
    BY <1>1, <1>3
  <2>2. QED
    BY <2>1 DEF KidsOf
<1>7. \A id \in Ids : id \notin {Root, 1} => KidsOf(kids, id) = {}
  <2>1. ASSUME NEW id \in Ids, id \notin {Root, 1} PROVE KidsOf(kids, id) = {}
    <3>1. kids[id] = <<>>
      BY <1>3, <2>1
    <3>2. QED
      BY <3>1 DEF KidsOf
  <2>2. QED
    BY <2>1
<1>8. /\ nodes[Root].content = "dir" /\ nodes[1].content = "dir"
      /\ nodes[1].name = "bin" /\ nodes[2].name = "init" /\ nodes[2].content = "sh"
  BY <1>1, <1>2 DEF Node
<1>9. Forest(nodes, kids)
  <2>1. "sh" # None /\ "dir" # None
    BY DEF None
  <2>2. \A d \in Ids : \A c \in KidsOf(kids, d) : (d = Root /\ c = 1) \/ (d = 1 /\ c = 2)
    BY <1>6, <1>7
  <2>3. QED
    BY <1>1, <1>4, <1>6, <1>7, <1>8, <2>1, <2>2 DEF Forest
<1>10. OnceEach(kids)
  <2>1. ASSUME NEW d \in Ids, NEW k \in DOMAIN kids[d], NEW l \in DOMAIN kids[d] PROVE k = l
    <3>1. kids[d] = <<1>> \/ kids[d] = <<2>> \/ kids[d] = <<>>
      BY <1>3
    <3>2. QED
      BY <2>1, <3>1
  <2>2. QED
    BY <2>1 DEF OnceEach
<1>11. Shape(nodes, kids)
  BY <1>5, <1>9, <1>10 DEF Shape
<1>12. ASSUME NEW q \in Seq(Names), q # <<>>, Found(nodes, kids, q) # NoNode
       PROVE  /\ Front(q) \in Seq(Names) /\ Len(q) = Len(Front(q)) + 1
              /\ \/ Found(nodes, kids, q) = 1 /\ Found(nodes, kids, Front(q)) = Root
                 \/ Found(nodes, kids, q) = 2 /\ Found(nodes, kids, Front(q)) = 1
  <2> DEFINE f == Front(q)
             l == Last(q)
             c == Found(nodes, kids, q)
             d == Found(nodes, kids, f)
  <2>1. f \in Seq(Names) /\ l \in Names /\ q = Append(f, l) /\ Len(q) = Len(f) + 1
    BY <1>12, FrontAndLast
  <2> HIDE DEF f, l
  <2>2. Root \in Spots
    BY <1>1 DEF Spots
  <2>3. c \in Ids
    BY <1>11, <1>12, RootIsFound DEF Spots
  <2>4. Child(nodes, kids, d, c, l)
    BY <1>11, <2>1, <2>2, <2>3, FindChild DEF Found
  <2> HIDE DEF c, d
  <2>5. d \in Ids /\ c \in KidsOf(kids, d)
    BY <2>4 DEF Child
  <2>6. (d = Root /\ c = 1) \/ (d = 1 /\ c = 2)
    BY <1>6, <1>7, <2>5
  <2>7. QED
    BY <2>1, <2>6 DEF f, c, d
<1>13. ASSUME NEW q \in Seq(Names), Found(nodes, kids, q) # NoNode PROVE Len(q) <= 2
  <2> DEFINE f == Front(q)
  <2>1. CASE q = <<>>
    <3>1. Len(q) = 0
      BY <2>1
    <3>2. QED
      BY <3>1
  <2>2. CASE q # <<>> /\ Found(nodes, kids, q) = 1
    <3>1. f \in Seq(Names) /\ Len(q) = Len(f) + 1 /\ Found(nodes, kids, f) = Root
      BY <1>1, <1>12, <1>13, <2>2
    <3>2. f = <<>>
      BY <1>11, <3>1, RootIsFound
    <3>3. Len(f) = 0
      BY <3>2
    <3>4. QED
      BY <3>1, <3>3
  <2>3. CASE q # <<>> /\ Found(nodes, kids, q) # 1
    <3>1. f \in Seq(Names) /\ Len(q) = Len(f) + 1 /\ Found(nodes, kids, f) = 1
      BY <1>1, <1>12, <1>13, <2>3
    <3> HIDE DEF f
    <3>2. f # <<>>
      BY <1>1, <1>11, <3>1, RootIsFound
    <3> DEFINE g == Front(f)
    <3>3. g \in Seq(Names) /\ Len(f) = Len(g) + 1 /\ Found(nodes, kids, g) = Root
      BY <1>1, <1>12, <3>1, <3>2, IdsAre
    <3> HIDE DEF g
    <3>4. g = <<>>
      BY <1>11, <3>3, RootIsFound
    <3>5. Len(g) = 0
      BY <3>4
    <3>6. QED
      BY <3>1, <3>3, <3>5
  <2>4. QED
    BY <2>1, <2>2, <2>3
<1>14. Deep(nodes, kids)
  <2>1. \A q \in Seq(Names) : Found(nodes, kids, q) # NoNode => Len(q) <= MAX_DEPTH
    BY <1>4, <1>13
  <2>2. QED
    BY <2>1, PathsAre DEF Deep
<1>15. cwd \in Paths
  <2> DEFINE e == <<>>
  <2>1. e \in Seq(Names) /\ Len(e) = 0
    OBVIOUS
  <2>2. cwd = e
    BY DEF Init
  <2> HIDE DEF e
  <2>3. Len(e) <= MAX_DEPTH
    BY <1>4, <2>1
  <2>4. e \in Paths
    BY <2>1, <2>3, PathsAre
  <2>5. QED
    BY <2>2, <2>4
<1>16. QED
  BY <1>11, <1>14, <1>15 DEF TreeInv

-----------------------------------------------------------------------------
(* Every command keeps the invariant and does what FileTree says.            *)

LEMMA SameTree ==
  ASSUME TreeInv, UNCHANGED <<nodes, kids, cwd>>
  PROVE  TreeInv' /\ TreeView' = TreeView
<1>1. nodes' = nodes /\ kids' = kids /\ cwd' = cwd
  OBVIOUS
<1>2. TreeView' = TreeView
  BY <1>1, ViewIs
<1>3. QED
  BY <1>1, <1>2 DEF TreeInv

LEMMA RefuseIs ==
  ASSUME TreeInv, NEW name, NEW p, NEW data, Refuse(name, p, data)
  PROVE  /\ TreeInv' /\ UNCHANGED <<TreeView, cwd>>
         /\ request' = [cmd |-> name, path |-> p, data |-> data] /\ answer' = FALSE
<1>1. UNCHANGED <<nodes, kids, cwd>>
  BY DEF Refuse
<1>2. QED
  BY <1>1, SameTree DEF Refuse, Answer

LEMMA ChangeDirectoryStep ==
  ASSUME TreeInv, NEW p \in Paths, ChangeDirectory(p)
  PROVE  TreeInv' /\ Tree!ChangeDirectory(p)
<1>1. (p = <<>> \/ IsDir(Find(p))) <=> Tree!IsDir(p)
  <2>1. Tree!IsDir(p) <=> IsDir(Find(p))
    BY EntryIs
  <2>2. ASSUME p = <<>> PROVE IsDir(Find(p))
    <3>1. Find(p) = Root
      BY <2>2, EntryIs, RootIsFound DEF TreeInv
    <3>2. QED
      BY <3>1, IdsAre DEF IsDir, TreeInv, Shape, Forest
  <2>3. QED
    BY <2>1, <2>2
<1>2. CASE Tree!IsDir(p)
  <2>1. Answer("cd", p, "empty", TRUE) /\ cwd' = p /\ UNCHANGED <<nodes, kids>>
    BY <1>1, <1>2 DEF ChangeDirectory
  <2>2. TreeView' = TreeView
    BY <2>1, ViewIs
  <2>3. TreeInv'
    BY <2>1 DEF TreeInv
  <2>4. answer' = Tree!IsDir(p)
    <3>1. Tree!IsDir(p) = TRUE
      BY <1>2, Zenon DEF Tree!IsDir
    <3>2. QED
      BY <2>1, <3>1, Zenon DEF Answer
  <2>5. QED
    BY <1>2, <2>1, <2>2, <2>3, <2>4 DEF Tree!ChangeDirectory, Tree!Command, Answer
<1>3. CASE ~ Tree!IsDir(p)
  <2>1. Refuse("cd", p, "empty")
    BY <1>1, <1>3 DEF ChangeDirectory
  <2>2. /\ TreeInv' /\ UNCHANGED <<TreeView, cwd>>
        /\ request' = [cmd |-> "cd", path |-> p, data |-> "empty"] /\ answer' = FALSE
    BY <2>1, RefuseIs
  <2>3. Tree!IsDir(p) = FALSE
    BY <1>3, Zenon DEF Tree!IsDir
  <2>4. QED
    BY <1>3, <2>2, <2>3, Zenon DEF Tree!ChangeDirectory, Tree!Command
<1>4. QED
  BY <1>2, <1>3

(* A new entry in its place.                                                  *)
LEMMA PushStep ==
  ASSUME TreeInv, NEW p \in Paths, IsDir(Parent(p)), Find(p) = NoNode,
         NEW kind \in Contents \cup {"dir"}, Push(Parent(p), Node(Last(p), kind)), UNCHANGED cwd
  PROVE  TreeInv' /\ TreeView' = With(TreeView, p, kind)
<1> DEFINE f == Front(p)
           l == Last(p)
           par == Parent(p)
<1>1. /\ f \in Seq(Names) /\ l \in Names /\ p = Append(f, l)
      /\ par = Found(nodes, kids, f) /\ par \in Ids /\ nodes[par].content = "dir"
      /\ ChildNamed(par, l) = Found(nodes, kids, p)
  BY PlaceIs
<1>2. Found(nodes, kids, p) = NoNode
  BY ViewIs
<1>3. PICK id \in Ids : /\ nodes[id] = Unused
                        /\ nodes' = [nodes EXCEPT ![id] = Node(l, kind)]
                        /\ kids' = [kids EXCEPT ![par] = Append(@, id)]
  BY DEF Push
<1> HIDE DEF f, l, par
<1>4. Shape(nodes, kids)
  BY DEF TreeInv
<1>5. \A c \in KidsOf(kids, par) : nodes[c].name # l
  <2>1. ChildIn(nodes, kids, par, l) = NoNode
    BY <1>1, <1>2, LookupIs
  <2>2. \A c \in Ids : ~ (c \in KidsOf(kids, par) /\ nodes[c].name = l)
    BY <1>1, <1>4, <2>1, ChildIs, IdsAre
  <2>3. QED
    BY <1>1, <1>4, <2>2, KidsAreIds
<1>6. IsPush(nodes, kids, nodes', kids', par, id, l, kind)
  BY <1>1, <1>3, <1>5 DEF IsPush
<1>7. Shape(nodes', kids')
  BY <1>4, <1>6, PushShape
<1>8. \A q \in Seq(Names) :
         Found(nodes', kids', q) = IF q = p THEN id ELSE Found(nodes, kids, q)
  BY <1>1, <1>4, <1>6, PushFinds
<1>9. Deep(nodes', kids')
  BY <1>8 DEF Deep, TreeInv
<1>10. TreeInv'
  BY <1>7, <1>9 DEF TreeInv
<1>11. View(nodes', kids') = With(View(nodes, kids), p, kind)
  BY <1>1, <1>4, <1>6, PushView
<1>12. QED
  BY <1>10, <1>11, ViewIs

LEMMA WriteFileStep ==
  ASSUME TreeInv, NEW p \in Paths, NEW data \in Contents, WriteFile(p, data)
  PROVE  TreeInv' /\ Tree!WriteFile(p, data)
<1> DEFINE child == ChildNamed(Parent(p), Last(p))
           ok == Tree!HasPlace(p) /\ ~ Tree!IsDir(p)
<1>1. /\ IsDir(Parent(p)) <=> Tree!HasPlace(p)
      /\ IsDir(Parent(p)) => child = Find(p)
      /\ Tree!IsDir(p) <=> IsDir(Find(p))
  BY PlaceIs, EntryIs
<1>2. CASE ~ ok
  <2>1. Refuse("write", p, data)
    BY <1>1, <1>2 DEF WriteFile
  <2>2. /\ TreeInv' /\ UNCHANGED <<TreeView, cwd>>
        /\ request' = [cmd |-> "write", path |-> p, data |-> data] /\ answer' = FALSE
    BY <2>1, RefuseIs
  <2>3. ok = FALSE
    BY <1>2, Zenon
  <2>4. answer' = ok
    BY <2>2, <2>3, Zenon
  <2>5. QED
    BY <1>2, <2>2, <2>4, Zenon DEF Tree!WriteFile, Tree!Command
<1>3. CASE ok
  <2>1. /\ IF child # NoNode
           THEN nodes' = [nodes EXCEPT ![child].content = data] /\ UNCHANGED kids
           ELSE Push(Parent(p), Node(Last(p), data))
        /\ Answer("write", p, data, TRUE)
        /\ UNCHANGED cwd
        /\ IsDir(Parent(p)) /\ child = Find(p) /\ ~ IsDir(child)
    BY <1>1, <1>3 DEF WriteFile
  <2>2. TreeInv' /\ TreeView' = With(TreeView, p, data)
    <3>1. CASE child = NoNode
      <4>1. Push(Parent(p), Node(Last(p), data)) /\ Find(p) = NoNode
        BY <2>1, <3>1
      <4>2. QED
        BY <2>1, <4>1, PushStep
    <3>2. CASE child # NoNode
      <4> DEFINE b == Find(p)
      <4>1. /\ nodes' = [nodes EXCEPT ![b].content = data] /\ kids' = kids
            /\ b # NoNode /\ ~ IsDir(b)
        BY <2>1, <3>2
      <4>2. b \in Ids /\ b = Found(nodes, kids, p) /\ Shape(nodes, kids)
        BY <4>1, EntryIs DEF Spots, TreeInv
      <4> HIDE DEF b
      <4>3. IsOverwrite(nodes, nodes', b, data)
        BY <4>1, <4>2 DEF IsOverwrite, IsDir
      <4>4. Shape(nodes', kids')
        BY <4>1, <4>2, <4>3, OverwriteChanges
      <4>5. \A q \in Seq(Names) : Found(nodes', kids', q) = Found(nodes, kids, q)
        BY <4>1, <4>2, <4>3, OverwriteFinds
      <4>6. TreeInv'
        BY <2>1, <4>4, <4>5 DEF TreeInv, Deep
      <4>7. View(nodes', kids') = With(View(nodes, kids), p, data)
        BY <4>1, <4>2, <4>3, OverwriteView
      <4>8. QED
        BY <4>6, <4>7, ViewIs
    <3>3. QED
      BY <3>1, <3>2
  <2>3. With(TreeView, p, data) = Tree!With(p, data)
    BY DEF With, Tree!With
  <2>4. answer' = ok
    <3>1. ok = TRUE
      BY <1>3, Zenon
    <3>2. QED
      BY <2>1, <3>1, Zenon DEF Answer
  <2>5. request' = [cmd |-> "write", path |-> p, data |-> data] /\ UNCHANGED cwd
    BY <2>1 DEF Answer
  <2>6. QED
    BY <1>3, <2>2, <2>3, <2>4, <2>5, Zenon DEF Tree!WriteFile, Tree!Command
<1>4. QED
  BY <1>2, <1>3

LEMMA MakeDirStep ==
  ASSUME TreeInv, NEW p \in Paths, MakeDir(p)
  PROVE  TreeInv' /\ Tree!MakeDir(p)
<1> DEFINE child == ChildNamed(Parent(p), Last(p))
           ok == Tree!HasPlace(p) /\ p \notin DOMAIN TreeView
<1>1. /\ IsDir(Parent(p)) <=> Tree!HasPlace(p)
      /\ IsDir(Parent(p)) => child = Find(p)
      /\ p \in DOMAIN TreeView <=> Find(p) # NoNode
  BY PlaceIs, EntryIs
<1>2. CASE ~ ok
  <2>1. Refuse("mkdir", p, "empty")
    BY <1>1, <1>2 DEF MakeDir
  <2>2. /\ TreeInv' /\ UNCHANGED <<TreeView, cwd>>
        /\ request' = [cmd |-> "mkdir", path |-> p, data |-> "empty"] /\ answer' = FALSE
    BY <2>1, RefuseIs
  <2>3. ok = FALSE
    BY <1>2, Zenon
  <2>4. answer' = ok
    BY <2>2, <2>3, Zenon
  <2>5. QED
    BY <1>2, <2>2, <2>4, Zenon DEF Tree!MakeDir, Tree!Command
<1>3. CASE ok
  <2>1. /\ Push(Parent(p), Node(Last(p), "dir"))
        /\ Answer("mkdir", p, "empty", TRUE)
        /\ UNCHANGED cwd
        /\ IsDir(Parent(p)) /\ Find(p) = NoNode
    BY <1>1, <1>3 DEF MakeDir
  <2>2. TreeInv' /\ TreeView' = With(TreeView, p, "dir")
    BY <2>1, PushStep
  <2>3. With(TreeView, p, "dir") = Tree!With(p, "dir")
    BY DEF With, Tree!With
  <2>4. answer' = ok
    <3>1. ok = TRUE
      BY <1>3, Zenon
    <3>2. QED
      BY <2>1, <3>1, Zenon DEF Answer
  <2>5. request' = [cmd |-> "mkdir", path |-> p, data |-> "empty"] /\ UNCHANGED cwd
    BY <2>1 DEF Answer
  <2>6. QED
    BY <1>3, <2>2, <2>3, <2>4, <2>5, Zenon DEF Tree!MakeDir, Tree!Command
<1>4. QED
  BY <1>2, <1>3

(* Removing an entry that is there.                                           *)
LEMMA DropStep ==
  ASSUME TreeInv, NEW p \in Paths, IsDir(Parent(p)), Find(p) # NoNode,
         Drop(Parent(p), Min(Hits(Parent(p), Last(p)))), UNCHANGED cwd
  PROVE  TreeInv' /\ TreeView' = Without(TreeView, p)
<1> DEFINE f == Front(p)
           l == Last(p)
           par == Parent(p)
           k == Min(Hits(par, l))
           gone == Subtree(kids[par][k])
<1>1. /\ f \in Seq(Names) /\ l \in Names /\ p = Append(f, l) /\ p \in Seq(Names)
      /\ par = Found(nodes, kids, f) /\ par \in Ids
      /\ ChildNamed(par, l) = Found(nodes, kids, p)
  BY PlaceIs, EntryIs
<1>2. Found(nodes, kids, p) # NoNode /\ Shape(nodes, kids)
  BY ViewIs DEF TreeInv
<1>3. /\ nodes' = [i \in Ids |-> IF i \in gone THEN Unused ELSE nodes[i]]
      /\ kids'  = [i \in Ids |-> IF i \in gone THEN <<>>
                                 ELSE IF i = par THEN RemoveAt(kids[i], k) ELSE kids[i]]
  BY DEF Drop
<1> HIDE DEF f, l, par
<1>4. k \in DOMAIN kids[par] /\ kids[par][k] = Found(nodes, kids, p)
  <2>1. k = Min(HitsIn(nodes, kids, par, l)) /\ ChildNamed(par, l) = ChildIn(nodes, kids, par, l)
    BY LookupIs
  <2>2. HitsIn(nodes, kids, par, l) # {}
    BY <1>1, <1>2, <2>1, ChildIs
  <2> HIDE DEF k
  <2>3. k \in DOMAIN kids[par] /\ ChildIn(nodes, kids, par, l) = kids[par][k]
    BY <1>1, <1>2, <2>1, <2>2, ChildIs
  <2>4. QED
    BY <1>1, <2>1, <2>3
<1>5. gone = Below(nodes, kids, kids[par][k])
  BY LookupIs DEF Subtree, Below
<1> HIDE DEF k, gone
<1>6. par \notin gone
  <2>1. SUFFICES ASSUME par \in gone PROVE FALSE
    OBVIOUS
  <2>2. IsPrefix(p, f)
    BY <1>1, <1>2, <1>4, <1>5, <2>1, BelowHasPrefix
  <2>3. Len(p) <= Len(f)
    BY <1>1, <2>2, PrefixIs
  <2>4. Len(p) = Len(f) + 1 /\ Len(f) \in Nat
    BY <1>1, AppendIs
  <2>5. QED
    BY <2>3, <2>4
<1>7. IsDrop(nodes, kids, nodes', kids', par, k, gone)
  BY <1>1, <1>3, <1>4, <1>5, <1>6 DEF IsDrop
<1>8. Shape(nodes', kids')
  BY <1>2, <1>7, DropShape
<1>9. Deep(nodes', kids')
  <2>1. \A q \in Seq(Names) :
           Found(nodes', kids', q) = IF IsPrefix(p, q) THEN NoNode ELSE Found(nodes, kids, q)
    BY <1>1, <1>2, <1>4, <1>7, DropFinds
  <2>2. QED
    BY <2>1 DEF Deep, TreeInv
<1>10. TreeInv'
  BY <1>8, <1>9 DEF TreeInv
<1>11. View(nodes', kids') = Without(View(nodes, kids), p)
  BY <1>1, <1>2, <1>4, <1>7, DropView
<1>12. QED
  BY <1>10, <1>11, ViewIs

LEMMA RemoveNodeStep ==
  ASSUME TreeInv, NEW p \in Paths, RemoveNode(p)
  PROVE  TreeInv' /\ Tree!RemoveNode(p)
<1> DEFINE hits == Hits(Parent(p), Last(p))
           ok == p # <<>> /\ p \in DOMAIN TreeView
<1>1. ok <=> IsDir(Parent(p)) /\ hits # {}
  <2>1. p \in DOMAIN TreeView <=> Find(p) # NoNode
    BY EntryIs
  <2>2. CASE IsDir(Parent(p))
    <3>1. p # <<>> /\ Parent(p) \in Ids /\ ChildNamed(Parent(p), Last(p)) = Find(p)
      BY <2>2, PlaceIs, ViewIs
    <3>2. hits = {} <=> ChildNamed(Parent(p), Last(p)) = NoNode
      BY <3>1, LookupIs, ChildIs DEF TreeInv
    <3>3. QED
      BY <2>1, <2>2, <3>1, <3>2
  <2>3. CASE ~ IsDir(Parent(p))
    BY <2>1, <2>3, PlaceIs
  <2>4. QED
    BY <2>2, <2>3
<1>2. CASE ~ ok
  <2>1. Refuse("rm", p, "empty")
    BY <1>1, <1>2 DEF RemoveNode
  <2>2. /\ TreeInv' /\ UNCHANGED <<TreeView, cwd>>
        /\ request' = [cmd |-> "rm", path |-> p, data |-> "empty"] /\ answer' = FALSE
    BY <2>1, RefuseIs
  <2>3. ok = FALSE
    BY <1>2, Zenon
  <2>4. answer' = ok
    BY <2>2, <2>3, Zenon
  <2>5. QED
    BY <1>2, <2>2, <2>4, Zenon DEF Tree!RemoveNode, Tree!Command
<1>3. CASE ok
  <2>1. /\ Drop(Parent(p), Min(hits))
        /\ Answer("rm", p, "empty", TRUE)
        /\ UNCHANGED cwd
        /\ IsDir(Parent(p))
    BY <1>1, <1>3 DEF RemoveNode
  <2>2. Find(p) # NoNode
    BY <1>3, EntryIs
  <2>3. TreeInv' /\ TreeView' = Without(TreeView, p)
    BY <2>1, <2>2, DropStep
  <2>4. Without(TreeView, p) = Tree!Without(p)
    BY SameOperators DEF Without, Tree!Without
  <2>5. answer' = ok
    <3>1. ok = TRUE
      BY <1>3, Zenon
    <3>2. QED
      BY <2>1, <3>1, Zenon DEF Answer
  <2>6. request' = [cmd |-> "rm", path |-> p, data |-> "empty"] /\ UNCHANGED cwd
    BY <2>1 DEF Answer
  <2>7. QED
    BY <1>3, <2>3, <2>4, <2>5, <2>6, Zenon DEF Tree!RemoveNode, Tree!Command
<1>4. QED
  BY <1>2, <1>3

LEMMA StepIsTreeStep ==
  ASSUME TreeInv, [Next]_vars
  PROVE  TreeInv' /\ [Tree!Next]_(Tree!treeVars)
<1>1. CASE UNCHANGED vars
  <2>1. UNCHANGED <<nodes, kids, cwd>> /\ UNCHANGED <<cwd, request, answer>>
    BY <1>1 DEF vars
  <2>2. TreeInv' /\ TreeView' = TreeView
    BY <2>1, SameTree
  <2>3. QED
    BY <2>1, <2>2 DEF Tree!treeVars
<1>2. CASE Next
  <2>1. PICK p \in Paths : \/ ChangeDirectory(p)
                           \/ \E data \in Contents : WriteFile(p, data)
                           \/ MakeDir(p)
                           \/ RemoveNode(p)
    BY <1>2 DEF Next
  <2>2. CASE ChangeDirectory(p)
    BY <2>2, ChangeDirectoryStep, Zenon DEF Tree!Next
  <2>3. CASE \E data \in Contents : WriteFile(p, data)
    BY <2>3, WriteFileStep, Zenon DEF Tree!Next
  <2>4. CASE MakeDir(p)
    BY <2>4, MakeDirStep, Zenon DEF Tree!Next
  <2>5. CASE RemoveNode(p)
    BY <2>5, RemoveNodeStep, Zenon DEF Tree!Next
  <2>6. QED
    BY <2>1, <2>2, <2>3, <2>4, <2>5
<1>3. QED
  BY <1>1, <1>2

LEMMA TreeInvariant == Spec => []TreeInv
<1>1. Init => TreeInv
  BY InvInit
<1>2. TreeInv /\ [Next]_vars => TreeInv'
  BY StepIsTreeStep
<1>3. QED
  BY <1>1, <1>2, PTL DEF Spec

-----------------------------------------------------------------------------
(* What the readers see.                                                     *)

LEMMA ReadIs ==
  ASSUME TreeInv, NEW p \in Paths
  PROVE  IF Tree!IsFile(p) THEN ReadFile(p) = TreeView[p] ELSE ReadFile(p) = None
<1>1. Tree!IsFile(p) <=> IsFile(Find(p))
  BY EntryIs
<1>2. Tree!IsFile(p) => TreeView[p] = nodes[Find(p)].content
  BY EntryIs DEF Tree!IsFile
<1>3. QED
  BY <1>1, <1>2 DEF ReadFile

(* The entries of a directory are its children.                              *)
LEMMA ChildEntry ==
  ASSUME TreeInv, NEW p \in Paths, IsDir(Find(p)), NEW c \in KidsOf(kids, Find(p))
  PROVE  \E q \in DOMAIN TreeView :
            /\ q # <<>> /\ Tree!Front(q) = p
            /\ <<Tree!Last(q), Tree!IsDir(q)>> = <<nodes[c].name, IsDir(c)>>
<1> DEFINE d == Find(p)
           s == nodes[c].name
           q == Append(p, s)
<1>1. p \in Seq(Names) /\ d = Found(nodes, kids, p) /\ d \in Ids /\ nodes[d].content = "dir"
  BY EntryIs DEF IsDir, Spots
<1>2. c \in Ids /\ s \in Names /\ Shape(nodes, kids) /\ Root \in Spots /\ c # NoNode
  BY <1>1, IdsAre DEF TreeInv, Shape, Forest, Spots
<1> HIDE DEF d, s
<1>3. q \in Seq(Names) /\ q # <<>> /\ Front(q) = p /\ Last(q) = s
  BY <1>1, <1>2, AppendIs
<1>4. Found(nodes, kids, q) = c
  <2>1. Child(nodes, kids, d, c, s)
    BY <1>1 DEF Child, d, s
  <2>2. QED
    BY <1>1, <1>2, <2>1, FindChild DEF Found
<1>5. q \in Paths
  BY <1>2, <1>3, <1>4 DEF TreeInv, Deep
<1> HIDE DEF q
<1>6. q \in DOMAIN TreeView /\ (Tree!IsDir(q) <=> IsDir(c))
  BY <1>2, <1>4, <1>5, EntryIs
<1>7. Tree!IsDir(q) = IsDir(c)
  BY <1>6, Zenon DEF Tree!IsDir, IsDir
<1>8. Tree!Front(q) = p /\ Tree!Last(q) = s
  BY <1>3, SameOperators
<1>9. QED
  BY <1>3, <1>6, <1>7, <1>8, Zenon DEF s

LEMMA EntryChild ==
  ASSUME TreeInv, NEW p \in Paths, IsDir(Find(p)),
         NEW q \in DOMAIN TreeView, q # <<>>, Tree!Front(q) = p
  PROVE  \E c \in KidsOf(kids, Find(p)) :
            <<Tree!Last(q), Tree!IsDir(q)>> = <<nodes[c].name, IsDir(c)>>
<1> DEFINE c == Find(q)
<1>1. q \in Paths
  BY DEF TreeView
<1>2. /\ q \in Seq(Names) /\ c = Found(nodes, kids, q) /\ c \in Ids
      /\ Tree!IsDir(q) <=> IsDir(c)
  BY <1>1, EntryIs DEF Spots
<1> HIDE DEF c
<1>3. Front(q) = p /\ Tree!Last(q) = Last(q)
  BY SameOperators
<1>4. Last(q) \in Names /\ q = Append(p, Last(q)) /\ p \in Seq(Names)
  BY <1>2, <1>3, FrontAndLast
<1>5. Shape(nodes, kids) /\ Root \in Spots
  BY IdsAre DEF TreeInv, Spots
<1>6. Child(nodes, kids, Found(nodes, kids, p), c, Last(q))
  BY <1>2, <1>4, <1>5, FindChild DEF Found
<1>7. c \in KidsOf(kids, Find(p)) /\ nodes[c].name = Last(q)
  BY <1>6, ViewIs DEF Child
<1>8. Tree!IsDir(q) = IsDir(c)
  BY <1>2, Zenon DEF Tree!IsDir, IsDir
<1>9. QED
  BY <1>3, <1>7, <1>8, Zenon

LEMMA ListIs ==
  ASSUME TreeInv, NEW p \in Paths, Tree!IsDir(p)
  PROVE  Tree!IsListing(p, ListDirectory(p))
<1> DEFINE d == Find(p)
           Line(c) == <<nodes[c].name, IsDir(c)>>
           list == ListDirectory(p)
<1>1. IsDir(d) /\ d \in Ids /\ d # NoNode
  BY EntryIs DEF IsDir, Spots
<1>2. list = [k \in DOMAIN kids[d] |-> Line(kids[d][k])]
  BY <1>1, Zenon DEF ListDirectory
<1>3. \A c \in KidsOf(kids, d) : \E q \in DOMAIN TreeView :
         q # <<>> /\ Tree!Front(q) = p /\ <<Tree!Last(q), Tree!IsDir(q)>> = Line(c)
  BY <1>1, ChildEntry
<1>4. \A q \in DOMAIN TreeView : q # <<>> /\ Tree!Front(q) = p =>
         \E c \in KidsOf(kids, d) : <<Tree!Last(q), Tree!IsDir(q)>> = Line(c)
  BY <1>1, EntryChild
<1>5. \A b, c \in KidsOf(kids, d) : Line(b) = Line(c) => b = c
  <2>1. ASSUME NEW b \in KidsOf(kids, d), NEW c \in KidsOf(kids, d), Line(b) = Line(c)
        PROVE  b = c
    <3>1. nodes[b].name = nodes[c].name
      BY <2>1
    <3>2. QED
      BY <1>1, <3>1 DEF TreeInv, Shape, Forest
  <2>2. QED
    BY <2>1
<1>6. \A k, l \in DOMAIN kids[d] : kids[d][k] = kids[d][l] => k = l
  BY <1>1 DEF TreeInv, Shape, OnceEach
<1> HIDE DEF list, Line, d
<1>7. DOMAIN list = DOMAIN kids[d] /\ \A k \in DOMAIN kids[d] : list[k] = Line(kids[d][k])
  BY <1>2
<1>8. Tree!IsInjective(list)
  <2>1. \A k, l \in DOMAIN kids[d] : list[k] = list[l] => k = l
    BY <1>5, <1>6, <1>7 DEF KidsOf
  <2>2. QED
    BY <1>7, <2>1 DEF Tree!IsInjective
<1>9. Tree!ToSet(list) = {Line(c) : c \in KidsOf(kids, d)}
  BY <1>7 DEF Tree!ToSet, KidsOf
<1>10. Tree!Entries(p) = {Line(c) : c \in KidsOf(kids, d)}
  <2> DEFINE E(q) == <<Tree!Last(q), Tree!IsDir(q)>>
             Q == {q \in DOMAIN TreeView : q # <<>> /\ Tree!Front(q) = p}
  <2>1. Tree!Entries(p) = {E(q) : q \in Q}
    BY DEF Tree!Entries
  <2>2. \A c \in KidsOf(kids, d) : \E q \in Q : E(q) = Line(c)
    BY <1>3
  <2>3. \A q \in Q : \E c \in KidsOf(kids, d) : E(q) = Line(c)
    BY <1>4
  <2> HIDE DEF E, Q
  <2>4. QED
    BY <2>1, <2>2, <2>3
<1>11. QED
  BY <1>8, <1>9, <1>10 DEF Tree!IsListing, list

-----------------------------------------------------------------------------
(* The theorems.                                                             *)

(* Every node that a child vector names is a node, only a directory owns      *)
(* children, and the current directory is a path the commands accept.        *)
THEOREM TypeIsInvariant == Spec => []TypeOK
<1>1. TreeInv => TypeOK
  <2> SUFFICES ASSUME TreeInv PROVE TypeOK
    OBVIOUS
  <2>1. ASSUME NEW id \in Ids
        PROVE  /\ nodes[id].content \in Contents \cup {"dir", None}
               /\ \A k \in DOMAIN kids[id] : kids[id][k] \in Ids
               /\ kids[id] # <<>> => IsDir(id)
    <3>1. nodes[id] \in [name : Labels, content : Kinds] /\ kids[id] \in Seq(Ids)
      BY DEF TreeInv, Shape, Typed
    <3>2. nodes[id].content \in Contents \cup {"dir", None}
      BY <3>1 DEF Kinds
    <3>3. kids[id] # <<>> => KidsOf(kids, id) # {}
      <4>1. ASSUME kids[id] # <<>> PROVE kids[id][1] \in KidsOf(kids, id)
        BY <3>1, <4>1 DEF KidsOf
      <4>2. QED
        BY <4>1
    <3>4. KidsOf(kids, id) # {} => IsDir(id)
      BY IdsAre DEF IsDir, TreeInv, Shape, Forest
    <3>5. QED
      BY <3>1, <3>2, <3>3, <3>4
  <2>2. QED
    BY <2>1 DEF TypeOK, TreeInv
<1>2. QED
  BY <1>1, TreeInvariant, PTL

(* Whatever was written, made and removed before, ls of a directory shows     *)
(* each of its entries once and hides none, and cat shows what was last       *)
(* written: the search from the front of list_directory's and read_file's     *)
(* vectors never meets a second entry of the same name.                       *)
THEOREM ReadersAlwaysAgree == Spec => []ReadersAgree
<1>1. TreeInv => ReadersAgree
  BY ReadIs, ListIs DEF ReadersAgree
<1>2. QED
  BY <1>1, TreeInvariant, PTL

(* Whatever the vectors hold, every command of vfs.rs succeeds, fails and     *)
(* changes the tree as FileTree says, with the nodes of a removed directory   *)
(* taken along: FileTree!Spec is implemented, TreeView being the tree.        *)
THEOREM VfsIsFileTree == Spec => ImplementsFileTree
<1>1. Init => Tree!Init
  <2> SUFFICES ASSUME Init PROVE Tree!Init
    OBVIOUS
  <2>1. TreeInv
    BY InvInit
  <2>2. Tree!IsDir(<<>>)
    <3>1. cwd = <<>> /\ cwd \in Paths
      BY <2>1 DEF Init, TreeInv
    <3>2. Find(<<>>) = Root
      BY <2>1, <3>1, EntryIs, RootIsFound DEF TreeInv
    <3>3. IsDir(Find(<<>>))
      BY <2>1, <3>2, IdsAre DEF IsDir, TreeInv, Shape, Forest
    <3>4. QED
      BY <2>1, <3>1, <3>3, EntryIs
  <2>3. ASSUME NEW p \in DOMAIN TreeView, p # <<>> PROVE Tree!IsDir(Tree!Front(p))
    <3>1. p \in Paths /\ Find(p) # NoNode
      BY DEF TreeView
    <3>2. Tree!HasPlace(p)
      BY <2>1, <2>3, <3>1, PlaceIs
    <3>3. QED
      BY <3>2 DEF Tree!HasPlace
  <2>4. QED
    BY <2>2, <2>3 DEF Tree!Init, Init
<1>2. TreeInv /\ [Next]_vars => [Tree!Next]_(Tree!treeVars)
  BY StepIsTreeStep
<1>3. QED
  BY <1>1, <1>2, TreeInvariant, PTL DEF Spec, ImplementsFileTree, Tree!Spec

LiveIn(v, c) == c \in DOMAIN v /\ v[c] = "dir"

LEMMA CwdIsEntry == TreeInv => (CwdLive <=> LiveIn(TreeView, cwd))
<1> SUFFICES ASSUME TreeInv PROVE CwdLive <=> LiveIn(TreeView, cwd)
  OBVIOUS
<1>1. cwd \in Paths
  BY DEF TreeInv
<1>2. Tree!IsDir(cwd) <=> IsDir(Find(cwd))
  BY <1>1, EntryIs
<1>3. QED
  BY <1>2 DEF CwdLive, LiveIn, Tree!IsDir

(* cd refuses what is no directory, and write and mkdir never take a          *)
(* directory away: CURRENT_DIR dangles only when rm names it or an ancestor.  *)
THEOREM CwdLostByRemoveOnly == Spec => CwdLostByRemove
<1> DEFINE Kept == CwdLive /\ ~ CwdLive' => request'.cmd = "rm" /\ IsPrefix(request'.path, cwd)
<1>1. TreeInv /\ TreeInv' /\ [Next]_vars => [Kept]_vars
  <2> SUFFICES ASSUME TreeInv, TreeInv', Next, CwdLive, ~ CwdLive'
               PROVE  request'.cmd = "rm" /\ IsPrefix(request'.path, cwd)
    BY DEF Kept
  <2> DEFINE v == TreeView
             w == TreeView'
  <2>1. LiveIn(v, cwd)
    BY CwdIsEntry
  <2>2. ~ LiveIn(w, cwd')
    <3>1. TreeInv' => (CwdLive' <=> LiveIn(TreeView, cwd)')
      BY CwdIsEntry, PTL
    <3>2. QED
      BY <3>1 DEF LiveIn
  <2>3. PICK p \in Paths : \/ ChangeDirectory(p)
                           \/ \E data \in Contents : WriteFile(p, data)
                           \/ MakeDir(p)
                           \/ RemoveNode(p)
    BY DEF Next
  <2>4. ~ (w = v /\ cwd' = cwd)
    BY <2>1, <2>2
  <2>5. CASE ChangeDirectory(p)
    <3>1. Tree!ChangeDirectory(p)
      BY <2>5, ChangeDirectoryStep
    <3>2. Tree!IsDir(p) /\ cwd' = p /\ w = v
      BY <2>4, <3>1, Zenon DEF Tree!ChangeDirectory, Tree!Command
    <3>3. QED
      BY <2>2, <3>2 DEF Tree!IsDir, LiveIn
  <2>6. ASSUME NEW data \in Contents, WriteFile(p, data) PROVE FALSE
    <3>1. Tree!WriteFile(p, data)
      BY <2>6, WriteFileStep
    <3>2. ~ Tree!IsDir(p) /\ w = Tree!With(p, data) /\ cwd' = cwd
      BY <2>4, <3>1, Zenon DEF Tree!WriteFile, Tree!Command
    <3>3. w = With(v, p, data)
      BY <3>2 DEF With, Tree!With
    <3>4. cwd # p
      BY <2>1, <3>2 DEF Tree!IsDir, LiveIn
    <3> HIDE DEF v, w
    <3>5. QED
      BY <2>1, <2>2, <3>2, <3>3, <3>4 DEF With, LiveIn
  <2>7. CASE MakeDir(p)
    <3>1. Tree!MakeDir(p)
      BY <2>7, MakeDirStep
    <3>2. w = Tree!With(p, "dir") /\ cwd' = cwd
      BY <2>4, <3>1, Zenon DEF Tree!MakeDir, Tree!Command
    <3>3. w = With(v, p, "dir")
      BY <3>2 DEF With, Tree!With
    <3> HIDE DEF v, w
    <3>4. QED
      BY <2>1, <2>2, <3>2, <3>3 DEF With, LiveIn
  <2>8. CASE RemoveNode(p)
    <3>1. Tree!RemoveNode(p)
      BY <2>8, RemoveNodeStep
    <3>2. w = Tree!Without(p) /\ cwd' = cwd
      BY <2>4, <3>1, Zenon DEF Tree!RemoveNode, Tree!Command
    <3>3. request' = [cmd |-> "rm", path |-> p, data |-> "empty"]
      BY <3>1, Zenon DEF Tree!RemoveNode, Tree!Command
    <3>4. w = Without(v, p)
      BY <3>2, SameOperators DEF Without, Tree!Without
    <3> HIDE DEF v, w
    <3>5. IsPrefix(p, cwd)
      BY <2>1, <2>2, <3>2, <3>4 DEF Without, LiveIn
    <3>6. QED
      BY <3>3, <3>5
  <2>9. QED
    BY <2>3, <2>5, <2>6, <2>7, <2>8
<1>2. QED
  BY <1>1, TreeInvariant, PTL DEF Spec, CwdLostByRemove, Kept

-----------------------------------------------------------------------------
(* Resolving a path and walking it, segment by segment.                       *)

Segs  == Names \cup {".."}
Spans == Seq(Segs)

Up(p, s) == IF s # ".." THEN Append(p, s) ELSE IF p = <<>> THEN p ELSE Front(p)

(* A step of the walk, or of resolve_path.                                    *)
Go(mode, p, s) == IF mode = "walk" /\ (p = Lost \/ ~ IsDir(Find(p))) THEN Lost ELSE Up(p, s)

(* What FoldLeft takes the fixed point of.                                    *)
GoBody(F, mode, base, q) ==
  [s \in SUBSET (DOMAIN q) |->
     IF s = {} THEN base ELSE Go(mode, F[s \ {Max(s)}], q[Max(s)])]

StepByStep(f, mode, base, q) ==
  /\ f \in [0 .. Len(q) -> Spans]
  /\ f[0] = base
  /\ \A n \in 0 .. Len(q) - 1 : f[n + 1] = Go(mode, f[n], q[n + 1])

LEMMA GoTyped ==
  ASSUME NEW mode, NEW p \in Spans, NEW s \in Segs
  PROVE  Go(mode, p, s) \in Spans
<1>1. Lost \in Spans
  BY DEF Lost, Spans, Segs
<1>2. Append(p, s) \in Spans
  BY DEF Spans
<1>3. p # <<>> => Front(p) \in Spans
  BY FrontIs DEF Spans
<1>4. QED
  BY <1>1, <1>2, <1>3 DEF Go, Up

LEMMA GoExists ==
  ASSUME NEW mode, NEW base \in Spans, NEW q \in Spans
  PROVE  \E F : F = GoBody(F, mode, base, q)
<1> DEFINE M == Len(q)
           G == [i \in 1 .. M |-> [a \in Spans |-> Go(mode, a, q[i])]]
<1>1. M \in Nat /\ DOMAIN q = 1 .. M /\ \A i \in 1 .. M : q[i] \in Segs
  BY DEF Spans
<1>2. ASSUME NEW i \in 1 .. M, NEW a \in Spans
      PROVE  G[i][a] = Go(mode, a, q[i]) /\ G[i][a] \in Spans
  <2>1. G[i][a] = Go(mode, a, q[i])
    OBVIOUS
  <2> HIDE DEF G
  <2>2. QED
    BY <1>1, <2>1, GoTyped
<1>3. PICK F \in [SUBSET (1 .. M) -> Spans] : F = FoldBody(F, G, base, M)
  <2>1. M \in Nat /\ StaysIn(Spans, G, M)
    BY <1>1, <1>2, Zenon DEF StaysIn
  <2> HIDE DEF G, M
  <2>2. HasFold(Spans, G, base, M)
    BY <2>1, FoldExists
  <2>3. QED
    BY <2>2 DEF HasFold
<1>4. ASSUME NEW s \in SUBSET (1 .. M), s # {}
      PROVE  G[Max(s)][F[s \ {Max(s)}]] = Go(mode, F[s \ {Max(s)}], q[Max(s)])
  <2>1. Max(s) \in 1 .. M /\ s \ {Max(s)} \in SUBSET (1 .. M)
    BY <1>1, <1>4, MaxOfPositions
  <2>2. F[s \ {Max(s)}] \in Spans
    BY <2>1
  <2> HIDE DEF G, M
  <2>3. QED
    BY <1>2, <2>1, <2>2
<1>5. F = GoBody(F, mode, base, q)
  <2> HIDE DEF G, M
  <2>1. QED
    BY <1>1, <1>3, <1>4 DEF FoldBody, GoBody
<1>6. QED
  BY <1>5

LEMMA GoSteps ==
  ASSUME NEW mode, NEW base \in Spans, NEW q \in Spans,
         NEW F, F = GoBody(F, mode, base, q)
  PROVE  \E f : StepByStep(f, mode, base, q) /\ F[DOMAIN q] = f[Len(q)]
<1> DEFINE M == Len(q)
           f == [n \in 0 .. M |-> F[1 .. n]]
<1>1. M \in Nat /\ DOMAIN q = 1 .. M /\ \A i \in 1 .. M : q[i] \in Segs
  BY DEF Spans
<1>2. \A s \in SUBSET (1 .. M) :
         F[s] = IF s = {} THEN base ELSE Go(mode, F[s \ {Max(s)}], q[Max(s)])
  BY <1>1 DEF GoBody
<1>3. f[0] = base /\ F[DOMAIN q] = f[M]
  <2>1. 1 .. 0 = {} /\ {} \in SUBSET (1 .. M)
    OBVIOUS
  <2>2. F[1 .. 0] = base
    BY <1>2, <2>1
  <2>3. QED
    BY <1>1, <2>2
<1>4. ASSUME NEW n \in 0 .. M - 1 PROVE f[n + 1] = Go(mode, f[n], q[n + 1])
  <2>1. /\ 1 .. n + 1 \in SUBSET (1 .. M) /\ 1 .. n + 1 # {}
        /\ Max(1 .. n + 1) = n + 1
        /\ (1 .. n + 1) \ {n + 1} = 1 .. n
    BY <1>1, PrefixPositions
  <2>2. F[1 .. n + 1] = Go(mode, F[1 .. n], q[n + 1])
    BY <1>2, <2>1
  <2>3. QED
    BY <1>1, <2>2
<1>5. \A n \in 0 .. M : f[n] \in Spans
  <2> DEFINE P == {n \in Nat : n <= M => f[n] \in Spans}
  <2> HIDE DEF f
  <2>1. 0 \in P
    BY <1>1, <1>3
  <2>2. ASSUME NEW n \in Nat, n \in P PROVE n + 1 \in P
    <3>1. SUFFICES ASSUME n + 1 <= M PROVE f[n + 1] \in Spans
      OBVIOUS
    <3>2. n \in 0 .. M - 1 /\ f[n] \in Spans /\ n + 1 \in 1 .. M
      BY <1>1, <2>2, <3>1
    <3>3. q[n + 1] \in Segs
      BY <1>1, <3>2
    <3>4. QED
      BY <1>4, <3>2, <3>3, GoTyped
  <2>3. \A n \in Nat : n \in P
    <3> HIDE DEF P
    <3>1. QED
      BY <2>1, <2>2, Induct
  <2>4. QED
    BY <1>1, <2>3
<1>6. StepByStep(f, mode, base, q)
  <2>1. f \in [0 .. M -> Spans]
    <3>1. f = [n \in 0 .. M |-> f[n]]
      OBVIOUS
    <3> HIDE DEF f
    <3>2. QED
      BY <1>5, <3>1
  <2> HIDE DEF f
  <2>2. QED
    BY <1>3, <1>4, <2>1 DEF StepByStep
<1>7. QED
  BY <1>3, <1>6

Start(input) == IF input.absolute THEN <<>> ELSE cwd

LEMMA ResolveSteps ==
  ASSUME NEW input, Start(input) \o input.segs \in Spans
  PROVE  \E f : /\ StepByStep(f, "resolve", <<>>, Start(input) \o input.segs)
                /\ Resolve(input) = f[Len(Start(input) \o input.segs)]
<1> DEFINE q == Start(input) \o input.segs
           Body(F) == [s \in SUBSET (DOMAIN q) |->
                         IF s = {} THEN <<>>
                         ELSE IF q[Max(s)] # ".." THEN Append(F[s \ {Max(s)}], q[Max(s)])
                         ELSE IF F[s \ {Max(s)}] = <<>> THEN F[s \ {Max(s)}]
                         ELSE Front(F[s \ {Max(s)}])]
           R == CHOOSE F : F = Body(F)
<1>1. Resolve(input) = R[DOMAIN q]
  BY DEF Resolve, Start, FoldLeft, MapThenFoldSet
<1> HIDE DEF q
<1>2. \A F : GoBody(F, "resolve", <<>>, q) = Body(F)
  BY DEF GoBody, Go, Up
<1>3. <<>> \in Spans /\ q \in Spans
  BY DEF Spans, q
<1>4. \E F : F = GoBody(F, "resolve", <<>>, q)
  BY <1>3, GoExists
<1>5. \E F : F = Body(F)
  <2> HIDE DEF Body
  <2>1. QED
    BY <1>2, <1>4
<1>6. R = Body(R)
  <2> HIDE DEF Body
  <2>1. QED
    BY <1>5
<1> HIDE DEF R
<1>7. R = GoBody(R, "resolve", <<>>, q)
  <2> HIDE DEF Body
  <2>1. QED
    BY <1>2, <1>6
<1>8. \E f : StepByStep(f, "resolve", <<>>, q) /\ R[DOMAIN q] = f[Len(q)]
  BY <1>3, <1>7, GoSteps
<1>9. QED
  BY <1>1, <1>8 DEF q

LEMMA WalkSteps ==
  ASSUME NEW input, Start(input) \in Spans, input.segs \in Spans
  PROVE  \E g : /\ StepByStep(g, "walk", Start(input), input.segs)
                /\ Walk(input) = g[Len(input.segs)]
<1> DEFINE q == input.segs
           c == Start(input)
           Body(F) == [s \in SUBSET (DOMAIN q) |->
                         IF s = {} THEN c
                         ELSE IF F[s \ {Max(s)}] = Lost \/ ~ IsDir(Find(F[s \ {Max(s)}]))
                         THEN Lost
                         ELSE IF q[Max(s)] # ".." THEN Append(F[s \ {Max(s)}], q[Max(s)])
                         ELSE IF F[s \ {Max(s)}] = <<>> THEN F[s \ {Max(s)}]
                         ELSE Front(F[s \ {Max(s)}])]
           R == CHOOSE F : F = Body(F)
<1>1. Walk(input) = R[DOMAIN q]
  BY DEF Walk, Start, FoldLeft, MapThenFoldSet
<1> HIDE DEF q, c
<1>2. \A F : GoBody(F, "walk", c, q) = Body(F)
  BY DEF GoBody, Go, Up
<1>3. c \in Spans /\ q \in Spans
  BY DEF q, c
<1>4. \E F : F = GoBody(F, "walk", c, q)
  BY <1>3, GoExists
<1>5. \E F : F = Body(F)
  <2> HIDE DEF Body
  <2>1. QED
    BY <1>2, <1>4
<1>6. R = Body(R)
  <2> HIDE DEF Body
  <2>1. QED
    BY <1>5
<1> HIDE DEF R
<1>7. R = GoBody(R, "walk", c, q)
  <2> HIDE DEF Body
  <2>1. QED
    BY <1>2, <1>6
<1>8. \E g : StepByStep(g, "walk", c, q) /\ R[DOMAIN q] = g[Len(q)]
  BY <1>3, <1>7, GoSteps
<1>9. QED
  BY <1>1, <1>8 DEF q, c

(* resolve_path first reproduces the current directory.                       *)
LEMMA ResolvesStart ==
  ASSUME NEW c \in Seq(Names), NEW q \in Spans, NEW f, StepByStep(f, "resolve", <<>>, q),
         Len(c) <= Len(q), \A n \in 1 .. Len(c) : q[n] = c[n]
  PROVE  f[Len(c)] = c
<1> DEFINE M == Len(c)
           Upto(n) == SubSeq(c, 1, n)
           P == {n \in Nat : n <= M => f[n] = Upto(n)}
<1>1. M \in Nat /\ Len(q) \in Nat
  BY DEF Spans
<1>2. /\ f[0] = <<>>
      /\ \A n \in 0 .. M - 1 : f[n + 1] = Up(f[n], c[n + 1])
  <2>1. f[0] = <<>> /\ \A n \in 0 .. Len(q) - 1 : f[n + 1] = Up(f[n], q[n + 1])
    BY DEF StepByStep, Go
  <2>2. \A n \in 0 .. M - 1 : n \in 0 .. Len(q) - 1 /\ q[n + 1] = c[n + 1]
    BY <1>1
  <2> HIDE DEF M
  <2>3. QED
    BY <2>1, <2>2
<1>3. \A n \in 1 .. M : c[n] \in Names /\ c[n] # ".."
  BY VfsAssumption DEF VfsAssumption
<1>4. \A n \in 0 .. M : /\ Upto(n) \in Seq(Names) /\ Len(Upto(n)) = n
                        /\ \A k \in 1 .. n : Upto(n)[k] = c[k]
  BY <1>1
<1> HIDE DEF Upto
<1>5. Upto(0) = <<>>
  <2>1. Upto(0) \in Seq(Names) /\ Len(Upto(0)) = 0
    BY <1>1, <1>4
  <2>2. QED
    BY <2>1
<1>6. Upto(M) = c
  BY SubSeqFull DEF Upto
<1>7. ASSUME NEW n \in 0 .. M - 1 PROVE Append(Upto(n), c[n + 1]) = Upto(n + 1)
  <2> DEFINE a == Append(Upto(n), c[n + 1])
             b == Upto(n + 1)
  <2>1. /\ n \in Nat /\ n \in 0 .. M /\ n + 1 \in 0 .. M /\ n + 1 \in 1 .. M
    BY <1>1
  <2>2. /\ Upto(n) \in Seq(Names) /\ Len(Upto(n)) = n /\ c[n + 1] \in Names
        /\ \A k \in 1 .. n : Upto(n)[k] = c[k]
    BY <1>3, <1>4, <2>1
  <2>3. /\ b \in Seq(Names) /\ Len(b) = n + 1
        /\ \A k \in 1 .. n + 1 : b[k] = c[k]
    BY <1>4, <2>1
  <2>4. /\ a \in Seq(Names) /\ Len(a) = n + 1
        /\ \A k \in 1 .. n : a[k] = Upto(n)[k]
        /\ a[n + 1] = c[n + 1]
    BY <2>2, AppendIs
  <2> HIDE DEF a, b
  <2>5. ASSUME NEW k \in 1 .. n + 1 PROVE a[k] = b[k]
    <3>1. k \in 1 .. n \/ k = n + 1
      BY <2>1
    <3>2. CASE k \in 1 .. n
      BY <2>2, <2>3, <2>4, <3>2
    <3>3. CASE k = n + 1
      BY <2>3, <2>4, <3>3
    <3>4. QED
      BY <3>1, <3>2, <3>3
  <2>6. a = b
    BY <2>1, <2>3, <2>4, <2>5
  <2>7. QED
    BY <2>6 DEF a, b
<1>8. 0 \in P
  BY <1>2, <1>5
<1>9. ASSUME NEW n \in Nat, n \in P PROVE n + 1 \in P
  <2>1. SUFFICES ASSUME n + 1 <= M PROVE f[n + 1] = Upto(n + 1)
    OBVIOUS
  <2>2. n \in 0 .. M - 1 /\ f[n] = Upto(n) /\ n + 1 \in 1 .. M
    BY <1>1, <1>9, <2>1
  <2>3. f[n + 1] = Append(f[n], c[n + 1])
    BY <1>2, <1>3, <2>2 DEF Up
  <2>4. QED
    BY <1>7, <2>2, <2>3
<1>10. \A n \in Nat : n \in P
  <2> HIDE DEF P
  <2>1. QED
    BY <1>8, <1>9, Induct
<1>11. QED
  BY <1>1, <1>6, <1>10

(* From there on it takes the steps of the walk.                              *)
LEMMA WalkFollows ==
  ASSUME NEW c \in Seq(Names), NEW t \in Spans, NEW f, NEW g,
         StepByStep(f, "resolve", <<>>, c \o t), StepByStep(g, "walk", c, t),
         g[Len(t)] # Lost
  PROVE  f[Len(c \o t)] = g[Len(t)]
<1> DEFINE q == c \o t
           a == Len(c)
           M == Len(t)
           P == {n \in Nat : n <= M /\ g[n] # Lost => f[a + n] = g[n]}
<1>1. /\ c \in Spans /\ q \in Spans /\ a \in Nat /\ M \in Nat /\ Len(q) = a + M
      /\ \A n \in 1 .. a : q[n] = c[n]
      /\ \A n \in 1 .. M : q[a + n] = t[n]
  <2>1. c \in Seq(Segs) /\ t \in Seq(Segs)
    BY DEF Spans, Segs
  <2>2. /\ q \in Seq(Segs) /\ Len(q) = a + M /\ a \in Nat /\ M \in Nat
        /\ \A n \in 1 .. a + M : q[n] = IF n <= a THEN c[n] ELSE t[n - a]
    BY <2>1, ConcatProperties
  <2> HIDE DEF q, a, M
  <2>3. \A n \in 1 .. a : n \in 1 .. a + M /\ n <= a
    BY <2>2
  <2>4. \A n \in 1 .. M : a + n \in 1 .. a + M /\ ~ (a + n <= a) /\ (a + n) - a = n
    BY <2>2
  <2>5. QED
    BY <2>1, <2>2, <2>3, <2>4 DEF Spans
<1> HIDE DEF q
<1>2. f[a] = c
  <2>1. StepByStep(f, "resolve", <<>>, q) /\ Len(c) <= Len(q)
    BY <1>1 DEF q
  <2>2. QED
    BY <1>1, <2>1, ResolvesStart
<1>3. g[0] = c /\ \A n \in 0 .. M - 1 : g[n + 1] = Go("walk", g[n], t[n + 1])
  BY DEF StepByStep
<1>4. \A n \in 0 .. Len(q) - 1 : f[n + 1] = Up(f[n], q[n + 1])
  BY DEF StepByStep, Go, q
<1> HIDE DEF a, M
<1>5. 0 \in P
  BY <1>1, <1>2, <1>3
<1>6. ASSUME NEW n \in Nat, n \in P PROVE n + 1 \in P
  <2>1. SUFFICES ASSUME n + 1 <= M, g[n + 1] # Lost PROVE f[a + (n + 1)] = g[n + 1]
    OBVIOUS
  <2>2. /\ n \in 0 .. M - 1 /\ n <= M /\ n + 1 \in 1 .. M
        /\ a + n \in 0 .. Len(q) - 1 /\ (a + n) + 1 = a + (n + 1)
    BY <1>1, <2>1
  <2>3. g[n] # Lost /\ g[n + 1] = Up(g[n], t[n + 1])
    BY <1>3, <2>1, <2>2 DEF Go
  <2>4. f[a + n] = g[n]
    BY <1>6, <2>2, <2>3
  <2>5. f[a + (n + 1)] = Up(f[a + n], t[n + 1])
    BY <1>1, <1>4, <2>2
  <2>6. QED
    BY <2>3, <2>4, <2>5
<1>7. \A n \in Nat : n \in P
  <2> HIDE DEF P
  <2>1. QED
    BY <1>5, <1>6, Induct
<1>8. QED
  BY <1>1, <1>7 DEF q, M

(* resolve_path pops a segment for every ".." and asks the tree nothing, yet   *)
(* when each directory on the user's way exists it names the node the walk     *)
(* ends at, whatever the current directory and however long the path.         *)
THEOREM WalkIsResolved == Spec => []ResolveIsWalk
<1>1. TreeInv => ResolveIsWalk
  <2> SUFFICES ASSUME TreeInv, NEW input \in Inputs, Walk(input) # Lost
               PROVE  Walk(input) = Resolve(input)
    BY DEF ResolveIsWalk
  <2> DEFINE c == Start(input)
             t == input.segs
  <2>1. c \in Seq(Names) /\ c \in Spans
    <3>1. cwd \in Seq(Names)
      BY PathsAre DEF TreeInv
    <3>2. c \in Seq(Names)
      BY <3>1 DEF Start
    <3> HIDE DEF c
    <3>3. QED
      BY <3>2 DEF Spans, Segs
  <2>2. t \in Spans
    <3>1. t \in SeqsUpTo(Names \cup {".."}, MAX_SEGS)
      BY DEF Inputs
    <3>2. PICK k \in 0 .. MAX_SEGS : t \in [1 .. k -> Names \cup {".."}]
      BY <3>1 DEF SeqsUpTo
    <3>3. k \in Nat
      BY <3>2, VfsAssumption DEF VfsAssumption
    <3> HIDE DEF t
    <3>4. QED
      BY <3>2, <3>3 DEF Spans, Segs
  <2>3. c \o t \in Spans
    <3> HIDE DEF c, t
    <3>1. QED
      BY <2>1, <2>2 DEF Spans
  <2>4. PICK f : StepByStep(f, "resolve", <<>>, c \o t) /\ Resolve(input) = f[Len(c \o t)]
    BY <2>3, ResolveSteps
  <2>5. PICK g : StepByStep(g, "walk", c, t) /\ Walk(input) = g[Len(t)]
    BY <2>1, <2>2, WalkSteps
  <2> HIDE DEF c, t
  <2>6. f[Len(c \o t)] = g[Len(t)]
    BY <2>1, <2>2, <2>4, <2>5, WalkFollows
  <2>7. QED
    BY <2>4, <2>5, <2>6
<1>2. QED
  BY <1>1, TreeInvariant, PTL

=============================================================================
