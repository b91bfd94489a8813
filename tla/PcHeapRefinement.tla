-------------------------- MODULE PcHeapRefinement --------------------------
(***************************************************************************)
(* What the fit policies of PcHeap find, and that the server implements    *)
(* the allocator of HeapAbs.                                               *)
(***************************************************************************)
EXTENDS PcHeapProofs

-----------------------------------------------------------------------------
(* Induction, from the well-foundedness of the natural numbers.            *)

LEMMA LeastNat ==
  ASSUME NEW T \in SUBSET Nat, T # {}
  PROVE  \E x \in T : \A y \in T : x <= y
<1>1. IsWellFoundedOn(OpToRel(<, Nat), Nat)
  BY NatLessThanWellFounded
<1>2. PICK x \in T : \A y \in T : ~ (<<y, x>> \in OpToRel(<, Nat))
  BY <1>1, WFMin
<1>3. \A y \in T : ~ (y < x)
  BY <1>2 DEF OpToRel
<1> QED
  BY <1>3

(* A set of numbers that has 0 and with each the next has them all.        *)
LEMMA SetInduction ==
  ASSUME NEW T, 0 \in T, \A n \in Nat : n \in T => n + 1 \in T
  PROVE  Nat \subseteq T
<1> SUFFICES ASSUME Nat \ T # {} PROVE FALSE
  OBVIOUS
<1>1. PICK x \in Nat \ T : \A y \in Nat \ T : x <= y
  BY LeastNat
<1>2. x # 0 /\ x - 1 \in Nat /\ x - 1 \in T
  BY <1>1
<1>3. (x - 1) + 1 \in T
  BY <1>2
<1> QED
  BY <1>1, <1>3

-----------------------------------------------------------------------------
(* The walk along the block list is what its definition says.              *)

(* The first n + 1 blocks of it.                                           *)
Walked(h, n) ==
  {w \in [0 .. n -> Elt] :
     /\ w[0] = h.next[Start]
     /\ \A i \in 1 .. n : w[i] = h.next[w[i - 1]]}

LEMMA WalkedExists ==
  ASSUME NEW h, h.next \in [Elt -> Elt]
  PROVE  \A n \in Nat : Walked(h, n) # {}
<1> DEFINE T == {n \in Nat : Walked(h, n) # {}}
<1>1. 0 \in T
  <2> DEFINE w == [i \in 0 .. 0 |-> h.next[Start]]
  <2>1. w \in [0 .. 0 -> Elt] /\ w[0] = h.next[Start] /\ 1 .. 0 = {}
    BY DEF Elt
  <2> HIDE DEF w
  <2>2. w \in Walked(h, 0)
    BY <2>1 DEF Walked
  <2> QED
    BY <2>2
<1>2. ASSUME NEW n \in Nat, n \in T
      PROVE  n + 1 \in T
  <2>1. PICK w \in Walked(h, n) : TRUE
    BY <1>2
  <2>2. /\ w \in [0 .. n -> Elt] /\ w[0] = h.next[Start]
        /\ \A i \in 1 .. n : w[i] = h.next[w[i - 1]]
    BY DEF Walked
  <2> DEFINE v == [i \in 0 .. n + 1 |-> IF i = n + 1 THEN h.next[w[n]] ELSE w[i]]
  <2>3. v \in [0 .. n + 1 -> Elt]
    BY <2>2
  <2>4. v[0] = h.next[Start] /\ v[n + 1] = h.next[w[n]] /\ \A i \in 0 .. n : v[i] = w[i]
    BY <2>2
  <2> HIDE DEF v
  <2>5. ASSUME NEW i \in 1 .. n + 1
        PROVE  v[i] = h.next[v[i - 1]]
    <3>1. CASE i = n + 1
      <4>1. i - 1 = n /\ n \in 0 .. n
        BY <3>1
      <4> QED
        BY <2>4, <3>1, <4>1
    <3>2. CASE i # n + 1
      <4>1. i \in 1 .. n /\ i \in 0 .. n /\ i - 1 \in 0 .. n
        BY <3>2
      <4> QED
        BY <2>2, <2>4, <4>1
    <3> QED
      BY <3>1, <3>2
  <2>6. v \in Walked(h, n + 1)
    BY <2>3, <2>4, <2>5 DEF Walked
  <2> QED
    BY <2>6
<1> HIDE DEF T
<1>3. Nat \subseteq T
  BY <1>1, <1>2, SetInduction
<1> QED
  BY <1>3 DEF T

LEMMA WalkedAgree ==
  ASSUME NEW h, NEW m \in Nat, NEW n \in Nat, NEW w \in Walked(h, m), NEW v \in Walked(h, n)
  PROVE  \A i \in Nat : i <= m /\ i <= n => w[i] = v[i]
<1> DEFINE T == {i \in Nat : i <= m /\ i <= n => w[i] = v[i]}
<1>1. /\ w[0] = h.next[Start] /\ v[0] = h.next[Start]
      /\ \A i \in 1 .. m : w[i] = h.next[w[i - 1]]
      /\ \A i \in 1 .. n : v[i] = h.next[v[i - 1]]
  BY DEF Walked
<1>2. 0 \in T
  BY <1>1
<1>3. ASSUME NEW i \in Nat, i \in T
      PROVE  i + 1 \in T
  <2> SUFFICES ASSUME i + 1 <= m, i + 1 <= n
               PROVE  w[i + 1] = v[i + 1]
    OBVIOUS
  <2>1. w[i] = v[i] /\ i + 1 \in 1 .. m /\ i + 1 \in 1 .. n /\ (i + 1) - 1 = i
    BY <1>3
  <2> QED
    BY <1>1, <2>1
<1> HIDE DEF T
<1>4. Nat \subseteq T
  BY <1>2, <1>3, SetInduction
<1> QED
  BY <1>4 DEF T

LEMMA WalkEquation ==
  ASSUME NEW h, h.next \in [Elt -> Elt]
  PROVE  /\ Walk(h) \in [Nat -> Elt]
         /\ Walk(h)[0] = h.next[Start]
         /\ \A i \in Nat : Walk(h)[i + 1] = h.next[Walk(h)[i]]
<1> DEFINE some(n) == CHOOSE w \in Walked(h, n) : TRUE
           g       == [i \in Nat |-> some(i)[i]]
<1>1. \A n \in Nat : some(n) \in Walked(h, n)
  BY WalkedExists
<1> HIDE DEF some
<1>2. g[0] = h.next[Start]
  BY <1>1 DEF Walked
<1>3. ASSUME NEW i \in Nat
      PROVE  g[i + 1] = h.next[g[i]]
  <2>1. some(i + 1)[i + 1] = h.next[some(i + 1)[(i + 1) - 1]]
    BY <1>1 DEF Walked
  <2>2. some(i + 1)[i] = some(i)[i]
    <3>1. i <= i + 1 /\ i <= i /\ i + 1 \in Nat
      OBVIOUS
    <3> QED
      BY <1>1, <3>1, WalkedAgree
  <2>3. (i + 1) - 1 = i
    OBVIOUS
  <2> QED
    BY <2>1, <2>2, <2>3
<1>4. g \in [Nat -> Elt]
  <2>1. ASSUME NEW i \in Nat PROVE some(i)[i] \in Elt
    <3>1. some(i) \in [0 .. i -> Elt] /\ i \in 0 .. i
      BY <1>1 DEF Walked
    <3> QED
      BY <3>1
  <2> QED
    BY <2>1
<1> HIDE DEF g
<1> DEFINE Def(f) == f = [i \in Nat |-> IF i = 0 THEN h.next[Start] ELSE h.next[f[i - 1]]]
<1>5. Def(g)
  <2>1. ASSUME NEW i \in Nat
        PROVE  g[i] = IF i = 0 THEN h.next[Start] ELSE h.next[g[i - 1]]
    <3>1. CASE i = 0
      BY <1>2, <3>1
    <3>2. CASE i # 0
      <4>1. i - 1 \in Nat /\ (i - 1) + 1 = i
        BY <3>2
      <4> QED
        BY <1>3, <3>2, <4>1
    <3> QED
      BY <3>1, <3>2
  <2> QED
    BY <1>4, <2>1
<1>6. Walk(h) = CHOOSE f : Def(f)
  BY DEF Walk
<1> DEFINE k == Walk(h)
<1>7. Def(k)
  <2> HIDE DEF Def
  <2> QED
    BY <1>5, <1>6
<1> HIDE DEF k
<1>8. k[0] = h.next[Start] /\ DOMAIN k = Nat
  BY <1>7
<1>9. ASSUME NEW i \in Nat
      PROVE  k[i + 1] = h.next[k[i]]
  <2>1. i + 1 \in Nat /\ i + 1 # 0 /\ (i + 1) - 1 = i
    OBVIOUS
  <2>2. k[i + 1] = IF i + 1 = 0 THEN h.next[Start] ELSE h.next[k[(i + 1) - 1]]
    BY <1>7, <2>1
  <2> QED
    BY <2>1, <2>2
<1>10. \A i \in Nat : k[i] \in Elt
  <2> DEFINE T == {i \in Nat : k[i] \in Elt}
  <2>1. 0 \in T
    BY <1>8 DEF Elt
  <2>2. ASSUME NEW i \in Nat, i \in T
        PROVE  i + 1 \in T
    BY <1>9, <2>2
  <2> HIDE DEF T
  <2>3. Nat \subseteq T
    BY <2>1, <2>2, SetInduction
  <2> QED
    BY <2>3 DEF T
<1>11. k = [i \in Nat |-> k[i]]
  BY <1>7
<1>12. k \in [Nat -> Elt]
  BY <1>10, <1>11
<1> QED
  BY <1>8, <1>9, <1>12 DEF k

-----------------------------------------------------------------------------
(* The walk meets every block, in the order of addresses.                  *)

(* The walk has not passed the sentinel when it is at n.                   *)
Before(h, n) == \A j \in 0 .. n : Walk(h)[j] \in h.live

End(h, b) == h.ptr[b] + h.size[b]

(* What the next block of the list is.                                     *)
LEMMA NextBlock ==
  ASSUME NEW h, NEW brk \in Nat, Shape(h, brk), NEW b \in h.live
  PROVE  /\ h.ptr[b] \in Nat /\ h.size[b] \in Nat /\ h.size[b] > 0
         /\ End(h, b) \in Nat /\ h.ptr[b] < End(h, b) /\ End(h, b) <= brk
         /\ h.ptr[Start] <= h.ptr[b] /\ h.next[b] \in List(h)
         /\ h.next[b] = Start => End(h, b) = brk
         /\ h.next[b] # Start => h.next[b] \in h.live /\ h.ptr[h.next[b]] = End(h, b)
<1>1. /\ h.ptr[b] \in Nat /\ h.size[b] \in Nat /\ h.size[b] > 0 /\ b \in List(h)
      /\ h.next[b] \in List(h)
  <2>1. b \in Elt /\ b \in List(h)
    BY ShapeTypes DEF List, Elt
  <2> QED
    BY <2>1, ShapeTypes DEF Shape, Sized, Linked
<1>2. End(h, b) = IF h.next[b] = Start THEN brk ELSE h.ptr[h.next[b]]
  BY <1>1 DEF Shape, Tiled, End
<1>3. h.ptr[Start] <= h.ptr[b] /\ End(h, b) <= brk
  BY DEF Shape, Within, End
<1>4. End(h, b) \in Nat /\ h.ptr[b] < End(h, b)
  BY <1>1 DEF End
<1> QED
  BY <1>1, <1>2, <1>3, <1>4 DEF List

LEMMA FirstBlock ==
  ASSUME NEW h, NEW brk \in Nat, Shape(h, brk)
  PROVE  /\ h.ptr[Start] \in Nat /\ h.next[Start] \in List(h)
         /\ h.next[Start] = Start => h.ptr[Start] = brk
         /\ h.next[Start] # Start =>
              h.next[Start] \in h.live /\ h.ptr[h.next[Start]] = h.ptr[Start]
<1>1. h.ptr[Start] \in Nat /\ h.size[Start] = 0 /\ Start \in List(h)
  BY ShapeTypes DEF Shape, Sized, Elt
<1>2. h.ptr[Start] + h.size[Start] = IF h.next[Start] = Start THEN brk
                                     ELSE h.ptr[h.next[Start]]
  BY <1>1 DEF Shape, Tiled
<1>3. h.next[Start] \in List(h)
  BY <1>1 DEF Shape, Linked
<1> QED
  BY <1>1, <1>2, <1>3 DEF List

LEMMA WalkStep ==
  ASSUME NEW h, NEW brk \in Nat, Shape(h, brk)
  PROVE  /\ Walk(h)[0] = h.next[Start]
         /\ \A i \in Nat : Walk(h)[i + 1] = h.next[Walk(h)[i]]
BY WalkEquation, ShapeTypes

LEMMA BeforeStep ==
  ASSUME NEW h, NEW n \in Nat
  PROVE  Before(h, n + 1) <=> Before(h, n) /\ Walk(h)[n + 1] \in h.live
<1>1. 0 .. n + 1 = (0 .. n) \cup {n + 1}
  OBVIOUS
<1> QED
  BY <1>1 DEF Before

(* Every byte of the heap is in a block the walk meets.                    *)
LEMMA ByteCovered ==
  ASSUME NEW h, NEW brk \in Nat, Shape(h, brk),
         NEW p \in Nat, h.ptr[Start] <= p, p < brk
  PROVE  \E i \in Nat : /\ Before(h, i)
                        /\ h.ptr[Walk(h)[i]] <= p /\ p < End(h, Walk(h)[i])
<1> DEFINE W == Walk(h)
<1> SUFFICES ASSUME \A i \in Nat : Before(h, i) /\ h.ptr[W[i]] <= p => End(h, W[i]) <= p
             PROVE  FALSE
  <2>1. \A i \in Nat : Before(h, i) => W[i] \in h.live
    BY DEF Before
  <2>2. \A i \in Nat : Before(h, i) => End(h, W[i]) \in Nat
    BY <2>1, NextBlock
  <2> HIDE DEF W
  <2> QED
    BY <2>2 DEF W
<1> DEFINE T == {n \in Nat : Before(h, n) /\ h.ptr[W[n]] <= p /\ n <= h.ptr[W[n]]}
<1>1. 0 \in T
  <2>1. h.next[Start] # Start
    BY FirstBlock
  <2>2. W[0] \in h.live /\ h.ptr[W[0]] = h.ptr[Start] /\ h.ptr[Start] \in Nat
    BY <2>1, FirstBlock, WalkStep
  <2>3. Before(h, 0)
    BY <2>2 DEF Before
  <2> QED
    BY <2>2, <2>3
<1>2. ASSUME NEW n \in Nat, n \in T
      PROVE  n + 1 \in T
  <2>1. Before(h, n) /\ h.ptr[W[n]] <= p /\ n <= h.ptr[W[n]] /\ W[n] \in h.live
    BY <1>2 DEF Before
  <2>2. End(h, W[n]) <= p
    BY <2>1
  <2>3. W[n + 1] = h.next[W[n]]
    BY WalkStep
  <2> HIDE DEF W
  <2>4. h.next[W[n]] # Start
    BY <2>1, <2>2, NextBlock
  <2>5. W[n + 1] \in h.live /\ h.ptr[W[n + 1]] = End(h, W[n])
        /\ h.ptr[W[n]] < End(h, W[n]) /\ End(h, W[n]) \in Nat /\ h.ptr[W[n]] \in Nat
    BY <2>1, <2>3, <2>4, NextBlock
  <2>6. Before(h, n + 1)
    BY <2>1, <2>5, BeforeStep DEF W
  <2> QED
    BY <2>1, <2>2, <2>5, <2>6
<1> HIDE DEF T
<1>3. Nat \subseteq T
  BY <1>1, <1>2, SetInduction
<1>4. p + 1 \in T
  BY <1>3
<1>5. W[p + 1] \in h.live
  BY <1>4 DEF T, Before
<1> QED
  BY <1>4, <1>5, NextBlock DEF T

(* Every block is met.                                                     *)
LEMMA BlockWalked ==
  ASSUME NEW h, NEW brk \in Nat, Shape(h, brk), NEW b \in h.live
  PROVE  \E i \in Nat : Before(h, i) /\ Walk(h)[i] = b
<1>1. /\ h.ptr[b] \in Nat /\ h.ptr[Start] <= h.ptr[b] /\ h.ptr[b] < brk
      /\ h.ptr[b] < End(h, b)
  BY NextBlock
<1>2. PICK i \in Nat : /\ Before(h, i)
                       /\ h.ptr[Walk(h)[i]] <= h.ptr[b] /\ h.ptr[b] < End(h, Walk(h)[i])
  BY <1>1, ByteCovered
<1> DEFINE c == Walk(h)[i]
<1>3. c \in h.live
  BY <1>2 DEF Before
<1>4. h.ptr[c] \in Nat /\ End(h, c) \in Nat /\ End(h, b) \in Nat
  BY <1>3, NextBlock
<1> HIDE DEF c
<1>5. c # b => End(h, c) <= h.ptr[b] \/ End(h, b) <= h.ptr[c]
  BY <1>3 DEF Shape, Apart, End
<1>6. h.ptr[c] <= h.ptr[b] /\ h.ptr[b] < End(h, c)
  BY <1>2 DEF c
<1>7. c = b
  BY <1>1, <1>4, <1>5, <1>6
<1> QED
  BY <1>2, <1>7 DEF c

(* In the order of addresses.                                              *)
LEMMA WalkOrdered ==
  ASSUME NEW h, NEW brk \in Nat, Shape(h, brk), NEW n \in Nat, Before(h, n),
         NEW i \in 0 .. n, NEW j \in 0 .. n, i < j
  PROVE  h.ptr[Walk(h)[i]] < h.ptr[Walk(h)[j]]
<1> DEFINE W == Walk(h)
           T == {k \in Nat : i < k /\ k <= n => h.ptr[W[i]] < h.ptr[W[k]]}
<1>1. \A k \in 0 .. n : W[k] \in h.live
  BY DEF Before
<1>2. 0 \in T
  OBVIOUS
<1>3. ASSUME NEW k \in Nat, k \in T
      PROVE  k + 1 \in T
  <2> SUFFICES ASSUME i < k + 1, k + 1 <= n
               PROVE  h.ptr[W[i]] < h.ptr[W[k + 1]]
    OBVIOUS
  <2>1. k \in 0 .. n /\ k + 1 \in 0 .. n /\ (i = k \/ i < k) /\ i \in Nat
    OBVIOUS
  <2>2. W[k] \in h.live /\ W[k + 1] \in h.live /\ W[i] \in h.live
    BY <1>1, <2>1
  <2>3. W[k + 1] = h.next[W[k]]
    BY WalkStep
  <2>4. i < k => h.ptr[W[i]] < h.ptr[W[k]]
    BY <1>3, <2>1
  <2> HIDE DEF W, T
  <2>5. W[k + 1] # Start
    BY <2>2, ShapeTypes
  <2>6. h.ptr[W[k]] < h.ptr[W[k + 1]] /\ h.ptr[W[k]] \in Nat
        /\ h.ptr[W[k + 1]] \in Nat /\ h.ptr[W[i]] \in Nat
    BY <2>2, <2>3, <2>5, NextBlock
  <2> QED
    BY <2>1, <2>4, <2>6
<1> HIDE DEF T
<1>4. Nat \subseteq T
  BY <1>2, <1>3, SetInduction
<1>5. j \in T
  BY <1>4
<1> QED
  BY <1>5 DEF T

(* Blocks are apart, so their number is finite.                            *)
LEMMA LiveFinite ==
  ASSUME NEW h, NEW brk \in Nat, Shape(h, brk)
  PROVE  IsFiniteSet(h.live) /\ Cardinality(h.live) \in Nat
<1> DEFINE f == [b \in h.live |-> h.ptr[b]]
<1>1. \A b \in h.live : h.ptr[b] \in 0 .. brk
  <2> SUFFICES ASSUME NEW b \in h.live PROVE h.ptr[b] \in 0 .. brk
    OBVIOUS
  <2> QED
    BY NextBlock
<1>2. ASSUME NEW a \in h.live, NEW b \in h.live, h.ptr[a] = h.ptr[b]
      PROVE  a = b
  <2>1. /\ h.ptr[a] \in Nat /\ h.ptr[a] < End(h, a) /\ End(h, a) \in Nat
        /\ h.ptr[b] \in Nat /\ h.ptr[b] < End(h, b) /\ End(h, b) \in Nat
    BY NextBlock
  <2>2. a # b => End(h, a) <= h.ptr[b] \/ End(h, b) <= h.ptr[a]
    BY DEF Shape, Apart, End
  <2> QED
    BY <1>2, <2>1, <2>2
<1>3. f \in Injection(h.live, 0 .. brk)
  BY <1>1, <1>2 DEF Injection, IsInjective
<1>4. IsFiniteSet(0 .. brk)
  BY FS_Interval
<1> QED
  BY <1>3, <1>4, FS_Injection, FS_CardinalityType

(* The walk meets a new block at each step...                              *)
LEMMA IndexInBound ==
  ASSUME NEW h, NEW brk \in Nat, Shape(h, brk), NEW n \in Nat, Before(h, n)
  PROVE  n \in 0 .. Cardinality(h.live) - 1
<1> DEFINE f == [j \in 0 .. n |-> Walk(h)[j]]
<1>1. ASSUME NEW i \in 0 .. n, NEW j \in 0 .. n, f[i] = f[j]
      PROVE  i = j
  <2>1. f[i] \in h.live /\ f[i] = Walk(h)[i] /\ f[j] = Walk(h)[j]
    BY DEF Before
  <2> HIDE DEF f
  <2>2. h.ptr[f[i]] \in Nat
    BY <2>1, NextBlock
  <2>3. Walk(h)[i] = f[i] /\ Walk(h)[j] = f[i]
    BY <1>1, <2>1
  <2>4. ~ (i < j)
    <3> SUFFICES ASSUME i < j PROVE FALSE
      OBVIOUS
    <3>1. h.ptr[Walk(h)[i]] < h.ptr[Walk(h)[j]]
      BY WalkOrdered
    <3> QED
      BY <2>2, <2>3, <3>1
  <2>5. ~ (j < i)
    <3> SUFFICES ASSUME j < i PROVE FALSE
      OBVIOUS
    <3>1. h.ptr[Walk(h)[j]] < h.ptr[Walk(h)[i]]
      BY WalkOrdered
    <3> QED
      BY <2>2, <2>3, <3>1
  <2> QED
    BY <2>4, <2>5
<1>2. f \in Injection(0 .. n, h.live)
  BY <1>1 DEF Injection, IsInjective, Before
<1>3. Cardinality(0 .. n) <= Cardinality(h.live)
  BY <1>2, LiveFinite, FS_Injection
<1>4. Cardinality(0 .. n) = n + 1
  BY FS_Interval
<1> QED
  BY <1>3, <1>4, LiveFinite

(* ... and none but blocks in as many steps as there are blocks.           *)
LEMMA WalkInBound ==
  ASSUME NEW h, NEW brk \in Nat, Shape(h, brk), NEW n \in 0 .. Cardinality(h.live) - 1
  PROVE  Before(h, n)
<1> DEFINE W == Walk(h)
           T == {m \in Nat : W[m] \notin h.live}
<1> SUFFICES ASSUME ~ Before(h, n) PROVE FALSE
  OBVIOUS
<1>0. n \in Nat /\ n < Cardinality(h.live) /\ Cardinality(h.live) \in Nat
  BY LiveFinite
<1>1. PICK k \in 0 .. n : k \in T
  BY <1>0 DEF Before
<1>2. PICK m \in T : \A y \in T : m <= y
  BY <1>1, LeastNat
<1>3. m \in Nat /\ m <= n /\ W[m] \notin h.live
  BY <1>0, <1>1, <1>2
<1> HIDE DEF T
<1>4. \A b \in h.live : \E i \in 0 .. m - 1 : W[i] = b
  <2> SUFFICES ASSUME NEW b \in h.live PROVE \E i \in 0 .. m - 1 : W[i] = b
    OBVIOUS
  <2>1. PICK i \in Nat : Before(h, i) /\ W[i] = b
    BY BlockWalked
  <2>2. ~ (m <= i)
    BY <1>3, <2>1 DEF Before
  <2> QED
    BY <1>3, <2>1, <2>2
<1> DEFINE f == [b \in h.live |-> CHOOSE i \in 0 .. m - 1 : W[i] = b]
<1> HIDE DEF W
<1>5. \A b \in h.live : f[b] \in 0 .. m - 1 /\ W[f[b]] = b
  BY <1>4
<1>6. f \in Injection(h.live, 0 .. m - 1)
  <2>1. f \in [h.live -> 0 .. m - 1]
    BY <1>5
  <2> HIDE DEF f
  <2>2. \A a, b \in h.live : f[a] = f[b] => a = b
    BY <1>5
  <2> QED
    BY <2>1, <2>2 DEF Injection, IsInjective
<1>7. IsFiniteSet(0 .. m - 1) /\ Cardinality(0 .. m - 1) = m
  <2>1. m - 1 \in Int /\ 0 \in Int
    BY <1>3
  <2> QED
    BY <1>3, <2>1, FS_Interval
<1>8. Cardinality(h.live) <= m
  BY <1>6, <1>7, FS_Injection
<1> QED
  BY <1>0, <1>3, <1>8

(* The blocks as the walk numbers them.                                    *)
LEMMA Numbered ==
  ASSUME NEW h, NEW brk \in Nat, Shape(h, brk)
  PROVE  LET I == 0 .. Cardinality(h.live) - 1 IN
         /\ I \subseteq Nat
         /\ \A i \in I : Walk(h)[i] \in h.live
         /\ \A b \in h.live : \E i \in I : Walk(h)[i] = b
         /\ \A i, j \in I : i < j => h.ptr[Walk(h)[i]] < h.ptr[Walk(h)[j]]
<1> DEFINE I == 0 .. Cardinality(h.live) - 1
<1>1. Cardinality(h.live) \in Nat /\ I \subseteq Nat
  BY LiveFinite
<1>2. \A i \in I : Before(h, i)
  BY WalkInBound
<1>3. \A i \in I : Walk(h)[i] \in h.live
  BY <1>1, <1>2 DEF Before
<1>4. ASSUME NEW b \in h.live PROVE \E i \in I : Walk(h)[i] = b
  BY BlockWalked, IndexInBound
<1>5. ASSUME NEW i \in I, NEW j \in I, i < j
      PROVE  h.ptr[Walk(h)[i]] < h.ptr[Walk(h)[j]]
  <2>1. j \in Nat /\ Before(h, j) /\ i \in 0 .. j /\ j \in 0 .. j
    BY <1>1, <1>2, <1>5
  <2> QED
    BY <1>5, <2>1, WalkOrdered
<1> QED
  BY <1>1, <1>3, <1>4, <1>5

-----------------------------------------------------------------------------
(* First fit and best fit.                                                 *)

FitsIn(h, asize) == {b \in h.live : Fits(h, b, asize)}

LEMMA FirstFitEffect ==
  ASSUME NEW h, NEW brk \in Nat, Shape(h, brk), NEW asize \in Nat
  PROVE  FirstFit(h, asize) =
           {b \in FitsIn(h, asize) : \A c \in FitsIn(h, asize) : h.ptr[b] <= h.ptr[c]}
<1> DEFINE W == Walk(h)
           I == 0 .. Cardinality(h.live) - 1
           F == FitsIn(h, asize)
<1>1. /\ I \subseteq Nat /\ \A i \in I : W[i] \in h.live
      /\ \A b \in h.live : \E i \in I : W[i] = b
      /\ \A i, j \in I : i < j => h.ptr[W[i]] < h.ptr[W[j]]
  BY Numbered
<1>2. \A b \in h.live : h.ptr[b] \in Nat
  BY NextBlock
<1>3. \A i \in I : \A j \in 0 .. i - 1 : j \in I /\ j < i
  BY LiveFinite
<1>4. FirstFit(h, asize) =
        {b \in h.live : \E i \in I : /\ W[i] = b /\ Fits(h, b, asize)
                                   /\ \A j \in 0 .. i - 1 : ~ Fits(h, W[j], asize)}
  BY DEF FirstFit
<1>5. F = {b \in h.live : Fits(h, b, asize)}
  BY DEF FitsIn
<1> HIDE DEF W, I, F
<1>6. ASSUME NEW b \in FirstFit(h, asize)
      PROVE  b \in F /\ \A c \in F : h.ptr[b] <= h.ptr[c]
  <2>1. PICK i \in I : /\ W[i] = b /\ Fits(h, b, asize)
                       /\ \A j \in 0 .. i - 1 : ~ Fits(h, W[j], asize)
    BY <1>4
  <2>2. ASSUME NEW c \in F PROVE h.ptr[b] <= h.ptr[c]
    <3>1. PICK k \in I : W[k] = c
      BY <1>1, <1>5
    <3>2. i \in Nat /\ k \in Nat
      BY <1>1
    <3>3. ~ (k \in 0 .. i - 1)
      BY <1>5, <2>1, <3>1
    <3>4. i = k \/ i < k
      BY <3>2, <3>3
    <3>5. b \in h.live /\ c \in h.live
      BY <1>4, <1>5
    <3> QED
      BY <1>1, <1>2, <2>1, <3>1, <3>4, <3>5
  <2> QED
    BY <1>4, <1>5, <2>1, <2>2
<1>7. ASSUME NEW b \in F, \A c \in F : h.ptr[b] <= h.ptr[c]
      PROVE  b \in FirstFit(h, asize)
  <2>1. b \in h.live /\ Fits(h, b, asize)
    BY <1>5
  <2>2. PICK i \in I : W[i] = b
    BY <1>1, <2>1
  <2>3. ASSUME NEW j \in 0 .. i - 1 PROVE ~ Fits(h, W[j], asize)
    <3>1. j \in I /\ j < i /\ W[j] \in h.live
      BY <1>1, <1>3
    <3>2. h.ptr[W[j]] < h.ptr[b] /\ h.ptr[b] \in Nat /\ h.ptr[W[j]] \in Nat
      BY <1>1, <1>2, <2>1, <2>2, <3>1
    <3>3. W[j] \notin F
      BY <1>7, <3>2
    <3> QED
      BY <1>5, <3>1, <3>3
  <2> QED
    BY <1>4, <2>1, <2>2, <2>3
<1>8. FirstFit(h, asize) = {b \in F : \A c \in F : h.ptr[b] <= h.ptr[c]}
  BY <1>6, <1>7
<1> QED
  BY <1>8 DEF F

LEMMA BestFitEffect ==
  ASSUME NEW h, NEW brk \in Nat, Shape(h, brk), NEW asize \in Nat
  PROVE  BestFit(h, asize) =
           {b \in FitsIn(h, asize) : \A c \in FitsIn(h, asize) :
              \/ h.size[b] < h.size[c]
              \/ h.size[b] = h.size[c] /\ h.ptr[b] <= h.ptr[c]}
<1> DEFINE W == Walk(h)
           I == 0 .. Cardinality(h.live) - 1
           F == FitsIn(h, asize)
           Better(b, c) == \/ h.size[b] < h.size[c]
                           \/ h.size[b] = h.size[c] /\ h.ptr[b] <= h.ptr[c]
<1>1. /\ I \subseteq Nat /\ \A i \in I : W[i] \in h.live
      /\ \A b \in h.live : \E i \in I : W[i] = b
      /\ \A i, j \in I : i < j => h.ptr[W[i]] < h.ptr[W[j]]
  BY Numbered
<1>2. \A b \in h.live : h.ptr[b] \in Nat /\ h.size[b] \in Nat
  BY NextBlock
<1>4. BestFit(h, asize) =
        {b \in h.live : \E i \in I :
           /\ W[i] = b /\ Fits(h, b, asize)
           /\ \A j \in I : Fits(h, W[j], asize) =>
                \/ h.size[b] < h.size[W[j]]
                \/ h.size[b] = h.size[W[j]] /\ i <= j}
  BY DEF BestFit
<1>5. F = {b \in h.live : Fits(h, b, asize)}
  BY DEF FitsIn
<1>6. \A i, j \in I : i <= j <=> h.ptr[W[i]] <= h.ptr[W[j]]
  <2> SUFFICES ASSUME NEW i \in I, NEW j \in I
               PROVE  i <= j <=> h.ptr[W[i]] <= h.ptr[W[j]]
    OBVIOUS
  <2>1. i \in Nat /\ j \in Nat /\ h.ptr[W[i]] \in Nat /\ h.ptr[W[j]] \in Nat
    <3> HIDE DEF I, W
    <3> QED
      BY <1>1, <1>2
  <2>2. (i < j => h.ptr[W[i]] < h.ptr[W[j]]) /\ (j < i => h.ptr[W[j]] < h.ptr[W[i]])
    <3> HIDE DEF I, W
    <3> QED
      BY <1>1
  <2> HIDE DEF I, W
  <2> QED
    BY <2>1, <2>2
<1> HIDE DEF W, I, F
<1>7. ASSUME NEW b \in BestFit(h, asize)
      PROVE  b \in F /\ \A c \in F : Better(b, c)
  <2>1. PICK i \in I : /\ W[i] = b /\ Fits(h, b, asize)
                       /\ \A j \in I : Fits(h, W[j], asize) =>
                            \/ h.size[b] < h.size[W[j]]
                            \/ h.size[b] = h.size[W[j]] /\ i <= j
    BY <1>4
  <2>2. ASSUME NEW c \in F PROVE Better(b, c)
    <3>1. PICK k \in I : W[k] = c
      BY <1>1, <1>5
    <3>2. Fits(h, c, asize)
      BY <1>5
    <3>3. h.size[b] < h.size[c] \/ (h.size[b] = h.size[c] /\ i <= k)
      BY <2>1, <3>1, <3>2
    <3> QED
      BY <1>6, <2>1, <3>1, <3>3
  <2> QED
    BY <1>4, <1>5, <2>1, <2>2
<1>8. ASSUME NEW b \in F, \A c \in F : Better(b, c)
      PROVE  b \in BestFit(h, asize)
  <2>1. b \in h.live /\ Fits(h, b, asize)
    BY <1>5
  <2>2. PICK i \in I : W[i] = b
    BY <1>1, <2>1
  <2>3. ASSUME NEW j \in I, Fits(h, W[j], asize)
        PROVE  \/ h.size[b] < h.size[W[j]]
               \/ h.size[b] = h.size[W[j]] /\ i <= j
    <3>1. W[j] \in F
      BY <1>1, <1>5, <2>3
    <3>2. Better(b, W[j])
      BY <1>8, <3>1
    <3> QED
      BY <1>6, <2>2, <3>2
  <2> QED
    BY <1>4, <2>1, <2>2, <2>3
<1>9. BestFit(h, asize) = {b \in F : \A c \in F : Better(b, c)}
  <2> HIDE DEF Better
  <2>1. \A b \in BestFit(h, asize) : b \in F /\ \A c \in F : Better(b, c)
    BY <1>7 DEF Better
  <2>2. \A b \in F : (\A c \in F : Better(b, c)) => b \in BestFit(h, asize)
    BY <1>8 DEF Better
  <2> QED
    BY <2>1, <2>2
<1> QED
  BY <1>9 DEF F

-----------------------------------------------------------------------------
(* Segregated fit.                                                         *)

LEMMA PowerTyped == \A k \in Nat : 2^k \in Int
BY Z3

(* From one double word on, a larger size has no lower class.              *)
LEMMA ClassMonotone ==
  ASSUME NEW s \in Nat, NEW t \in Nat, DSIZE <= s, s <= t
  PROVE  ClassIndex(s) <= ClassIndex(t)
<1> DEFINE d    == s \div DSIZE
           e    == t \div DSIZE
           N    == 0 .. SIZE_CLASSES - LINEAR - 1
           K(x) == {k \in N : x >= LINEAR * 2^k}
<1>1. DSIZE \in Nat \ {0} /\ LINEAR \in Nat \ {0, 1} /\ SIZE_CLASSES \in Nat
  BY SizeAssumption
<1>2. d \in Nat /\ e \in Nat /\ d # 0 /\ d <= e
  <2>1. s = DSIZE * d + (s % DSIZE) /\ t = DSIZE * e + (t % DSIZE)
    BY <1>1
  <2>2. s % DSIZE \in 0 .. DSIZE - 1 /\ t % DSIZE \in 0 .. DSIZE - 1
    BY <1>1
  <2>3. d \in Nat /\ e \in Nat
    BY <1>1
  <2> HIDE DEF d, e
  <2>4. d # 0
    BY <1>1, <2>1, <2>2, <2>3
  <2>5. d <= e
    <3> SUFFICES ASSUME e + 1 <= d PROVE FALSE
      BY <2>3
    <3>1. (e + 1) * DSIZE <= d * DSIZE
      BY <1>1, <2>3
    <3>2. (e + 1) * DSIZE = e * DSIZE + DSIZE
      BY <1>1, <2>3
    <3>3. e * DSIZE \in Nat /\ d * DSIZE \in Nat
          /\ DSIZE * d = d * DSIZE /\ DSIZE * e = e * DSIZE
      BY <1>1, <2>3
    <3> QED
      BY <1>1, <2>1, <2>2, <3>1, <3>2, <3>3
  <2> QED
    BY <2>3, <2>4, <2>5
<1>3. ClassIndex(s) = IF d <= LINEAR THEN d - 1 ELSE LINEAR - 1 + Cardinality(K(d))
  BY <1>2 DEF ClassIndex
<1>4. ClassIndex(t) = IF e <= LINEAR THEN e - 1 ELSE LINEAR - 1 + Cardinality(K(e))
  BY <1>2 DEF ClassIndex
<1>5. IsFiniteSet(N)
  BY <1>1, FS_Interval
<1>6. \A x \in Nat : IsFiniteSet(K(x)) /\ Cardinality(K(x)) \in Nat
  BY <1>5, FS_Subset, FS_CardinalityType
<1>7. K(d) \subseteq K(e)
  <2>1. ASSUME NEW k \in N, d >= LINEAR * 2^k PROVE e >= LINEAR * 2^k
    <3>1. k \in Nat
      BY <1>1
    <3>2. LINEAR * 2^k \in Int
      BY <1>1, <3>1, PowerTyped
    <3> HIDE DEF d, e
    <3> QED
      BY <1>2, <2>1, <3>2
  <2> HIDE DEF d, e, N
  <2> QED
    BY <2>1
<1>8. Cardinality(K(d)) <= Cardinality(K(e))
  <2> HIDE DEF K
  <2> QED
    BY <1>2, <1>6, <1>7, FS_Subset
<1>9. Cardinality(K(d)) \in Nat /\ Cardinality(K(e)) \in Nat
  BY <1>2, <1>6
<1> HIDE DEF K, d, e
<1> QED
  BY <1>1, <1>2, <1>3, <1>4, <1>8, <1>9

LEMMA SegFitEffect ==
  ASSUME NEW h, NEW brk \in Nat, Shape(h, brk), Settled(h),
         NEW asize \in Nat, DSIZE <= asize
  PROVE  /\ \A b \in SegFit(h, asize) :
              /\ b \in FitsIn(h, asize)
              /\ \A c \in FitsIn(h, asize) : ClassIndex(h.size[b]) <= ClassIndex(h.size[c])
         /\ \A a, b \in SegFit(h, asize) : a = b
         /\ FitsIn(h, asize) # {} => SegFit(h, asize) # {}
<1> DEFINE from  == ClassIndex(asize)
           F     == FitsIn(h, asize)
           At(i, j, b) ==
             /\ i \in Class /\ j \in DOMAIN h.class[i]
             /\ i >= from /\ h.class[i][j] = b /\ h.size[b] >= asize
             /\ \A k \in 1 .. j - 1 : h.size[h.class[i][k]] < asize
             /\ \A c \in from .. i - 1 : \A k \in DOMAIN h.class[c] :
                   h.size[h.class[c][k]] < asize
<1>1. from \in Nat /\ Class \subseteq Nat /\ from \in Class
  BY SizeAssumption, ClassIndexInTable DEF Class
<1>2. h.class \in [Class -> Seq(Node)] /\ h.live \subseteq Node
  BY ShapeTypes
<1>3. \A i \in Class : \A j \in DOMAIN h.class[i] : j \in Nat /\ j >= 1
                                                     /\ h.class[i][j] \in Node
                                                     /\ 1 .. j - 1 \subseteq DOMAIN h.class[i]
  <2> SUFFICES ASSUME NEW i \in Class, NEW j \in DOMAIN h.class[i]
               PROVE  /\ j \in Nat /\ j >= 1 /\ h.class[i][j] \in Node
                      /\ 1 .. j - 1 \subseteq DOMAIN h.class[i]
    OBVIOUS
  <2>1. h.class[i] \in Seq(Node)
    BY <1>2
  <2> QED
    BY <2>1
<1>4. SegFit(h, asize) = {b \in h.live : \E i \in Class : \E j \in DOMAIN h.class[i] : At(i, j, b)}
  BY DEF SegFit
<1>5. F = {b \in h.live : h.alloc[b] = 0 /\ h.size[b] >= asize}
  BY DEF FitsIn, Fits
<1>6. \A b \in Node, i \in Class :
        In(h.class[i], b) <=> b \in h.live /\ h.alloc[b] = 0 /\ ClassIndex(h.size[b]) = i
  BY DEF Settled, ListsExactly, FreeBlks
<1>7. \A b \in h.live : h.size[b] \in Nat /\ ClassIndex(h.size[b]) \in Class
  BY NextBlock, ClassIndexInTable
<1>8. \A b \in F : from <= ClassIndex(h.size[b])
  BY <1>5, <1>7, SizeAssumption, ClassMonotone
<1>9. ASSUME NEW i \in Class, NEW j \in DOMAIN h.class[i]
      PROVE  LET b == h.class[i][j] IN
             b \in h.live /\ h.alloc[b] = 0 /\ ClassIndex(h.size[b]) = i
  BY <1>3, <1>6 DEF In
<1>10. ASSUME NEW c \in F
       PROVE  \E k \in DOMAIN h.class[ClassIndex(h.size[c])] :
                h.class[ClassIndex(h.size[c])][k] = c
  BY <1>2, <1>5, <1>6, <1>7 DEF In
<1> HIDE DEF F, from
<1>11. ASSUME NEW b \in SegFit(h, asize)
       PROVE  b \in F /\ \A c \in F : ClassIndex(h.size[b]) <= ClassIndex(h.size[c])
  <2>0. PICK i \in Class : \E j \in DOMAIN h.class[i] : At(i, j, b)
    BY <1>4
  <2>1. PICK j \in DOMAIN h.class[i] : At(i, j, b)
    BY <2>0
  <2>2. b \in h.live /\ h.alloc[b] = 0 /\ ClassIndex(h.size[b]) = i
    BY <1>9, <2>1
  <2>3. b \in F
    BY <1>5, <2>1, <2>2
  <2>4. ASSUME NEW c \in F PROVE i <= ClassIndex(h.size[c])
    <3> DEFINE l == ClassIndex(h.size[c])
    <3>1. l \in Class /\ from <= l
      BY <1>5, <1>7, <1>8
    <3>0. l \in Nat /\ i \in Nat
      BY <1>1, <3>1
    <3> SUFFICES ASSUME l < i PROVE FALSE
      <4> HIDE DEF l
      <4>1. l < i \/ i <= l
        BY <3>0
      <4> QED
        BY <4>1 DEF l
    <3>2. PICK k \in DOMAIN h.class[l] : h.class[l][k] = c
      BY <1>10
    <3> HIDE DEF l
    <3>3. l \in from .. i - 1
      BY <1>1, <3>1
    <3>4. h.size[c] < asize
      BY <2>1, <3>2, <3>3
    <3> QED
      BY <1>5, <1>7, <3>4
  <2> QED
    BY <2>2, <2>3, <2>4
<1>12. ASSUME NEW a \in SegFit(h, asize), NEW b \in SegFit(h, asize)
       PROVE  a = b
  <2>01. PICK i \in Class : \E j \in DOMAIN h.class[i] : At(i, j, a)
    BY <1>4
  <2>1. PICK j \in DOMAIN h.class[i] : At(i, j, a)
    BY <2>01
  <2>02. PICK k \in Class : \E l \in DOMAIN h.class[k] : At(k, l, b)
    BY <1>4
  <2>2. PICK l \in DOMAIN h.class[k] : At(k, l, b)
    BY <2>02
  <2>3. h.size[a] \in Nat /\ h.size[b] \in Nat /\ i \in Nat /\ k \in Nat
    BY <1>1, <1>4, <1>7
  <2>4. ~ (i < k)
    <3> SUFFICES ASSUME i < k PROVE FALSE
      OBVIOUS
    <3>1. i \in from .. k - 1
      BY <1>1, <2>1, <2>3
    <3> QED
      BY <2>1, <2>2, <2>3, <3>1
  <2>5. ~ (k < i)
    <3> SUFFICES ASSUME k < i PROVE FALSE
      OBVIOUS
    <3>1. k \in from .. i - 1
      BY <1>1, <2>2, <2>3
    <3> QED
      BY <2>1, <2>2, <2>3, <3>1
  <2>6. i = k
    BY <2>3, <2>4, <2>5
  <2>7. j \in Nat /\ l \in Nat /\ j >= 1 /\ l >= 1
    BY <1>3
  <2>8. ~ (j < l)
    <3> SUFFICES ASSUME j < l PROVE FALSE
      OBVIOUS
    <3>1. j \in 1 .. l - 1
      BY <2>7
    <3> QED
      BY <2>1, <2>2, <2>3, <2>6, <3>1
  <2>9. ~ (l < j)
    <3> SUFFICES ASSUME l < j PROVE FALSE
      OBVIOUS
    <3>1. l \in 1 .. j - 1
      BY <2>7
    <3> QED
      BY <2>1, <2>2, <2>3, <2>6, <3>1
  <2>10. j = l
    BY <2>7, <2>8, <2>9
  <2> QED
    BY <2>1, <2>2, <2>6, <2>10
<1>13. ASSUME NEW x \in F
       PROVE  SegFit(h, asize) # {}
  <2> DEFINE T == {i \in Class : \E b \in F : ClassIndex(h.size[b]) = i}
  <2>1. ClassIndex(h.size[x]) \in T
    BY <1>5, <1>7
  <2>2. PICK i \in T : \A y \in T : i <= y
    BY <1>1, <2>1, LeastNat
  <2>3. PICK c \in F : ClassIndex(h.size[c]) = i
    OBVIOUS
  <2>4. i \in Class /\ i \in Nat /\ from <= i
    BY <1>1, <1>8, <2>3
  <2>5. \A b \in F : i <= ClassIndex(h.size[b])
    BY <1>5, <1>7, <2>2
  <2> HIDE DEF T
  <2> DEFINE J == {j \in DOMAIN h.class[i] : h.size[h.class[i][j]] >= asize}
  <2>6. J # {}
    BY <1>5, <1>10, <2>3
  <2>7. J \subseteq Nat
    BY <1>3, <2>4
  <2>8. PICK j \in J : \A y \in J : j <= y
    BY <2>6, <2>7, LeastNat
  <2>9. j \in DOMAIN h.class[i] /\ h.size[h.class[i][j]] >= asize /\ j \in Nat
    BY <2>7
  <2>10. ASSUME NEW k \in 1 .. j - 1 PROVE h.size[h.class[i][k]] < asize
    <3>1. k \in DOMAIN h.class[i] /\ k < j
      BY <1>3, <2>4, <2>9
    <3>2. k \notin J
      BY <2>8, <2>9, <3>1
    <3>3. h.size[h.class[i][k]] \in Nat
      BY <1>7, <1>9, <2>4, <3>1
    <3> QED
      BY <3>1, <3>2, <3>3
  <2>11. ASSUME NEW l \in from .. i - 1, NEW k \in DOMAIN h.class[l]
         PROVE  h.size[h.class[l][k]] < asize
    <3>1. l \in Class /\ l < i
      BY <1>1, <2>4, SizeAssumption DEF Class
    <3> DEFINE b == h.class[l][k]
    <3>2. b \in h.live /\ h.alloc[b] = 0 /\ ClassIndex(h.size[b]) = l
      BY <1>9, <3>1
    <3> HIDE DEF b
    <3>3. b \notin F
      BY <1>1, <2>4, <2>5, <3>1, <3>2
    <3>4. h.size[b] < asize
      BY <1>5, <1>7, <3>2, <3>3
    <3> QED
      BY <3>4 DEF b
  <2>12. h.class[i][j] \in h.live
    BY <1>9, <2>4, <2>9
  <2> DEFINE b == h.class[i][j]
  <2>13. At(i, j, b)
    BY <2>4, <2>9, <2>10, <2>11
  <2> HIDE DEF b, J, At
  <2>14. b \in h.live
    BY <2>12 DEF b
  <2> QED
    BY <1>4, <2>4, <2>9, <2>13, <2>14
<1> QED
  BY <1>11, <1>12, <1>13 DEF F

-----------------------------------------------------------------------------
(* The sizes asked for and the sizes given.                                *)

Multiple(x) == \E k \in Nat : x = DSIZE * k

LEMMA RoundedUp ==
  ASSUME NEW x \in Nat
  PROVE  /\ DSIZE * (x \div DSIZE) \in Nat /\ Multiple(DSIZE * (x \div DSIZE))
         /\ DSIZE * (x \div DSIZE) <= x /\ x < DSIZE * (x \div DSIZE) + DSIZE
<1> DEFINE q == x \div DSIZE
<1>1. DSIZE \in Nat \ {0}
  BY SizeAssumption
<1>2. x = DSIZE * q + (x % DSIZE) /\ x % DSIZE \in 0 .. DSIZE - 1 /\ q \in Nat
  BY <1>1
<1> HIDE DEF q
<1>3. DSIZE * q \in Nat
  BY <1>1, <1>2
<1>4. Multiple(DSIZE * q) /\ DSIZE * q <= x /\ x < DSIZE * q + DSIZE
  BY <1>1, <1>2, <1>3 DEF Multiple
<1> QED
  BY <1>3, <1>4 DEF q

LEMMA MallocAsizeBounds ==
  ASSUME NEW size \in Nat
  PROVE  LET asize == MallocAsize(size) IN
         /\ asize \in Nat /\ DSIZE <= asize /\ Multiple(asize)
         /\ size <= asize /\ asize <= size + (2 * DSIZE - 1)
<1>1. DSIZE \in Nat \ {0}
  BY SizeAssumption
<1>2. CASE size <= DSIZE
  <2>1. MallocAsize(size) = DSIZE
    BY <1>2 DEF MallocAsize
  <2>2. DSIZE = DSIZE * 1
    BY <1>1
  <2>3. Multiple(DSIZE)
    BY <2>2 DEF Multiple
  <2> QED
    BY <1>1, <1>2, <2>1, <2>3
<1>3. CASE ~ (size <= DSIZE)
  <2> DEFINE x == size + DSIZE + (DSIZE - 1)
  <2>1. MallocAsize(size) = DSIZE * (x \div DSIZE)
    BY <1>3 DEF MallocAsize
  <2>2. x \in Nat /\ x = size + (2 * DSIZE - 1)
    BY <1>1
  <2> DEFINE y == DSIZE * (x \div DSIZE)
  <2>3. y \in Nat /\ Multiple(y) /\ y <= x /\ x < y + DSIZE
    BY <2>2, RoundedUp
  <2> HIDE DEF x, y
  <2>4. DSIZE <= y /\ size <= y /\ y <= size + (2 * DSIZE - 1)
    BY <1>1, <1>3, <2>2, <2>3
  <2> QED
    BY <2>1, <2>3, <2>4 DEF y
<1> QED
  BY <1>2, <1>3

LEMMA ReallocAsizeBounds ==
  ASSUME NEW size \in Nat \ {0}
  PROVE  LET asize == ReallocAsize(size) IN
         /\ asize \in Nat /\ DSIZE <= asize /\ Multiple(asize)
         /\ size <= asize /\ asize <= size + (DSIZE - 1)
<1>1. DSIZE \in Nat \ {0}
  BY SizeAssumption
<1>2. CASE size < DSIZE
  <2>1. ReallocAsize(size) = DSIZE
    BY <1>2 DEF ReallocAsize
  <2>2. DSIZE = DSIZE * 1
    BY <1>1
  <2>3. Multiple(DSIZE)
    BY <2>2 DEF Multiple
  <2> QED
    BY <1>1, <1>2, <2>1, <2>3
<1>3. CASE ~ (size < DSIZE)
  <2> DEFINE x == size + (DSIZE - 1)
  <2>1. ReallocAsize(size) = DSIZE * (x \div DSIZE)
    BY <1>3 DEF ReallocAsize
  <2>2. x \in Nat
    BY <1>1
  <2> DEFINE y == DSIZE * (x \div DSIZE)
  <2>3. y \in Nat /\ Multiple(y) /\ y <= x /\ x < y + DSIZE
    BY <2>2, RoundedUp
  <2>4. Multiple(y) => \E k \in Nat : y = DSIZE * k
    BY DEF Multiple
  <2>5. x = size + (DSIZE - 1)
    OBVIOUS
  <2> HIDE DEF x, y
  <2>6. size <= y /\ y <= size + (DSIZE - 1) /\ DSIZE <= y
    <3>1. size <= y
      BY <1>1, <2>2, <2>3, <2>5
    <3> QED
      BY <1>1, <1>3, <2>2, <2>3, <2>5, <3>1
  <2> QED
    BY <2>1, <2>3, <2>6 DEF y
<1> QED
  BY <1>2, <1>3

(* A size below a rounded one that is rounded too is below the request.    *)
LEMMA BelowRounded ==
  ASSUME NEW size \in Nat \ {0}, NEW x \in Nat, Multiple(x), x < ReallocAsize(size)
  PROVE  x < size
<1> DEFINE a == ReallocAsize(size)
<1>1. a \in Nat /\ Multiple(a) /\ size <= a /\ a <= size + (DSIZE - 1)
  BY ReallocAsizeBounds
<1> HIDE DEF a
<1>2. PICK k \in Nat : x = DSIZE * k
  BY DEF Multiple
<1>3. PICK l \in Nat : a = DSIZE * l
  BY <1>1 DEF Multiple
<1>4. DSIZE \in Nat \ {0} /\ x < a
  BY SizeAssumption DEF a
<1>5. k < l
  <2> SUFFICES ASSUME l <= k PROVE FALSE
    OBVIOUS
  <2>1. DSIZE * l <= DSIZE * k
    BY <1>4
  <2> QED
    BY <1>1, <1>2, <1>3, <1>4, <2>1
<1>6. DSIZE * (k + 1) <= DSIZE * l /\ DSIZE * (k + 1) = DSIZE * k + DSIZE
  BY <1>4, <1>5
<1>7. x + DSIZE <= a
  BY <1>2, <1>3, <1>6
<1> QED
  BY <1>1, <1>4, <1>7

-----------------------------------------------------------------------------
(* The policies in every state.                                            *)

LEMMA FitFacts ==
  ASSUME IInv, Serving, NEW asize \in Asizes
  PROVE  /\ asize \in Nat /\ DSIZE <= asize /\ Fitting(asize) = FitsIn(heap, asize)
         /\ Shape(heap, mem_brk) /\ Settled(heap) /\ mem_brk \in Nat
         /\ heap.live \subseteq Node
<1>1. asize \in Nat /\ DSIZE <= asize
  BY InputAssumption, MallocAsizeBounds DEF Asizes
<1> QED
  BY <1>1, InvFacts DEF Fitting, FitsIn

LEMMA IInvFirstFit == IInv => FirstFitLowest
<1> SUFFICES ASSUME IInv, Serving, NEW asize \in Asizes
             PROVE  FirstFit(heap, asize) =
                      {b \in Fitting(asize) :
                         \A c \in Fitting(asize) : heap.ptr[b] <= heap.ptr[c]}
  BY DEF FirstFitLowest
<1> QED
  BY FitFacts, FirstFitEffect

LEMMA IInvBestFit == IInv => BestFitSmallest
<1> SUFFICES ASSUME IInv, Serving, NEW asize \in Asizes
             PROVE  BestFit(heap, asize) =
                      {b \in Fitting(asize) :
                         \A c \in Fitting(asize) :
                           \/ heap.size[b] < heap.size[c]
                           \/ heap.size[b] = heap.size[c] /\ heap.ptr[b] <= heap.ptr[c]}
  BY DEF BestFitSmallest
<1> QED
  BY FitFacts, BestFitEffect

LEMMA IInvSegFit == IInv => SegFitComplete
<1> SUFFICES ASSUME IInv, Serving, NEW asize \in Asizes
             PROVE  LET found == SegFit(heap, asize) IN
                    /\ Fitting(asize) # {} => Cardinality(found) = 1
                    /\ \A b \in found, c \in Fitting(asize) :
                         /\ b \in Fitting(asize)
                         /\ ClassIndex(heap.size[b]) <= ClassIndex(heap.size[c])
  BY DEF SegFitComplete
<1> DEFINE found == SegFit(heap, asize)
<1>1. /\ \A b \in found :
           /\ b \in Fitting(asize)
           /\ \A c \in Fitting(asize) :
                ClassIndex(heap.size[b]) <= ClassIndex(heap.size[c])
      /\ \A a, b \in found : a = b
      /\ Fitting(asize) # {} => found # {}
  BY FitFacts, SegFitEffect
<1> HIDE DEF found
<1>2. ASSUME Fitting(asize) # {} PROVE Cardinality(found) = 1
  <2>1. PICK b \in found : TRUE
    BY <1>1, <1>2
  <2>2. found = {b}
    BY <1>1, <2>1
  <2> QED
    BY <2>2, FS_Singleton
<1> QED
  BY <1>1, <1>2 DEF found

(* pc_mm.c:168: first fit finds the lowest block that fits, and one        *)
(* whenever there is one, in every heap a legal client's requests lead to. *)
THEOREM FirstFitFinds ==
  ASSUME LegalClient
  PROVE  Spec => []FirstFitLowest
BY InductiveInvariant, IInvFirstFit, PTL

(* pc_mm.c:182: best fit finds a smallest block that fits.                 *)
THEOREM BestFitFinds ==
  ASSUME LegalClient
  PROVE  Spec => []BestFitSmallest
BY InductiveInvariant, IInvBestFit, PTL

(* pc_mm.c:203: seg_fit, which looks in the class lists from the request's *)
(* class upwards, finds a block of the lowest class that has one, and      *)
(* misses none in the classes that it does not look in.                    *)
THEOREM SegFitFinds ==
  ASSUME LegalClient
  PROVE  Spec => []SegFitComplete
BY InductiveInvariant, IInvSegFit, PTL

-----------------------------------------------------------------------------
(* The server implements HeapAbs.                                          *)

(* The sizes of allocated blocks are multiples of a double word.  Without  *)
(* this a realloc could be refused although the block has room.            *)
Rounded(h) == \A b \in Allocated(h) : Multiple(h.size[b])

RegionOf(h, b) == [lo |-> h.ptr[b], len |-> h.size[b]]

RegionsOf(h, S) == {RegionOf(h, b) : b \in S}

LEMMA RegionsAre == Regions = RegionsOf(heap, Allocated(heap))
BY DEF Regions, RegionsOf, RegionOf

LEMMA RegionsAreNext == Regions' = RegionsOf(heap', Allocated(heap'))
BY DEF Regions, RegionsOf, RegionOf, Allocated

(* No two blocks have one pointer.                                         *)
LEMMA PointersDistinct ==
  ASSUME NEW h, NEW brk \in Nat, Shape(h, brk), NEW a \in h.live, NEW b \in h.live,
         h.ptr[a] = h.ptr[b]
  PROVE  a = b
<1>1. /\ h.ptr[a] \in Nat /\ h.ptr[a] < End(h, a) /\ End(h, a) \in Nat
      /\ h.ptr[b] \in Nat /\ h.ptr[b] < End(h, b) /\ End(h, b) \in Nat
  BY NextBlock
<1>2. a # b => End(h, a) <= h.ptr[b] \/ End(h, b) <= h.ptr[a]
  BY DEF Shape, Apart, End
<1> QED
  BY <1>1, <1>2

(* The regions but that of b, and all of them.                             *)
LEMMA RegionsWithout ==
  ASSUME NEW h, NEW brk \in Nat, Shape(h, brk), NEW b
  PROVE  /\ b \in Allocated(h) =>
              /\ RegionOf(h, b) \in RegionsOf(h, Allocated(h))
              /\ RegionsOf(h, Allocated(h) \ {b})
                   = RegionsOf(h, Allocated(h)) \ {RegionOf(h, b)}
              /\ RegionsOf(h, Allocated(h))
                   = RegionsOf(h, Allocated(h) \ {b}) \cup {RegionOf(h, b)}
         /\ b \notin Allocated(h) =>
              RegionsOf(h, Allocated(h)) = RegionsOf(h, Allocated(h) \ {b})
<1>1. ASSUME b \in Allocated(h), NEW n \in Allocated(h), h.ptr[n] = h.ptr[b]
      PROVE  n = b
  BY <1>1, PointersDistinct DEF Allocated
<1>2. \A n : RegionOf(h, n).lo = h.ptr[n]
  BY DEF RegionOf
<1> QED
  BY <1>1, <1>2 DEF RegionsOf

(* The region of b is the one that begins at its pointer.                  *)
LEMMA RegionsNotAt ==
  ASSUME NEW h, NEW brk \in Nat, Shape(h, brk), NEW b \in Allocated(h)
  PROVE  RegionsOf(h, Allocated(h) \ {b})
           = {r \in RegionsOf(h, Allocated(h)) : r.lo # h.ptr[b]}
<1>1. ASSUME NEW n \in Allocated(h), h.ptr[n] = h.ptr[b]
      PROVE  n = b
  BY <1>1, PointersDistinct DEF Allocated
<1>2. \A n : RegionOf(h, n).lo = h.ptr[n]
  BY DEF RegionOf
<1> QED
  BY <1>1, <1>2 DEF RegionsOf

LEMMA OthersRegions ==
  ASSUME NEW h, NEW g, NEW b, Others(h, g, b)
  PROVE  RegionsOf(g, Allocated(g) \ {b}) = RegionsOf(h, Allocated(h) \ {b})
<1>1. Allocated(g) \ {b} = Allocated(h) \ {b}
  BY DEF Others, Allocated
<1>2. \A n \in Allocated(h) \ {b} : RegionOf(g, n) = RegionOf(h, n)
  BY DEF Others, Allocated, RegionOf
<1> QED
  BY <1>1, <1>2 DEF RegionsOf

LEMMA OthersRounded ==
  ASSUME NEW h, NEW g, NEW b, Others(h, g, b), Rounded(h),
         b \in g.live => g.alloc[b] = 0 \/ Multiple(g.size[b])
  PROVE  Rounded(g)
BY DEF Others, Rounded, Allocated

-----------------------------------------------------------------------------
(* Runs of bytes.                                                          *)

(* No byte of a run of bytes in the heap is in a block of S.               *)
Clear(h, brk, lo, len, S) ==
  /\ h.ptr[Start] <= lo /\ lo + len <= brk
  /\ \A b \in S : lo + len <= h.ptr[b] \/ End(h, b) <= lo

LEMMA VacantIsClear ==
  ASSUME IInv, Serving, NEW lo, NEW len, NEW S \in SUBSET heap.live
  PROVE  Abs!Vacant(Abs!Region(lo, len), RegionsOf(heap, S))
           <=> Clear(heap, mem_brk, lo, len, S)
<1>1. mem_start_brk = heap.ptr[Start]
  BY InvFacts
<1>2. \A b : RegionOf(heap, b).lo = heap.ptr[b] /\ RegionOf(heap, b).len = heap.size[b]
  BY DEF RegionOf
<1>3. Abs!Region(lo, len).lo = lo /\ Abs!Region(lo, len).len = len
  BY DEF Abs!Region
<1>4. \A b : Abs!Apart(Abs!Region(lo, len), RegionOf(heap, b))
               <=> lo + len <= heap.ptr[b] \/ End(heap, b) <= lo
  BY <1>2, <1>3 DEF Abs!Apart, End
<1> QED
  BY <1>1, <1>3, <1>4 DEF Abs!Vacant, Clear, RegionsOf

(* A run that begins in a block that is not allocated and ends beyond the  *)
(* next block does not begin has bytes of an allocated block.              *)
LEMMA RunInBlock ==
  ASSUME NEW h, NEW brk \in Nat, Shape(h, brk), Settled(h),
         NEW b \in h.live, h.alloc[b] = 0,
         NEW lo \in Nat, NEW len \in Nat, lo < End(h, b),
         Clear(h, brk, lo, len, Allocated(h))
  PROVE  lo + len <= End(h, b)
<1> SUFFICES ASSUME End(h, b) < lo + len PROVE FALSE
  BY NextBlock
<1>1. lo + len <= brk
  BY DEF Clear
<1>2. h.next[b] # Start
  BY <1>1, NextBlock
<1> DEFINE n == h.next[b]
<1>3. n \in h.live /\ h.ptr[n] = End(h, b)
  BY <1>2, NextBlock
<1>4. h.alloc[n] = 1
  BY DEF Settled, FreeBlks
<1> HIDE DEF n
<1>5. n \in Allocated(h) /\ h.ptr[n] \in Nat /\ h.ptr[n] < End(h, n) /\ End(h, n) \in Nat
  BY <1>3, <1>4, NextBlock DEF Allocated
<1>6. lo + len <= h.ptr[n] \/ End(h, n) <= lo
  BY <1>5 DEF Clear
<1> QED
  BY <1>3, <1>5, <1>6

(* A clear run lies in one free block.                                     *)
LEMMA ClearRunFits ==
  ASSUME NEW h, NEW brk \in Nat, Shape(h, brk), Settled(h),
         NEW lo \in Nat, NEW len \in Nat \ {0},
         Clear(h, brk, lo, len, Allocated(h))
  PROVE  \E b \in h.live : h.alloc[b] = 0 /\ len <= h.size[b]
<1>1. h.ptr[Start] <= lo /\ lo < brk
  BY DEF Clear
<1>2. PICK i \in Nat : /\ Before(h, i)
                       /\ h.ptr[Walk(h)[i]] <= lo /\ lo < End(h, Walk(h)[i])
  BY <1>1, ByteCovered
<1> DEFINE b == Walk(h)[i]
<1>3. b \in h.live /\ h.ptr[b] <= lo /\ lo < End(h, b)
  BY <1>2 DEF Before
<1> HIDE DEF b
<1>4. h.ptr[b] \in Nat /\ End(h, b) \in Nat /\ h.size[b] \in Nat
      /\ End(h, b) = h.ptr[b] + h.size[b]
  BY <1>3, NextBlock DEF End
<1>5. h.alloc[b] = 0
  <2> SUFFICES ASSUME h.alloc[b] # 0 PROVE FALSE
    OBVIOUS
  <2>1. b \in Elt /\ h.alloc[b] \in {0, 1}
    BY <1>3, ShapeTypes DEF Elt
  <2>2. b \in Allocated(h)
    BY <1>3, <2>1 DEF Allocated
  <2>3. lo + len <= h.ptr[b] \/ End(h, b) <= lo
    BY <2>2 DEF Clear
  <2> QED
    BY <1>3, <1>4, <2>3
<1>6. lo + len <= End(h, b)
  BY <1>3, <1>5, RunInBlock
<1> QED
  BY <1>3, <1>4, <1>5, <1>6

-----------------------------------------------------------------------------
(* One lemma for each handler: which step of HeapAbs it is.                *)

LEMMA FoundWhenFits ==
  ASSUME IInv, Serving, NEW size \in MallocSizes \ {0},
         FindFit(heap, MallocAsize(size)) = {}
  PROVE  FitsIn(heap, MallocAsize(size)) = {}
<1> DEFINE asize == MallocAsize(size)
           F     == FitsIn(heap, asize)
<1>1. /\ Shape(heap, mem_brk) /\ Settled(heap) /\ mem_brk \in Nat
      /\ asize \in Nat /\ DSIZE <= asize
  BY InvFacts, InputAssumption, MallocAsizeBounds
<1>2. F \subseteq heap.live
  BY DEF FitsIn
<1>3. \A b \in F : heap.ptr[b] \in Nat /\ heap.size[b] \in Nat
  BY <1>1, <1>2, NextBlock
<1>4. FirstFit(heap, asize) = {b \in F : \A c \in F : heap.ptr[b] <= heap.ptr[c]}
  BY <1>1, FirstFitEffect
<1>5. BestFit(heap, asize) =
        {b \in F : \A c \in F :
           heap.size[b] < heap.size[c]
           \/ (heap.size[b] = heap.size[c] /\ heap.ptr[b] <= heap.ptr[c])}
  BY <1>1, BestFitEffect
<1>6. F # {} => SegFit(heap, asize) # {}
  BY <1>1, SegFitEffect
<1> HIDE DEF F, asize
<1>7. ASSUME NEW G \in SUBSET F, G # {}
      PROVE  \E b \in G : \A c \in G : heap.ptr[b] <= heap.ptr[c]
  <2> DEFINE P == {heap.ptr[b] : b \in G}
  <2>1. P \subseteq Nat /\ P # {}
    BY <1>3, <1>7
  <2>2. PICK x \in P : \A y \in P : x <= y
    BY <2>1, LeastNat
  <2> QED
    BY <2>2
<1>8. ASSUME F # {}
      PROVE  \E b \in F : \A c \in F : heap.size[b] <= heap.size[c]
  <2> DEFINE P == {heap.size[b] : b \in F}
  <2>1. P \subseteq Nat /\ P # {}
    BY <1>3, <1>8
  <2>2. PICK x \in P : \A y \in P : x <= y
    BY <2>1, LeastNat
  <2> QED
    BY <2>2
<1>9. F # {} => FirstFit(heap, asize) # {}
  BY <1>4, <1>7
<1>10. ASSUME F # {} PROVE BestFit(heap, asize) # {}
  <2>1. PICK m \in F : \A c \in F : heap.size[m] <= heap.size[c]
    BY <1>8, <1>10
  <2> DEFINE G == {b \in F : heap.size[b] = heap.size[m]}
  <2>2. PICK b \in G : \A c \in G : heap.ptr[b] <= heap.ptr[c]
    <3>1. G \in SUBSET F /\ G # {}
      OBVIOUS
    <3> HIDE DEF G
    <3> QED
      BY <1>7, <3>1
  <2>3. ASSUME NEW c \in F
        PROVE  heap.size[b] < heap.size[c]
               \/ (heap.size[b] = heap.size[c] /\ heap.ptr[b] <= heap.ptr[c])
    <3>1. b \in F /\ heap.size[b] = heap.size[m] /\ heap.size[m] <= heap.size[c]
          /\ heap.size[b] \in Nat /\ heap.size[c] \in Nat
      BY <1>3, <2>1
    <3>2. heap.size[b] = heap.size[c] => c \in G
      BY <3>1
    <3> QED
      BY <2>2, <3>1, <3>2
  <2>4. b \in F
    OBVIOUS
  <2> QED
    BY <1>5, <2>3, <2>4
<1>11. FindFit(heap, asize) = {}
  BY DEF asize
<1>12. F = {}
  <2>1. CASE SEARCH_OPT = "FIRST_FIT"
    BY <1>9, <1>11, <2>1 DEF FindFit
  <2>2. CASE SEARCH_OPT = "BEST_FIT"
    BY <1>10, <1>11, <2>2 DEF FindFit
  <2>3. CASE SEARCH_OPT = "SEG_FIT"
    BY <1>6, <1>11, <2>3 DEF FindFit
  <2> QED
    BY <2>1, <2>2, <2>3, PolicyAssumption
<1> QED
  BY <1>12 DEF F, asize

LEMMA GrantStep ==
  ASSUME IInv, Serving, Rounded(heap), NEW size \in MallocSizes \ {0},
         NEW b \in FindFit(heap, MallocAsize(size)), NEW new \in Node \ heap.live,
         heap' = Place(heap, b, MallocAsize(size), new), reply' = <<heap.ptr[b]>>,
         req_in' = Request("MALLOC", size, 0), UNCHANGED <<mem_start_brk, mem_brk>>
  PROVE  Rounded(heap') /\ Abs!Grant(size)
<1> DEFINE asize == MallocAsize(size)
<1>1. /\ Shape(heap, mem_brk) /\ Settled(heap) /\ mem_brk \in Nat
      /\ ListsExactly(heap, FreeBlks(heap)) /\ heap.live \subseteq Node
      /\ mem_start_brk = heap.ptr[Start] /\ heap.ptr[Start] \in Nat
  BY InvFacts
<1>2. /\ size \in Nat \ {0} /\ asize \in Nat \ {0} /\ Multiple(asize)
      /\ size <= asize /\ asize <= size + (2 * DSIZE - 1)
  BY InputAssumption, MallocAsizeBounds, SizeAssumption
<1>3. b \in FindFit(heap, asize) /\ heap' = Place(heap, b, asize, new)
  OBVIOUS
<1> HIDE DEF asize
<1>4. b \in heap.live /\ heap.alloc[b] = 0 /\ heap.size[b] >= asize
  BY <1>1, <1>2, <1>3, FindFitEffect
<1>5. Resized(heap, heap', mem_brk, b, asize)
  BY <1>1, <1>2, <1>3, <1>4, PlaceEffect
<1>6. Rounded(heap')
  BY <1>2, <1>5, OthersRounded DEF Resized
<1>7. b \notin Allocated(heap) /\ b \in Allocated(heap')
  BY <1>4, <1>5 DEF Allocated, Resized
<1>8. RegionOf(heap', b) = Abs!Region(heap.ptr[b], asize)
  BY <1>5 DEF Resized, RegionOf, Abs!Region
<1>9. Regions' = Regions \cup {Abs!Region(heap.ptr[b], asize)}
  <2>1. RegionsOf(heap', Allocated(heap'))
          = RegionsOf(heap', Allocated(heap') \ {b}) \cup {RegionOf(heap', b)}
    BY <1>1, <1>5, <1>7, RegionsWithout DEF Resized
  <2>2. RegionsOf(heap', Allocated(heap') \ {b}) = RegionsOf(heap, Allocated(heap) \ {b})
    BY <1>5, OthersRegions DEF Resized
  <2>3. RegionsOf(heap, Allocated(heap) \ {b}) = RegionsOf(heap, Allocated(heap))
    BY <1>1, <1>7, RegionsWithout
  <2> QED
    BY <1>8, <2>1, <2>2, <2>3, RegionsAre, RegionsAreNext
<1>10. /\ heap.ptr[b] \in Nat /\ heap.size[b] \in Nat
       /\ heap.ptr[Start] <= heap.ptr[b] /\ End(heap, b) <= mem_brk
       /\ End(heap, b) = heap.ptr[b] + heap.size[b]
  BY <1>1, <1>4, NextBlock DEF End
<1>11. Clear(heap, mem_brk, heap.ptr[b], asize, Allocated(heap))
  <2>1. ASSUME NEW n \in Allocated(heap)
        PROVE  heap.ptr[b] + asize <= heap.ptr[n] \/ End(heap, n) <= heap.ptr[b]
    <3>1. n \in heap.live /\ n # b
      BY <1>7 DEF Allocated
    <3>2. End(heap, b) <= heap.ptr[n] \/ End(heap, n) <= heap.ptr[b]
      BY <1>1, <1>4, <3>1 DEF Shape, Apart, End
    <3>3. heap.ptr[n] \in Nat
      BY <1>1, <3>1, NextBlock
    <3> QED
      BY <1>2, <1>4, <1>10, <3>2, <3>3
  <2> QED
    BY <1>1, <1>2, <1>4, <1>10, <2>1 DEF Clear
<1>12. Abs!Vacant(Abs!Region(heap.ptr[b], asize), Regions)
  <2>1. Allocated(heap) \in SUBSET heap.live
    BY DEF Allocated
  <2> QED
    BY <1>11, <2>1, VacantIsClear, RegionsAre
<1>13. /\ heap.ptr[b] \in mem_start_brk .. mem_brk - 1
       /\ asize \in size .. size + (2 * DSIZE - 1)
  BY <1>1, <1>2, <1>4, <1>10, SizeAssumption
<1>14. Abs!Requested("MALLOC", size, 0)
  BY DEF Abs!Requested, Request
<1> QED
  BY <1>2, <1>6, <1>9, <1>12, <1>13, <1>14 DEF Abs!Grant

LEMMA RefuseStep ==
  ASSUME IInv, Serving, NEW size \in MallocSizes,
         size = 0 \/ FindFit(heap, MallocAsize(size)) = {},
         reply' = << 0 >>, UNCHANGED heap,
         req_in' = Request("MALLOC", size, 0), UNCHANGED <<mem_start_brk, mem_brk>>
  PROVE  Abs!Refuse(size)
<1> DEFINE asize == MallocAsize(size)
           len   == size + (2 * DSIZE - 1)
<1>1. /\ Shape(heap, mem_brk) /\ Settled(heap) /\ mem_brk \in Nat
      /\ mem_start_brk = heap.ptr[Start] /\ heap.ptr[Start] \in Nat
  BY InvFacts
<1>2. ASSUME size > 0, NEW lo \in mem_start_brk .. mem_brk - 1
      PROVE  ~ Abs!Vacant(Abs!Region(lo, len), Regions)
  <2> SUFFICES ASSUME Abs!Vacant(Abs!Region(lo, len), Regions) PROVE FALSE
    OBVIOUS
  <2>1. size \in MallocSizes \ {0}
    BY <1>2, InputAssumption
  <2>2. asize \in Nat /\ asize <= len /\ len \in Nat \ {0} /\ lo \in Nat
    BY <1>1, <2>1, InputAssumption, MallocAsizeBounds, SizeAssumption
  <2>3. FitsIn(heap, asize) = {}
    BY <2>1, FoundWhenFits
  <2> HIDE DEF asize, len
  <2>4. Allocated(heap) \in SUBSET heap.live
    BY DEF Allocated
  <2>5. Clear(heap, mem_brk, lo, len, Allocated(heap))
    BY <2>4, VacantIsClear, RegionsAre
  <2>6. PICK b \in heap.live : heap.alloc[b] = 0 /\ len <= heap.size[b]
    BY <1>1, <2>2, <2>5, ClearRunFits
  <2>7. heap.size[b] \in Nat
    BY <1>1, NextBlock
  <2>8. b \in FitsIn(heap, asize)
    BY <2>2, <2>6, <2>7 DEF FitsIn, Fits
  <2> QED
    BY <2>3, <2>8
<1>3. Regions' = Regions
  BY RegionsAre, RegionsAreNext
<1>4. Abs!Requested("MALLOC", size, 0)
  BY DEF Abs!Requested, Request
<1> QED
  BY <1>2, <1>3, <1>4 DEF Abs!Refuse

LEMMA MallocStep ==
  ASSUME IInv, Rounded(heap), NEW size \in MallocSizes, HandleMalloc(size)
  PROVE  Rounded(heap') /\ (Abs!Grant(size) \/ Abs!Refuse(size))
<1> DEFINE asize == MallocAsize(size)
<1>1. /\ Serving /\ req_in' = Request("MALLOC", size, 0)
      /\ UNCHANGED <<mem_start_brk, mem_brk>>
  BY DEF HandleMalloc
<1>2. CASE size # 0 /\ \E b \in FindFit(heap, asize), new \in Node \ heap.live :
                        heap' = Place(heap, b, asize, new) /\ reply' = <<heap.ptr[b]>>
  BY <1>1, <1>2, GrantStep
<1>3. CASE /\ size = 0 \/ FindFit(heap, asize) = {}
           /\ reply' = << 0 >> /\ UNCHANGED heap
  BY <1>1, <1>3, RefuseStep
<1> QED
  BY <1>2, <1>3 DEF HandleMalloc

LEMMA FreeStep ==
  ASSUME LegalClient, IInv, Rounded(heap), NEW p \in ClientPtrs, HandleFree(p)
  PROVE  /\ Rounded(heap')
         /\ \E q \in {r.lo : r \in Regions} \cup {0} : Abs!Free(q)
<1>1. /\ Serving /\ req_in' = Request("FREE", 0, p) /\ reply' = << >>
      /\ UNCHANGED <<mem_start_brk, mem_brk>>
  BY DEF HandleFree
<1>2. /\ Shape(heap, mem_brk) /\ Settled(heap) /\ mem_brk \in Nat
      /\ \A b \in heap.live : heap.ptr[b] # 0
  BY <1>1, InvFacts
<1>3. Abs!Requested("FREE", 0, p)
  BY <1>1 DEF Abs!Requested, Request
<1>4. ASSUME NEW b \in DictSearch(heap, p),
             heap' = Coalesce(FreeBlkAdd([heap EXCEPT !.alloc[b] = 0], b), b)
      PROVE  Rounded(heap') /\ p \in {r.lo : r \in Regions} /\ Abs!Free(p)
  <2>1. b \in heap.live /\ heap.alloc[b] = 1 /\ heap.ptr[b] = p
    BY <1>1, LegalPointer
  <2>2. Without(heap, heap', mem_brk, b)
    BY <1>2, <1>4, <2>1, FreeEffect
  <2>3. Rounded(heap')
    BY <2>2, OthersRounded DEF Without
  <2>4. b \in Allocated(heap) /\ b \notin Allocated(heap')
    BY <2>1, <2>2 DEF Allocated, Without
  <2>5. RegionOf(heap, b) \in Regions /\ RegionOf(heap, b).lo = p
    BY <1>2, <2>1, <2>4, RegionsWithout, RegionsAre DEF RegionOf
  <2>6. Regions' = {r \in Regions : r.lo # p}
    <3>1. RegionsOf(heap', Allocated(heap')) = RegionsOf(heap', Allocated(heap') \ {b})
      BY <1>2, <2>2, <2>4, RegionsWithout DEF Without
    <3>2. RegionsOf(heap', Allocated(heap') \ {b}) = RegionsOf(heap, Allocated(heap) \ {b})
      BY <2>2, OthersRegions DEF Without
    <3>3. RegionsOf(heap, Allocated(heap) \ {b})
            = {r \in RegionsOf(heap, Allocated(heap)) : r.lo # heap.ptr[b]}
      BY <1>2, <2>4, RegionsNotAt
    <3> QED
      BY <2>1, <3>1, <3>2, <3>3, RegionsAre, RegionsAreNext
  <2>7. Abs!Free(p)
    BY <1>1, <1>3, <2>6 DEF Abs!Free
  <2> QED
    BY <2>3, <2>5, <2>7
<1>5. CASE DictSearch(heap, p) = {} /\ UNCHANGED heap
  <2>1. p = 0
    <3> SUFFICES ASSUME p # 0 PROVE FALSE
      OBVIOUS
    <3>1. PICK n \in Allocated(heap) : heap.ptr[n] = p
      BY DEF ClientPtrs, LegalClient
    <3>2. n \in heap.live /\ n \in Node
      BY <1>1, InvFacts DEF Allocated
    <3>3. <<p, n>> \in heap.dict
      BY <1>2, <3>1, <3>2 DEF Shape, Keyed
    <3> QED
      BY <1>5, <3>2, <3>3 DEF DictSearch
  <2>2. \A r \in Regions : r.lo # 0
    BY <1>2 DEF Regions, Allocated
  <2>3. Regions' = Regions
    BY <1>5, RegionsAre, RegionsAreNext
  <2>4. Regions' = {r \in Regions : r.lo # p}
    BY <2>1, <2>2, <2>3
  <2>5. Abs!Free(p)
    BY <1>1, <1>3, <2>4 DEF Abs!Free
  <2> QED
    BY <1>5, <2>1, <2>5
<1> QED
  BY <1>4, <1>5 DEF HandleFree

LEMMA ResizeStep ==
  ASSUME IInv, Serving, Rounded(heap), NEW b \in heap.live, heap.alloc[b] = 1,
         NEW size \in ReallocSizes,
         Resized(heap, heap', mem_brk, b, ReallocAsize(size)),
         reply' = <<heap.ptr[b]>>, req_in' = Request("REALLOC", size, heap.ptr[b]),
         UNCHANGED <<mem_start_brk, mem_brk>>
  PROVE  Rounded(heap') /\ Abs!Resize(RegionOf(heap, b), size)
<1> DEFINE asize == ReallocAsize(size)
           rest  == Allocated(heap) \ {b}
<1>1. /\ Shape(heap, mem_brk) /\ mem_brk \in Nat
      /\ heap.ptr[Start] \in Nat /\ mem_start_brk = heap.ptr[Start]
  BY InvFacts
<1>2. /\ size \in Nat \ {0} /\ asize \in Nat /\ Multiple(asize)
      /\ asize \in size .. size + (DSIZE - 1)
  BY InputAssumption, ReallocAsizeBounds, SizeAssumption
<1>3. Resized(heap, heap', mem_brk, b, asize)
  OBVIOUS
<1> HIDE DEF asize
<1>4. Rounded(heap')
  BY <1>2, <1>3, OthersRounded DEF Resized
<1>5. b \in Allocated(heap) /\ b \in Allocated(heap')
  BY <1>3 DEF Allocated, Resized
<1>6. RegionOf(heap', b) = Abs!Region(heap.ptr[b], asize)
  BY <1>3 DEF Resized, RegionOf, Abs!Region
<1>7. Regions \ {RegionOf(heap, b)} = RegionsOf(heap, rest)
  BY <1>1, <1>5, RegionsWithout, RegionsAre
<1>8. Regions' = RegionsOf(heap, rest) \cup {Abs!Region(heap.ptr[b], asize)}
  <2>1. RegionsOf(heap', Allocated(heap'))
          = RegionsOf(heap', Allocated(heap') \ {b}) \cup {RegionOf(heap', b)}
    BY <1>1, <1>3, <1>5, RegionsWithout DEF Resized
  <2>2. RegionsOf(heap', Allocated(heap') \ {b}) = RegionsOf(heap, rest)
    BY <1>3, OthersRegions DEF Resized
  <2> QED
    BY <1>6, <2>1, <2>2, RegionsAreNext
<1>9. Clear(heap, mem_brk, heap.ptr[b], asize, rest)
  <2>1. /\ heap'.ptr[Start] <= heap'.ptr[b] /\ End(heap', b) <= mem_brk
        /\ End(heap', b) = heap.ptr[b] + asize /\ heap'.ptr[b] = heap.ptr[b]
        /\ heap'.ptr[Start] = heap.ptr[Start]
    BY <1>1, <1>3, NextBlock DEF Resized, Others, End
  <2>2. ASSUME NEW n \in rest
        PROVE  heap.ptr[b] + asize <= heap.ptr[n] \/ End(heap, n) <= heap.ptr[b]
    <3>1. n # b /\ n \in heap'.live /\ heap'.ptr[n] = heap.ptr[n]
          /\ heap'.size[n] = heap.size[n]
      BY <1>3 DEF Resized, Others, Allocated
    <3>2. End(heap', b) <= heap'.ptr[n] \/ End(heap', n) <= heap'.ptr[b]
      BY <1>3, <3>1 DEF Resized, Shape, Apart, End
    <3> QED
      BY <2>1, <3>1, <3>2 DEF End
  <2> QED
    BY <2>1, <2>2 DEF Clear
<1>10. Abs!Vacant(Abs!Region(heap.ptr[b], asize), Regions \ {RegionOf(heap, b)})
  <2>1. rest \in SUBSET heap.live
    BY DEF Allocated
  <2> HIDE DEF rest
  <2> QED
    BY <1>7, <1>9, <2>1, VacantIsClear
<1>11. RegionOf(heap, b).lo = heap.ptr[b]
  BY DEF RegionOf
<1>12. Abs!Requested("REALLOC", size, heap.ptr[b])
  BY DEF Abs!Requested, Request
<1> HIDE DEF rest
<1> QED
  BY <1>2, <1>4, <1>7, <1>8, <1>10, <1>11, <1>12 DEF Abs!Resize

LEMMA RefuseResizeStep ==
  ASSUME IInv, Serving, Rounded(heap), NEW b \in heap.live, heap.alloc[b] = 1,
         NEW size \in ReallocSizes, heap.size[b] < ReallocAsize(size),
         ~ (heap.alloc[heap.next[b]] = 0
            /\ heap.size[heap.next[b]] + heap.size[b] >= ReallocAsize(size)),
         reply' = << 0 >>, UNCHANGED heap,
         req_in' = Request("REALLOC", size, heap.ptr[b]),
         UNCHANGED <<mem_start_brk, mem_brk>>
  PROVE  Abs!RefuseResize(RegionOf(heap, b), size)
<1> DEFINE asize == ReallocAsize(size)
           rest  == Allocated(heap) \ {b}
           len   == size + (DSIZE - 1)
           n     == heap.next[b]
<1>1. /\ Shape(heap, mem_brk) /\ Settled(heap) /\ mem_brk \in Nat
  BY InvFacts
<1>2. /\ size \in Nat \ {0} /\ asize \in Nat \ {0} /\ asize <= len /\ len \in Nat
  BY InputAssumption, ReallocAsizeBounds, SizeAssumption
<1>3. /\ heap.ptr[b] \in Nat /\ heap.size[b] \in Nat
      /\ End(heap, b) = heap.ptr[b] + heap.size[b] /\ heap.ptr[Start] <= heap.ptr[b]
  BY <1>1, NextBlock DEF End
<1>4. heap.size[b] < size
  <2>1. Multiple(heap.size[b])
    BY DEF Rounded, Allocated
  <2> QED
    BY <1>2, <1>3, <2>1, BelowRounded
<1>5. ~ Clear(heap, mem_brk, heap.ptr[b], len, rest)
  <2> SUFFICES ASSUME Clear(heap, mem_brk, heap.ptr[b], len, rest) PROVE FALSE
    OBVIOUS
  <2> DEFINE lo == heap.ptr[b]
             more == len - heap.size[b]
  <2>1. /\ heap.size[b] < asize /\ more \in Nat /\ End(heap, b) + more = lo + len
        /\ End(heap, b) < lo + len /\ lo + len <= mem_brk /\ End(heap, b) \in Nat
    BY <1>2, <1>3 DEF Clear
  <2>2. n \in heap.live /\ heap.ptr[n] = End(heap, b)
    BY <1>1, <2>1, NextBlock
  <2>3. ~ (heap.alloc[n] = 0 /\ heap.size[n] + heap.size[b] >= asize)
    OBVIOUS
  <2>4. \A c \in rest : lo + len <= heap.ptr[c] \/ End(heap, c) <= lo
    BY DEF Clear
  <2>5. \A c \in heap.live : /\ heap.ptr[c] \in Nat /\ End(heap, c) \in Nat
                            /\ heap.ptr[c] < End(heap, c)
    BY <1>1, NextBlock
  <2>6. heap.alloc[n] \in {0, 1} /\ n # b /\ heap.size[n] \in Nat
    <3>1. n \in Elt
      BY <1>1, <2>2, ShapeTypes DEF Elt
    <3> QED
      BY <1>1, <2>2, <3>1, ShapeTypes, Neighbours
  <2> HIDE DEF asize, len, n
  <2>7. heap.alloc[n] = 0
    <3> SUFFICES ASSUME heap.alloc[n] = 1 PROVE FALSE
      BY <2>6
    <3>1. n \in rest
      BY <2>2, <2>6 DEF Allocated
    <3>2. lo + len <= heap.ptr[n] \/ End(heap, n) <= lo
      BY <2>4, <3>1
    <3>3. lo < End(heap, b)
      BY <2>5
    <3> QED
      BY <1>2, <1>3, <2>1, <2>2, <2>5, <3>2, <3>3
  <2>8. Clear(heap, mem_brk, End(heap, b), more, Allocated(heap))
    <3>1. ASSUME NEW c \in Allocated(heap)
          PROVE  End(heap, b) + more <= heap.ptr[c] \/ End(heap, c) <= End(heap, b)
      <4>1. CASE c = b
        BY <2>1, <4>1
      <4>2. CASE c # b
        <5>1. c \in rest /\ c \in heap.live
          BY <4>2 DEF Allocated
        <5>2. lo + len <= heap.ptr[c] \/ End(heap, c) <= lo
          BY <2>4, <5>1
        <5>3. lo < End(heap, b) /\ End(heap, c) \in Nat
          BY <2>5, <5>1
        <5> HIDE DEF more
        <5> QED
          BY <1>3, <2>1, <5>2, <5>3
      <4> QED
        BY <4>1, <4>2
    <3>2. heap.ptr[Start] <= End(heap, b)
      <4>1. heap.ptr[Start] \in Nat
        BY InvFacts
      <4> QED
        BY <1>3, <2>1, <4>1
    <3> HIDE DEF more
    <3> QED
      BY <2>1, <3>1, <3>2 DEF Clear
  <2>9. End(heap, b) + more <= End(heap, n)
    <3>1. End(heap, b) < End(heap, n)
      BY <2>2, <2>5
    <3> HIDE DEF more
    <3> QED
      BY <1>1, <2>1, <2>2, <2>7, <2>8, <3>1, RunInBlock
  <2>10. End(heap, n) = heap.ptr[n] + heap.size[n]
    BY DEF End
  <2> QED
    BY <1>2, <1>3, <2>1, <2>2, <2>3, <2>6, <2>7, <2>9, <2>10
<1>6. Regions \ {RegionOf(heap, b)} = RegionsOf(heap, rest)
  <2>1. b \in Allocated(heap)
    BY DEF Allocated
  <2> QED
    BY <1>1, <2>1, RegionsWithout, RegionsAre
<1>7. ~ Abs!Vacant(Abs!Region(heap.ptr[b], len), Regions \ {RegionOf(heap, b)})
  <2>1. rest \in SUBSET heap.live
    BY DEF Allocated
  <2> HIDE DEF rest, len
  <2> QED
    BY <1>5, <1>6, <2>1, VacantIsClear
<1>8. RegionOf(heap, b).lo = heap.ptr[b] /\ RegionOf(heap, b).len = heap.size[b]
  BY DEF RegionOf
<1>9. Abs!Requested("REALLOC", size, heap.ptr[b])
  BY DEF Abs!Requested, Request
<1>10. Regions' = Regions
  BY RegionsAre, RegionsAreNext
<1> QED
  BY <1>3, <1>2, <1>4, <1>7, <1>8, <1>9, <1>10 DEF Abs!RefuseResize

LEMMA SbrkStep ==
  ASSUME IInv, Rounded(heap), NEW incr \in SbrkSizes, HandleSbrk(incr)
  PROVE  Rounded(heap') /\ Abs!Grow(incr)
<1> DEFINE last == heap.prev[Start]
<1>1. /\ Serving /\ mem_start_brk' = mem_start_brk /\ mem_brk' = mem_brk + incr
      /\ reply' = << >> /\ req_in' = Request("SBRK", incr, 0)
  BY DEF HandleSbrk
<1>2. /\ Shape(heap, mem_brk) /\ Settled(heap) /\ mem_brk \in Nat
      /\ heap.ptr[Start] <= mem_brk /\ incr \in Nat \ {0} /\ mem_brk + incr \in Nat
  BY <1>1, InvFacts, InputAssumption
<1>3. PICK new \in Node \ heap.live :
        heap' = Coalesce(Link(heap, last, new,
                              heap.ptr[last] + heap.size[last], incr), new)
  BY DEF HandleSbrk
<1>4. Without(heap, heap', mem_brk + incr, new)
  BY <1>2, <1>3, SbrkEffect
<1> HIDE DEF last
<1>5. Rounded(heap')
  BY <1>4, OthersRounded DEF Without
<1>6. new \notin Allocated(heap) /\ new \notin Allocated(heap')
  BY <1>3, <1>4 DEF Allocated, Without
<1>7. Regions' = Regions
  <2>1. RegionsOf(heap', Allocated(heap')) = RegionsOf(heap', Allocated(heap') \ {new})
    BY <1>2, <1>4, <1>6, RegionsWithout DEF Without
  <2>2. RegionsOf(heap', Allocated(heap') \ {new}) = RegionsOf(heap, Allocated(heap) \ {new})
    BY <1>4, OthersRegions DEF Without
  <2>3. RegionsOf(heap, Allocated(heap) \ {new}) = RegionsOf(heap, Allocated(heap))
    BY <1>2, <1>6, RegionsWithout
  <2> QED
    BY <2>1, <2>2, <2>3, RegionsAre, RegionsAreNext
<1>8. Abs!Requested("SBRK", incr, 0)
  BY <1>1 DEF Abs!Requested, Request
<1> QED
  BY <1>1, <1>5, <1>7, <1>8 DEF Abs!Grow

(* A reset and the end of the session leave no block and no region.        *)
LEMMA EmptyStep ==
  ASSUME IInv, HandleReset \/ HandleEnd
  PROVE  Rounded(heap') /\ (Abs!Reset \/ Abs!End)
<1>1. heap'.live = {}
  <2> DEFINE g == MmInit(heap)
  <2>1. g.live = {} /\ DOMAIN g = {"live", "next", "prev", "ptr", "size", "alloc",
                                  "class", "dict", "status"}
    BY DEF MmInit, EmptyHeap
  <2>2. heap' = g \/ heap' = [g EXCEPT !.status = "ended"]
    BY DEF HandleReset, HandleEnd
  <2> HIDE DEF g
  <2> QED
    BY <2>1, <2>2
<1>2. Allocated(heap') = {}
  BY <1>1 DEF Allocated
<1>3. Rounded(heap')
  BY <1>2 DEF Rounded
<1>4. Regions' = {}
  BY <1>2, RegionsAreNext DEF RegionsOf
<1>5. CASE HandleReset
  <2>1. Abs!Requested("SBRK", 0, mem_start_brk)
    BY <1>5 DEF HandleReset, Abs!Requested, Request
  <2> QED
    BY <1>3, <1>4, <1>5, <2>1 DEF HandleReset, Abs!Reset
<1>6. CASE HandleEnd
  <2>1. Abs!Requested("SBRK", 0, 0)
    BY <1>6 DEF HandleEnd, Abs!Requested, Request
  <2> QED
    BY <1>3, <1>4, <1>6, <2>1 DEF HandleEnd, Abs!End
<1> QED
  BY <1>5, <1>6

LEMMA InitStep == Init => Rounded(heap) /\ Abs!Init
<1> SUFFICES ASSUME Init PROVE Rounded(heap) /\ Abs!Init
  OBVIOUS
<1>1. heap.live = {}
  BY DEF Init, EmptyHeap
<1>2. Allocated(heap) = {}
  BY <1>1 DEF Allocated
<1>3. Regions = {}
  BY <1>2, RegionsAre DEF RegionsOf
<1> QED
  BY <1>2, <1>3 DEF Rounded, Init, Abs!Init, Request

LEMMA StutterStep ==
  ASSUME Rounded(heap), UNCHANGED vars
  PROVE  Rounded(heap') /\ UNCHANGED Abs!absVars
<1>1. Regions' = Regions
  BY RegionsAre, RegionsAreNext DEF vars
<1> QED
  BY <1>1 DEF vars, Abs!absVars

LEMMA ReallocStep ==
  ASSUME LegalClient, IInv, Rounded(heap), NEW p \in ClientPtrs,
         NEW size \in ReallocSizes, HandleRealloc(p, size)
  PROVE  /\ Rounded(heap')
         /\ \E r \in Regions : Abs!Resize(r, size) \/ Abs!RefuseResize(r, size)
<1> DEFINE asize == ReallocAsize(size)
<1>1. /\ Serving /\ UNCHANGED <<mem_start_brk, mem_brk>> /\ p # 0
      /\ req_in' = Request("REALLOC", size, p)
  BY DEF HandleRealloc
<1>2. /\ Shape(heap, mem_brk) /\ Settled(heap) /\ mem_brk \in Nat
      /\ asize \in Nat \ {0}
  BY <1>1, InvFacts, InputAssumption, AsizePositive
<1>3. DictSearch(heap, p) # {}
  <2>1. PICK n \in Allocated(heap) : heap.ptr[n] = p
    BY <1>1 DEF ClientPtrs, LegalClient
  <2>2. n \in heap.live /\ n \in Node
    BY <1>1, InvFacts DEF Allocated
  <2>3. <<p, n>> \in heap.dict
    BY <1>2, <2>1, <2>2 DEF Shape, Keyed
  <2> QED
    BY <2>2, <2>3 DEF DictSearch
<1>4. PICK b \in DictSearch(heap, p) : ReallocFound(b, size)
  BY <1>3 DEF HandleRealloc
<1>5. b \in heap.live /\ heap.alloc[b] = 1 /\ heap.ptr[b] = p
  BY <1>1, LegalPointer
<1>6. heap.size[b] \in Nat
  BY <1>2, <1>5, NextBlock
<1>7. RegionOf(heap, b) \in Regions
  <2>1. b \in Allocated(heap)
    BY <1>5 DEF Allocated
  <2> QED
    BY <2>1, RegionsAre DEF RegionsOf
<1>8. ASSUME Resized(heap, heap', mem_brk, b, asize), reply' = <<heap.ptr[b]>>
      PROVE  Rounded(heap') /\ Abs!Resize(RegionOf(heap, b), size)
  BY <1>1, <1>5, <1>8, ResizeStep
<1>9. CASE /\ heap' = ExtendBlk(heap, b, asize) /\ reply' = <<heap.ptr[b]>>
           /\ heap.alloc[heap.next[b]] = 0
           /\ heap.size[heap.next[b]] + heap.size[b] >= asize
  <2> HIDE DEF asize
  <2>1. Resized(heap, heap', mem_brk, b, asize)
    BY <1>2, <1>5, <1>9, ExtendEffect
  <2> QED
    BY <1>7, <1>8, <1>9, <2>1
<1>10. CASE /\ heap.size[b] > asize /\ reply' = <<heap.ptr[b]>>
            /\ \E new \in Node \ heap.live : heap' = ShrinkBlk(heap, b, asize, new)
  <2> HIDE DEF asize
  <2>1. PICK new \in Node \ heap.live : heap' = ShrinkBlk(heap, b, asize, new)
    BY <1>10
  <2>2. asize < heap.size[b]
    BY <1>2, <1>6, <1>10
  <2>3. Resized(heap, heap', mem_brk, b, asize)
    BY <1>2, <1>5, <2>1, <2>2, ShrinkEffect
  <2> QED
    BY <1>7, <1>8, <1>10, <2>3
<1>11. CASE heap.size[b] = asize /\ UNCHANGED heap /\ reply' = <<heap.ptr[b]>>
  <2>1. Others(heap, heap', b)
    BY <1>11 DEF Others
  <2>2. Resized(heap, heap', mem_brk, b, asize)
    BY <1>2, <1>5, <1>11, <2>1 DEF Resized
  <2> QED
    BY <1>7, <1>8, <1>11, <2>2
<1>12. CASE /\ heap.size[b] < asize /\ UNCHANGED heap /\ reply' = << 0 >>
            /\ ~ (/\ heap.alloc[heap.next[b]] = 0
                  /\ heap.size[heap.next[b]] + heap.size[b] >= asize)
  <2>1. Abs!RefuseResize(RegionOf(heap, b), size)
    BY <1>1, <1>5, <1>12, RefuseResizeStep
  <2>2. Rounded(heap')
    BY <1>12
  <2> QED
    BY <1>7, <2>1, <2>2
<1> QED
  BY <1>4, <1>9, <1>10, <1>11, <1>12 DEF ReallocFound

-----------------------------------------------------------------------------
(* Every request a legal client can send is served as HeapAbs allows: what *)
(* malloc and realloc grant overlaps nothing and lies in the heap, and     *)
(* neither refuses what the heap has room for, whatever the sizes, the     *)
(* policy, the number of blocks and of requests.                           *)
THEOREM ServerImplementsHeapAbs ==
  ASSUME LegalClient
  PROVE  Spec => ImplementsHeapAbs
<1>1. IInv /\ Rounded(heap) /\ [Next]_vars
        => Rounded(heap)' /\ [Abs!Next]_Abs!absVars
  <2> SUFFICES ASSUME IInv, Rounded(heap), [Next]_vars
               PROVE  Rounded(heap') /\ [Abs!Next]_Abs!absVars
    OBVIOUS
  <2>1. CASE \E size \in MallocSizes : HandleMalloc(size)
    BY <2>1, MallocStep DEF Abs!Next
  <2>2. CASE \E p \in ClientPtrs : HandleFree(p)
    BY <2>2, FreeStep DEF Abs!Next
  <2>3. CASE \E p \in ClientPtrs, size \in ReallocSizes : HandleRealloc(p, size)
    BY <2>3, ReallocStep DEF Abs!Next
  <2>4. CASE \E incr \in SbrkSizes : HandleSbrk(incr)
    BY <2>4, SbrkStep DEF Abs!Next
  <2>5. CASE HandleReset \/ HandleEnd
    BY <2>5, EmptyStep DEF Abs!Next
  <2>6. CASE UNCHANGED vars
    BY <2>6, StutterStep
  <2> QED
    BY <2>1, <2>2, <2>3, <2>4, <2>5, <2>6 DEF Next
<1> QED
  BY <1>1, InitStep, InductiveInvariant, PTL DEF Spec, ImplementsHeapAbs, Abs!Spec

-----------------------------------------------------------------------------
(* What each request does to the regions, for the composition with the     *)
(* client.                                                                 *)

LEMMA RegionFacts ==
  ASSUME IInv, Serving, NEW r \in Regions
  PROVE  r.lo \in Nat \ {0} /\ r.len \in Nat \ {0}
<1>1. PICK b \in Allocated(heap) : r = RegionOf(heap, b)
  BY DEF Regions, RegionOf
<1>2. b \in heap.live /\ r.lo = heap.ptr[b] /\ r.len = heap.size[b]
  BY <1>1 DEF Allocated, RegionOf
<1>3. heap.ptr[b] \in Nat \ {0} /\ Shape(heap, mem_brk) /\ mem_brk \in Nat
  BY <1>2, InvFacts
<1>4. heap.size[b] \in Nat \ {0}
  BY <1>2, <1>3, NextBlock
<1> QED
  BY <1>2, <1>3, <1>4

(* malloc is refused or gives a region that begins where no other does.    *)
LEMMA MallocServed ==
  ASSUME IInv, Rounded(heap), NEW size \in MallocSizes, HandleMalloc(size)
  PROVE  /\ IInv' /\ Rounded(heap')
         /\ \/ reply' = << 0 >> /\ Regions' = Regions
            \/ \E lo \in Nat \ {0}, len \in Nat :
                  /\ size <= len /\ reply' = <<lo>>
                  /\ Regions' = Regions \cup {[lo |-> lo, len |-> len]}
                  /\ \A r \in Regions : r.lo # lo
<1>1. IInv' /\ Serving
  BY MallocIInv DEF HandleMalloc
<1>2. Rounded(heap') /\ (Abs!Grant(size) \/ Abs!Refuse(size))
  BY MallocStep
<1>3. CASE Abs!Refuse(size)
  BY <1>1, <1>2, <1>3 DEF Abs!Refuse
<1>4. CASE Abs!Grant(size)
  <2>1. size \in Nat \ {0} /\ mem_start_brk \in Nat \ {0} /\ mem_brk \in Nat
    BY <1>1, <1>4, InputAssumption, InvFacts DEF Abs!Grant
  <2>2. PICK lo \in mem_start_brk .. mem_brk - 1, len \in size .. size + (2 * DSIZE - 1) :
          /\ Abs!Vacant(Abs!Region(lo, len), Regions)
          /\ Regions' = Regions \cup {Abs!Region(lo, len)}
          /\ reply' = <<lo>>
    BY <1>4 DEF Abs!Grant
  <2>3. lo \in Nat \ {0} /\ len \in Nat \ {0} /\ size <= len
    BY <2>1, SizeAssumption
  <2>4. ASSUME NEW r \in Regions PROVE r.lo # lo
    <3>1. r.lo \in Nat /\ r.len \in Nat \ {0}
      BY <1>1, RegionFacts
    <3>2. lo + len <= r.lo \/ r.lo + r.len <= lo
      BY <2>2 DEF Abs!Vacant, Abs!Apart, Abs!Region
    <3> QED
      BY <2>3, <3>1, <3>2
  <2> QED
    BY <1>1, <1>2, <2>2, <2>3, <2>4 DEF Abs!Region
<1> QED
  BY <1>2, <1>3, <1>4

(* free takes the region at the pointer away, and no other.                *)
LEMMA FreeServed ==
  ASSUME LegalClient, IInv, Rounded(heap), NEW p \in ClientPtrs, HandleFree(p)
  PROVE  /\ IInv' /\ Rounded(heap') /\ reply' = << >>
         /\ Regions' = {r \in Regions : r.lo # p}
<1>1. IInv' /\ reply' = << >> /\ req_in' = Request("FREE", 0, p)
  BY FreeIInv DEF HandleFree
<1>2. PICK q : Rounded(heap') /\ Abs!Free(q)
  BY FreeStep
<1>3. q = p
  BY <1>1, <1>2 DEF Abs!Free, Abs!Requested, Request
<1> QED
  BY <1>1, <1>2, <1>3 DEF Abs!Free

(* realloc changes the length of the region at the pointer, or nothing.    *)
LEMMA ReallocServed ==
  ASSUME LegalClient, IInv, Rounded(heap), NEW p \in ClientPtrs,
         NEW size \in ReallocSizes, HandleRealloc(p, size)
  PROVE  /\ IInv' /\ Rounded(heap')
         /\ \/ /\ reply' = << 0 >> /\ Regions' = Regions
               /\ \A r \in Regions : r.lo = p => r.len < size
            \/ \E len \in Nat :
                  /\ size <= len /\ reply' = <<p>>
                  /\ Regions' = {r \in Regions : r.lo # p}
                                \cup {[lo |-> p, len |-> len]}
<1>1. IInv' /\ Serving /\ req_in' = Request("REALLOC", size, p)
  BY ReallocIInv DEF HandleRealloc
<1>2. /\ Rounded(heap')
      /\ \E r \in Regions : Abs!Resize(r, size) \/ Abs!RefuseResize(r, size)
  BY ReallocStep
<1>3. PICK r \in Regions : Abs!Resize(r, size) \/ Abs!RefuseResize(r, size)
  BY <1>2
<1>4. r.lo = p
  BY <1>1, <1>3 DEF Abs!Resize, Abs!RefuseResize, Abs!Requested, Request
<1>5. Regions \ {r} = {s \in Regions : s.lo # p}
  <2>1. Shape(heap, mem_brk) /\ mem_brk \in Nat
    BY <1>1, InvFacts
  <2>2. PICK b \in Allocated(heap) : r = RegionOf(heap, b)
    BY DEF Regions, RegionOf
  <2>3. heap.ptr[b] = p
    BY <1>4, <2>2 DEF RegionOf
  <2>4. RegionsOf(heap, Allocated(heap) \ {b})
          = {s \in RegionsOf(heap, Allocated(heap)) : s.lo # heap.ptr[b]}
    BY <2>1, RegionsNotAt
  <2>5. RegionsOf(heap, Allocated(heap) \ {b})
          = RegionsOf(heap, Allocated(heap)) \ {RegionOf(heap, b)}
    BY <2>1, RegionsWithout
  <2> QED
    BY <2>2, <2>3, <2>4, <2>5, RegionsAre
<1>6. CASE Abs!RefuseResize(r, size)
  <2>1. reply' = << 0 >> /\ Regions' = Regions /\ size > r.len
    BY <1>6 DEF Abs!RefuseResize
  <2>2. r.len \in Nat /\ size \in Nat
    BY <1>1, RegionFacts, InputAssumption
  <2>3. \A s \in Regions : s.lo = p => s = r
    BY <1>5
  <2> QED
    BY <1>1, <1>2, <2>1, <2>2, <2>3
<1>7. CASE Abs!Resize(r, size)
  <2>1. PICK len \in size .. size + (DSIZE - 1) :
          /\ Regions' = (Regions \ {r}) \cup {Abs!Region(p, len)}
          /\ reply' = <<p>>
    BY <1>4, <1>7 DEF Abs!Resize
  <2>2. len \in Nat /\ size <= len
    BY InputAssumption, SizeAssumption
  <2> QED
    BY <1>1, <1>2, <1>5, <2>1, <2>2 DEF Abs!Region
<1> QED
  BY <1>3, <1>6, <1>7

LEMMA SbrkServed ==
  ASSUME IInv, Rounded(heap), NEW incr \in SbrkSizes, HandleSbrk(incr)
  PROVE  IInv' /\ Rounded(heap') /\ reply' = << >> /\ Regions' = Regions
<1>1. IInv' /\ reply' = << >>
  BY SbrkIInv DEF HandleSbrk
<1> QED
  BY <1>1, SbrkStep DEF Abs!Grow

LEMMA EmptyServed ==
  ASSUME IInv, HandleReset \/ HandleEnd
  PROVE  /\ IInv' /\ Rounded(heap') /\ reply' = << >> /\ Regions' = {}
         /\ HandleEnd => ~ Serving'
<1>1. IInv' /\ reply' = << >>
  BY ResetIInv, EndIInv DEF HandleReset, HandleEnd
<1>2. Rounded(heap') /\ Regions' = {}
  BY EmptyStep DEF Abs!Reset, Abs!End
<1>3. HandleEnd => ~ Serving'
  <2> DEFINE g == MmInit(heap)
  <2>1. "status" \in DOMAIN g
    BY DEF MmInit, EmptyHeap
  <2>2. HandleEnd => heap' = [g EXCEPT !.status = "ended"]
    BY DEF HandleEnd
  <2> HIDE DEF g
  <2> QED
    BY <2>1, <2>2 DEF Serving
<1> QED
  BY <1>1, <1>2, <1>3

LEMMA EmptyHeapBooks ==
  ASSUME heap' = EmptyHeap(Base), mem_start_brk' = Base, mem_brk' = Base,
         req_in' \in RequestType, reply' \in Seq(Nat), Len(reply') <= 1
  PROVE  IInv' /\ Rounded(heap') /\ Serving' /\ Regions' = {}
<1>1. Base \in Nat
  BY BaseAssumption
<1>2. Shape(heap', mem_brk') /\ Settled(heap') /\ heap'.ptr[Start] = Base
      /\ heap'.live = {}
  BY <1>1, EmptyHeapShape
<1>3. heap' \in HeapType /\ heap'.alloc[Start] = 1 /\ Serving'
  BY <1>2 DEF Shape, Typed, Serving
<1>4. TypeOK'
  BY <1>1, <1>3 DEF TypeOK
<1>5. IInv'
  BY <1>1, <1>2, <1>3, <1>4 DEF IInv
<1>6. Allocated(heap') = {}
  BY <1>2 DEF Allocated
<1>7. Rounded(heap') /\ Regions' = {}
  BY <1>6, RegionsAreNext DEF Rounded, RegionsOf
<1> QED
  BY <1>3, <1>5, <1>7

-----------------------------------------------------------------------------
(* In a heap of whole double words there are at most as many blocks as     *)
(* there are double words.                                                 *)

LEMMA MultipleSum ==
  ASSUME NEW x, NEW y, Multiple(x), Multiple(y)
  PROVE  Multiple(x + y)
<1>1. PICK k \in Nat : x = DSIZE * k
  BY DEF Multiple
<1>2. PICK l \in Nat : y = DSIZE * l
  BY DEF Multiple
<1>3. DSIZE * k + DSIZE * l = DSIZE * (k + l)
  BY SizeAssumption
<1> QED
  BY <1>1, <1>2, <1>3 DEF Multiple

LEMMA MultipleNone == Multiple(0)
<1>1. 0 = DSIZE * 0
  BY SizeAssumption
<1> QED
  BY <1>1 DEF Multiple

LEMMA MultipleSize ==
  ASSUME NEW x, Multiple(x)
  PROVE  x \in Nat /\ x % DSIZE = 0
<1>1. PICK k \in Nat : x = DSIZE * k
  BY DEF Multiple
<1>2. DSIZE \in Nat \ {0}
  BY SizeAssumption
<1>3. x \in Nat
  BY <1>1, <1>2
<1> DEFINE q == x \div DSIZE
           r == x % DSIZE
<1>4. x = DSIZE * q + r /\ r \in 0 .. DSIZE - 1 /\ q \in Nat
  BY <1>2, <1>3
<1> HIDE DEF q, r
<1>5. ~ (k < q)
  <2> SUFFICES ASSUME k < q PROVE FALSE
    OBVIOUS
  <2>1. DSIZE * k + DSIZE <= DSIZE * q
    <3>1. DSIZE * (k + 1) <= DSIZE * q
      BY <1>2, <1>4
    <3> QED
      BY <1>2, <3>1
  <2> QED
    BY <1>1, <1>2, <1>3, <1>4, <2>1
<1>6. ~ (q < k)
  <2> SUFFICES ASSUME q < k PROVE FALSE
    OBVIOUS
  <2>1. DSIZE * q + DSIZE <= DSIZE * k
    <3>1. DSIZE * (q + 1) <= DSIZE * k
      BY <1>2, <1>4
    <3> QED
      BY <1>2, <1>4, <3>1
  <2> QED
    BY <1>1, <1>2, <1>3, <1>4, <2>1
<1>7. q = k
  BY <1>4, <1>5, <1>6
<1>8. r = 0
  BY <1>1, <1>2, <1>3, <1>4, <1>7
<1> QED
  BY <1>3, <1>8 DEF r

(* A free block follows an allocated one, or is the first.                 *)
LEMMA AllPlaced ==
  ASSUME IInv, Serving, Rounded(heap), \A r \in Regions : Multiple(r.lo - Base)
  PROVE  \A b \in heap.live : Multiple(heap.ptr[b] - Base)
<1>1. /\ Shape(heap, mem_brk) /\ Settled(heap) /\ mem_brk \in Nat
      /\ heap.ptr[Start] = Base /\ Base \in Nat
  BY InvFacts
<1>2. ASSUME NEW b \in Allocated(heap)
      PROVE  Multiple(heap.ptr[b] - Base)
  <2>1. RegionOf(heap, b) \in Regions
    BY RegionsAre DEF RegionsOf
  <2>2. RegionOf(heap, b).lo = heap.ptr[b]
    BY DEF RegionOf
  <2> QED
    BY <2>1, <2>2
<1>3. ASSUME NEW b \in heap.live, b \notin Allocated(heap)
      PROVE  Multiple(heap.ptr[b] - Base)
  <2> DEFINE p == heap.prev[b]
  <2>1. p \in List(heap) /\ heap.next[p] = b
    BY <1>1 DEF Shape, Linked, List
  <2>2. b # Start /\ heap.alloc[b] # 1
    BY <1>3, InvFacts DEF Allocated
  <2> HIDE DEF p
  <2>3. CASE p = Start
    <3>1. heap.ptr[b] = Base
      BY <1>1, <2>1, <2>2, <2>3, FirstBlock
    <3> QED
      BY <1>1, <3>1, MultipleNone
  <2>4. CASE p # Start
    <3>1. p \in heap.live
      BY <2>1, <2>4 DEF List
    <3>2. p \in Allocated(heap)
      <4>1. p \notin FreeBlks(heap)
        BY <1>1, <2>1, <2>2 DEF Settled
      <4>2. p \in Elt /\ heap.alloc[p] \in {0, 1}
        BY <1>1, <3>1, ShapeTypes DEF Elt
      <4> QED
        BY <3>1, <4>1, <4>2 DEF FreeBlks, Allocated
    <3>3. /\ heap.ptr[p] \in Nat /\ heap.size[p] \in Nat
          /\ heap.ptr[b] = heap.ptr[p] + heap.size[p]
      BY <1>1, <2>1, <2>2, <3>1, NextBlock DEF End
    <3>4. Multiple((heap.ptr[p] - Base) + heap.size[p])
      BY <1>2, <3>2, MultipleSum DEF Rounded
    <3>5. heap.ptr[b] - Base = (heap.ptr[p] - Base) + heap.size[p]
      BY <1>1, <3>3
    <3> QED
      BY <3>4, <3>5
  <2> QED
    BY <2>3, <2>4
<1> QED
  BY <1>2, <1>3

(* Blocks begin at double words of their own: one block per double word.   *)
LEMMA FewBlocks ==
  ASSUME IInv, Serving, Rounded(heap), \A r \in Regions : Multiple(r.lo - Base),
         Multiple(mem_brk - Base), NEW room \in Nat, mem_brk - Base <= room
  PROVE  \E f \in [heap.live -> 1 .. room \div DSIZE] :
           \A a, b \in heap.live : f[a] = f[b] => a = b
<1> DEFINE L == heap.live
           f == [b \in L |-> CHOOSE k \in Nat : heap.ptr[b] - Base = DSIZE * k]
<1>1. /\ Shape(heap, mem_brk) /\ mem_brk \in Nat /\ Base \in Nat /\ Base <= mem_brk
      /\ DSIZE \in Nat \ {0}
  BY InvFacts, SizeAssumption
<1>2. PICK m \in Nat : mem_brk - Base = DSIZE * m
  BY DEF Multiple
<1>3. \A b \in L : f[b] \in Nat /\ heap.ptr[b] - Base = DSIZE * f[b]
  BY AllPlaced DEF Multiple
<1> HIDE DEF f
<1>4. ASSUME NEW b \in L
      PROVE  f[b] \in 0 .. m - 1
  <2>1. heap.ptr[b] \in Nat /\ heap.ptr[b] < mem_brk
    BY <1>1, NextBlock
  <2>2. DSIZE * f[b] < DSIZE * m /\ f[b] \in Nat
    BY <1>1, <1>2, <1>3, <2>1
  <2>3. ~ (m <= f[b])
    <3> SUFFICES ASSUME m <= f[b] PROVE FALSE
      OBVIOUS
    <3>1. DSIZE * m <= DSIZE * f[b]
      BY <1>1, <2>2
    <3> QED
      BY <1>1, <2>2, <3>1
  <2> QED
    BY <2>2, <2>3
<1>5. ASSUME NEW a \in L, NEW b \in L, f[a] = f[b]
      PROVE  a = b
  <2>1. heap.ptr[a] - Base = heap.ptr[b] - Base
    BY <1>3, <1>5
  <2>2. heap.ptr[a] \in Nat /\ heap.ptr[b] \in Nat
    BY <1>1, NextBlock
  <2>3. heap.ptr[a] = heap.ptr[b]
    BY <1>1, <2>1, <2>2
  <2> QED
    BY <1>1, <2>3, PointersDistinct
<1>6. m <= room \div DSIZE
  <2> DEFINE q == room \div DSIZE
             r == room % DSIZE
  <2>1. room = DSIZE * q + r /\ r \in 0 .. DSIZE - 1 /\ q \in Nat
    BY <1>1
  <2> HIDE DEF q, r
  <2>2. SUFFICES ASSUME q < m PROVE FALSE
    BY <2>1 DEF q
  <2>3. DSIZE * (q + 1) <= DSIZE * m /\ DSIZE * (q + 1) = DSIZE * q + DSIZE
    BY <1>1, <2>1, <2>2
  <2>4. DSIZE * m <= room /\ DSIZE * m \in Nat /\ DSIZE * q \in Nat
    BY <1>1, <1>2, <2>1
  <2> QED
    BY <1>1, <2>1, <2>3, <2>4
<1> DEFINE g == [b \in L |-> f[b] + 1]
<1>7. room \div DSIZE \in Nat
  BY <1>1
<1> HIDE DEF L
<1>8. g \in [L -> 1 .. room \div DSIZE]
  BY <1>4, <1>6, <1>7
<1>9. ASSUME NEW a \in L, NEW b \in L, g[a] = g[b]
      PROVE  a = b
  BY <1>3, <1>5, <1>9
<1> QED
  BY <1>8, <1>9 DEF L

(* A region that malloc gives begins where a block did.                    *)
LEMMA GivenPlaced ==
  ASSUME IInv, Rounded(heap), \A r \in Regions : Multiple(r.lo - Base),
         NEW size \in MallocSizes, HandleMalloc(size), NEW lo \in Nat \ {0}, reply' = <<lo>>
  PROVE  Multiple(lo - Base)
<1>1. Serving /\ ListsExactly(heap, FreeBlks(heap)) /\ heap.live \subseteq Node
  BY InvFacts DEF HandleMalloc
<1>2. size \in Nat /\ MallocAsize(size) \in Nat
  BY InputAssumption, MallocAsizeBounds
<1>3. PICK b \in FindFit(heap, MallocAsize(size)) : reply' = <<heap.ptr[b]>>
  BY DEF HandleMalloc
<1>4. b \in heap.live
  BY <1>1, <1>2, FindFitEffect
<1>5. lo = heap.ptr[b]
  BY <1>3
<1> QED
  BY <1>1, <1>4, <1>5, AllPlaced
=============================================================================
