-------------------------- MODULE BoundaryTagProofs --------------------------
(***************************************************************************)
(* The in-place allocator keeps its books and the program's data: headers, *)
(* footers and payloads share one memory, and no operation writes a word   *)
(* that is not its own.                                                    *)
(*                                                                         *)
(* The invariant speaks of a layout: a set of blocks that tile the heap    *)
(* from the prologue to the break.  The words of memory are tags of it.    *)
(***************************************************************************)
EXTENDS BoundaryTag, FiniteSetTheorems, WellFoundedInduction, NaturalsInduction, TLAPS

-----------------------------------------------------------------------------
(* Least numbers.                                                          *)

LEMMA LeastOf ==
  ASSUME NEW T \in SUBSET Nat, T # {}
  PROVE  \E x \in T : \A y \in T : x <= y
<1>1. PICK x \in T : \A y \in T : ~ (<<y, x>> \in OpToRel(<, Nat))
  BY NatLessThanWellFounded, WFMin
<1>2. \A y \in T : ~ (y < x)
  BY <1>1 DEF OpToRel
<1> QED
  BY <1>2

(* What holds before the loop and is kept by each turn holds after it.     *)
LEMMA UpTo ==
  ASSUME NEW m \in Nat, NEW T, 0 \in T, \A j \in 1 .. m : j - 1 \in T => j \in T
  PROVE  m \in T
<1> SUFFICES ASSUME (0 .. m) \ T # {} PROVE FALSE
  OBVIOUS
<1>1. PICK j \in (0 .. m) \ T : \A k \in (0 .. m) \ T : j <= k
  <2>1. (0 .. m) \ T \in SUBSET Nat
    OBVIOUS
  <2> QED
    BY <2>1, LeastOf
<1>2. j \in 1 .. m /\ j - 1 \in 0 .. m /\ ~ (j <= j - 1)
  BY <1>1
<1> QED
  BY <1>1, <1>2

-----------------------------------------------------------------------------
(* Layouts.                                                                *)

Blk(at, size, alloc) == [at |-> at, size |-> size, alloc |-> alloc]

End(b) == b.at + b.size

Start == Blk(Prologue, DSIZE, 1)

IsBlock(b) ==
  /\ b = Blk(b.at, b.size, b.alloc)
  /\ b.at \in Nat /\ b.at % 8 = 0
  /\ b.size \in Nat /\ b.size % 8 = 0 /\ 8 <= b.size
  /\ b.alloc \in {0, 1}

Apart(b, c) == End(b) <= c.at \/ End(c) <= b.at

(* Blocks from the prologue to brk, without gaps.                          *)
Layout(L, brk) ==
  /\ brk \in Nat /\ brk % 8 = 0 /\ brk <= Highest
  /\ Start \in L
  /\ \A b \in L : IsBlock(b) /\ Prologue <= b.at /\ End(b) <= brk
  /\ \A b, c \in L : b = c \/ Apart(b, c)
  /\ \A b \in L : End(b) = brk \/ \E c \in L : c.at = End(b)
  /\ \A b \in L : b = Start \/ \E c \in L : End(c) = b.at

Memory(m) == m \in [Words -> Nat]

(* Nothing but these two words differs.                                    *)
OnlyAt(m, u, p, q) == \A w \in Words : w # p /\ w # q => u[w] = m[w]

(* Nothing differs but what blocks from lo to hi have: tags and payload.   *)
Within(m, u, lo, hi) == \A w \in Words : w < lo - 4 \/ hi - 4 <= w => u[w] = m[w]

Same(m, u, lo, hi) == \A w \in Words : lo <= w /\ w < hi => u[w] = m[w]

(* The tags of a block.                                                    *)
Tagged(m, b) ==
  m[b.at - 4] = b.size + b.alloc /\ m[b.at + b.size - 8] = b.size + b.alloc

Books(m, L, brk) ==
  /\ Memory(m) /\ Layout(L, brk)
  /\ \A b \in L : Tagged(m, b)
  /\ m[brk - 4] = 1

Alloc(L) == {b \in L : b.alloc = 1}

(* No two free neighbours, or only x and another.                          *)
Tidy(L) == \A b, c \in L : End(b) = c.at => b.alloc = 1 \/ c.alloc = 1

TidyBut(L, x) ==
  \A b, c \in L : End(b) = c.at => b.alloc = 1 \/ c.alloc = 1 \/ b = x \/ c = x

(* The words of these blocks, tags and payload, are as they were.          *)
Keeps(m, u, S) ==
  \A b \in S, p \in Words : b.at - 4 <= p /\ p < End(b) - 4 => u[p] = m[p]

-----------------------------------------------------------------------------
(* Addresses.                                                              *)

LEMMA Constants ==
  /\ Base \in Nat \ {0} /\ Base % 8 = 0 /\ CHUNKSIZE \in Nat \ {0} /\ CHUNKSIZE % 8 = 0
  /\ Highest \in StackTops /\ Highest \in Nat /\ Base <= Highest
  /\ \A sp \in StackTops : sp \in Nat /\ Base <= sp /\ sp <= Highest
  /\ Prologue = Base + 8 /\ WSIZE = 4 /\ DSIZE = 8
<1>1. PICK top \in StackTops : \A sp \in StackTops : sp <= top
  BY TagAssumption
<1>2. Highest \in StackTops /\ \A sp \in StackTops : sp <= Highest
  BY <1>1 DEF Highest
<1> QED
  BY <1>2, TagAssumption DEF Prologue, WSIZE, DSIZE

LEMMA InWords ==
  ASSUME NEW p \in Int
  PROVE  p \in Words <=> Base <= p /\ p + 4 <= Highest /\ p % 4 = 0
BY Constants DEF Words

LEMMA WordTyped ==
  ASSUME NEW p \in Words
  PROVE  p \in Nat /\ Base <= p /\ p + 4 <= Highest /\ p % 4 = 0
BY Constants DEF Words

LEMMA BlkFields ==
  ASSUME NEW at, NEW size, NEW alloc
  PROVE  /\ Blk(at, size, alloc).at = at /\ Blk(at, size, alloc).size = size
         /\ Blk(at, size, alloc).alloc = alloc
         /\ End(Blk(at, size, alloc)) = at + size
BY DEF Blk, End

LEMMA NewBlock ==
  ASSUME NEW at \in Nat, NEW size \in Nat, NEW alloc \in {0, 1},
         at % 8 = 0, size % 8 = 0, 8 <= size
  PROVE  IsBlock(Blk(at, size, alloc))
BY BlkFields DEF IsBlock

LEMMA StartFields ==
  Start.at = Base + 8 /\ Start.size = 8 /\ Start.alloc = 1 /\ End(Start) = Base + 16
BY BlkFields, Constants DEF Start

(* What a block of a layout is.                                            *)
LEMMA BlockFacts ==
  ASSUME NEW L, NEW brk, Layout(L, brk), NEW b \in L
  PROVE  /\ b.at \in Nat /\ b.at % 8 = 0 /\ b.size \in Nat /\ b.size % 8 = 0 /\ 8 <= b.size
         /\ b.alloc \in {0, 1} /\ b = Blk(b.at, b.size, b.alloc)
         /\ Base + 8 <= b.at /\ End(b) = b.at + b.size /\ End(b) <= brk
         /\ brk \in Nat /\ brk % 8 = 0 /\ brk <= Highest /\ Base + 16 <= brk
         /\ b.at - 4 \in Words /\ b.at + b.size - 8 \in Words /\ brk - 4 \in Words
<1>1. /\ IsBlock(b) /\ Prologue <= b.at /\ End(b) <= brk
      /\ brk \in Nat /\ brk % 8 = 0 /\ brk <= Highest /\ End(Start) <= brk
  BY DEF Layout
<1>2. /\ b.at \in Nat /\ b.at % 8 = 0 /\ b.size \in Nat /\ b.size % 8 = 0 /\ 8 <= b.size
      /\ b.alloc \in {0, 1} /\ b = Blk(b.at, b.size, b.alloc)
  BY <1>1 DEF IsBlock
<1>3. /\ Base + 8 <= b.at /\ b.at + b.size <= brk /\ End(b) = b.at + b.size
      /\ Base + 16 <= brk
  BY <1>1, StartFields, Constants DEF End
<1>4. b.at - 4 \in Words /\ b.at + b.size - 8 \in Words /\ brk - 4 \in Words
  BY <1>1, <1>2, <1>3, Constants, InWords
<1> QED
  BY <1>1, <1>2, <1>3, <1>4

(* A block is known by where it begins, and by where it ends.              *)
LEMMA SameBlock ==
  ASSUME NEW L, NEW brk, Layout(L, brk), NEW b \in L, NEW c \in L,
         b.at = c.at \/ End(b) = End(c)
  PROVE  b = c
<1>1. b = c \/ End(b) <= c.at \/ End(c) <= b.at
  BY DEF Layout, Apart
<1> QED
  BY <1>1, BlockFacts

-----------------------------------------------------------------------------
(* Tags read and written.                                                  *)

LEMMA TagArithmetic ==
  ASSUME NEW x \in Nat, x % 8 = 0, NEW a \in {0, 1}
  PROVE  (x + a) - ((x + a) % 8) = x /\ (x + a) % 2 = a
OBVIOUS

LEMMA BlockReads ==
  ASSUME NEW m, NEW L, NEW brk, Books(m, L, brk), NEW b \in L
  PROVE  /\ BlkSize(m, b.at) = b.size /\ (IsFree(m, b.at) <=> b.alloc = 0)
         /\ HDRP(b.at) = b.at - 4 /\ FTRP(m, b.at) = b.at + b.size - 8
         /\ NEXT_BLKP(m, b.at) = End(b)
         /\ GET_ALLOC(m, FTRP(m, b.at)) = b.alloc
         /\ \A c \in L : c.at = End(b) => PREV_BLKP(m, c.at) = b.at
<1>1. /\ b.at \in Nat /\ b.size \in Nat /\ b.size % 8 = 0 /\ b.alloc \in {0, 1}
      /\ b.at - 4 \in Words /\ b.at + b.size - 8 \in Words /\ End(b) = b.at + b.size
  BY BlockFacts DEF Books
<1>2. GET(m, b.at - 4) = b.size + b.alloc /\ GET(m, b.at + b.size - 8) = b.size + b.alloc
  BY <1>1 DEF Books, Tagged, GET
<1>3. /\ GET_SIZE(m, b.at - 4) = b.size /\ GET_ALLOC(m, b.at - 4) = b.alloc
      /\ GET_SIZE(m, b.at + b.size - 8) = b.size /\ GET_ALLOC(m, b.at + b.size - 8) = b.alloc
  BY <1>1, <1>2, TagArithmetic DEF GET_SIZE, GET_ALLOC
<1>4. HDRP(b.at) = b.at - 4 /\ b.at - WSIZE = b.at - 4
  BY Constants DEF HDRP
<1>5. FTRP(m, b.at) = b.at + b.size - 8
  BY <1>3, <1>4, Constants DEF FTRP
<1>6. ASSUME NEW c \in L, c.at = End(b)
      PROVE  PREV_BLKP(m, c.at) = b.at
  <2>1. c.at - DSIZE = b.at + b.size - 8
    BY <1>1, <1>6, Constants
  <2> QED
    BY <1>1, <1>3, <1>6, <2>1 DEF PREV_BLKP
<1> QED
  BY <1>1, <1>3, <1>4, <1>5, <1>6 DEF BlkSize, IsFree, NEXT_BLKP

LEMMA EndReads ==
  ASSUME NEW m, NEW L, NEW brk, Books(m, L, brk)
  PROVE  GET(m, HDRP(brk)) = 1 /\ BlkSize(m, brk) = 0 /\ ~ IsFree(m, brk)
<1>1. HDRP(brk) = brk - 4 /\ brk - 4 \in Words
  BY BlockFacts, Constants DEF HDRP, Books, Layout
<1>2. GET(m, HDRP(brk)) = 1
  BY <1>1 DEF GET, Books
<1> QED
  BY <1>2 DEF BlkSize, IsFree, GET_SIZE, GET_ALLOC

(* Two words are written.                                                  *)
LEMMA TagWrites ==
  ASSUME NEW m, Memory(m), NEW at \in Nat, NEW size \in Nat, NEW a \in {0, 1},
         size % 8 = 0, at - 4 \in Words, at + size - 8 \in Words, NEW u,
         u = Tag(m, at, size, a)
  PROVE  /\ Memory(u) /\ Tagged(u, Blk(at, size, a))
         /\ OnlyAt(m, u, at - 4, at + size - 8)
<1> DEFINE h == PUT(m, HDRP(at), PACK(size, a))
<1>1. HDRP(at) = at - 4 /\ PACK(size, a) = size + a /\ size + a \in Nat
  BY Constants DEF HDRP, PACK
<1>2. h = [m EXCEPT ![at - 4] = size + a]
  BY <1>1 DEF PUT
<1>3. GET(h, at - 4) = size + a
  BY <1>2 DEF GET, Memory
<1>4. GET_SIZE(h, at - 4) = size
  BY <1>3, TagArithmetic DEF GET_SIZE
<1>5. FTRP(h, at) = at + size - 8
  BY <1>1, <1>4, Constants DEF FTRP
<1> HIDE DEF h
<1>6. u = [h EXCEPT ![at + size - 8] = size + a]
  BY <1>1, <1>5 DEF Tag, PUT, h
<1> QED
  BY <1>1, <1>2, <1>6, BlkFields DEF Tagged, Memory, OnlyAt

-----------------------------------------------------------------------------
(* Rewriting the tags of a stretch [lo, hi) of the heap: the blocks that   *)
(* lie outside keep every word.                                            *)

LEMMA Relaid ==
  ASSUME NEW m, NEW L, NEW brk, Books(m, L, brk), NEW K, Layout(K, brk),
         NEW lo \in Nat, NEW hi \in Nat, hi <= brk, NEW u, Memory(u),
         Within(m, u, lo, hi),
         \A b \in K : Tagged(u, b) \/ (b \in L /\ (End(b) <= lo \/ hi <= b.at))
  PROVE  Books(u, K, brk)
<1>1. ASSUME NEW b \in K
      PROVE  Tagged(u, b)
  <2>1. CASE Tagged(u, b)
    BY <2>1
  <2>2. CASE b \in L /\ (End(b) <= lo \/ hi <= b.at)
    <3>1. /\ b.at \in Nat /\ b.size \in Nat /\ 8 <= b.size /\ End(b) = b.at + b.size
          /\ b.at - 4 \in Words /\ b.at + b.size - 8 \in Words
      BY <2>2, BlockFacts DEF Books
    <3>2. u[b.at - 4] = m[b.at - 4] /\ u[b.at + b.size - 8] = m[b.at + b.size - 8]
      <4>1. CASE End(b) <= lo
        BY <3>1, <4>1 DEF Within
      <4>2. CASE hi <= b.at
        BY <3>1, <4>2 DEF Within
      <4> QED
        BY <2>2, <4>1, <4>2
    <3> QED
      BY <2>2, <3>2 DEF Books, Tagged
  <2> QED
    BY <2>1, <2>2
<1>2. brk - 4 \in Words /\ brk \in Nat
  BY BlockFacts DEF Books, Layout
<1>3. u[brk - 4] = 1
  BY <1>2 DEF Within, Books
<1> QED
  BY <1>1, <1>3 DEF Books

LEMMA OutsideKept ==
  ASSUME NEW m, NEW L, NEW brk, Layout(L, brk),
         NEW lo \in Nat, NEW hi \in Nat, NEW u,
         Within(m, u, lo, hi),
         NEW S \in SUBSET L, \A b \in S : End(b) <= lo \/ hi <= b.at
  PROVE  Keeps(m, u, S)
<1> SUFFICES ASSUME NEW b \in S, NEW p \in Words, b.at - 4 <= p, p < End(b) - 4
             PROVE  u[p] = m[p]
  BY DEF Keeps
<1>1. b \in L /\ b.at \in Nat /\ End(b) \in Nat /\ p \in Nat
  BY BlockFacts, WordTyped
<1> QED
  BY <1>1 DEF Within

LEMMA KeepsTwice ==
  ASSUME NEW m, NEW u, NEW v, NEW S, NEW T, Keeps(m, u, S), Keeps(u, v, T)
  PROVE  Keeps(m, v, S \cap T)
BY DEF Keeps

-----------------------------------------------------------------------------
(* Layouts from layouts.                                                   *)

Joined(L, b, c, a) == (L \ {b, c}) \cup {Blk(b.at, b.size + c.size, a)}

LEMMA JoinLayout ==
  ASSUME NEW L, NEW brk, Layout(L, brk), NEW b \in L, NEW c \in L, b # Start,
         End(b) = c.at, NEW a \in {0, 1}
  PROVE  Layout(Joined(L, b, c, a), brk)
<1> DEFINE n == Blk(b.at, b.size + c.size, a)
           K == Joined(L, b, c, a)
<1>1. /\ b.at \in Nat /\ b.at % 8 = 0 /\ b.size \in Nat /\ b.size % 8 = 0 /\ 8 <= b.size
      /\ c.size \in Nat /\ c.size % 8 = 0 /\ 8 <= c.size /\ c.at = b.at + b.size
      /\ End(c) = c.at + c.size /\ End(c) <= brk /\ Base + 8 <= b.at
      /\ brk \in Nat /\ brk % 8 = 0 /\ brk <= Highest
  BY BlockFacts
<1>2. IsBlock(n) /\ n.at = b.at /\ End(n) = End(c) /\ n.at \in Nat /\ End(n) \in Nat
  <2>1. /\ b.size + c.size \in Nat /\ (b.size + c.size) % 8 = 0 /\ 8 <= b.size + c.size
        /\ b.at + (b.size + c.size) = End(c) /\ End(c) \in Nat
    BY <1>1
  <2>2. n.at = b.at /\ End(n) = b.at + (b.size + c.size)
    BY BlkFields
  <2>3. IsBlock(n)
    BY <1>1, <2>1, NewBlock
  <2> QED
    BY <1>1, <2>1, <2>2, <2>3
<1>3. c # Start
  BY <1>1, StartFields, Constants
<1>4. \A x : x \in K <=> x = n \/ (x \in L /\ x # b /\ x # c)
  BY DEF Joined
<1>5. \A x \in L : x.at \in Nat /\ End(x) \in Nat
  BY BlockFacts
<1>6. \A x \in L : x = b \/ x = c \/ Apart(x, n)
  <2> SUFFICES ASSUME NEW x \in L, x # b, x # c PROVE Apart(x, n)
    OBVIOUS
  <2>1. Apart(x, b) /\ Apart(x, c)
    BY DEF Layout
  <2>2. x.at \in Nat /\ End(x) = x.at + x.size /\ x.size \in Nat /\ 8 <= x.size
    BY BlockFacts
  <2> QED
    BY <1>1, <1>2, <2>1, <2>2 DEF Apart
<1> HIDE DEF n, K
<1>7. ASSUME NEW x \in K, NEW y \in K
      PROVE  x = y \/ Apart(x, y)
  BY <1>2, <1>4, <1>6 DEF Layout, Apart
<1>8. ASSUME NEW x \in K
      PROVE  End(x) = brk \/ \E y \in K : y.at = End(x)
  <2>1. PICK z \in L : End(z) = End(x) /\ z # b
    <3>1. CASE x = n
      BY <1>2, <3>1, <1>1, SameBlock
    <3>2. CASE x # n
      BY <1>4, <3>2
    <3> QED
      BY <3>1, <3>2
  <2>2. CASE End(z) = brk
    BY <2>1, <2>2
  <2>3. CASE \E y \in L : y.at = End(z)
    <3>1. PICK y \in L : y.at = End(z)
      BY <2>3
    <3>2. y # c
      BY <2>1, <3>1, SameBlock
    <3>3. y = b \/ y \in K
      BY <1>4, <3>2
    <3> QED
      BY <1>2, <1>4, <2>1, <3>1, <3>3
  <2> QED
    BY <2>2, <2>3 DEF Layout
<1>9. ASSUME NEW x \in K
      PROVE  x = Start \/ \E y \in K : End(y) = x.at
  <2>1. PICK z \in L : z.at = x.at /\ z # c /\ (z = Start => x = Start)
    <3>1. CASE x = n
      <4>1. b # c
        BY <1>1
      <4> QED
        BY <1>2, <3>1, <4>1
    <3>2. CASE x # n
      BY <1>4, <3>2
    <3> QED
      BY <3>1, <3>2
  <2>2. CASE z = Start
    BY <2>1, <2>2
  <2>3. CASE \E y \in L : End(y) = z.at
    <3>1. PICK y \in L : End(y) = z.at
      BY <2>3
    <3>2. y # b
      BY <2>1, <3>1, SameBlock
    <3>3. y = c \/ y \in K
      BY <1>4, <3>2
    <3> QED
      BY <1>2, <1>4, <2>1, <3>1, <3>3
  <2> QED
    BY <2>2, <2>3 DEF Layout
<1>10. Start \in K
  BY <1>3, <1>4 DEF Layout
<1>11. \A x \in K : IsBlock(x) /\ Prologue <= x.at /\ End(x) <= brk
  BY <1>1, <1>2, <1>4, Constants DEF Layout
<1> QED
  BY <1>1, <1>7, <1>8, <1>9, <1>10, <1>11 DEF Layout, K

Split(L, b, s, a, d) == (L \ {b}) \cup {Blk(b.at, s, a), Blk(b.at + s, b.size - s, d)}

LEMMA SplitLayout ==
  ASSUME NEW L, NEW brk, Layout(L, brk), NEW b \in L, b # Start,
         NEW s \in Nat, s % 8 = 0, 8 <= s, s < b.size, NEW a \in {0, 1}, NEW d \in {0, 1}
  PROVE  Layout(Split(L, b, s, a, d), brk)
<1> DEFINE n == Blk(b.at, s, a)
           o == Blk(b.at + s, b.size - s, d)
           K == Split(L, b, s, a, d)
<1>1. /\ b.at \in Nat /\ b.at % 8 = 0 /\ b.size \in Nat /\ b.size % 8 = 0
      /\ End(b) = b.at + b.size /\ End(b) <= brk /\ Base + 8 <= b.at
      /\ brk \in Nat /\ brk % 8 = 0 /\ brk <= Highest
  BY BlockFacts
<1>2. /\ IsBlock(n) /\ n.at = b.at /\ End(n) = b.at + s /\ End(n) \in Nat
      /\ o.at = b.at + s /\ End(o) = End(b) /\ End(o) \in Nat
  <2>1. b.at + s \in Nat /\ (b.at + s) + (b.size - s) = End(b) /\ End(b) \in Nat
    BY <1>1
  <2>2. n.at = b.at /\ End(n) = b.at + s /\ o.at = b.at + s /\ End(o) = (b.at + s) + (b.size - s)
    BY BlkFields
  <2>3. IsBlock(n)
    BY <1>1, NewBlock
  <2> QED
    BY <2>1, <2>2, <2>3
<1>3. IsBlock(o)
  <2>1. b.size - s \in Nat /\ (b.size - s) % 8 = 0 /\ 8 <= b.size - s
        /\ (b.at + s) % 8 = 0 /\ b.at + s \in Nat
    BY <1>1
  <2> QED
    BY <2>1, NewBlock
<1>4. \A x : x \in K <=> x = n \/ x = o \/ (x \in L /\ x # b)
  BY DEF Split
<1>5. \A x \in L : x.at \in Nat /\ End(x) \in Nat
  BY BlockFacts
<1> HIDE DEF n, o, K
<1>6. \A x \in L : x = b \/ (Apart(x, n) /\ Apart(x, o))
  BY <1>1, <1>2, <1>5 DEF Layout, Apart
<1>7. ASSUME NEW x \in K, NEW y \in K
      PROVE  x = y \/ Apart(x, y)
  BY <1>1, <1>2, <1>4, <1>6 DEF Layout, Apart
<1>8. ASSUME NEW x \in K
      PROVE  End(x) = brk \/ \E y \in K : y.at = End(x)
  <2>1. CASE x = n
    BY <1>2, <1>4, <2>1
  <2>2. CASE x # n
    <3>1. PICK z \in L : End(z) = End(x)
      BY <1>2, <1>4, <2>2
    <3>2. \A y \in L : y \in K \/ (y.at = n.at /\ n \in K)
      BY <1>2, <1>4
    <3> QED
      BY <3>1, <3>2 DEF Layout
  <2> QED
    BY <2>1, <2>2
<1>9. ASSUME NEW x \in K
      PROVE  x = Start \/ \E y \in K : End(y) = x.at
  <2>1. CASE x = o
    BY <1>2, <1>4, <2>1
  <2>2. CASE x # o
    <3>1. PICK z \in L : z.at = x.at /\ (z = Start => x = Start)
      BY <1>2, <1>4, <2>2
    <3>2. \A y \in L : y \in K \/ (End(y) = End(o) /\ o \in K)
      BY <1>2, <1>4
    <3> QED
      BY <3>1, <3>2 DEF Layout
  <2> QED
    BY <2>1, <2>2
<1>10. Start \in K
  BY <1>4 DEF Layout
<1>11. \A x \in K : IsBlock(x) /\ Prologue <= x.at /\ End(x) <= brk
  BY <1>1, <1>2, <1>3, <1>4, Constants DEF Layout
<1> QED
  BY <1>1, <1>7, <1>8, <1>9, <1>10, <1>11 DEF Layout, K

Marked(L, b, a) == (L \ {b}) \cup {Blk(b.at, b.size, a)}

LEMMA MarkLayout ==
  ASSUME NEW L, NEW brk, Layout(L, brk), NEW b \in L, b # Start, NEW a \in {0, 1}
  PROVE  Layout(Marked(L, b, a), brk)
<1> DEFINE n == Blk(b.at, b.size, a)
           K == Marked(L, b, a)
<1>1. /\ b.at \in Nat /\ b.at % 8 = 0 /\ b.size \in Nat /\ b.size % 8 = 0 /\ 8 <= b.size
      /\ End(b) = b.at + b.size /\ End(b) <= brk /\ Base + 8 <= b.at
      /\ brk \in Nat /\ brk % 8 = 0 /\ brk <= Highest
  BY BlockFacts
<1>2. IsBlock(n) /\ n.at = b.at /\ End(n) = End(b)
  <2>1. n.at = b.at /\ End(n) = b.at + b.size
    BY BlkFields
  <2>2. IsBlock(n)
    BY <1>1, NewBlock
  <2> QED
    BY <1>1, <2>1, <2>2
<1>3. \A x : x \in K <=> x = n \/ (x \in L /\ x # b)
  BY DEF Marked
<1> HIDE DEF n, K
<1>4. ASSUME NEW x \in K, NEW y \in K
      PROVE  x = y \/ Apart(x, y)
  BY <1>2, <1>3 DEF Layout, Apart
<1>5. \A y \in L : \E z \in K : z.at = y.at /\ End(z) = End(y)
  BY <1>2, <1>3
<1>6. ASSUME NEW x \in K
      PROVE  /\ End(x) = brk \/ \E y \in K : y.at = End(x)
             /\ x = Start \/ \E y \in K : End(y) = x.at
  <2>1. PICK z \in L : z.at = x.at /\ End(z) = End(x) /\ (z = Start => x = Start)
    BY <1>2, <1>3
  <2> QED
    BY <1>5, <2>1 DEF Layout
<1>7. Start \in K
  BY <1>3 DEF Layout
<1>8. \A x \in K : IsBlock(x) /\ Prologue <= x.at /\ End(x) <= brk
  BY <1>1, <1>2, <1>3, Constants DEF Layout
<1> QED
  BY <1>1, <1>4, <1>6, <1>7, <1>8 DEF Layout, K

LEMMA GrowLayout ==
  ASSUME NEW L, NEW brk, Layout(L, brk), NEW s \in Nat, s % 8 = 0, 8 <= s, brk + s <= Highest
  PROVE  Layout(L \cup {Blk(brk, s, 0)}, brk + s)
<1> DEFINE n == Blk(brk, s, 0)
           K == L \cup {n}
<1>1. brk \in Nat /\ brk % 8 = 0 /\ brk <= Highest /\ Base + 16 <= brk
  BY BlockFacts DEF Layout
<1>2. IsBlock(n) /\ n.at = brk /\ End(n) = brk + s
  BY <1>1, NewBlock, BlkFields
<1>3. \A x : x \in K <=> x = n \/ x \in L
  OBVIOUS
<1>4. \A x \in L : x.at \in Nat /\ End(x) \in Nat /\ End(x) <= brk /\ x.at <= brk
  BY BlockFacts
<1> HIDE DEF n, K
<1>5. ASSUME NEW x \in K, NEW y \in K
      PROVE  x = y \/ Apart(x, y)
  BY <1>1, <1>2, <1>3, <1>4 DEF Layout, Apart
<1>6. ASSUME NEW x \in K
      PROVE  End(x) = brk + s \/ \E y \in K : y.at = End(x)
  BY <1>2, <1>3 DEF Layout
<1>7. \E y \in L : End(y) = brk
  <2>1. PICK y \in L : \A z \in L : z.at <= y.at
    <3> DEFINE D == {brk - z.at : z \in L}
    <3>1. D \in SUBSET Nat /\ D # {}
      <4>1. \A z \in L : brk - z.at \in Nat
        BY <1>1, <1>4
      <4>2. L # {}
        BY DEF Layout
      <4> QED
        BY <4>1, <4>2
    <3>2. PICK d \in D : \A e \in D : d <= e
      BY <3>1, LeastOf
    <3>3. PICK y \in L : d = brk - y.at
      BY <3>2
    <3>4. \A z \in L : brk - y.at <= brk - z.at
      BY <3>2, <3>3
    <3> QED
      BY <1>1, <1>4, <3>4
  <2>2. ~ \E z \in L : z.at = End(y)
    BY <2>1, BlockFacts
  <2> QED
    BY <2>2 DEF Layout
<1>8. ASSUME NEW x \in K
      PROVE  x = Start \/ \E y \in K : End(y) = x.at
  BY <1>2, <1>3, <1>7 DEF Layout
<1>9. ASSUME NEW x \in K
      PROVE  IsBlock(x) /\ Prologue <= x.at /\ End(x) <= brk + s
  <2>1. CASE x = n
    BY <1>1, <1>2, <2>1, Constants
  <2>2. CASE x \in L
    <3>1. End(x) <= brk /\ End(x) \in Nat
      BY <1>4, <2>2
    <3> QED
      BY <1>1, <2>2, <3>1 DEF Layout
  <2> QED
    BY <1>3, <2>1, <2>2
<1>10. /\ Start \in K /\ brk + s \in Nat /\ (brk + s) % 8 = 0 /\ brk + s <= Highest
  BY <1>1, <1>3 DEF Layout
<1>11. Layout(K, brk + s)
  BY <1>5, <1>6, <1>8, <1>9, <1>10 DEF Layout
<1> QED
  BY <1>11 DEF K, n

-----------------------------------------------------------------------------
(* One new block, over the stretch of those that it replaces.              *)

LEMMA OneNew ==
  ASSUME NEW m, NEW L, NEW brk, Books(m, L, brk), NEW K, Layout(K, brk), NEW n \in K,
         \A x \in K : x = n \/ x \in L, NEW u, Memory(u), Tagged(u, n),
         Within(m, u, n.at, End(n))
  PROVE  Books(u, K, brk) /\ Keeps(m, u, K \ {n})
<1>1. n.at \in Nat /\ End(n) \in Nat /\ End(n) <= brk
  BY BlockFacts
<1>2. \A x \in K : x = n \/ (x \in L /\ (End(x) <= n.at \/ End(n) <= x.at))
  BY DEF Layout, Apart
<1>3. Books(u, K, brk)
  BY <1>1, <1>2, Relaid
<1>4. Keeps(m, u, K \ {n})
  <2>1. \A x \in K \ {n} : End(x) <= n.at \/ End(n) <= x.at
    BY <1>2
  <2> DEFINE S == K \ {n}
  <2>2. S \in SUBSET L
    BY <1>2
  <2>3. Layout(L, brk)
    BY DEF Books
  <2> HIDE DEF S
  <2>4. \A x \in S : End(x) <= n.at \/ End(n) <= x.at
    BY <2>1 DEF S
  <2>5. Keeps(m, u, S)
    BY <1>1, <2>2, <2>3, <2>4, OutsideKept
  <2> QED
    BY <2>5 DEF S
<1> QED
  BY <1>3, <1>4

(* The tags of a block are words of its own.                               *)
LEMMA TagsInside ==
  ASSUME NEW m, NEW u, NEW at \in Nat, NEW size \in Nat, 8 <= size,
         OnlyAt(m, u, at - 4, at + size - 8)
  PROVE  Within(m, u, at, at + size)
<1>1. \A p \in Words : p \in Nat /\ (p < at - 4 \/ at + size - 4 <= p
                                       => p # at - 4 /\ p # at + size - 8)
  BY WordTyped
<1> QED
  BY <1>1 DEF Within, OnlyAt

-----------------------------------------------------------------------------
(* Merging free blocks.                                                    *)

LEMMA JoinedIs ==
  ASSUME NEW L, NEW brk, Layout(L, brk), NEW b \in L, NEW c \in L, b # Start,
         End(b) = c.at, b.alloc = 0, c.alloc = 0, NEW n, n = Blk(b.at, b.size + c.size, 0)
  PROVE  /\ n \in Joined(L, b, c, 0) /\ n.alloc = 0
         /\ n.at = b.at /\ n.size = b.size + c.size /\ End(n) = End(c) /\ b.size <= n.size
         /\ \A x : x \in Joined(L, b, c, 0) <=> x = n \/ (x \in L /\ x # b /\ x # c)
         /\ Alloc(Joined(L, b, c, 0)) = Alloc(L)
<1>1. /\ b.at \in Nat /\ b.size \in Nat /\ c.size \in Nat
      /\ c.at = b.at + b.size /\ End(c) = c.at + c.size
  BY BlockFacts
<1>2. n.alloc = 0 /\ n.at = b.at /\ n.size = b.size + c.size /\ End(n) = b.at + (b.size + c.size)
  BY BlkFields
<1>3. End(n) = End(c) /\ b.size <= n.size
  BY <1>1, <1>2
<1>4. \A x : x \in Joined(L, b, c, 0) <=> x = n \/ (x \in L /\ x # b /\ x # c)
  BY DEF Joined
<1>5. Alloc(Joined(L, b, c, 0)) = Alloc(L)
  BY <1>2, <1>4 DEF Alloc
<1> QED
  BY <1>2, <1>3, <1>4, <1>5

LEMMA JoinNextTidy ==
  ASSUME NEW L, NEW brk, Layout(L, brk), NEW b \in L, NEW c \in L, b # Start,
         End(b) = c.at, b.alloc = 0, c.alloc = 0, TidyBut(L, b),
         NEW n, n = Blk(b.at, b.size + c.size, 0)
  PROVE  /\ TidyBut(Joined(L, b, c, 0), n)
         /\ \A y \in Joined(L, b, c, 0) : y.at = End(n) => y.alloc = 1
<1> DEFINE K == Joined(L, b, c, 0)
<1>1. /\ n.at = b.at /\ End(n) = End(c)
      /\ \A x : x \in K <=> x = n \/ (x \in L /\ x # b /\ x # c)
  BY JoinedIs
<1>2. b # c /\ n.at # End(n)
  <2>1. b.at \in Nat /\ b.size \in Nat /\ 8 <= b.size /\ c.at = b.at + b.size
        /\ End(c) = c.at + c.size /\ c.size \in Nat
    BY BlockFacts
  <2> QED
    BY <1>1, <2>1
<1>3. \A x \in L : x.alloc \in {0, 1}
  BY BlockFacts
<1> HIDE DEF K
<1>4. TidyBut(K, n)
  BY <1>1 DEF TidyBut
<1>5. ASSUME NEW y \in K, y.at = End(n)
      PROVE  y.alloc = 1
  BY <1>1, <1>2, <1>5 DEF TidyBut
<1> QED
  BY <1>4, <1>5 DEF K

LEMMA JoinPrevTidy ==
  ASSUME NEW L, NEW brk, Layout(L, brk), NEW p \in L, NEW b \in L, p # Start,
         End(p) = b.at, p.alloc = 0, b.alloc = 0, TidyBut(L, b),
         \A y \in L : y.at = End(b) => y.alloc = 1
  PROVE  Tidy(Joined(L, p, b, 0))
<1> DEFINE K == Joined(L, p, b, 0)
           n == Blk(p.at, p.size + b.size, 0)
<1>1. /\ n.at = p.at /\ End(n) = End(b)
      /\ \A x : x \in K <=> x = n \/ (x \in L /\ x # p /\ x # b)
  BY JoinedIs
<1>2. b # p /\ n.at # End(n)
  <2>1. p.at \in Nat /\ p.size \in Nat /\ 8 <= p.size /\ b.at = p.at + p.size
        /\ End(b) = b.at + b.size /\ b.size \in Nat
    BY BlockFacts
  <2> QED
    BY <1>1, <2>1
<1> HIDE DEF K, n
<1>3. ASSUME NEW x \in K, NEW y \in K, End(x) = y.at
      PROVE  x.alloc = 1 \/ y.alloc = 1
  <2>1. CASE x = n
    BY <1>1, <1>2, <1>3, <2>1
  <2>2. CASE x # n /\ y = n
    BY <1>1, <1>2, <1>3, <2>2 DEF TidyBut
  <2>3. CASE x # n /\ y # n
    BY <1>1, <1>3, <2>3 DEF TidyBut
  <2> QED
    BY <2>1, <2>2, <2>3
<1> QED
  BY <1>3 DEF Tidy, K

(* Two words are written, in either order.                                 *)
LEMMA TwoPuts ==
  ASSUME NEW m, Memory(m), NEW p \in Words, NEW q \in Words, NEW v \in Nat, NEW u,
         u = PUT(PUT(m, p, v), q, v)
  PROVE  /\ Memory(u) /\ u[p] = v /\ u[q] = v
         /\ OnlyAt(m, u, p, q) /\ OnlyAt(m, u, q, p)
BY DEF PUT, Memory, OnlyAt

(* What coalesce leaves: the same blocks allocated, and a free block that  *)
(* covers b.                                                               *)
Merged(m, L, brk, b, r) ==
  \E K : /\ Books(r.mem, K, brk) /\ Tidy(K) /\ Alloc(K) = Alloc(L)
         /\ Keeps(m, r.mem, Alloc(L))
         /\ \E c \in K : c.alloc = 0 /\ c.at = r.bp /\ b.size <= c.size

LEMMA ResultFields ==
  ASSUME NEW m, NEW bp
  PROVE  Result(m, bp).mem = m /\ Result(m, bp).bp = bp
BY DEF Result

LEMMA MergedBy ==
  ASSUME NEW m, NEW L, NEW brk, Books(m, L, brk), NEW b \in L, NEW K, Layout(K, brk), Tidy(K),
         Alloc(K) = Alloc(L), NEW n \in K, n.alloc = 0, b.size <= n.size,
         \A x \in K : x = n \/ x \in L, NEW u, Memory(u), Tagged(u, n),
         OnlyAt(m, u, n.at - 4, n.at + n.size - 8)
  PROVE  Merged(m, L, brk, b, Result(u, n.at))
<1>1. n.at \in Nat /\ n.size \in Nat /\ 8 <= n.size /\ End(n) = n.at + n.size
  BY BlockFacts
<1>2. Within(m, u, n.at, End(n))
  <2> DEFINE at   == n.at
             size == n.size
  <2>1. at \in Nat /\ size \in Nat /\ 8 <= size /\ OnlyAt(m, u, at - 4, at + size - 8)
    BY <1>1
  <2> HIDE DEF at, size
  <2>2. Within(m, u, at, at + size)
    BY <2>1, TagsInside
  <2> QED
    BY <1>1, <2>2 DEF at, size
<1>3. Books(u, K, brk) /\ Keeps(m, u, K \ {n})
  BY <1>2, OneNew
<1>4. Keeps(m, u, Alloc(L))
  <2>1. \A x \in Alloc(L) : x \in K \ {n}
    BY DEF Alloc
  <2> QED
    BY <1>3, <2>1 DEF Keeps
<1> QED
  BY <1>3, <1>4, ResultFields DEF Merged

LEMMA CoalesceEffect ==
  ASSUME NEW m, NEW L, NEW brk, Books(m, L, brk), NEW b \in L, b.alloc = 0, TidyBut(L, b)
  PROVE  Merged(m, L, brk, b, Coalesce(m, b.at))
<1> DEFINE r == Coalesce(m, b.at)
<1>1. /\ Layout(L, brk) /\ Memory(m) /\ b # Start
      /\ \A x \in L : Tagged(m, x)
  BY StartFields DEF Books
<1>2. PICK p \in L : End(p) = b.at
  BY <1>1 DEF Layout
<1>3. /\ p.at \in Nat /\ p.size \in Nat /\ p.size % 8 = 0 /\ 8 <= p.size /\ b.at = p.at + p.size
      /\ b.at \in Nat /\ b.size \in Nat /\ b.size % 8 = 0 /\ 8 <= b.size
      /\ End(b) = b.at + b.size /\ p.alloc \in {0, 1} /\ brk \in Nat /\ brk % 8 = 0
      /\ b.at - 4 \in Words /\ b.at + b.size - 8 \in Words
      /\ p.at - 4 \in Words /\ p.at + p.size - 8 \in Words
  BY <1>1, <1>2, BlockFacts
<1>4. /\ PREV_BLKP(m, b.at) = p.at /\ NEXT_BLKP(m, b.at) = End(b)
      /\ GET_ALLOC(m, FTRP(m, p.at)) = p.alloc
      /\ BlkSize(m, b.at) = b.size /\ BlkSize(m, p.at) = p.size
      /\ FTRP(m, b.at) = b.at + b.size - 8 /\ HDRP(p.at) = p.at - 4
  BY <1>2, BlockReads
<1>5. ASSUME IsFree(m, End(b))
      PROVE  \E c \in L : c.at = End(b) /\ c.alloc = 0 /\ BlkSize(m, End(b)) = c.size
  <2>1. End(b) # brk
    BY <1>5, EndReads
  <2>2. PICK c \in L : c.at = End(b)
    BY <1>1, <2>1 DEF Layout
  <2> QED
    BY <1>5, <2>2, BlockReads
<1>6. ASSUME ~ IsFree(m, End(b)), NEW c \in L, c.at = End(b)
      PROVE  c.alloc = 1
  <2>1. c.alloc \in {0, 1}
    BY <1>1, BlockFacts
  <2> QED
    BY <1>6, <2>1, BlockReads
<1>7. CASE p.alloc = 1 /\ ~ IsFree(m, End(b))
  <2>1. r = Result(m, b.at)
    BY <1>4, <1>7 DEF Coalesce
  <2>2. Tidy(L)
    <3> SUFFICES ASSUME NEW x \in L, NEW y \in L, End(x) = y.at PROVE x.alloc = 1 \/ y.alloc = 1
      BY DEF Tidy
    <3>1. CASE y = b
      <4>1. x = p
        BY <1>1, <1>2, <3>1, SameBlock
      <4> QED
        BY <1>7, <4>1
    <3>2. CASE x = b
      BY <1>6, <1>7, <3>2
    <3> QED
      BY <3>1, <3>2 DEF TidyBut
  <2>3. Keeps(m, m, Alloc(L))
    BY DEF Keeps
  <2> QED
    BY <1>3, <2>1, <2>2, <2>3, ResultFields DEF Merged
<1>8. CASE p.alloc = 1 /\ IsFree(m, End(b))
  <2>1. PICK c \in L : c.at = End(b) /\ c.alloc = 0 /\ BlkSize(m, End(b)) = c.size
    BY <1>5, <1>8
  <2> DEFINE n == Blk(b.at, b.size + c.size, 0)
             K == Joined(L, b, c, 0)
             u == Tag(m, b.at, b.size + c.size, 0)
  <2>2. r = Result(u, b.at)
    BY <1>4, <1>8, <2>1 DEF Coalesce
  <2>3. /\ n \in K /\ n.alloc = 0 /\ n.at = b.at /\ n.size = b.size + c.size /\ b.size <= n.size
        /\ \A x : x \in K <=> x = n \/ (x \in L /\ x # b /\ x # c)
        /\ Alloc(K) = Alloc(L) /\ End(n) = End(c)
    BY <1>1, <2>1, JoinedIs
  <2>4. Layout(K, brk)
    BY <1>1, <2>1, JoinLayout
  <2>5. TidyBut(K, n) /\ \A y \in K : y.at = End(n) => y.alloc = 1
    BY <1>1, <2>1, JoinNextTidy
  <2>6. /\ c.size \in Nat /\ c.size % 8 = 0 /\ b.size + c.size \in Nat /\ (b.size + c.size) % 8 = 0
        /\ b.at + (b.size + c.size) - 8 \in Words
    <3>1. /\ c.size \in Nat /\ c.size % 8 = 0 /\ c.at = b.at + b.size
          /\ c.at + c.size - 8 \in Words
      BY <1>1, <1>3, <2>1, BlockFacts
    <3>2. b.at + (b.size + c.size) - 8 = c.at + c.size - 8
      BY <1>3, <3>1
    <3> QED
      BY <1>3, <3>1, <3>2
  <2>7. /\ Memory(u) /\ Tagged(u, n)
        /\ OnlyAt(m, u, b.at - 4, b.at + (b.size + c.size) - 8)
    <3> DEFINE s == b.size + c.size
    <3> HIDE DEF s
    <3>1. s \in Nat /\ s % 8 = 0 /\ b.at + s - 8 \in Words /\ u = Tag(m, b.at, s, 0) /\ n = Blk(b.at, s, 0)
      BY <2>6 DEF s
    <3> HIDE DEF u, n
    <3>0. Memory(m) /\ b.at \in Nat /\ b.at - 4 \in Words
      BY <1>1, <1>3
    <3>2. Memory(u) /\ Tagged(u, Blk(b.at, s, 0))
      BY <3>0, <3>1, TagWrites
    <3>3. OnlyAt(m, u, b.at - 4, b.at + s - 8)
      BY <3>0, <3>1, TagWrites
    <3> QED
      BY <3>1, <3>2, <3>3 DEF s
  <2> HIDE DEF n, K, u
  <2>8. Tidy(K)
    <3> SUFFICES ASSUME NEW x \in K, NEW y \in K, End(x) = y.at PROVE x.alloc = 1 \/ y.alloc = 1
      BY DEF Tidy
    <3>1. CASE y = n
      <4>1. x = p \/ x = n
        BY <1>1, <1>2, <2>3, <3>1, SameBlock
      <4>2. x # n
        BY <1>3, <2>3, <2>6, <3>1, BlkFields DEF End
      <4> QED
        BY <1>8, <4>1, <4>2
    <3>2. CASE x = n
      BY <2>5, <3>2
    <3> QED
      BY <2>5, <3>1, <3>2 DEF TidyBut
  <2>9. Merged(m, L, brk, b, Result(u, n.at))
    BY <2>3, <2>4, <2>7, <2>8, MergedBy
  <2> QED
    BY <2>2, <2>3, <2>9
<1>9. CASE p.alloc = 0 /\ ~ IsFree(m, End(b))
  <2> DEFINE s == b.size + p.size
             n == Blk(p.at, p.size + b.size, 0)
             K == Joined(L, p, b, 0)
             u == PUT(PUT(m, b.at + b.size - 8, s), p.at - 4, s)
  <2>1. r = Result(u, p.at)
    BY <1>4, <1>9 DEF Coalesce
  <2>2. p # Start
    BY <1>9, StartFields
  <2>3. /\ n \in K /\ n.alloc = 0 /\ n.at = p.at /\ n.size = p.size + b.size /\ p.size <= n.size
        /\ \A x : x \in K <=> x = n \/ (x \in L /\ x # p /\ x # b)
        /\ Alloc(K) = Alloc(L)
    BY <1>1, <1>2, <1>9, <2>2, JoinedIs
  <2>4. Layout(K, brk)
    BY <1>1, <1>2, <2>2, JoinLayout
  <2>5. Tidy(K)
    BY <1>1, <1>2, <1>6, <1>9, <2>2, JoinPrevTidy
  <2>6. s \in Nat /\ s = n.size /\ b.at + b.size - 8 = n.at + n.size - 8 /\ b.size <= n.size
    BY <1>3, <2>3
  <2> HIDE DEF s
  <2>7. /\ Memory(u) /\ u[b.at + b.size - 8] = s /\ u[p.at - 4] = s
        /\ OnlyAt(m, u, p.at - 4, b.at + b.size - 8)
    <3>1. u = PUT(PUT(m, b.at + b.size - 8, s), p.at - 4, s)
      OBVIOUS
    <3> HIDE DEF u
    <3> QED
      <4> DEFINE x == b.at + b.size - 8
                 y == p.at - 4
      <4>1. Memory(m) /\ x \in Words /\ y \in Words /\ s \in Nat /\ u = PUT(PUT(m, x, s), y, s)
        BY <1>1, <1>3, <2>6, <3>1
      <4> HIDE DEF x, y
      <4>2. Memory(u) /\ u[x] = s /\ u[y] = s /\ OnlyAt(m, u, y, x)
        BY <4>1, TwoPuts
      <4> QED
        BY <4>2 DEF x, y
  <2> HIDE DEF n, K, u
  <2>8. Tagged(u, n)
    BY <2>3, <2>6, <2>7 DEF Tagged
  <2>9. Merged(m, L, brk, b, Result(u, n.at))
    BY <2>3, <2>4, <2>5, <2>6, <2>7, <2>8, MergedBy
  <2> QED
    BY <2>1, <2>3, <2>9
<1>10. CASE p.alloc = 0 /\ IsFree(m, End(b))
  <2>1. PICK c \in L : c.at = End(b) /\ c.alloc = 0 /\ BlkSize(m, End(b)) = c.size
    BY <1>5, <1>10
  <2>2. p # Start
    BY <1>10, StartFields
  <2> DEFINE s  == b.size + c.size + p.size
             n1 == Blk(b.at, b.size + c.size, 0)
             K1 == Joined(L, b, c, 0)
             n  == Blk(p.at, p.size + n1.size, 0)
             K  == Joined(K1, p, n1, 0)
             h  == PUT(m, p.at - 4, s)
             u  == PUT(h, c.at + c.size - 8, s)
  <2>3. /\ c.size \in Nat /\ c.size % 8 = 0 /\ 8 <= c.size /\ c.at = b.at + b.size
        /\ c.at - 4 \in Words /\ c.at + c.size - 8 \in Words /\ End(c) = c.at + c.size
    BY <1>1, <1>3, <2>1, BlockFacts
  <2>4. s \in Nat
    BY <1>3, <2>3
  <2>5. /\ n1 \in K1 /\ n1.alloc = 0 /\ n1.at = b.at /\ n1.size = b.size + c.size
        /\ End(n1) = End(c) /\ b.size <= n1.size
        /\ \A x : x \in K1 <=> x = n1 \/ (x \in L /\ x # b /\ x # c)
        /\ Alloc(K1) = Alloc(L)
    BY <1>1, <2>1, JoinedIs
  <2>6. Layout(K1, brk)
    BY <1>1, <2>1, JoinLayout
  <2>7. TidyBut(K1, n1) /\ \A y \in K1 : y.at = End(n1) => y.alloc = 1
    BY <1>1, <2>1, JoinNextTidy
  <2>8. p \in K1
    <3>1. p # b /\ p # c
      BY <1>3, <2>3
    <3> QED
      BY <2>5, <3>1
  <2> HIDE DEF n1, K1
  <2>9. /\ n \in K /\ n.alloc = 0 /\ n.at = p.at /\ n.size = p.size + n1.size
        /\ \A x : x \in K <=> x = n \/ (x \in K1 /\ x # p /\ x # n1)
        /\ Alloc(K) = Alloc(K1)
    BY <1>2, <1>10, <2>2, <2>5, <2>6, <2>8, JoinedIs
  <2>10. Layout(K, brk)
    BY <1>2, <2>2, <2>5, <2>6, <2>8, JoinLayout
  <2>11. Tidy(K)
    BY <1>2, <1>10, <2>2, <2>5, <2>6, <2>7, <2>8, JoinPrevTidy
  <2>12. s = n.size /\ c.at + c.size - 8 = n.at + n.size - 8 /\ b.size <= n.size
    BY <1>3, <2>3, <2>5, <2>9
  <2> HIDE DEF s, n, K
  <2>13. h = [m EXCEPT ![p.at - 4] = s] /\ Memory(h)
    BY <1>1, <1>3, <2>4 DEF PUT, Memory
  <2> HIDE DEF h
  <2>14. /\ Memory(u) /\ u[p.at - 4] = s /\ u[c.at + c.size - 8] = s
         /\ OnlyAt(m, u, p.at - 4, c.at + c.size - 8)
    <3>1. u = PUT(PUT(m, p.at - 4, s), c.at + c.size - 8, s)
      BY DEF h
    <3> HIDE DEF u
    <3> QED
      <4>1. Memory(m) /\ c.at + c.size - 8 \in Words /\ p.at - 4 \in Words /\ s \in Nat
        BY <1>1, <1>3, <2>3, <2>4
      <4> QED
        BY <3>1, <4>1, TwoPuts
  <2>15. u = PUT(h, c.at + c.size - 8, s)
    OBVIOUS
  <2> HIDE DEF u
  <2>16. \A q \in Words : q # p.at - 4 => GET(h, q) = GET(m, q)
    BY <1>1, <2>13 DEF GET
  <2>17. NEXT_BLKP(h, b.at) = c.at /\ FTRP(h, c.at) = c.at + c.size - 8
    <3>1. b.at - WSIZE = b.at - 4 /\ c.at - WSIZE = c.at - 4 /\ b.at - 4 # p.at - 4 /\ c.at - 4 # p.at - 4
      BY <1>3, <2>3, Constants
    <3>2. GET_SIZE(h, b.at - WSIZE) = GET_SIZE(m, b.at - WSIZE)
          /\ GET_SIZE(h, HDRP(c.at)) = GET_SIZE(m, HDRP(c.at))
      BY <1>3, <2>3, <2>16, <3>1 DEF GET_SIZE, HDRP
    <3>3. NEXT_BLKP(h, b.at) = NEXT_BLKP(m, b.at) /\ FTRP(h, c.at) = FTRP(m, c.at)
      BY <3>2 DEF NEXT_BLKP, FTRP
    <3>4. FTRP(m, c.at) = c.at + c.size - 8
      BY BlockReads
    <3> QED
      BY <1>4, <2>1, <3>3, <3>4
  <2>18. PREV_BLKP(u, b.at) = p.at
    <3>1. b.at - DSIZE = p.at + p.size - 8
      BY <1>3, Constants
    <3>2. p.at + p.size - 8 # p.at - 4 /\ p.at + p.size - 8 # c.at + c.size - 8
      BY <1>3, <2>3
    <3>3. u[p.at + p.size - 8] = p.size + 0
      BY <1>1, <1>3, <1>10, <2>14, <3>2 DEF Tagged, OnlyAt
    <3>4. GET(u, p.at + p.size - 8) = p.size + 0
      BY <1>3, <3>3 DEF GET
    <3>5. GET_SIZE(u, b.at - DSIZE) = p.size
      BY <1>3, <3>1, <3>4, TagArithmetic DEF GET_SIZE
    <3> QED
      BY <1>3, <3>5 DEF PREV_BLKP
  <2>19. r = Result(u, p.at)
    <3>1. r = Result(PUT(h, FTRP(h, NEXT_BLKP(h, b.at)), s),
                     PREV_BLKP(PUT(h, FTRP(h, NEXT_BLKP(h, b.at)), s), b.at))
      BY <1>4, <1>10, <2>1 DEF Coalesce, h, s
    <3> QED
      BY <2>15, <2>17, <2>18, <3>1
  <2>20. Tagged(u, n)
    BY <2>4, <2>9, <2>12, <2>14 DEF Tagged
  <2>21. \A x \in K : x = n \/ x \in L
    BY <2>5, <2>9
  <2>22. Merged(m, L, brk, b, Result(u, n.at))
    BY <2>5, <2>9, <2>10, <2>11, <2>12, <2>14, <2>20, <2>21, MergedBy
  <2> QED
    BY <2>9, <2>19, <2>22
<1> QED
  BY <1>3, <1>7, <1>8, <1>9, <1>10

-----------------------------------------------------------------------------
(* Splitting.                                                              *)

(* A block of s bytes and behind it one of t.                              *)
LEMMA TwoTags ==
  ASSUME NEW m, Memory(m), NEW at \in Nat, NEW s \in Nat, NEW t \in Nat,
         s % 8 = 0, t % 8 = 0, 8 <= s, 8 <= t,
         at - 4 \in Words, at + s - 8 \in Words, at + s - 4 \in Words, at + s + t - 8 \in Words,
         NEW a \in {0, 1}, NEW d \in {0, 1},
         NEW u, u = Tag(Tag(m, at + s, t, d), at, s, a)
  PROVE  /\ Memory(u) /\ Tagged(u, Blk(at, s, a)) /\ Tagged(u, Blk(at + s, t, d))
         /\ Within(m, u, at, at + s + t)
         /\ Same(m, u, at, at + s - 8)
<1> DEFINE e == at + s
           v == Tag(m, e, t, d)
<1>1. e \in Nat /\ e - 4 \in Words /\ e + t - 8 \in Words
  OBVIOUS
<1>2. u = Tag(v, at, s, a)
  OBVIOUS
<1> HIDE DEF e
<1>3. Memory(v) /\ Tagged(v, Blk(e, t, d)) /\ OnlyAt(m, v, e - 4, e + t - 8)
  BY <1>1, TagWrites
<1> HIDE DEF v
<1>4. Memory(u) /\ Tagged(u, Blk(at, s, a)) /\ OnlyAt(v, u, at - 4, at + s - 8)
  BY <1>2, <1>3, TagWrites
<1>5. Tagged(u, Blk(at + s, t, d))
  <2>1. /\ e - 4 # at - 4 /\ e - 4 # at + s - 8 /\ e + t - 8 # at - 4 /\ e + t - 8 # at + s - 8
    BY DEF e
  <2>2. u[e - 4] = v[e - 4] /\ u[e + t - 8] = v[e + t - 8]
    BY <1>1, <1>4, <2>1 DEF OnlyAt
  <2>3. Tagged(u, Blk(e, t, d))
    BY <1>3, <2>2, BlkFields DEF Tagged
  <2> QED
    BY <2>3 DEF e
<1>6. ASSUME NEW p \in Words, p # at - 4, p # at + s - 8, p # at + s - 4, p # at + s + t - 8
      PROVE  u[p] = m[p]
  BY <1>3, <1>4, <1>6 DEF OnlyAt, e
<1>7. \A p \in Words : p \in Nat
  BY WordTyped
<1> QED
  BY <1>4, <1>5, <1>6, <1>7 DEF Within, Same

LEMMA SplitIs ==
  ASSUME NEW L, NEW brk, Layout(L, brk), NEW b \in L, b # Start,
         NEW s \in Nat, s % 8 = 0, 8 <= s, s < b.size, NEW a \in {0, 1}, NEW d \in {0, 1},
         NEW n, n = Blk(b.at, s, a), NEW o, o = Blk(b.at + s, b.size - s, d)
  PROVE  /\ n.at = b.at /\ n.size = s /\ n.alloc = a /\ End(n) = b.at + s
         /\ o.at = b.at + s /\ o.size = b.size - s /\ o.alloc = d /\ End(o) = End(b)
         /\ n # o
         /\ \A x : x \in Split(L, b, s, a, d) <=> x = n \/ x = o \/ (x \in L /\ x # b)
         /\ \A x \in L : x # b => x # n /\ x # o
<1>1. /\ b.at \in Nat /\ b.size \in Nat /\ End(b) = b.at + b.size
  BY BlockFacts
<1>2. /\ n.at = b.at /\ n.size = s /\ n.alloc = a /\ End(n) = b.at + s
      /\ o.at = b.at + s /\ o.size = b.size - s /\ o.alloc = d /\ End(o) = (b.at + s) + (b.size - s)
  BY BlkFields
<1>3. End(o) = End(b) /\ n # o
  BY <1>1, <1>2
<1>4. \A x : x \in Split(L, b, s, a, d) <=> x = n \/ x = o \/ (x \in L /\ x # b)
  BY DEF Split
<1>5. ASSUME NEW x \in L, x # b
      PROVE  x # n /\ x # o
  <2>1. x.at # b.at /\ End(x) # End(b)
    BY <1>5, SameBlock
  <2> QED
    BY <1>2, <1>3, <2>1
<1> QED
  BY <1>2, <1>3, <1>4, <1>5

(* The piece in front allocated, the rest free: the rest may meet a free   *)
(* block behind it, and does not if there was none behind b.               *)
LEMMA SplitTidy ==
  ASSUME NEW L, NEW brk, Layout(L, brk), NEW b \in L, b # Start,
         NEW s \in Nat, s % 8 = 0, 8 <= s, s < b.size,
         NEW o, o = Blk(b.at + s, b.size - s, 0), TidyBut(L, b)
  PROVE  /\ TidyBut(Split(L, b, s, 1, 0), o)
         /\ (\A y \in L : y.at = End(b) => y.alloc = 1) => Tidy(Split(L, b, s, 1, 0))
<1> DEFINE n == Blk(b.at, s, 1)
           K == Split(L, b, s, 1, 0)
<1>1. /\ n.at = b.at /\ n.alloc = 1 /\ End(n) = b.at + s
      /\ o.at = b.at + s /\ End(o) = End(b)
      /\ \A x : x \in K <=> x = n \/ x = o \/ (x \in L /\ x # b)
  BY SplitIs
<1>2. o.at # End(o) /\ b.at + s # End(b) /\ b.at # End(b)
  <2>1. b.at \in Nat /\ b.size \in Nat /\ End(b) = b.at + b.size
    BY BlockFacts
  <2> QED
    BY <1>1, <2>1
<1>3. \A x \in L : End(x) # o.at
  <2> SUFFICES ASSUME NEW x \in L, End(x) = b.at + s PROVE FALSE
    BY <1>1
  <2>1. x = b \/ End(x) <= b.at \/ End(b) <= x.at
    BY DEF Layout, Apart
  <2>2. /\ b.at \in Nat /\ b.size \in Nat /\ End(b) = b.at + b.size
        /\ x.at \in Nat /\ x.size \in Nat /\ End(x) = x.at + x.size /\ 8 <= x.size
    BY BlockFacts
  <2> QED
    BY <2>1, <2>2
<1> HIDE DEF n, K
<1>4. TidyBut(K, o)
  BY <1>1 DEF TidyBut
<1>5. ASSUME \A y \in L : y.at = End(b) => y.alloc = 1, NEW x \in K, NEW y \in K, End(x) = y.at
      PROVE  x.alloc = 1 \/ y.alloc = 1
  <2>1. CASE y = o
    BY <1>1, <1>2, <1>3, <1>5, <2>1
  <2>2. CASE x = o /\ y # o
    BY <1>1, <1>2, <1>5, <2>2
  <2>3. CASE x # o /\ y # o
    BY <1>1, <1>5, <2>3 DEF TidyBut
  <2> QED
    BY <2>1, <2>2, <2>3
<1> QED
  BY <1>4, <1>5 DEF Tidy, K

LEMMA TidyIsBut ==
  ASSUME NEW L, NEW b, Tidy(L)
  PROVE  TidyBut(L, b)
BY DEF Tidy, TidyBut

(* A block of a layout that replaces others.                               *)
LEMMA SplitBooks ==
  ASSUME NEW m, NEW L, NEW brk, Books(m, L, brk), NEW b \in L, b # Start,
         NEW s \in Nat, s % 8 = 0, 8 <= s, s < b.size, NEW a \in {0, 1}, NEW d \in {0, 1},
         NEW u, u = Tag(Tag(m, b.at + s, b.size - s, d), b.at, s, a)
  PROVE  /\ Books(u, Split(L, b, s, a, d), brk) /\ Keeps(m, u, L \ {b})
         /\ Same(m, u, b.at, b.at + s - 8)
<1> DEFINE at == b.at
           t  == b.size - s
           n  == Blk(at, s, a)
           o  == Blk(at + s, t, d)
           K  == Split(L, b, s, a, d)
<1>1. Layout(L, brk) /\ Memory(m)
  BY DEF Books
<1>2. /\ at \in Nat /\ b.size \in Nat /\ b.size % 8 = 0 /\ at % 8 = 0 /\ End(b) = at + b.size
      /\ at - 4 \in Words /\ at + b.size - 8 \in Words /\ End(b) <= brk
      /\ Base + 8 <= at /\ brk <= Highest /\ brk \in Nat
  BY <1>1, BlockFacts
<1>3. t \in Nat /\ t % 8 = 0 /\ 8 <= t
  BY <1>2
<1>4. at + s - 8 \in Words /\ at + s - 4 \in Words /\ at + s + t - 8 \in Words
  BY <1>2, InWords, Constants
<1>5. /\ \A x : x \in K <=> x = n \/ x = o \/ (x \in L /\ x # b)
  BY <1>1, SplitIs
<1>6. Layout(K, brk)
  BY <1>1, SplitLayout
<1>7. u = Tag(Tag(m, at + s, t, d), at, s, a) /\ at + s + t = End(b) /\ End(b) \in Nat
  BY <1>2
<1> HIDE DEF at, t
<1>8. /\ Memory(u) /\ Tagged(u, n) /\ Tagged(u, o)
      /\ Within(m, u, at, at + s + t)
      /\ Same(m, u, at, at + s - 8)
  BY <1>1, <1>2, <1>3, <1>4, <1>7, TwoTags
<1> HIDE DEF n, o, K
<1>9. \A x \in L : x = b \/ (End(x) <= at \/ End(b) <= x.at)
  BY <1>1 DEF Layout, Apart, at
<1>10. \A x \in K : Tagged(u, x) \/ (x \in L /\ (End(x) <= at \/ End(b) <= x.at))
  BY <1>5, <1>8, <1>9
<1>11. Within(m, u, at, End(b))
  BY <1>7, <1>8
<1>12. Books(u, K, brk)
  BY <1>2, <1>6, <1>7, <1>8, <1>10, <1>11, Relaid
<1>13. Keeps(m, u, L \ {b})
  <2> DEFINE S == L \ {b}
  <2>1. S \in SUBSET L /\ \A x \in S : End(x) <= at \/ End(b) <= x.at
    BY <1>9
  <2> HIDE DEF S
  <2>2. Keeps(m, u, S)
    BY <1>1, <1>2, <1>7, <1>11, <2>1, OutsideKept
  <2> QED
    BY <2>2 DEF S
<1> QED
  BY <1>8, <1>12, <1>13 DEF K, at

LEMMA MarkedIs ==
  ASSUME NEW L, NEW brk, Layout(L, brk), NEW b \in L, b # Start, NEW a \in {0, 1},
         NEW n, n = Blk(b.at, b.size, a)
  PROVE  /\ n.at = b.at /\ n.size = b.size /\ n.alloc = a /\ End(n) = End(b)
         /\ \A x : x \in Marked(L, b, a) <=> x = n \/ (x \in L /\ x # b)
         /\ \A x \in L : x # b => x # n
<1>1. /\ n.at = b.at /\ n.size = b.size /\ n.alloc = a /\ End(n) = End(b)
  BY BlkFields DEF End
<1>2. \A x : x \in Marked(L, b, a) <=> x = n \/ (x \in L /\ x # b)
  BY DEF Marked
<1>3. \A x \in L : x # b => x # n
  BY <1>1, SameBlock
<1> QED
  BY <1>1, <1>2, <1>3

LEMMA MarkBooks ==
  ASSUME NEW m, NEW L, NEW brk, Books(m, L, brk), NEW b \in L, b # Start, NEW a \in {0, 1},
         NEW u, u = Tag(m, b.at, b.size, a)
  PROVE  /\ Books(u, Marked(L, b, a), brk) /\ Keeps(m, u, L \ {b})
         /\ Same(m, u, b.at, b.at + b.size - 8)
<1> DEFINE at == b.at
           s  == b.size
           n  == Blk(at, s, a)
           K  == Marked(L, b, a)
<1>1. Layout(L, brk) /\ Memory(m)
  BY DEF Books
<1>2. /\ at \in Nat /\ s \in Nat /\ s % 8 = 0 /\ 8 <= s
      /\ at - 4 \in Words /\ at + s - 8 \in Words /\ End(b) = at + s
  BY <1>1, BlockFacts
<1>3. /\ n.at = at /\ n.size = s /\ End(n) = at + s
      /\ \A x : x \in K <=> x = n \/ (x \in L /\ x # b)
      /\ \A x \in L : x # b => x # n
  BY <1>1, <1>2, MarkedIs
<1>4. Layout(K, brk)
  BY <1>1, MarkLayout
<1>5. u = Tag(m, at, s, a)
  OBVIOUS
<1> HIDE DEF at, s
<1>6. Memory(u) /\ Tagged(u, Blk(at, s, a)) /\ OnlyAt(m, u, at - 4, at + s - 8)
  BY <1>1, <1>2, <1>5, TagWrites
<1>7. Tagged(u, n)
  BY <1>6
<1> HIDE DEF n, K
<1>8. Within(m, u, at, at + s)
  BY <1>2, <1>6, TagsInside
<1>9. Books(u, K, brk) /\ Keeps(m, u, K \ {n})
  <2>1. n \in K /\ \A x \in K : x = n \/ x \in L
    BY <1>3
  <2>2. Within(m, u, n.at, End(n))
    BY <1>3, <1>8
  <2> QED
    BY <1>4, <1>6, <1>7, <2>1, <2>2, OneNew
<1>10. K \ {n} = L \ {b}
  BY <1>3
<1>11. ASSUME NEW p \in Words, at <= p, p < at + s - 8
       PROVE  u[p] = m[p]
  <2>1. p \in Nat /\ p # at - 4 /\ p # at + s - 8
    BY <1>2, <1>11, WordTyped
  <2> QED
    BY <1>6, <2>1 DEF OnlyAt
<1> QED
  BY <1>9, <1>10, <1>11 DEF Same, K, at, s
(* A block allocated, or freed.                                            *)
LEMMA MarkTidy ==
  ASSUME NEW L, NEW brk, Layout(L, brk), Tidy(L), NEW b \in L, b # Start,
         NEW n, NEW a \in {0, 1}, n = Blk(b.at, b.size, a)
  PROVE  /\ TidyBut(Marked(L, b, a), n) /\ (a = 1 => Tidy(Marked(L, b, a)))
         /\ n \in Marked(L, b, a)
         /\ Alloc(Marked(L, b, a)) = (Alloc(L) \ {b}) \cup (IF a = 1 THEN {n} ELSE {})
<1> DEFINE K == Marked(L, b, a)
<1>1. /\ n.at = b.at /\ n.size = b.size /\ n.alloc = a /\ End(n) = End(b)
      /\ \A x : x \in K <=> x = n \/ (x \in L /\ x # b)
  BY MarkedIs
<1> HIDE DEF K
<1>2. TidyBut(K, n)
  BY <1>1 DEF Tidy, TidyBut
<1>3. a = 1 => Tidy(K)
  BY <1>1, <1>2 DEF Tidy, TidyBut
<1>4. Alloc(K) = (Alloc(L) \ {b}) \cup (IF a = 1 THEN {n} ELSE {})
  BY <1>1 DEF Alloc
<1> QED
  BY <1>1, <1>2, <1>3, <1>4 DEF K

LEMMA SplitAlloc ==
  ASSUME NEW L, NEW brk, Layout(L, brk), NEW b \in L, b # Start,
         NEW s \in Nat, s % 8 = 0, 8 <= s, s < b.size
  PROVE  Alloc(Split(L, b, s, 1, 0)) = (Alloc(L) \ {b}) \cup {Blk(b.at, s, 1)}
<1> DEFINE n == Blk(b.at, s, 1)
           o == Blk(b.at + s, b.size - s, 0)
           K == Split(L, b, s, 1, 0)
<1>1. n.alloc = 1 /\ o.alloc = 0
  BY BlkFields
<1>2. \A x : x \in K <=> x = n \/ x = o \/ (x \in L /\ x # b)
  BY SplitIs
<1> HIDE DEF n, o, K
<1>3. Alloc(K) = (Alloc(L) \ {b}) \cup {n}
  BY <1>1, <1>2 DEF Alloc
<1> QED
  BY <1>3 DEF n, K

-----------------------------------------------------------------------------
(* What the operations do.                                                 *)

(* A block at `at` of size bytes or more is new, the others are untouched. *)
Given(m, L, brk, u, at, size) ==
  \E K : /\ Books(u, K, brk) /\ Tidy(K) /\ Keeps(m, u, Alloc(L))
         /\ \E n \in K : /\ n.at = at /\ size <= n.size /\ n.alloc = 1
                         /\ n \notin Alloc(L) /\ Alloc(K) = Alloc(L) \cup {n}

(* b has size bytes or more, with what it had; the others are untouched.   *)
Resized(m, L, brk, u, b, size) ==
  \E K : /\ Books(u, K, brk) /\ Tidy(K) /\ Keeps(m, u, Alloc(L) \ {b})
         /\ \A k \in Nat : k + 8 <= b.size /\ k + 8 <= size => Same(m, u, b.at, b.at + k)
         /\ \E n \in K : /\ n.at = b.at /\ size <= n.size /\ n.alloc = 1
                         /\ Alloc(K) = (Alloc(L) \ {b}) \cup {n}

(* b is given back.                                                        *)
Freed(m, L, brk, u, b) ==
  \E K : /\ Books(u, K, brk) /\ Tidy(K) /\ Keeps(m, u, Alloc(L) \ {b})
         /\ Alloc(K) = Alloc(L) \ {b}

LEMMA PlaceEffect ==
  ASSUME NEW m, NEW L, NEW brk, Books(m, L, brk), Tidy(L), NEW b \in L, b.alloc = 0,
         NEW asize \in Nat, asize % 8 = 0, 8 <= asize, asize <= b.size
  PROVE  Given(m, L, brk, Place(m, b.at, asize), b.at, asize)
<1>1. Layout(L, brk) /\ b # Start /\ b \notin Alloc(L)
  BY StartFields DEF Books, Alloc
<1>2. BlkSize(m, b.at) = b.size /\ b.size \in Nat /\ b.size % 8 = 0 /\ DSIZE = 8
  BY <1>1, BlockReads, BlockFacts, Constants
<1>3. Alloc(L) \ {b} = Alloc(L) /\ \A x \in Alloc(L) : x \in L \ {b}
  BY <1>1 DEF Alloc
<1>4. CASE b.size >= asize + 8
  <2> DEFINE u == Tag(Tag(m, b.at + asize, b.size - asize, 0), b.at, asize, 1)
             K == Split(L, b, asize, 1, 0)
             n == Blk(b.at, asize, 1)
             o == Blk(b.at + asize, b.size - asize, 0)
  <2>1. Place(m, b.at, asize) = u
    BY <1>2, <1>4 DEF Place
  <2>2. asize < b.size
    BY <1>2, <1>4
  <2>3. n \in K /\ n.at = b.at /\ n.size = asize /\ n.alloc = 1
    BY BlkFields DEF Split
  <2>4. Books(u, K, brk) /\ Keeps(m, u, L \ {b})
    BY <1>1, <2>2, SplitBooks
  <2>5. Tidy(K)
    <3>1. TidyBut(L, b)
      BY TidyIsBut
    <3>2. ASSUME NEW y \in L, y.at = End(b)
          PROVE  y.alloc = 1
      BY <3>2 DEF Tidy
    <3> QED
      BY <1>1, <2>2, <3>1, <3>2, SplitTidy
  <2>6. Alloc(K) = Alloc(L) \cup {n}
    BY <1>1, <1>3, <2>2, SplitAlloc
  <2>7. n \notin Alloc(L)
    <3>1. n \in L => n = b
      BY <1>1, <2>3, SameBlock
    <3> QED
      BY <1>1, <3>1 DEF Alloc
  <2> HIDE DEF u, K, n
  <2>8. Keeps(m, u, Alloc(L))
    BY <1>3, <2>4 DEF Keeps
  <2>9. asize <= n.size
    BY <2>3
  <2> QED
    BY <2>1, <2>3, <2>4, <2>5, <2>6, <2>7, <2>8, <2>9 DEF Given
<1>5. CASE ~ (b.size >= asize + 8)
  <2> DEFINE u == Tag(m, b.at, b.size, 1)
             K == Marked(L, b, 1)
             n == Blk(b.at, b.size, 1)
  <2>1. Place(m, b.at, asize) = u
    BY <1>2, <1>5 DEF Place
  <2>2. n.at = b.at /\ n.size = b.size /\ n.alloc = 1
    BY BlkFields
  <2>3. Books(u, K, brk) /\ Keeps(m, u, L \ {b})
    BY <1>1, MarkBooks
  <2>4. Tidy(K) /\ n \in K /\ Alloc(K) = (Alloc(L) \ {b}) \cup {n}
    <3> DEFINE a == 1
    <3> HIDE DEF a
    <3>1. a \in {0, 1} /\ n = Blk(b.at, b.size, a)
      BY DEF a
    <3>2. a = 1
      BY DEF a
    <3>3. /\ (a = 1 => Tidy(Marked(L, b, a))) /\ n \in Marked(L, b, a)
          /\ Alloc(Marked(L, b, a)) = (Alloc(L) \ {b}) \cup (IF a = 1 THEN {n} ELSE {})
      BY <1>1, <3>1, MarkTidy
    <3> QED
      BY <3>2, <3>3
  <2>5. n \notin Alloc(L)
    <3>1. n \in L => n = b
      BY <1>1, <2>2, SameBlock
    <3> QED
      BY <1>1, <3>1 DEF Alloc
  <2> HIDE DEF u, K, n
  <2>6. Keeps(m, u, Alloc(L))
    BY <1>3, <2>3 DEF Keeps
  <2> QED
    BY <1>3, <2>1, <2>2, <2>3, <2>4, <2>5, <2>6 DEF Given
<1> QED
  BY <1>4, <1>5
LEMMA FreeEffect ==
  ASSUME NEW m, NEW L, NEW brk, Books(m, L, brk), Tidy(L), NEW b \in L, b # Start
  PROVE  Freed(m, L, brk, MmFree(m, b.at), b)
<1> DEFINE u == Tag(m, b.at, b.size, 0)
           K == Marked(L, b, 0)
           n == Blk(b.at, b.size, 0)
           r == Coalesce(u, n.at)
<1>1. Layout(L, brk) /\ BlkSize(m, b.at) = b.size
  BY BlockReads DEF Books
<1>2. n.at = b.at /\ n.alloc = 0
  BY BlkFields
<1>3. MmFree(m, b.at) = r.mem
  BY <1>1, <1>2 DEF MmFree
<1>4. Books(u, K, brk) /\ Keeps(m, u, L \ {b})
  BY MarkBooks
<1>5. n \in K /\ TidyBut(K, n) /\ Alloc(K) = Alloc(L) \ {b}
  <2> DEFINE a == 0
  <2> HIDE DEF a
  <2>1. a \in {0, 1} /\ n = Blk(b.at, b.size, a) /\ a # 1
    BY DEF a
  <2>2. /\ n \in Marked(L, b, a) /\ TidyBut(Marked(L, b, a), n)
        /\ Alloc(Marked(L, b, a)) = (Alloc(L) \ {b}) \cup (IF a = 1 THEN {n} ELSE {})
    BY <1>1, <2>1, MarkTidy
  <2>3. K = Marked(L, b, a)
    BY DEF a
  <2> HIDE DEF n, K
  <2> QED
    BY <2>1, <2>2, <2>3
<1> HIDE DEF u, K, n
<1>6. Merged(u, K, brk, n, r)
  BY <1>2, <1>4, <1>5, CoalesceEffect
<1> HIDE DEF r
<1>7. PICK M : Books(r.mem, M, brk) /\ Tidy(M) /\ Alloc(M) = Alloc(K) /\ Keeps(u, r.mem, Alloc(K))
  BY <1>6 DEF Merged
<1>8. Keeps(m, r.mem, Alloc(L) \ {b})
  BY <1>4, <1>5, <1>7 DEF Keeps, Alloc
<1> QED
  BY <1>3, <1>5, <1>7, <1>8 DEF Freed

(* An allocated block keeps asize bytes, and the rest is merged.           *)
LEMMA CutEffect ==
  ASSUME NEW m, NEW L, NEW brk, Books(m, L, brk), Tidy(L), NEW b \in L, b # Start,
         NEW asize \in Nat, asize % 8 = 0, 8 <= asize, asize < b.size, NEW u,
         u = Tag(Tag(m, b.at + asize, b.size - asize, 0), b.at, asize, 1)
  PROVE  Resized(m, L, brk, Coalesce(u, b.at + asize).mem, b, asize)
<1> DEFINE K == Split(L, b, asize, 1, 0)
           n == Blk(b.at, asize, 1)
           o == Blk(b.at + asize, b.size - asize, 0)
           r == Coalesce(u, o.at)
<1>1. Layout(L, brk)
  BY DEF Books
<1>2. /\ b.at \in Nat /\ b.size \in Nat
  BY <1>1, BlockFacts
<1>3. n \in K /\ n.at = b.at /\ n.size = asize /\ n.alloc = 1
      /\ o \in K /\ o.at = b.at + asize /\ o.alloc = 0 /\ End(n) = b.at + asize
  BY BlkFields DEF Split
<1>4. Books(u, K, brk) /\ Keeps(m, u, L \ {b}) /\ Same(m, u, b.at, b.at + asize - 8)
  BY SplitBooks
<1>5. TidyBut(K, o)
  <2>1. TidyBut(L, b)
    BY TidyIsBut
  <2> QED
    BY <1>1, <2>1, SplitTidy
<1>6. Alloc(K) = (Alloc(L) \ {b}) \cup {n}
  BY <1>1, SplitAlloc
<1> HIDE DEF K, n, o
<1>7. Merged(u, K, brk, o, r)
  BY <1>3, <1>4, <1>5, CoalesceEffect
<1>8. r = Coalesce(u, b.at + asize)
  BY <1>3
<1> HIDE DEF r
<1>9. PICK M : Books(r.mem, M, brk) /\ Tidy(M) /\ Alloc(M) = Alloc(K) /\ Keeps(u, r.mem, Alloc(K))
  BY <1>7 DEF Merged
<1>10. Keeps(m, r.mem, Alloc(L) \ {b})
  BY <1>4, <1>6, <1>9 DEF Keeps, Alloc
<1>11. ASSUME NEW k \in Nat, k + 8 <= b.size, k + 8 <= asize, NEW w \in Words,
              b.at <= w, w < b.at + k
       PROVE  r.mem[w] = m[w]
  <2>1. w \in Nat /\ n.at - 4 <= w /\ w < End(n) - 4 /\ w < b.at + asize - 8
    BY <1>2, <1>3, <1>11, WordTyped
  <2>2. n \in Alloc(K)
    BY <1>6
  <2>3. r.mem[w] = u[w]
    BY <1>9, <2>1, <2>2 DEF Keeps
  <2>4. u[w] = m[w]
    BY <1>4, <1>11, <2>1 DEF Same
  <2> QED
    BY <2>3, <2>4
<1>12. n \in M /\ asize <= n.size
  BY <1>3, <1>6, <1>9 DEF Alloc
<1>13. Resized(m, L, brk, r.mem, b, asize)
  BY <1>3, <1>6, <1>9, <1>10, <1>11, <1>12 DEF Resized, Same
<1> QED
  BY <1>8, <1>13

(* Tag writes these two words.                                             *)
LEMMA TagIs ==
  ASSUME NEW m, Memory(m), NEW at \in Nat, NEW size \in Nat, NEW a \in {0, 1},
         size % 8 = 0, at - 4 \in Words
  PROVE  Tag(m, at, size, a) = PUT(PUT(m, at - 4, size + a), at + size - 8, size + a)
<1> DEFINE h == PUT(m, HDRP(at), PACK(size, a))
<1>1. HDRP(at) = at - 4 /\ PACK(size, a) = size + a /\ size + a \in Nat
  BY Constants DEF HDRP, PACK
<1>2. h = [m EXCEPT ![at - 4] = size + a]
  BY <1>1 DEF PUT
<1>3. GET(h, at - 4) = size + a
  BY <1>2 DEF GET, Memory
<1>4. GET_SIZE(h, at - 4) = size
  BY <1>3, TagArithmetic DEF GET_SIZE
<1>5. FTRP(h, at) = at + size - 8
  BY <1>1, <1>4, Constants DEF FTRP
<1> HIDE DEF h
<1>6. Tag(m, at, size, a) = PUT(h, at + size - 8, size + a)
  BY <1>1, <1>5 DEF Tag, h
<1>7. h = PUT(m, at - 4, size + a)
  BY <1>1 DEF h
<1> QED
  BY <1>6, <1>7

(* The footer of the remainder, found through the old header, is where     *)
(* that of its own header is.                                              *)
LEMMA ShrinkEffect ==
  ASSUME NEW m, NEW L, NEW brk, Books(m, L, brk), Tidy(L), NEW b \in L, b # Start, b.alloc = 1,
         NEW asize \in Nat, asize % 8 = 0, 8 <= asize, asize <= b.size
  PROVE  Resized(m, L, brk, ShrinkBlk(m, b.at, asize), b, asize)
<1> DEFINE at   == b.at
           rest == b.size - asize
           head == PUT(m, at + asize - 4, rest)
           foot == PUT(head, at + b.size - 8, rest)
           u    == Tag(foot, at, asize, 1)
<1>1. /\ Layout(L, brk) /\ Memory(m)
      /\ BlkSize(m, at) = b.size /\ FTRP(m, at) = at + b.size - 8 /\ HDRP(at) = at - 4
  BY BlockReads DEF Books
<1>2. /\ at \in Nat /\ b.size \in Nat /\ b.size % 8 = 0 /\ at % 8 = 0 /\ at - 4 \in Words
      /\ at + b.size - 8 \in Words /\ Base + 8 <= at /\ at + b.size <= brk /\ brk <= Highest
      /\ brk \in Nat
  BY <1>1, BlockFacts
<1>3. CASE b.size > asize + 8
  <2>1. rest \in Nat /\ rest % 8 = 0 /\ asize < b.size /\ HDRP(at + asize) = at + asize - 4
        /\ at + asize \in Nat /\ (at + asize) + rest - 8 = at + b.size - 8 /\ rest + 0 = rest
    <3> HIDE DEF at
    <3>1. rest \in Nat /\ rest % 8 = 0 /\ asize < b.size
      BY <1>2, <1>3
    <3>2. HDRP(at + asize) = at + asize - 4
      BY <1>2, Constants DEF HDRP
    <3>3. at + asize \in Nat /\ (at + asize) + rest - 8 = at + b.size - 8 /\ rest + 0 = rest
      BY <1>2, <3>1
    <3> QED
      BY <3>1, <3>2, <3>3
  <2>2. at + asize - 4 \in Words /\ at + asize - 4 # at - 4
    BY <1>2, <1>3, InWords, Constants
  <2> HIDE DEF at, rest
  <2>3. foot = Tag(m, at + asize, rest, 0)
    <3> DEFINE e == at + asize
    <3>1. e \in Nat /\ e - 4 \in Words /\ e + rest - 8 = at + b.size - 8
      BY <1>2, <2>1, <2>2
    <3> HIDE DEF e
    <3>2. Tag(m, e, rest, 0) = PUT(PUT(m, e - 4, rest + 0), e + rest - 8, rest + 0)
      BY <1>1, <2>1, <3>1, TagIs
    <3>3. Tag(m, e, rest, 0) = PUT(PUT(m, e - 4, rest), at + b.size - 8, rest)
      BY <2>1, <3>1, <3>2
    <3> HIDE DEF head
    <3>4. PUT(head, at + b.size - 8, rest) = Tag(m, at + asize, rest, 0)
      BY <1>2, <2>1, <3>3 DEF e, head
    <3> QED
      BY <3>4
  <2>4. FTRP(head, HDRP(at) + 4) = at + b.size - 8
    <3>1. GET(head, at - 4) = GET(m, at - 4)
      BY <1>1, <1>2, <2>2 DEF GET, PUT, Memory
    <3>2. HDRP(at) + 4 = at
      BY <1>1, <1>2
    <3>3. FTRP(head, at) = FTRP(m, at)
      BY <1>1, <3>1 DEF FTRP, GET_SIZE
    <3> QED
      BY <1>1, <3>2, <3>3
  <2>5. FTRP(head, at) = at + b.size - 8
    BY <1>1, <1>2, <2>4
  <2> HIDE DEF head
  <2>6. ShrinkBlk(m, at, asize) = Coalesce(u, at + asize).mem
    <3>1. head = PUT(m, HDRP(at + asize), rest)
      BY <2>1 DEF head
    <3>2. foot = PUT(head, FTRP(head, at), rest)
      BY <2>5
    <3> HIDE DEF foot
    <3> QED
      BY <1>1, <1>3, <3>1, <3>2, Constants DEF ShrinkBlk, rest
  <2>7. u = Tag(Tag(m, b.at + asize, b.size - asize, 0), b.at, asize, 1)
    BY <2>3 DEF at, rest
  <2> HIDE DEF u
  <2>8. Resized(m, L, brk, Coalesce(u, b.at + asize).mem, b, asize)
    BY <2>1, <2>7, CutEffect
  <2> QED
    BY <2>6, <2>8 DEF at
<1>4. CASE ~ (b.size > asize + 8)
  <2>1. ShrinkBlk(m, b.at, asize) = m
    BY <1>1, <1>4, Constants DEF ShrinkBlk
  <2>2. Keeps(m, m, Alloc(L) \ {b}) /\ \A k \in Nat : Same(m, m, b.at, b.at + k)
    BY DEF Keeps, Same
  <2>3. Alloc(L) = (Alloc(L) \ {b}) \cup {b}
    BY DEF Alloc
  <2> QED
    BY <2>1, <2>2, <2>3 DEF Resized
<1> QED
  BY <1>3, <1>4
(* A block written over another that is as long as it and its rest.        *)
Cut(m, at, s, t) == Tag(Tag(m, at + s, t, 0), at, s, 1)

Whole(m, at, w) == Tag(m, at, w, 1)

(* The tags of a block are no trace of those that were there.              *)
CutFits(at, s, t) ==
  /\ at \in Nat /\ s \in Nat /\ t \in Nat /\ s % 8 = 0 /\ t % 8 = 0 /\ 8 <= s /\ 8 <= t
  /\ at - 4 \in Words /\ at + s - 8 \in Words /\ at + s - 4 \in Words
  /\ at + s + t - 8 \in Words

LEMMA CutAgain ==
  ASSUME NEW m, Memory(m), NEW at, NEW s, NEW t, CutFits(at, s, t), NEW w, w = s + t
  PROVE  Cut(Whole(m, at, w), at, s, t) = Cut(m, at, s, t)
<1> DEFINE e  == at + s
           p1 == at - 4
           p2 == at + s - 8
           p3 == at + s - 4
           p4 == at + s + t - 8
           o(x) == Tag(x, e, t, 0)
           v  == Tag(m, at, s + t, 1)
<1>1. /\ e \in Nat /\ e - 4 = p3 /\ e + t - 8 = p4 /\ at + (s + t) - 8 = p4
      /\ s + t \in Nat /\ (s + t) % 8 = 0
      /\ p1 \in Words /\ p2 \in Words /\ p3 \in Words /\ p4 \in Words
      /\ at \in Nat /\ s \in Nat /\ t \in Nat /\ s % 8 = 0 /\ t % 8 = 0 /\ 8 <= s /\ 8 <= t
  BY DEF CutFits
<1> HIDE DEF e
<1>2. ASSUME NEW x, Memory(x)
      PROVE  /\ o(x) = PUT(PUT(x, p3, t + 0), p4, t + 0) /\ Memory(o(x))
             /\ Tag(o(x), at, s, 1) = PUT(PUT(o(x), p1, s + 1), p2, s + 1)
  <2>1. o(x) = PUT(PUT(x, p3, t + 0), p4, t + 0)
    BY <1>1, <1>2, TagIs
  <2>2. Memory(o(x))
    BY <1>1, <1>2, TagWrites
  <2> HIDE DEF o
  <2>3. Tag(o(x), at, s, 1) = PUT(PUT(o(x), p1, s + 1), p2, s + 1)
    BY <1>1, <2>2, TagIs
  <2> QED
    BY <2>1, <2>2, <2>3
<1>3. v = PUT(PUT(m, p1, (s + t) + 1), p4, (s + t) + 1) /\ Memory(v)
  <2> DEFINE n == s + t
  <2>1. n \in Nat /\ n % 8 = 0 /\ at + n - 8 = p4 /\ v = Tag(m, at, n, 1) /\ p4 \in Words
    BY <1>1
  <2> HIDE DEF n, v
  <2>2. v = PUT(PUT(m, at - 4, n + 1), at + n - 8, n + 1)
    BY <1>1, <2>1, TagIs
  <2>3. Memory(v)
    BY <1>1, <2>1, TagWrites
  <2>4. v = PUT(PUT(m, p1, n + 1), p4, n + 1)
    BY <2>1, <2>2
  <2> QED
    BY <2>3, <2>4 DEF n
<1> HIDE DEF o, p1, p2, p3, p4, v
<1> DEFINE V == Tag(o(v), at, s, 1)
           M == Tag(o(m), at, s, 1)
<1>4. /\ V = PUT(PUT(PUT(PUT(v, p3, t + 0), p4, t + 0), p1, s + 1), p2, s + 1)
      /\ M = PUT(PUT(PUT(PUT(m, p3, t + 0), p4, t + 0), p1, s + 1), p2, s + 1)
  BY <1>2, <1>3
<1> HIDE DEF V, M
<1>5. V = M
  <2> DEFINE x == t + 0
             y == s + 1
             z == (s + t) + 1
  <2>1. /\ V = [[[[v EXCEPT ![p3] = x] EXCEPT ![p4] = x] EXCEPT ![p1] = y] EXCEPT ![p2] = y]
        /\ M = [[[[m EXCEPT ![p3] = x] EXCEPT ![p4] = x] EXCEPT ![p1] = y] EXCEPT ![p2] = y]
        /\ v = [[m EXCEPT ![p1] = z] EXCEPT ![p4] = z]
    BY <1>3, <1>4 DEF PUT
  <2> HIDE DEF x, y, z
  <2>2. m \in [Words -> Nat] /\ DOMAIN m = Words
    BY DEF Memory
  <2> QED
    BY <1>1, <2>1, <2>2
<1>6. V = Cut(Whole(m, at, w), at, s, t) /\ M = Cut(m, at, s, t)
  BY DEF V, M, o, e, v, Cut, Whole
<1> QED
  BY <1>5, <1>6

(* An allocated block takes the free one behind it.                        *)
Absorbing(m, b, c) == Tag(m, b.at, b.size + c.size, 1)

Both(b, c) == Blk(b.at, b.size + c.size, 1)

Absorbed(L, b, c) == Joined(L, b, c, 1)

LEMMA AbsorbBooks ==
  ASSUME NEW m, NEW L, NEW brk, Books(m, L, brk), Tidy(L),
         NEW b \in L, b # Start, NEW c \in L, c.at = End(b), c.alloc = 0
  PROVE  /\ Books(Absorbing(m, b, c), Absorbed(L, b, c), brk) /\ Tidy(Absorbed(L, b, c))
         /\ Both(b, c) \in Absorbed(L, b, c) /\ Both(b, c) # Start
         /\ \A x : x \in Alloc(Absorbed(L, b, c))
                    <=> x = Both(b, c) \/ (x \in Alloc(L) /\ x # b)
         /\ Both(b, c) \notin L
         /\ Keeps(m, Absorbing(m, b, c), Alloc(L) \ {b})
         /\ Same(m, Absorbing(m, b, c), b.at, b.at + b.size - 8)
<1> DEFINE K  == Absorbed(L, b, c)
           u  == Absorbing(m, b, c)
           n  == Both(b, c)
           at == b.at
           s  == b.size + c.size
<1>1. Layout(L, brk) /\ Memory(m)
  BY DEF Books
<1>2. /\ at \in Nat /\ b.size \in Nat /\ b.size % 8 = 0 /\ 8 <= b.size /\ End(b) = at + b.size
      /\ c.size \in Nat /\ c.size % 8 = 0 /\ 8 <= c.size /\ End(c) = c.at + c.size
      /\ c.at + c.size - 8 \in Words /\ at - 4 \in Words
  BY <1>1, BlockFacts
<1>3. s \in Nat /\ s % 8 = 0 /\ 8 <= s /\ at + s - 8 \in Words
  <2>1. s \in Nat /\ s % 8 = 0 /\ 8 <= s /\ at + s - 8 = c.at + c.size - 8
    BY <1>2
  <2> QED
    BY <1>2, <2>1
<1>4. n.at = at /\ n.size = s /\ n.alloc = 1 /\ End(n) = at + s
  BY BlkFields DEF Both
<1>5. \A x : x \in K <=> x = n \/ (x \in L /\ x # b /\ x # c)
  BY DEF Joined, Absorbed, Both
<1>6. Layout(K, brk)
  BY <1>1, JoinLayout DEF Absorbed
<1>7. u = Tag(m, at, s, 1) /\ n = Blk(at, s, 1) /\ s > b.size
  BY <1>2 DEF Absorbing, Both
<1> HIDE DEF K, at, s, u, n
<1>8. Memory(u) /\ Tagged(u, n) /\ OnlyAt(m, u, at - 4, at + s - 8)
  BY <1>1, <1>2, <1>3, <1>7, TagWrites
<1>9. Within(m, u, n.at, End(n))
  BY <1>2, <1>3, <1>4, <1>8, TagsInside
<1>10. Books(u, K, brk) /\ Keeps(m, u, K \ {n})
  BY <1>5, <1>6, <1>8, <1>9, OneNew
<1>11. n \notin L /\ n # Start
  <2>1. n \in L => n = b
    BY <1>1, <1>4, SameBlock DEF at
  <2>2. n # b
    BY <1>2, <1>4, <1>7
  <2> QED
    BY <1>1, <2>1, <2>2 DEF Layout
<1>12. \A x : x \in Alloc(K) <=> x = n \/ (x \in Alloc(L) /\ x # b)
  BY <1>4, <1>5 DEF Alloc
<1>13. Keeps(m, u, Alloc(L) \ {b})
  <2>1. \A x \in Alloc(L) \ {b} : x \in K \ {n}
    BY <1>5, <1>11 DEF Alloc
  <2> QED
    BY <1>10, <2>1 DEF Keeps
<1>14. Same(m, u, at, at + b.size - 8)
  <2> SUFFICES ASSUME NEW w \in Words, at <= w, w < at + b.size - 8 PROVE u[w] = m[w]
    BY DEF Same
  <2>1. w \in Nat /\ w # at - 4 /\ w # at + s - 8
    BY <1>2, <1>3, <1>7, WordTyped
  <2> QED
    BY <1>8, <2>1 DEF OnlyAt
<1>15. Tidy(K)
  <2> SUFFICES ASSUME NEW x \in K, NEW y \in K, End(x) = y.at PROVE x.alloc = 1 \/ y.alloc = 1
    BY DEF Tidy
  <2> QED
    BY <1>4, <1>5 DEF Tidy
<1> QED
  BY <1>5, <1>10, <1>11, <1>12, <1>13, <1>14, <1>15 DEF K, at, u, n
(* The block at End(b) is a free block of the layout.                      *)
LEMMA FreeBehind ==
  ASSUME NEW m, NEW L, NEW brk, Books(m, L, brk), NEW b \in L, IsFree(m, NEXT_BLKP(m, b.at))
  PROVE  \E c \in L : /\ c.at = End(b) /\ c.alloc = 0
                      /\ BlkSize(m, NEXT_BLKP(m, b.at)) = c.size
<1>1. NEXT_BLKP(m, b.at) = End(b)
  BY BlockReads
<1>2. End(b) # brk
  BY <1>1, EndReads
<1>3. PICK c \in L : c.at = End(b)
  BY <1>2 DEF Layout, Books
<1>4. c.alloc = 0 /\ BlkSize(m, c.at) = c.size
  BY <1>1, <1>3, BlockReads
<1> QED
  BY <1>1, <1>3, <1>4

LEMMA ExtendEffect ==
  ASSUME NEW m, NEW L, NEW brk, Books(m, L, brk), Tidy(L), NEW b \in L, b # Start, b.alloc = 1,
         NEW asize \in Nat, asize % 8 = 0, 8 <= asize, Room(m, b.at, asize)
  PROVE  Resized(m, L, brk, ExtendBlk(m, b.at, asize), b, asize)
<1>1. PICK c \in L : c.at = End(b) /\ c.alloc = 0 /\ BlkSize(m, NEXT_BLKP(m, b.at)) = c.size
  BY FreeBehind DEF Room
<1> DEFINE at == b.at
           s  == b.size + c.size
           n  == Blk(at, s, 1)
           v  == Tag(m, at, s, 1)
           K  == Joined(L, b, c, 1)
<1>2. /\ Layout(L, brk) /\ Memory(m) /\ BlkSize(m, at) = b.size
  BY BlockReads DEF Books
<1>3. /\ at \in Nat /\ b.size \in Nat /\ b.size % 8 = 0 /\ 8 <= b.size /\ End(b) = at + b.size
      /\ c.size \in Nat /\ c.size % 8 = 0 /\ 8 <= c.size /\ End(c) = c.at + c.size
      /\ c.at + c.size - 8 \in Words /\ at - 4 \in Words /\ at % 8 = 0
      /\ End(c) <= brk /\ brk <= Highest /\ brk \in Nat /\ Base + 8 <= at
  BY <1>2, BlockFacts
<1>4. s \in Nat /\ s % 8 = 0 /\ asize <= s /\ BlkSize(m, at) + BlkSize(m, NEXT_BLKP(m, at)) = s
      /\ b.size <= s
  <2>1. s \in Nat /\ s % 8 = 0 /\ b.size <= s
    BY <1>3
  <2>2. asize <= s
    BY <1>1, <1>2, <1>3 DEF Room
  <2> QED
    BY <1>1, <1>2, <2>1, <2>2
<1>5. /\ Books(v, K, brk) /\ Tidy(K) /\ n \in K /\ n # Start
      /\ Alloc(K) = (Alloc(L) \ {b}) \cup {n} /\ n \notin L
      /\ Keeps(m, v, Alloc(L) \ {b}) /\ Same(m, v, at, at + b.size - 8)
  <2>1. v = Absorbing(m, b, c) /\ n = Both(b, c) /\ K = Absorbed(L, b, c)
    BY DEF Absorbing, Both, Absorbed
  <2> HIDE DEF v, n, K, at
  <2>2. Books(v, K, brk) /\ Tidy(K) /\ n \in K /\ n # Start
    BY <1>1, <2>1, AbsorbBooks
  <2>3. Alloc(K) = (Alloc(L) \ {b}) \cup {n} /\ n \notin L
    <3>1. \A x : x \in Alloc(Absorbed(L, b, c)) <=> x = Both(b, c) \/ (x \in Alloc(L) /\ x # b)
      BY <1>1, AbsorbBooks
    <3>2. Both(b, c) \notin L
      BY <1>1, AbsorbBooks
    <3> QED
      BY <2>1, <3>1, <3>2
  <2>4. Keeps(m, v, Alloc(L) \ {b}) /\ Same(m, v, b.at, b.at + b.size - 8)
    BY <1>1, <2>1, AbsorbBooks
  <2>5. Same(m, v, at, at + b.size - 8)
    BY <2>4 DEF at
  <2> QED
    BY <2>2, <2>3, <2>4, <2>5
<1>6. n.at = at /\ n.size = s /\ n.alloc = 1
  BY BlkFields
<1> HIDE DEF s, n, v, K, at
<1>7. Alloc(K) \ {n} = Alloc(L) \ {b}
  <2>1. n \notin Alloc(L)
    BY <1>5 DEF Alloc
  <2> QED
    BY <1>5, <2>1
<1>8. CASE s > asize + 8
  <2> DEFINE t == s - asize
             u == Tag(Tag(v, at + asize, t, 0), at, asize, 1)
             w == Coalesce(u, at + asize).mem
  <2>1. t \in Nat /\ t % 8 = 0 /\ 8 <= t /\ s = asize + t /\ asize < s
    BY <1>4, <1>8
  <2>2. at + asize - 8 \in Words /\ at + asize - 4 \in Words /\ at + asize + t - 8 \in Words
    <3>1. at + s <= brk
      BY <1>1, <1>3 DEF s
    <3>2. at + asize + t <= brk
      BY <1>3, <1>4, <2>1, <3>1
    <3> QED
      <4> HIDE DEF t
      <4> QED
        BY <1>3, <2>1, <3>2, InWords, Constants
  <2> HIDE DEF t
  <2>3. u = Tag(Tag(m, at + asize, t, 0), at, asize, 1)
    <3>1. v = Whole(m, at, s)
      BY DEF v, Whole
    <3> HIDE DEF v
    <3>2. Memory(m) /\ at \in Nat /\ t \in Nat /\ t % 8 = 0 /\ 8 <= t /\ at - 4 \in Words
      BY <1>2, <1>3, <2>1
    <3>5. CutFits(at, asize, t)
      BY <2>2, <3>2 DEF CutFits
    <3>3. Cut(Whole(m, at, s), at, asize, t) = Cut(m, at, asize, t)
      BY <2>1, <3>2, <3>5, CutAgain
    <3>4. Cut(v, at, asize, t) = Cut(m, at, asize, t)
      BY <3>1, <3>3
    <3> QED
      BY <3>4 DEF Cut
  <2>4. ExtendBlk(m, b.at, asize) = w
    <3> HIDE DEF u
    <3>1. DSIZE = 8
      BY Constants
    <3>2. ExtendBlk(m, at, asize)
            = Coalesce(Tag(Tag(m, at + asize, s - asize, 0), at, asize, 1), at + asize).mem
      BY <1>4, <1>8, <3>1 DEF ExtendBlk
    <3>3. ExtendBlk(m, at, asize)
            = Coalesce(Tag(Tag(m, at + asize, t, 0), at, asize, 1), at + asize).mem
      BY <3>2 DEF t
    <3> QED
      BY <2>3, <3>3 DEF at
  <2>5. Resized(v, K, brk, w, n, asize)
    <3>1. u = Tag(Tag(v, n.at + asize, n.size - asize, 0), n.at, asize, 1)
      BY <1>6 DEF t
    <3>2. w = Coalesce(u, n.at + asize).mem
      BY <1>6
    <3> HIDE DEF u, w
    <3>3. asize < n.size
      BY <1>6, <2>1
    <3> QED
      BY <1>5, <3>1, <3>2, <3>3, CutEffect
  <2> HIDE DEF u, w
  <2>6. PICK M : /\ Books(w, M, brk) /\ Tidy(M) /\ Keeps(v, w, Alloc(K) \ {n})
                 /\ \A k \in Nat : k + 8 <= n.size /\ k + 8 <= asize => Same(v, w, n.at, n.at + k)
                 /\ \E x \in M : /\ x.at = n.at /\ asize <= x.size /\ x.alloc = 1
                                 /\ Alloc(M) = (Alloc(K) \ {n}) \cup {x}
    BY <2>5 DEF Resized
  <2>7. Keeps(m, w, Alloc(L) \ {b})
    BY <1>5, <1>7, <2>6 DEF Keeps
  <2>8. ASSUME NEW k \in Nat, k + 8 <= b.size, k + 8 <= asize
        PROVE  Same(m, w, b.at, b.at + k)
    <3>1. k + 8 <= n.size
      BY <1>3, <1>4, <1>6, <2>8
    <3>2. Same(v, w, at, at + k)
      BY <1>6, <2>6, <2>8, <3>1
    <3>3. \A q \in Words : q < at + k => q < at + b.size - 8
      BY <1>3, <2>8, WordTyped
    <3> QED
      BY <1>5, <3>2, <3>3 DEF Same, at
  <2> QED
    BY <1>6, <1>7, <2>4, <2>6, <2>7, <2>8 DEF Resized, at
<1>9. CASE ~ (s > asize + 8)
  <2>1. ExtendBlk(m, at, asize) = v
    <3>1. DSIZE = 8
      BY Constants
    <3> QED
      BY <1>4, <1>9, <3>1 DEF ExtendBlk, v
  <2>2. ASSUME NEW k \in Nat, k + 8 <= b.size, k + 8 <= asize
        PROVE  Same(m, v, b.at, b.at + k)
    <3>1. \A q \in Words : q < at + k => q < at + b.size - 8
      BY <1>3, <2>2, WordTyped
    <3> QED
      BY <1>5, <3>1 DEF Same, at
  <2>3. n.at = b.at /\ asize <= n.size
    BY <1>4, <1>6 DEF at
  <2>4. Resized(m, L, brk, v, b, asize)
    BY <1>5, <1>6, <2>2, <2>3 DEF Resized
  <2> QED
    BY <2>1, <2>4 DEF at
<1> QED
  BY <1>8, <1>9

-----------------------------------------------------------------------------
(* Walks over the blocks.                                                  *)

(* A walk by next from anywhere stops in Z, at H at the latest.            *)
WalkOf(S, H, Z, next, turn, base) ==
  /\ H \in Nat /\ next \in [Nat -> Nat] /\ turn \in [Nat \X S -> S] /\ base \in [Nat -> S]
  /\ \A p \in Nat : p \notin Z => p < next[p] /\ p < H

WalkRun(S, Z, next, turn, base, f) ==
  /\ f \in [Nat -> S]
  /\ \A p \in Nat : f[p] = IF p \in Z THEN base[p] ELSE turn[<<p, f[next[p]]>>]

LEMMA WalkRuns ==
  ASSUME NEW S, NEW H, NEW Z, NEW next, NEW turn, NEW base, WalkOf(S, H, Z, next, turn, base)
  PROVE  \E f : WalkRun(S, Z, next, turn, base, f)
<1> DEFINE Eq(f, p) == f[p] = IF p \in Z THEN base[p] ELSE turn[<<p, f[next[p]]>>]
           Run(k, f) == f \in [Nat -> S] /\ \A p \in Nat : H <= p + k => Eq(f, p)
           T == {k \in 0 .. H : \E f : Run(k, f)}
<1>1. /\ H \in Nat /\ next \in [Nat -> Nat] /\ turn \in [Nat \X S -> S] /\ base \in [Nat -> S]
      /\ \A p \in Nat : p \notin Z => p < next[p] /\ p < H
  BY DEF WalkOf
<1>2. 0 \in T
  <2>1. ASSUME NEW p \in Nat, H <= p + 0
        PROVE  Eq(base, p)
    <3>1. p \in Z
      BY <1>1, <2>1
    <3> QED
      BY <3>1
  <2>2. Run(0, base)
    BY <1>1, <2>1
  <2>3. 0 \in 0 .. H
    BY <1>1
  <2> HIDE DEF Run
  <2> QED
    BY <2>2, <2>3
<1>3. ASSUME NEW k \in 1 .. H, k - 1 \in T
      PROVE  k \in T
  <2>1. PICK f : Run(k - 1, f)
    BY <1>3
  <2> DEFINE q == H - k
             v == IF q \in Z THEN base[q] ELSE turn[<<q, f[next[q]]>>]
             g == [f EXCEPT ![q] = v]
  <2>2. q \in Nat /\ k \in 0 .. H /\ k \in Nat
    BY <1>1
  <2>3. v \in S
    <3>1. next[q] \in Nat /\ base[q] \in S
      BY <1>1, <2>2
    <3>2. f[next[q]] \in S
      BY <2>1, <3>1
    <3>3. turn[<<q, f[next[q]]>>] \in S
      BY <1>1, <2>2, <3>2
    <3> QED
      BY <3>1, <3>3
  <2> HIDE DEF q, v
  <2>4. g \in [Nat -> S] /\ g[q] = v /\ \A p \in Nat : p # q => g[p] = f[p]
    BY <2>1, <2>2, <2>3
  <2> HIDE DEF g
  <2>5. ASSUME NEW p \in Nat, H <= p + k
        PROVE  Eq(g, p)
    <3>1. CASE p = q
      <4>1. p \notin Z => next[p] \in Nat /\ next[p] # q
        BY <1>1, <2>2, <3>1
      <4>2. p \notin Z => g[next[p]] = f[next[p]]
        BY <2>4, <4>1
      <4> QED
        BY <2>4, <3>1, <4>2 DEF v
    <3>2. CASE p # q
      <4>1. H <= p + (k - 1)
        BY <1>1, <2>2, <2>5, <3>2 DEF q
      <4>2. Eq(f, p)
        BY <2>1, <4>1
      <4>3. p \notin Z => next[p] \in Nat /\ next[p] # q
        <5>1. p > q
          BY <1>1, <2>2, <2>5, <3>2 DEF q
        <5> QED
          BY <1>1, <2>2, <5>1
      <4>4. g[p] = f[p] /\ (p \notin Z => g[next[p]] = f[next[p]])
        BY <2>4, <3>2, <4>3
      <4> QED
        BY <4>2, <4>4
    <3> QED
      BY <3>1, <3>2
  <2>6. Run(k, g)
    BY <2>4, <2>5
  <2> HIDE DEF Run
  <2> QED
    BY <2>2, <2>6
<1>4. H \in T
  <2> HIDE DEF T
  <2> QED
    BY <1>1, <1>2, <1>3, UpTo
<1>5. PICK f : Run(H, f)
  BY <1>4
<1>6. \A p \in Nat : H <= p + H
  BY <1>1
<1> QED
  BY <1>5, <1>6 DEF WalkRun

(* What holds of the last block, and of each whose neighbour it holds of.  *)
LEMMA FromTheEnd ==
  ASSUME NEW L, NEW brk, Layout(L, brk), NEW T,
         \A b \in L : (End(b) = brk \/ \E c \in L : c \in T /\ c.at = End(b)) => b \in T
  PROVE  \A b \in L : b \in T
<1> SUFFICES ASSUME L \ T # {} PROVE FALSE
  OBVIOUS
<1> DEFINE D == {brk - b.at : b \in L \ T}
<1>1. \A b \in L : b.at \in Nat /\ b.size \in Nat /\ 8 <= b.size /\ End(b) = b.at + b.size
                   /\ brk - b.at \in Nat /\ brk \in Nat
  BY BlockFacts
<1>2. D \in SUBSET Nat /\ D # {}
  BY <1>1
<1>3. PICK d \in D : \A e \in D : d <= e
  BY <1>2, LeastOf
<1>4. PICK b \in L \ T : d = brk - b.at
  BY <1>3
<1>5. End(b) # brk
  BY <1>4
<1>6. PICK c \in L : c.at = End(b)
  BY <1>4, <1>5 DEF Layout
<1>7. c \notin T
  BY <1>4, <1>6
<1>8. brk - b.at <= brk - c.at
  BY <1>3, <1>4, <1>6, <1>7
<1> QED
  BY <1>1, <1>4, <1>6, <1>8

(* The step of a walk.                                                     *)
LEMMA NextTyped ==
  ASSUME NEW m, Memory(m), NEW p \in Nat
  PROVE  /\ BlkSize(m, p) \in Nat /\ NEXT_BLKP(m, p) = p + BlkSize(m, p)
         /\ NEXT_BLKP(m, p) \in Nat
         /\ BlkSize(m, p) # 0 => p < NEXT_BLKP(m, p) /\ p < Highest + 8
<1> DEFINE v == GET(m, p - 4)
<1>1. v \in Nat /\ (p - 4 \notin Words => v = 0)
  BY DEF GET, Memory
<1>2. p - 4 \in Words => p < Highest + 8
  BY Constants, InWords
<1>3. HDRP(p) = p - 4 /\ p - WSIZE = p - 4
  BY Constants DEF HDRP
<1>4. BlkSize(m, p) = v - (v % 8)
  BY <1>3 DEF BlkSize, GET_SIZE
<1> HIDE DEF v
<1>5. v - (v % 8) \in Nat /\ (v = 0 => v - (v % 8) = 0)
  BY <1>1
<1>6. NEXT_BLKP(m, p) = p + BlkSize(m, p)
  BY <1>3 DEF BlkSize, NEXT_BLKP
<1> QED
  BY <1>1, <1>2, <1>4, <1>5, <1>6
(* find_fit gives a free block that is large enough, if anything.          *)
LEMMA FirstFitIs ==
  ASSUME NEW m, NEW L, NEW brk, Books(m, L, brk), NEW asize \in Nat
  PROVE  \/ FirstFit(m, asize) = 0
         \/ \E c \in L : c.alloc = 0 /\ c.at = FirstFit(m, asize) /\ asize <= c.size
<1> DEFINE Step(f) == [bp \in Nat |->
             IF BlkSize(m, bp) = 0 THEN 0
             ELSE IF IsFree(m, bp) /\ BlkSize(m, bp) >= asize THEN bp
             ELSE f[NEXT_BLKP(m, bp)]]
           from == CHOOSE f : f = Step(f)
           Z    == {p \in Nat : BlkSize(m, p) = 0 \/ (IsFree(m, p) /\ BlkSize(m, p) >= asize)}
           base == [p \in Nat |-> IF BlkSize(m, p) = 0 THEN 0 ELSE p]
           next == [p \in Nat |-> NEXT_BLKP(m, p)]
           turn == [x \in Nat \X Nat |-> x[2]]
           H    == Highest + 8
<1>1. Memory(m) /\ Layout(L, brk)
  BY DEF Books
<1>2. FirstFit(m, asize) = from[Prologue]
  BY DEF FirstFit
<1>3. /\ H \in Nat /\ next \in [Nat -> Nat] /\ turn \in [Nat \X Nat -> Nat]
      /\ base \in [Nat -> Nat]
      /\ \A p \in Nat : p \notin Z => p < next[p] /\ p < H
  <2>1. \A p \in Nat : NEXT_BLKP(m, p) \in Nat
                       /\ (BlkSize(m, p) # 0 => p < NEXT_BLKP(m, p) /\ p < Highest + 8)
    BY <1>1, NextTyped
  <2>2. H \in Nat
    BY Constants
  <2>3. next \in [Nat -> Nat] /\ turn \in [Nat \X Nat -> Nat] /\ base \in [Nat -> Nat]
    BY <2>1
  <2>4. ASSUME NEW p \in Nat, p \notin Z
        PROVE  p < next[p] /\ p < H
    BY <2>1, <2>4
  <2> QED
    BY <2>2, <2>3, <2>4
<1>4. \A p, x \in Nat : turn[<<p, x>>] = x
  OBVIOUS
<1>5. PICK f : WalkRun(Nat, Z, next, turn, base, f)
  <2> HIDE DEF H, Z, next, turn, base
  <2>1. WalkOf(Nat, H, Z, next, turn, base)
    BY <1>3 DEF WalkOf
  <2> QED
    BY <2>1, WalkRuns
<1>6. f = Step(f)
  <2>1. f \in [Nat -> Nat] /\ \A p \in Nat : f[p] = IF p \in Z THEN base[p] ELSE turn[<<p, f[next[p]]>>]
    BY <1>5 DEF WalkRun
  <2>2. ASSUME NEW p \in Nat
        PROVE  f[p] = Step(f)[p]
    <3>1. next[p] = NEXT_BLKP(m, p) /\ next[p] \in Nat
      BY <1>3
    <3>2. turn[<<p, f[next[p]]>>] = f[next[p]]
      <4> HIDE DEF turn, next
      <4> QED
        BY <1>4, <2>1, <3>1
    <3>3. f[p] = IF p \in Z THEN base[p] ELSE f[NEXT_BLKP(m, p)]
      <4> HIDE DEF turn, next, Z, base
      <4> QED
        BY <2>1, <3>1, <3>2
    <3> QED
      BY <3>3
  <2> QED
    BY <2>1, <2>2
<1>7. from = Step(from)
  BY <1>6
<1> HIDE DEF from, Z, next, turn, base, H
<1>8. \A p \in Nat : from[p] = IF BlkSize(m, p) = 0 THEN 0
                               ELSE IF IsFree(m, p) /\ BlkSize(m, p) >= asize THEN p
                               ELSE from[NEXT_BLKP(m, p)]
  BY <1>7
<1> DEFINE Good(x) == x = 0 \/ \E c \in L : c.alloc = 0 /\ c.at = x /\ asize <= c.size
           T == {b \in L : Good(from[b.at])}
<1>9. ASSUME NEW b \in L, End(b) = brk \/ \E c \in L : c \in T /\ c.at = End(b)
      PROVE  b \in T
  <2>1. /\ b.at \in Nat /\ BlkSize(m, b.at) = b.size /\ b.size \in Nat /\ 8 <= b.size
        /\ (IsFree(m, b.at) <=> b.alloc = 0) /\ NEXT_BLKP(m, b.at) = End(b)
    BY <1>1, BlockFacts, BlockReads
  <2>2. CASE b.alloc = 0 /\ b.size >= asize
    <3>1. from[b.at] = b.at
      BY <1>8, <2>1, <2>2
    <3> QED
      BY <2>1, <2>2, <3>1
  <2>3. CASE ~ (b.alloc = 0 /\ b.size >= asize)
    <3>1. from[b.at] = from[End(b)]
      BY <1>8, <2>1, <2>3
    <3>2. CASE End(b) = brk
      <4>1. BlkSize(m, brk) = 0 /\ brk \in Nat
        BY <1>1, EndReads DEF Layout
      <4>2. from[brk] = 0
        BY <1>8, <4>1
      <4> QED
        BY <3>1, <3>2, <4>2
    <3>3. CASE \E c \in L : c \in T /\ c.at = End(b)
      <4>1. Good(from[End(b)])
        BY <3>3
      <4> HIDE DEF Good
      <4> QED
        BY <3>1, <4>1
    <3> QED
      BY <1>9, <3>2, <3>3
  <2> QED
    BY <2>2, <2>3
<1>10. \A b \in L : b \in T
  <2> HIDE DEF T
  <2> QED
    BY <1>1, <1>9, FromTheEnd
<1>11. Start \in L /\ Start.at = Prologue
  BY <1>1, StartFields, Constants DEF Layout
<1> QED
  BY <1>2, <1>10, <1>11

(* The walk over the headers is the layout.                                *)
LEMMA BlocksAre ==
  ASSUME NEW L, Books(mem, L, mem_brk), Ready
  PROVE  Blocks = {b.at : b \in L} \cup {mem_brk}
<1> DEFINE m   == mem
           brk == mem_brk
           S   == SUBSET Nat
           Step(f) == [bp \in Nat |->
             IF BlkSize(m, bp) = 0 THEN {bp} ELSE {bp} \cup f[NEXT_BLKP(m, bp)]]
           from == CHOOSE f : f = Step(f)
           Z    == {p \in Nat : BlkSize(m, p) = 0}
           base == [p \in Nat |-> {p}]
           next == [p \in Nat |-> NEXT_BLKP(m, p)]
           turn == [x \in Nat \X S |-> {x[1]} \cup x[2]]
           H    == Highest + 8
<1>1. Memory(m) /\ Layout(L, brk)
  BY DEF Books
<1>2. Blocks = from[Prologue]
  BY DEF Blocks
<1>3. /\ H \in Nat /\ next \in [Nat -> Nat] /\ turn \in [Nat \X S -> S]
      /\ base \in [Nat -> S]
      /\ \A p \in Nat : p \notin Z => p < next[p] /\ p < H
  <2>1. \A p \in Nat : NEXT_BLKP(m, p) \in Nat
                       /\ (BlkSize(m, p) # 0 => p < NEXT_BLKP(m, p) /\ p < Highest + 8)
    BY <1>1, NextTyped
  <2>2. H \in Nat
    BY Constants
  <2>3. next \in [Nat -> Nat] /\ base \in [Nat -> S]
    BY <2>1
  <2>4. turn \in [Nat \X S -> S]
    OBVIOUS
  <2>5. ASSUME NEW p \in Nat, p \notin Z
        PROVE  p < next[p] /\ p < H
    BY <2>1, <2>5
  <2> QED
    BY <2>2, <2>3, <2>4, <2>5
<1>4. \A p \in Nat, x \in S : turn[<<p, x>>] = {p} \cup x
  OBVIOUS
<1>5. PICK f : WalkRun(S, Z, next, turn, base, f)
  <2> HIDE DEF H, Z, next, turn, base, S
  <2>1. WalkOf(S, H, Z, next, turn, base)
    BY <1>3 DEF WalkOf
  <2> QED
    BY <2>1, WalkRuns
<1>6. f = Step(f)
  <2>1. f \in [Nat -> S] /\ \A p \in Nat : f[p] = IF p \in Z THEN base[p] ELSE turn[<<p, f[next[p]]>>]
    BY <1>5 DEF WalkRun
  <2>2. ASSUME NEW p \in Nat
        PROVE  f[p] = Step(f)[p]
    <3>1. next[p] = NEXT_BLKP(m, p) /\ next[p] \in Nat
      BY <1>3
    <3>2. turn[<<p, f[next[p]]>>] = {p} \cup f[next[p]]
      <4> HIDE DEF turn, next, S
      <4> QED
        BY <1>4, <2>1, <3>1
    <3>3. f[p] = IF p \in Z THEN base[p] ELSE {p} \cup f[NEXT_BLKP(m, p)]
      <4> HIDE DEF turn, next, Z, base, S
      <4> QED
        BY <2>1, <3>1, <3>2
    <3> QED
      BY <3>3
  <2> QED
    BY <2>1, <2>2
<1>7. from = Step(from)
  BY <1>6
<1> HIDE DEF from, Z, next, turn, base, H, S, m, brk
<1>8. \A p \in Nat : from[p] = IF BlkSize(m, p) = 0 THEN {p} ELSE {p} \cup from[NEXT_BLKP(m, p)]
  BY <1>7
<1> DEFINE Behind(b) == {c \in L : b.at <= c.at}
           T == {b \in L : from[b.at] = {c.at : c \in Behind(b)} \cup {brk}}
<1>9. Books(m, L, brk)
  BY DEF m, brk
<1>10. ASSUME NEW b \in L, End(b) = brk \/ \E c \in L : c \in T /\ c.at = End(b)
       PROVE  b \in T
  <2>1. /\ b.at \in Nat /\ BlkSize(m, b.at) = b.size /\ b.size \in Nat /\ 8 <= b.size
        /\ NEXT_BLKP(m, b.at) = End(b) /\ End(b) = b.at + b.size /\ brk \in Nat
    <3>1. /\ b.at \in Nat /\ b.size \in Nat /\ 8 <= b.size
          /\ End(b) = b.at + b.size /\ brk \in Nat
      BY <1>1, BlockFacts
    <3>2. BlkSize(m, b.at) = b.size /\ NEXT_BLKP(m, b.at) = End(b)
      BY <1>9, BlockReads
    <3> QED
      BY <3>1, <3>2
  <2>2. from[b.at] = {b.at} \cup from[End(b)]
    <3>1. from[b.at] = IF BlkSize(m, b.at) = 0 THEN {b.at}
                       ELSE {b.at} \cup from[NEXT_BLKP(m, b.at)]
      <4>1. b.at \in Nat
        BY <2>1
      <4> QED
        BY ONLY <1>8, <4>1
    <3>2. BlkSize(m, b.at) # 0
      BY <2>1
    <3>3. from[b.at] = {b.at} \cup from[NEXT_BLKP(m, b.at)]
      BY ONLY <3>1, <3>2
    <3> QED
      BY <2>1, <3>3
  <2>3. \A x \in L : /\ x.at \in Nat /\ x.size \in Nat /\ 8 <= x.size
                     /\ End(x) = x.at + x.size /\ End(x) <= brk
                     /\ (x = b \/ End(x) <= b.at \/ End(b) <= x.at)
    <3>1. \A x \in L : /\ x.at \in Nat /\ x.size \in Nat /\ 8 <= x.size
                       /\ End(x) = x.at + x.size /\ End(x) <= brk
      BY <1>1, BlockFacts
    <3>2. \A x \in L : x = b \/ End(x) <= b.at \/ End(b) <= x.at
      BY <1>1 DEF Layout, Apart
    <3> QED
      BY <3>1, <3>2
  <2>4. CASE End(b) = brk
    <3>1. from[brk] = {brk}
      BY <1>8, <1>9, <2>1, EndReads
    <3>2. Behind(b) = {b}
      BY <2>1, <2>3, <2>4
    <3> QED
      BY <2>2, <2>4, <3>1, <3>2
  <2>5. CASE \E c \in L : c \in T /\ c.at = End(b)
    <3>1. PICK c \in L : c \in T /\ c.at = End(b)
      BY <2>5
    <3>2. Behind(b) = {b} \cup Behind(c)
      BY <2>1, <2>3, <3>1
    <3>3. from[End(b)] = {x.at : x \in Behind(c)} \cup {brk}
      BY <3>1
    <3> QED
      BY <2>2, <3>2, <3>3
  <2> QED
    BY <1>10, <2>4, <2>5
<1>11. \A b \in L : b \in T
  <2> HIDE DEF T
  <2> QED
    BY <1>1, <1>10, FromTheEnd
<1>12. Start \in L /\ Start.at = Prologue /\ Prologue \in Nat
  BY <1>1, StartFields, Constants DEF Layout
<1>13. Behind(Start) = L
  BY <1>1, <1>12 DEF Layout
<1> QED
  BY <1>2, <1>11, <1>12, <1>13 DEF brk

-----------------------------------------------------------------------------
(* Growing.                                                                *)

LEMMA AsizeFacts ==
  ASSUME NEW size \in Nat
  PROVE  Asize(size) \in Nat /\ Asize(size) % 8 = 0 /\ 8 <= Asize(size) /\ size + 8 <= Asize(size)
<1>1. CASE size <= 8
  <2>1. Asize(size) = 16
    BY <1>1, Constants DEF Asize
  <2> QED
    BY <1>1, <2>1
<1>2. CASE ~ (size <= 8)
  <2>1. Asize(size) = 8 * ((size + 8 + (8 - 1)) \div 8)
    BY <1>2, Constants DEF Asize
  <2> DEFINE a == 8 * ((size + 8 + (8 - 1)) \div 8)
  <2>2. a \in Nat /\ a % 8 = 0 /\ 8 <= a /\ size + 8 <= a
    BY <1>2
  <2> HIDE DEF a
  <2> QED
    BY <2>1, <2>2
<1> QED
  BY <1>1, <1>2

LEMMA ExtensionIs ==
  ASSUME NEW bytes \in Nat, bytes % 8 = 0
  PROVE  Extension(bytes) = bytes
<1>1. (bytes \div 4) % 2 # 1 /\ (bytes \div 4) * 4 = bytes
  OBVIOUS
<1> QED
  BY <1>1, Constants DEF Extension

(* What extend_heap leaves: a free block of size bytes or more.            *)
Grown(m, L, brk, size, r) ==
  \E K : /\ Books(r.mem, K, brk) /\ Tidy(K) /\ Alloc(K) = Alloc(L)
         /\ Keeps(m, r.mem, Alloc(L))
         /\ \E c \in K : c.alloc = 0 /\ c.at = r.bp /\ size <= c.size

LEMMA GrowEffect ==
  ASSUME NEW m, NEW L, NEW brk, Books(m, L, brk), Tidy(L),
         NEW size \in Nat, size % 8 = 0, 8 <= size, brk + size <= Highest
  PROVE  Grown(m, L, brk + size, size, ExtendHeap(m, brk, size))
<1> DEFINE new == Tag(m, brk, size, 0)
           v   == PUT(new, brk + size - 4, 1)
           n   == Blk(brk, size, 0)
           K   == L \cup {n}
           top == brk + size
           r   == Coalesce(v, brk)
<1>1. Layout(L, brk) /\ Memory(m) /\ m[brk - 4] = 1 /\ \A x \in L : Tagged(m, x)
  BY DEF Books
<1>2. /\ brk \in Nat /\ brk % 8 = 0 /\ brk <= Highest /\ Base + 16 <= brk
  BY <1>1, BlockFacts DEF Layout
<1>3. brk - 4 \in Words /\ brk + size - 8 \in Words /\ brk + size - 4 \in Words
  BY <1>2, InWords, Constants
<1>4. Layout(K, top)
  BY <1>1, GrowLayout
<1>5. n.at = brk /\ n.size = size /\ n.alloc = 0 /\ End(n) = top
  BY BlkFields
<1> HIDE DEF n
<1>6. Memory(new) /\ OnlyAt(m, new, brk - 4, brk + size - 8)
  <2>1. new = Tag(m, brk, size, 0)
    OBVIOUS
  <2> HIDE DEF new
  <2> QED
    BY <1>1, <1>2, <1>3, <2>1, TagWrites
<1>7. new[brk - 4] = size /\ new[brk + size - 8] = size
  <2>1. new = PUT(PUT(m, brk - 4, size + 0), brk + size - 8, size + 0)
    <3> DEFINE a == 0
    <3> HIDE DEF a
    <3>1. a \in {0, 1}
      BY DEF a
    <3>2. Tag(m, brk, size, a) = PUT(PUT(m, brk - 4, size + a), brk + size - 8, size + a)
      BY <1>1, <1>2, <1>3, <3>1, TagIs
    <3> QED
      BY <3>2 DEF a
  <2>2. size + 0 = size
    OBVIOUS
  <2> HIDE DEF new
  <2>3. brk - 4 # brk + size - 8 \/ brk - 4 = brk + size - 8
    OBVIOUS
  <2> QED
    BY <1>1, <1>3, <2>1, <2>2 DEF PUT, Memory
<1> HIDE DEF new
<1>8. ExtendHeap(m, brk, size) = r
  <2>1. GET_SIZE(new, brk - WSIZE) = size
    <3>1. brk - WSIZE = brk - 4
      BY <1>2, Constants
    <3>2. GET(new, brk - 4) = size
      BY <1>3, <1>7 DEF GET
    <3> QED
      BY <3>1, <3>2 DEF GET_SIZE
  <2>2. NEXT_BLKP(new, brk) = brk + size
    BY <2>1 DEF NEXT_BLKP
  <2>3. HDRP(brk + size) = brk + size - 4 /\ PACK(0, 1) = 1
    BY <1>2, Constants DEF HDRP, PACK
  <2> QED
    BY <2>2, <2>3 DEF ExtendHeap, new
<1>9. /\ Memory(v) /\ v[brk - 4] = size /\ v[brk + size - 8] = size /\ v[brk + size - 4] = 1
      /\ \A w \in Words : w < brk - 4 => v[w] = m[w]
  <2>1. v = [new EXCEPT ![brk + size - 4] = 1]
    BY DEF PUT
  <2> HIDE DEF v
  <2>2. brk + size - 4 # brk - 4 /\ brk + size - 4 # brk + size - 8
    BY <1>2
  <2>3. \A w \in Words : w < brk - 4 => w # brk - 4 /\ w # brk + size - 8 /\ w # brk + size - 4
    BY <1>2, WordTyped
  <2> QED
    BY <1>3, <1>6, <1>7, <2>1, <2>2, <2>3 DEF Memory, OnlyAt
<1> HIDE DEF v, K
<1>10. \A x : x \in K <=> x = n \/ x \in L
  BY DEF K
<1>11. ASSUME NEW x \in L
       PROVE  /\ x.at - 4 \in Words /\ x.at + x.size - 8 \in Words
              /\ x.at - 4 < brk - 4 /\ x.at + x.size - 8 < brk - 4
              /\ End(x) - 4 <= brk - 4 /\ End(x) \in Nat
  BY <1>1, BlockFacts
<1>12. \A x \in K : Tagged(v, x)
  <2>1. Tagged(v, n)
    BY <1>2, <1>5, <1>9 DEF Tagged
  <2>2. ASSUME NEW x \in L
        PROVE  Tagged(v, x)
    BY <1>1, <1>9, <1>11 DEF Tagged
  <2> QED
    BY <1>10, <2>1, <2>2
<1>13. Books(v, K, top)
  BY <1>2, <1>4, <1>9, <1>12 DEF Books
<1>14. TidyBut(K, n)
  BY <1>10 DEF Tidy, TidyBut
<1>15. Merged(v, K, top, n, r)
  <2> HIDE DEF top
  <2> QED
    BY <1>5, <1>10, <1>13, <1>14, CoalesceEffect
<1> HIDE DEF r, top
<1>16. PICK M : /\ Books(r.mem, M, top) /\ Tidy(M) /\ Alloc(M) = Alloc(K)
                /\ Keeps(v, r.mem, Alloc(K))
                /\ \E c \in M : c.alloc = 0 /\ c.at = r.bp /\ n.size <= c.size
  BY <1>15 DEF Merged
<1>17. Alloc(K) = Alloc(L)
  BY <1>5, <1>10 DEF Alloc
<1>18. Keeps(m, r.mem, Alloc(L))
  <2> SUFFICES ASSUME NEW x \in Alloc(L), NEW w \in Words, x.at - 4 <= w, w < End(x) - 4
               PROVE  r.mem[w] = m[w]
    BY DEF Keeps
  <2>1. w \in Nat /\ w < brk - 4
    BY <1>2, <1>11, WordTyped DEF Alloc
  <2>2. r.mem[w] = v[w]
    BY <1>16, <1>17 DEF Keeps
  <2> QED
    BY <1>9, <2>1, <2>2
<1>19. Grown(m, L, top, size, r)
  BY <1>5, <1>16, <1>17, <1>18 DEF Grown
<1> QED
  BY <1>8, <1>19 DEF top

-----------------------------------------------------------------------------
(* Calls.                                                                  *)

LEMMA GivenFrom ==
  ASSUME NEW m, NEW L, NEW u, NEW K, Alloc(K) = Alloc(L), Keeps(m, u, Alloc(L)),
         NEW brk, NEW v, NEW at, NEW size, Given(u, K, brk, v, at, size)
  PROVE  Given(m, L, brk, v, at, size)
<1>1. PICK M : /\ Books(v, M, brk) /\ Tidy(M) /\ Keeps(u, v, Alloc(K))
               /\ \E n \in M : /\ n.at = at /\ size <= n.size /\ n.alloc = 1
                               /\ n \notin Alloc(K) /\ Alloc(M) = Alloc(K) \cup {n}
  BY DEF Given
<1>2. Keeps(m, v, Alloc(L))
  BY <1>1 DEF Keeps
<1> QED
  BY <1>1, <1>2 DEF Given

LEMMA MallocEffect ==
  ASSUME NEW m, NEW L, NEW brk, Books(m, L, brk), Tidy(L), NEW size \in Nat, NEW sp \in StackTops,
         NEW new, new = MmMalloc(m, brk, size, sp)
  PROVE  \/ new.ptr = 0 /\ new.mem = m /\ new.brk = brk
         \/ size # 0 /\ Given(m, L, new.brk, new.mem, new.ptr, Asize(size))
<1> DEFINE asize == Asize(size)
           fit   == FirstFit(m, asize)
           want  == IF asize > CHUNKSIZE THEN asize ELSE CHUNKSIZE
           incr  == Extension(want)
           ext   == ExtendHeap(m, brk, want)
<1>1. asize \in Nat /\ asize % 8 = 0 /\ 8 <= asize
  BY AsizeFacts
<1>2. want \in Nat /\ want % 8 = 0 /\ 8 <= want /\ asize <= want
  BY <1>1, Constants
<1>3. incr = want
  BY <1>2, ExtensionIs
<1>4. brk \in Nat /\ sp \in Nat /\ sp <= Highest
  BY Constants DEF Books, Layout
<1> HIDE DEF asize, want
<1>5. new = CASE size = 0 -> [mem |-> m, brk |-> brk, ptr |-> 0]
              [] size # 0 /\ fit # 0 ->
                   [mem |-> Place(m, fit, asize), brk |-> brk, ptr |-> fit]
              [] size # 0 /\ fit = 0 /\ CanSbrk(brk, want, sp) ->
                   [mem |-> Place(ext.mem, ext.bp, asize), brk |-> brk + want,
                    ptr |-> ext.bp]
              [] OTHER -> [mem |-> m, brk |-> brk, ptr |-> 0]
  BY <1>3 DEF MmMalloc, asize, want
<1> HIDE DEF fit, incr, ext
<1>6. CASE size = 0
  BY <1>5, <1>6
<1>7. CASE size # 0 /\ fit # 0
  <2>1. new = [mem |-> Place(m, fit, asize), brk |-> brk, ptr |-> fit]
    BY <1>5, <1>7
  <2>2. new.mem = Place(m, fit, asize) /\ new.brk = brk /\ new.ptr = fit
    BY <2>1
  <2>3. PICK c \in L : c.alloc = 0 /\ c.at = fit /\ asize <= c.size
    BY <1>1, <1>7, FirstFitIs DEF fit
  <2>4. Given(m, L, brk, Place(m, c.at, asize), c.at, asize)
    BY <1>1, <2>3, PlaceEffect
  <2> QED
    BY <1>7, <2>2, <2>3, <2>4 DEF asize
<1>8. CASE size # 0 /\ fit = 0 /\ CanSbrk(brk, want, sp)
  <2>1. new = [mem |-> Place(ext.mem, ext.bp, asize), brk |-> brk + want, ptr |-> ext.bp]
    BY <1>5, <1>8
  <2>2. new.mem = Place(ext.mem, ext.bp, asize) /\ new.brk = brk + want /\ new.ptr = ext.bp
    BY <2>1
  <2>3. brk + want <= Highest
    BY <1>2, <1>4, <1>8, Constants DEF CanSbrk
  <2> DEFINE top == brk + want
  <2>4. Grown(m, L, top, want, ext)
    BY <1>2, <2>3, GrowEffect DEF ext
  <2>5. new.brk = top
    BY <2>2
  <2> HIDE DEF top
  <2>6. PICK K : /\ Books(ext.mem, K, top) /\ Tidy(K) /\ Alloc(K) = Alloc(L)
                 /\ Keeps(m, ext.mem, Alloc(L))
                 /\ \E c \in K : c.alloc = 0 /\ c.at = ext.bp /\ want <= c.size
    BY <2>4 DEF Grown
  <2>7. PICK c \in K : c.alloc = 0 /\ c.at = ext.bp /\ want <= c.size
    BY <2>6
  <2>8. asize <= c.size
    <3>1. c.size \in Nat
      BY <2>6, BlockFacts DEF Books
    <3> QED
      BY <1>1, <1>2, <2>7, <3>1
  <2>9. Given(ext.mem, K, top, Place(ext.mem, c.at, asize), c.at, asize)
    BY <1>1, <2>6, <2>7, <2>8, PlaceEffect
  <2>10. Given(m, L, top, Place(ext.mem, c.at, asize), c.at, asize)
    BY <2>6, <2>9, GivenFrom
  <2> QED
    BY <1>8, <2>2, <2>5, <2>7, <2>10 DEF asize
<1>9. CASE size # 0 /\ fit = 0 /\ ~ CanSbrk(brk, want, sp)
  <2>1. new = [mem |-> m, brk |-> brk, ptr |-> 0]
    BY <1>5, <1>9
  <2> QED
    BY <2>1
<1> QED
  BY <1>6, <1>7, <1>8, <1>9

(* Words of the payload of an allocated block are the program's.           *)
LEMMA PayloadBooks ==
  ASSUME NEW m, NEW L, NEW brk, Books(m, L, brk), NEW n \in L, NEW size \in Nat, size + 8 <= n.size,
         NEW u, Memory(u), \A w \in Words : ~ (n.at <= w /\ w < n.at + size) => u[w] = m[w]
  PROVE  Books(u, L, brk) /\ Keeps(m, u, L \ {n})
<1> DEFINE at == n.at
<1>1. Layout(L, brk) /\ Memory(m)
  BY DEF Books
<1>2. /\ n.at \in Nat /\ n.size \in Nat /\ End(n) = n.at + n.size /\ End(n) <= brk /\ brk \in Nat
      /\ brk - 4 \in Words
  BY <1>1, BlockFacts
<1>3. ASSUME NEW x \in L, x # n, NEW w \in Words, x.at - 4 <= w, w < End(x) - 4
      PROVE  u[w] = m[w]
  <2>1. x.at \in Nat /\ End(x) \in Nat /\ w \in Nat
    BY <1>1, BlockFacts, WordTyped
  <2>2. End(x) <= n.at \/ End(n) <= x.at
    BY <1>1, <1>3 DEF Layout, Apart
  <2>3. ~ (n.at <= w /\ w < n.at + size)
    BY <1>2, <1>3, <2>1, <2>2
  <2> QED
    BY <2>3
<1>4. ASSUME NEW x \in L
      PROVE  Tagged(u, x)
  <2>1. /\ x.at \in Nat /\ x.size \in Nat /\ 8 <= x.size /\ End(x) = x.at + x.size
        /\ x.at - 4 \in Words /\ x.at + x.size - 8 \in Words
    BY <1>1, BlockFacts
  <2>2. u[x.at - 4] = m[x.at - 4] /\ u[x.at + x.size - 8] = m[x.at + x.size - 8]
    <3>1. CASE x = n
      <4>1. /\ ~ (n.at <= x.at - 4) /\ ~ (x.at + x.size - 8 < n.at + size)
        BY <1>2, <2>1, <3>1
      <4> QED
        BY <2>1, <4>1
    <3>2. CASE x # n
      <4>1. /\ x.at - 4 <= x.at - 4 /\ x.at - 4 < End(x) - 4
            /\ x.at - 4 <= x.at + x.size - 8 /\ x.at + x.size - 8 < End(x) - 4
        BY <2>1
      <4> QED
        BY <1>3, <2>1, <3>2, <4>1
    <3> QED
      BY <3>1, <3>2
  <2> QED
    BY <2>2 DEF Books, Tagged
<1>5. u[brk - 4] = 1
  <2>1. ~ (brk - 4 < n.at + size)
    BY <1>2
  <2> QED
    BY <1>2, <2>1 DEF Books
<1> QED
  BY <1>1, <1>3, <1>4, <1>5 DEF Books, Keeps
(* What mm_malloc returns is a record of these fields.                     *)
LEMMA MallocShape ==
  ASSUME NEW m, NEW brk, NEW size, NEW sp, NEW new, new = MmMalloc(m, brk, size, sp)
  PROVE  new = [mem |-> new.mem, brk |-> new.brk, ptr |-> new.ptr]
<1> DEFINE asize == Asize(size)
           fit   == FirstFit(m, asize)
           incr  == Extension(IF asize > CHUNKSIZE THEN asize ELSE CHUNKSIZE)
           ext   == ExtendHeap(m, brk, incr)
           Ret(x, y, z) == [mem |-> x, brk |-> y, ptr |-> z]
<1>1. new = CASE size = 0 -> Ret(m, brk, 0)
              [] size # 0 /\ fit # 0 -> Ret(Place(m, fit, asize), brk, fit)
              [] size # 0 /\ fit = 0 /\ CanSbrk(brk, incr, sp) ->
                   Ret(Place(ext.mem, ext.bp, asize), brk + incr, ext.bp)
              [] OTHER -> Ret(m, brk, 0)
  BY DEF MmMalloc
<1> HIDE DEF asize, fit, incr, ext
<1>2. \E x, y, z : new = Ret(x, y, z)
  <2> HIDE DEF Ret
  <2>1. CASE size = 0
    BY <1>1, <2>1
  <2>2. CASE size # 0 /\ fit # 0
    BY <1>1, <2>2
  <2>3. CASE size # 0 /\ fit = 0 /\ CanSbrk(brk, incr, sp)
    BY <1>1, <2>3
  <2>4. CASE size # 0 /\ fit = 0 /\ ~ CanSbrk(brk, incr, sp)
    BY <1>1, <2>4
  <2> QED
    BY <2>1, <2>2, <2>3, <2>4
<1> QED
  BY <1>2

(* The first k bytes at `from` are those at `to` afterwards.               *)
Carried(m, u, from, to, k) ==
  \A w \in Words : to <= w /\ w < to + k => u[w] = m[from + (w - to)]

(* b is now at `at`, with room for size bytes, and what it had is there.   *)
Moved(m, L, brk, u, b, at, size) ==
  \E K : /\ Books(u, K, brk) /\ Tidy(K) /\ Keeps(m, u, Alloc(L) \ {b})
         /\ \A k \in Nat : k + 8 <= b.size /\ k <= size => Carried(m, u, b.at, at, k)
         /\ \E n \in K : /\ n.at = at /\ size + 8 <= n.size /\ n.alloc = 1
                         /\ n \notin Alloc(L) \ {b}
                         /\ Alloc(K) = (Alloc(L) \ {b}) \cup {n}
                         /\ at = b.at \/ Apart(n, b)

LEMMA ResizedMoves ==
  ASSUME NEW m, NEW L, NEW brk, Layout(L, brk), NEW b \in L, NEW u, NEW asize \in Nat,
         Resized(m, L, brk, u, b, asize), NEW size \in Nat, size + 8 <= asize
  PROVE  Moved(m, L, brk, u, b, b.at, size)
<1>1. PICK K : /\ Books(u, K, brk) /\ Tidy(K) /\ Keeps(m, u, Alloc(L) \ {b})
               /\ \A k \in Nat : k + 8 <= b.size /\ k + 8 <= asize => Same(m, u, b.at, b.at + k)
               /\ \E n \in K : /\ n.at = b.at /\ asize <= n.size /\ n.alloc = 1
                               /\ Alloc(K) = (Alloc(L) \ {b}) \cup {n}
  BY DEF Resized
<1>2. PICK n \in K : /\ n.at = b.at /\ asize <= n.size /\ n.alloc = 1
                     /\ Alloc(K) = (Alloc(L) \ {b}) \cup {n}
  BY <1>1
<1>3. b.at \in Nat /\ n.size \in Nat
  BY <1>1, BlockFacts DEF Books
<1>4. size + 8 <= n.size
  BY <1>2, <1>3
<1>5. n \notin Alloc(L) \ {b}
  <2>1. n \in L => n = b
    BY <1>2, SameBlock
  <2> QED
    BY <2>1 DEF Alloc
<1>6. ASSUME NEW k \in Nat, k + 8 <= b.size, k <= size
      PROVE  Carried(m, u, b.at, b.at, k)
  <2>1. Same(m, u, b.at, b.at + k)
    BY <1>1, <1>6
  <2> DEFINE at == b.at
  <2>2. ASSUME NEW w \in Words, at <= w, w < at + k
        PROVE  u[w] = m[at + (w - at)]
    <3>1. at + (w - at) = w
      BY <1>3, WordTyped
    <3> QED
      BY <2>1, <2>2, <3>1 DEF Same
  <2> QED
    BY <2>2 DEF Carried
<1> QED
  BY <1>1, <1>2, <1>4, <1>5, <1>6 DEF Moved

(* memcpy into the new block, then free of the old one.                    *)
LEMMA MoveEffect ==
  ASSUME NEW m, NEW L, NEW brk0, Books(m, L, brk0), NEW b \in L, b # Start, b.alloc = 1,
         NEW v, NEW brk, NEW at, NEW size \in Nat, Given(m, L, brk, v, at, Asize(size)),
         NEW c, c = Copy(v, at, b.at, size)
  PROVE  Moved(m, L, brk, MmFree(c, b.at), b, at, size)
<1>1. PICK K : /\ Books(v, K, brk) /\ Tidy(K) /\ Keeps(m, v, Alloc(L))
               /\ \E n \in K : /\ n.at = at /\ Asize(size) <= n.size /\ n.alloc = 1
                               /\ n \notin Alloc(L) /\ Alloc(K) = Alloc(L) \cup {n}
  BY DEF Given
<1>2. PICK n \in K : /\ n.at = at /\ Asize(size) <= n.size /\ n.alloc = 1
                     /\ n \notin Alloc(L) /\ Alloc(K) = Alloc(L) \cup {n}
  BY <1>1
<1>3. Layout(L, brk0) /\ Layout(K, brk) /\ Memory(v) /\ Memory(m)
  BY <1>1 DEF Books
<1>4. /\ at \in Nat /\ at % 8 = 0 /\ n.size \in Nat /\ size + 8 <= n.size /\ End(n) = at + n.size
      /\ n.at \in Nat
  <2>1. at \in Nat /\ at % 8 = 0 /\ n.size \in Nat /\ End(n) = at + n.size
    BY <1>2, <1>3, BlockFacts
  <2>2. Asize(size) \in Nat /\ size + 8 <= Asize(size)
    BY AsizeFacts
  <2> QED
    BY <1>2, <2>1, <2>2
<1>5. b \in Alloc(L) /\ b \in K /\ b # n /\ n \in Alloc(K)
  <2>1. b \in Alloc(L) /\ b \in Alloc(K) /\ n \in Alloc(K)
    BY <1>2 DEF Alloc
  <2> QED
    BY <1>2, <2>1 DEF Alloc
<1>6. /\ b.at \in Nat /\ b.at % 8 = 0 /\ b.size \in Nat /\ End(b) = b.at + b.size /\ b.size % 8 = 0
      /\ Base + 8 <= b.at /\ End(b) <= brk0 /\ brk0 <= Highest /\ brk0 \in Nat
  BY <1>3, BlockFacts
<1>7. Memory(c) /\ \A w \in Words : ~ (n.at <= w /\ w < n.at + size) => c[w] = v[w]
  <2>1. \A p : GET(v, p) \in Nat
    BY <1>3 DEF GET, Memory
  <2>2. c = [p \in Words |-> IF at <= p /\ p < at + size THEN GET(v, b.at + (p - at)) ELSE v[p]]
    BY DEF Copy
  <2>3. \A p \in Words : v[p] \in Nat
    BY <1>3 DEF Memory
  <2>4. Memory(c)
    BY <2>1, <2>2, <2>3 DEF Memory
  <2> QED
    BY <1>2, <2>2, <2>4
<1>8. Books(c, K, brk) /\ Keeps(v, c, K \ {n})
  BY <1>1, <1>4, <1>7, PayloadBooks
<1> DEFINE u == MmFree(c, b.at)
<1>9. Freed(c, K, brk, u, b)
  BY <1>1, <1>5, <1>8, FreeEffect
<1> HIDE DEF u
<1>10. PICK M : /\ Books(u, M, brk) /\ Tidy(M) /\ Keeps(c, u, Alloc(K) \ {b})
                /\ Alloc(M) = Alloc(K) \ {b}
  BY <1>9 DEF Freed
<1>11. Alloc(M) = (Alloc(L) \ {b}) \cup {n} /\ n \in M
  <2>1. Alloc(M) = (Alloc(L) \ {b}) \cup {n}
    BY <1>2, <1>5, <1>10
  <2> QED
    BY <2>1 DEF Alloc
<1>12. Keeps(m, u, Alloc(L) \ {b})
  <2>1. \A x \in Alloc(L) \ {b} : x \in K \ {n} /\ x \in Alloc(K) \ {b}
    BY <1>2 DEF Alloc
  <2> QED
    BY <1>1, <1>8, <1>10, <2>1 DEF Keeps
<1>13. ASSUME NEW k \in Nat, k + 8 <= b.size, k <= size
       PROVE  Carried(m, u, b.at, at, k)
  <2> SUFFICES ASSUME NEW w \in Words, at <= w, w < at + k PROVE u[w] = m[b.at + (w - at)]
    BY DEF Carried
  <2> DEFINE q == b.at + (w - at)
  <2>1. w \in Nat /\ w % 4 = 0
    BY WordTyped
  <2>2. /\ q \in Nat /\ q % 4 = 0 /\ b.at <= q /\ q + 8 < End(b) + 1
    <3> DEFINE d == w - at
    <3>1. d \in Nat /\ d % 4 = 0 /\ d < k
      BY <1>4, <1>13, <2>1
    <3>2. q = b.at + d
      OBVIOUS
    <3> HIDE DEF d, q
    <3> QED
      BY <1>6, <1>13, <3>1, <3>2
  <2>3. q \in Words /\ b.at - 4 <= q /\ q < End(b) - 4
    <3> HIDE DEF q
    <3>1. Base <= q /\ q + 4 <= Highest
      BY <1>6, <2>2, Constants
    <3> QED
      BY <1>6, <2>2, <3>1, InWords, Constants
  <2>4. u[w] = c[w]
    <3>1. n.at - 4 <= w /\ w < End(n) - 4
      BY <1>2, <1>4, <1>13, <2>1
    <3>2. n \in Alloc(K) \ {b}
      BY <1>5
    <3> QED
      BY <1>10, <3>1, <3>2 DEF Keeps
  <2>5. c[w] = GET(v, q)
    <3>1. w < at + size
      BY <1>4, <1>13, <2>1
    <3> QED
      BY <3>1 DEF Copy
  <2> HIDE DEF q
  <2>6. v[q] = m[q]
    BY <1>1, <1>5, <2>3 DEF Keeps
  <2> QED
    BY <2>3, <2>4, <2>5, <2>6 DEF GET, q
<1>14. Apart(n, b)
  BY <1>3, <1>5 DEF Layout
<1>15. n \notin Alloc(L) \ {b}
  BY <1>2
<1>16. Moved(m, L, brk, u, b, at, size)
  BY <1>2, <1>4, <1>10, <1>11, <1>12, <1>13, <1>14, <1>15 DEF Moved
<1> QED
  BY <1>16 DEF u
LEMMA ReallocEffect ==
  ASSUME NEW m, NEW L, NEW brk, Books(m, L, brk), Tidy(L), NEW b \in L, b # Start, b.alloc = 1,
         NEW size \in Nat, NEW sp \in StackTops,
         NEW new, new = MmRealloc(m, brk, b.at, size, sp)
  PROVE  \/ /\ size = 0 /\ new.ptr = b.at /\ new.brk = brk
            /\ Freed(m, L, brk, new.mem, b)
         \/ size # 0 /\ new.ptr = 0 /\ new.mem = m /\ new.brk = brk
         \/ size # 0 /\ new.ptr # 0 /\ Moved(m, L, new.brk, new.mem, b, new.ptr, size)
<1> DEFINE asize == Asize(size)
           p     == b.at
           stay(after) == [mem |-> after, brk |-> brk, ptr |-> p]
           got   == MmMalloc(m, brk, size, sp)
<1>1. /\ asize \in Nat /\ asize % 8 = 0 /\ 8 <= asize /\ size + 8 <= asize
  BY AsizeFacts
<1>2. /\ Layout(L, brk) /\ BlkSize(m, p) = b.size /\ b.size \in Nat /\ p \in Nat /\ p # 0
      /\ b.size % 8 = 0
  <2>1. Layout(L, brk)
    BY DEF Books
  <2>2. BlkSize(m, p) = b.size
    BY BlockReads
  <2>3. b.size \in Nat /\ p \in Nat /\ Base + 8 <= p /\ b.size % 8 = 0
    BY <2>1, BlockFacts
  <2> QED
    BY <2>1, <2>2, <2>3, Constants
<1>3. new = CASE size = 0 -> stay(MmFree(m, p))
              [] size # 0 /\ b.size < asize /\ Room(m, p, asize) -> stay(ExtendBlk(m, p, asize))
              [] size # 0 /\ b.size < asize /\ ~ Room(m, p, asize) -> Move(got, p, size)
              [] size # 0 /\ b.size > asize -> stay(ShrinkBlk(m, p, asize))
              [] OTHER -> stay(m)
  BY <1>2 DEF MmRealloc
<1>4. \A x : stay(x).mem = x /\ stay(x).brk = brk /\ stay(x).ptr = p
  OBVIOUS
<1> HIDE DEF stay, asize
<1>5. ASSUME NEW x, new = stay(x), size # 0, Resized(m, L, brk, x, b, asize)
      PROVE  size # 0 /\ new.ptr # 0 /\ Moved(m, L, new.brk, new.mem, b, new.ptr, size)
  <2>1. Moved(m, L, brk, x, b, b.at, size)
    BY <1>1, <1>2, <1>5, ResizedMoves
  <2> QED
    BY <1>2, <1>4, <1>5, <2>1
<1>6. CASE size = 0
  <2>1. new = stay(MmFree(m, p))
    BY <1>3, <1>6
  <2>2. Freed(m, L, brk, MmFree(m, p), b)
    BY FreeEffect
  <2> QED
    BY <1>4, <1>6, <2>1, <2>2
<1>7. CASE size # 0 /\ b.size < asize /\ Room(m, p, asize)
  <2>1. new = stay(ExtendBlk(m, p, asize))
    BY <1>1, <1>2, <1>3, <1>7
  <2>2. Resized(m, L, brk, ExtendBlk(m, p, asize), b, asize)
    BY <1>1, <1>7, ExtendEffect
  <2> QED
    BY <1>5, <1>7, <2>1, <2>2
<1>8. CASE size # 0 /\ b.size < asize /\ ~ Room(m, p, asize)
  <2>1. new = Move(got, p, size)
    BY <1>1, <1>2, <1>3, <1>8
  <2> HIDE DEF got
  <2>2. \/ got.ptr = 0 /\ got.mem = m /\ got.brk = brk
        \/ size # 0 /\ Given(m, L, got.brk, got.mem, got.ptr, Asize(size))
    BY MallocEffect DEF got
  <2>3. CASE got.ptr = 0
    <3>1. new = got
      BY <2>1, <2>3 DEF Move
    <3>2. ~ Given(m, L, got.brk, got.mem, got.ptr, Asize(size))
      <4> SUFFICES ASSUME Given(m, L, got.brk, got.mem, got.ptr, Asize(size)) PROVE FALSE
        OBVIOUS
      <4>1. PICK K, n : Books(got.mem, K, got.brk) /\ n \in K /\ n.at = got.ptr
        BY DEF Given
      <4>2. Base + 8 <= n.at /\ n.at \in Nat
        BY <4>1, BlockFacts DEF Books
      <4> QED
        BY <2>3, <4>1, <4>2, Constants
    <3> QED
      BY <1>8, <2>2, <2>3, <3>1, <3>2
  <2>4. CASE got.ptr # 0
    <3> DEFINE c == Copy(got.mem, got.ptr, p, size)
    <3>1. new = [got EXCEPT !.mem = MmFree(c, p)]
      BY <2>1, <2>4 DEF Move
    <3>2. got = [mem |-> got.mem, brk |-> got.brk, ptr |-> got.ptr]
      BY MallocShape DEF got
    <3>3. new.ptr = got.ptr /\ new.brk = got.brk /\ new.mem = MmFree(c, p)
      <4> HIDE DEF c
      <4> QED
        BY <3>1, <3>2
    <3>4. Moved(m, L, got.brk, MmFree(c, p), b, got.ptr, size)
      <4>1. Given(m, L, got.brk, got.mem, got.ptr, Asize(size))
        BY <2>2, <2>4
      <4>2. c = Copy(got.mem, got.ptr, b.at, size)
        OBVIOUS
      <4> HIDE DEF c
      <4> QED
        BY <4>1, <4>2, MoveEffect
    <3> HIDE DEF c
    <3> QED
      BY <1>8, <2>4, <3>3, <3>4
  <2> QED
    BY <2>3, <2>4
<1>9. CASE size # 0 /\ b.size > asize
  <2>1. new = stay(ShrinkBlk(m, p, asize))
    BY <1>1, <1>2, <1>3, <1>9
  <2>2. Resized(m, L, brk, ShrinkBlk(m, p, asize), b, asize)
    <3>1. asize <= b.size
      BY <1>1, <1>2, <1>9
    <3> QED
      BY <1>1, <3>1, ShrinkEffect
  <2> QED
    BY <1>5, <1>9, <2>1, <2>2
<1>10. CASE size # 0 /\ b.size = asize
  <2>1. new = stay(m)
    BY <1>1, <1>2, <1>3, <1>10
  <2>2. Resized(m, L, brk, m, b, asize)
    <3>1. Keeps(m, m, Alloc(L) \ {b}) /\ \A k \in Nat : Same(m, m, b.at, b.at + k)
      BY DEF Keeps, Same
    <3>2. Alloc(L) = (Alloc(L) \ {b}) \cup {b}
      BY DEF Alloc
    <3>3. asize <= b.size
      BY <1>1, <1>10
    <3> QED
      BY <3>1, <3>2, <3>3 DEF Resized
  <2> QED
    BY <1>5, <1>10, <2>1, <2>2
<1> QED
  BY <1>1, <1>2, <1>6, <1>7, <1>8, <1>9, <1>10

-----------------------------------------------------------------------------
(* The pieces of the program are the allocated blocks but the prologue.    *)

DataOf(m, r) == \A w \in Words : r.ptr <= w /\ w < r.ptr + r.kept => m[w] = r.mark

PieceOk(r) == r.size \in Nat /\ r.kept \in Nat /\ r.kept <= r.size

Owned(m, L, h) ==
  /\ \A r \in h : /\ PieceOk(r) /\ DataOf(m, r)
                  /\ \E b \in Alloc(L) : b # Start /\ b.at = r.ptr /\ r.size + 8 <= b.size
  /\ \A b \in Alloc(L) : b = Start \/ \E r \in h : r.ptr = b.at
  /\ \A r, s \in h : r.ptr = s.ptr => r = s

(* The books are right, tidy, and those of the pieces that are held.       *)
Sound(m, brk, h) == \E L : Books(m, L, brk) /\ Tidy(L) /\ Owned(m, L, h)

(* What is in a block that is not touched stays.                           *)
LEMMA DataStays ==
  ASSUME NEW m, NEW L, NEW brk, Layout(L, brk), NEW b \in L, NEW r, PieceOk(r), b.at = r.ptr,
         r.size + 8 <= b.size, NEW u, NEW S, b \in S, Keeps(m, u, S), DataOf(m, r)
  PROVE  DataOf(u, r)
<1> SUFFICES ASSUME NEW w \in Words, r.ptr <= w, w < r.ptr + r.kept PROVE u[w] = r.mark
  BY DEF DataOf
<1>1. b.at \in Nat /\ b.size \in Nat /\ End(b) = b.at + b.size
  BY BlockFacts
<1>2. b.at - 4 <= w /\ w < End(b) - 4
  BY <1>1, WordTyped DEF PieceOk
<1> QED
  BY <1>2 DEF Keeps, DataOf

(* The pieces of others, after one block was replaced by another.          *)
LEMMA OthersOwned ==
  ASSUME NEW m, NEW L, NEW brk0, Layout(L, brk0), NEW h, Owned(m, L, h),
         NEW S \in SUBSET Alloc(L), NEW u, Keeps(m, u, S), NEW K, S \subseteq Alloc(K),
         NEW r \in h, NEW b \in S, b.at = r.ptr
  PROVE  /\ PieceOk(r) /\ DataOf(u, r)
         /\ \E x \in Alloc(K) : x # Start /\ x.at = r.ptr /\ r.size + 8 <= x.size
<1>1. PICK x \in Alloc(L) : x # Start /\ x.at = r.ptr /\ r.size + 8 <= x.size
  BY DEF Owned
<1>2. x = b
  BY <1>1, SameBlock DEF Alloc
<1>3. PieceOk(r) /\ DataOf(m, r)
  BY DEF Owned
<1>4. DataOf(u, r)
  BY <1>1, <1>2, <1>3, DataStays DEF Alloc
<1> QED
  BY <1>1, <1>2, <1>3, <1>4

LEMMA OwnedFree ==
  ASSUME NEW m, NEW L, NEW brk, Books(m, L, brk), NEW h, Owned(m, L, h), NEW r \in h,
         NEW b \in Alloc(L), b.at = r.ptr, NEW u, Freed(m, L, brk, u, b), b # Start
  PROVE  Sound(u, brk, h \ {r})
<1>1. PICK K : /\ Books(u, K, brk) /\ Tidy(K) /\ Keeps(m, u, Alloc(L) \ {b})
               /\ Alloc(K) = Alloc(L) \ {b}
  BY DEF Freed
<1> DEFINE S == Alloc(L) \ {b}
<1>2. Layout(L, brk)
  BY DEF Books
<1>3. ASSUME NEW s \in h, s # r
      PROVE  /\ PieceOk(s) /\ DataOf(u, s)
             /\ \E x \in Alloc(K) : x # Start /\ x.at = s.ptr /\ s.size + 8 <= x.size
  <2>1. PICK x \in Alloc(L) : x # Start /\ x.at = s.ptr
    BY DEF Owned
  <2>2. x # b
    BY <1>3, <2>1 DEF Owned
  <2>3. x \in S /\ S \in SUBSET Alloc(L) /\ S \subseteq Alloc(K) /\ Keeps(m, u, S)
    BY <1>1, <2>1, <2>2
  <2> HIDE DEF S
  <2> QED
    BY <1>2, <2>1, <2>3, OthersOwned
<1>4. ASSUME NEW x \in Alloc(K), x # Start
      PROVE  \E s \in h \ {r} : s.ptr = x.at
  <2>1. x \in Alloc(L) /\ x # b
    BY <1>1
  <2>2. PICK s \in h : s.ptr = x.at
    BY <1>4, <2>1 DEF Owned
  <2>3. x.at # b.at
    BY <1>2, <2>1, SameBlock DEF Alloc
  <2> QED
    BY <2>2, <2>3
<1>5. Owned(u, K, h \ {r})
  BY <1>3, <1>4 DEF Owned
<1> QED
  BY <1>1, <1>5 DEF Sound

(* A new piece n of the program, in a new block.                           *)
LEMMA OwnedNew ==
  ASSUME NEW m, NEW L, NEW brk0, Layout(L, brk0), NEW h, Owned(m, L, h),
         NEW S \in SUBSET Alloc(L), NEW gone \in SUBSET h,
         \A r \in h \ gone : \E x \in S : x.at = r.ptr,
         \A x \in S : x = Start \/ \E r \in h \ gone : r.ptr = x.at,
         NEW u, NEW K, NEW brk, Books(u, K, brk), Tidy(K), Keeps(m, u, S),
         NEW n \in K, n \notin S, n # Start, Alloc(K) = S \cup {n},
         NEW r, PieceOk(r), DataOf(u, r), n.at = r.ptr, r.size + 8 <= n.size
  PROVE  Sound(u, brk, (h \ gone) \cup {r})
<1> DEFINE g == (h \ gone) \cup {r}
<1>1. n \in Alloc(K) /\ Layout(K, brk) /\ S \subseteq Alloc(K)
  BY DEF Books
<1>2. ASSUME NEW s \in h \ gone
      PROVE  /\ PieceOk(s) /\ DataOf(u, s) /\ s.ptr # r.ptr
             /\ \E x \in Alloc(K) : x # Start /\ x.at = s.ptr /\ s.size + 8 <= x.size
  <2>1. PICK x \in S : x.at = s.ptr
    BY <1>2
  <2>2. s.ptr # r.ptr
    <3>1. x # n /\ x \in K
      BY <1>1 DEF Alloc
    <3> QED
      BY <1>1, <2>1, <3>1, SameBlock
  <2> QED
    BY <1>1, <2>1, <2>2, OthersOwned
<1>3. ASSUME NEW s \in g
      PROVE  /\ PieceOk(s) /\ DataOf(u, s)
             /\ \E x \in Alloc(K) : x # Start /\ x.at = s.ptr /\ s.size + 8 <= x.size
  <2>1. CASE s \in h \ gone
    BY <1>2, <2>1
  <2>2. CASE s = r
    BY <1>1, <2>2
  <2> QED
    BY <2>1, <2>2
<1>4. ASSUME NEW x \in Alloc(K), x # Start
      PROVE  \E s \in g : s.ptr = x.at
  BY <1>4
<1>5. ASSUME NEW s \in g, NEW t \in g, s.ptr = t.ptr
      PROVE  s = t
  BY <1>2, <1>5 DEF Owned
<1> HIDE DEF g
<1>6. Owned(u, K, g)
  BY <1>3, <1>4, <1>5 DEF Owned
<1> QED
  BY <1>6 DEF Sound, g
LEMMA StartTaken ==
  ASSUME NEW L, NEW brk, Layout(L, brk)
  PROVE  Start \in Alloc(L)
BY StartFields DEF Alloc, Layout

LEMMA MallocOwned ==
  ASSUME NEW m, NEW L, NEW brk0, Books(m, L, brk0), NEW h, Owned(m, L, h),
         NEW v, NEW brk, NEW at, NEW size \in Nat, Given(m, L, brk, v, at, Asize(size)),
         NEW mark \in Nat, NEW u, u = Fill(v, at, size, mark),
         NEW r, r = [ptr |-> at, size |-> size, mark |-> mark, kept |-> size]
  PROVE  Sound(u, brk, h \cup {r}) /\ Memory(u) /\ at # 0
<1>1. PICK K : /\ Books(v, K, brk) /\ Tidy(K) /\ Keeps(m, v, Alloc(L))
               /\ \E n \in K : /\ n.at = at /\ Asize(size) <= n.size /\ n.alloc = 1
                               /\ n \notin Alloc(L) /\ Alloc(K) = Alloc(L) \cup {n}
  BY DEF Given
<1>2. PICK n \in K : /\ n.at = at /\ Asize(size) <= n.size /\ n.alloc = 1
                     /\ n \notin Alloc(L) /\ Alloc(K) = Alloc(L) \cup {n}
  BY <1>1
<1>3. Layout(L, brk0) /\ Layout(K, brk) /\ Memory(v)
  BY <1>1 DEF Books
<1>4. /\ at \in Nat /\ n.size \in Nat /\ size + 8 <= n.size /\ Base + 8 <= at
  <2>1. at \in Nat /\ n.size \in Nat /\ Base + 8 <= at
    BY <1>2, <1>3, BlockFacts
  <2>2. Asize(size) \in Nat /\ size + 8 <= Asize(size)
    BY AsizeFacts
  <2> QED
    BY <1>2, <2>1, <2>2
<1>5. /\ Memory(u) /\ \A w \in Words : ~ (n.at <= w /\ w < n.at + size) => u[w] = v[w]
      /\ \A w \in Words : at <= w /\ w < at + size => u[w] = mark
  <2>1. u = [q \in Words |-> IF at <= q /\ q < at + size THEN mark ELSE v[q]]
    BY DEF Fill
  <2>2. \A q \in Words : v[q] \in Nat
    BY <1>3 DEF Memory
  <2>3. Memory(u)
    BY <2>1, <2>2 DEF Memory
  <2> QED
    BY <1>2, <2>1, <2>3
<1>6. Books(u, K, brk) /\ Keeps(v, u, K \ {n})
  BY <1>1, <1>4, <1>5, PayloadBooks
<1> DEFINE S == Alloc(L)
           gone == {}
<1>7. Keeps(m, u, S)
  <2>1. \A x \in Alloc(L) : x \in K \ {n}
    BY <1>2 DEF Alloc
  <2> QED
    BY <1>1, <1>6, <2>1 DEF Keeps
<1>8. /\ r.ptr = at /\ r.size = size /\ r.kept = size /\ r.mark = mark
  OBVIOUS
<1>9. PieceOk(r) /\ DataOf(u, r) /\ n.at = r.ptr /\ r.size + 8 <= n.size
  BY <1>2, <1>4, <1>5, <1>8 DEF PieceOk, DataOf
<1>10. /\ \A s \in h \ gone : \E x \in S : x.at = s.ptr
       /\ \A x \in S : x = Start \/ \E s \in h \ gone : s.ptr = x.at
       /\ S \in SUBSET Alloc(L) /\ gone \in SUBSET h
  BY DEF Owned
<1>11. n # Start /\ n \notin S /\ Alloc(K) = S \cup {n}
  BY <1>2, <1>3, StartTaken
<1> HIDE DEF S, gone
<1>12. Sound(u, brk, (h \ gone) \cup {r})
  BY <1>1, <1>3, <1>6, <1>7, <1>9, <1>10, <1>11, OwnedNew
<1>13. h \ gone = h
  BY DEF gone
<1> QED
  <2>1. at # 0
    BY <1>4, Constants
  <2>2. Sound(u, brk, h \cup {r})
    <3> HIDE DEF gone
    <3> QED
      BY <1>12, <1>13
  <2> QED
    BY <1>5, <2>1, <2>2

LEMMA ReallocOwned ==
  ASSUME NEW m, NEW L, NEW brk0, Books(m, L, brk0), NEW h, Owned(m, L, h), NEW r \in h,
         NEW b \in Alloc(L), b.at = r.ptr, b # Start,
         NEW u, NEW brk, NEW at, NEW size \in Nat, Moved(m, L, brk, u, b, at, size),
         NEW s, s = [ptr |-> at, size |-> size, mark |-> r.mark,
                     kept |-> IF r.kept < size THEN r.kept ELSE size]
  PROVE  /\ Sound(u, brk, (h \ {r}) \cup {s}) /\ Memory(u)
         /\ at = r.ptr \/ at + size <= r.ptr \/ r.ptr + r.size <= at
<1>1. PICK K : /\ Books(u, K, brk) /\ Tidy(K) /\ Keeps(m, u, Alloc(L) \ {b})
               /\ \A k \in Nat : k + 8 <= b.size /\ k <= size => Carried(m, u, b.at, at, k)
               /\ \E n \in K : /\ n.at = at /\ size + 8 <= n.size /\ n.alloc = 1
                               /\ n \notin Alloc(L) \ {b}
                               /\ Alloc(K) = (Alloc(L) \ {b}) \cup {n}
                               /\ at = b.at \/ Apart(n, b)
  BY DEF Moved
<1>2. PICK n \in K : /\ n.at = at /\ size + 8 <= n.size /\ n.alloc = 1
                     /\ n \notin Alloc(L) \ {b}
                     /\ Alloc(K) = (Alloc(L) \ {b}) \cup {n}
                     /\ at = b.at \/ Apart(n, b)
  BY <1>1
<1>3. Layout(L, brk0) /\ Layout(K, brk) /\ Memory(u) /\ b \in L
  BY <1>1 DEF Books, Alloc
<1>4. /\ at \in Nat /\ n.size \in Nat /\ End(n) = at + n.size /\ at % 8 = 0
      /\ b.at \in Nat /\ b.size \in Nat /\ End(b) = b.at + b.size /\ b.at % 8 = 0
      /\ Base + 8 <= b.at /\ End(b) <= Highest
  <2>1. at \in Nat /\ n.size \in Nat /\ End(n) = at + n.size /\ at % 8 = 0
    BY <1>2, <1>3, BlockFacts
  <2>2. /\ b.at \in Nat /\ b.size \in Nat /\ End(b) = b.at + b.size /\ b.at % 8 = 0
        /\ Base + 8 <= b.at /\ End(b) <= brk0 /\ brk0 <= Highest /\ brk0 \in Nat
    BY <1>3, BlockFacts
  <2> QED
    BY <2>1, <2>2, Constants
<1>5. PieceOk(r) /\ DataOf(m, r) /\ r.size + 8 <= b.size
  <2>1. PICK x \in Alloc(L) : x # Start /\ x.at = r.ptr /\ r.size + 8 <= x.size
    BY DEF Owned
  <2>2. x = b
    BY <1>3, <2>1, SameBlock DEF Alloc
  <2> QED
    BY <2>1, <2>2 DEF Owned
<1> DEFINE kept == IF r.kept < size THEN r.kept ELSE size
<1>6. /\ s.ptr = at /\ s.size = size /\ s.mark = r.mark /\ s.kept = kept
  OBVIOUS
<1>7. kept \in Nat /\ kept <= size /\ kept <= r.kept /\ kept + 8 <= b.size
  BY <1>4, <1>5 DEF PieceOk
<1> HIDE DEF kept
<1>8. PieceOk(s)
  BY <1>6, <1>7 DEF PieceOk
<1>9. DataOf(u, s)
  <2> SUFFICES ASSUME NEW w \in Words, at <= w, w < at + kept PROVE u[w] = r.mark
    BY <1>6 DEF DataOf
  <2> DEFINE d == w - at
             q == b.at + d
  <2>1. w \in Nat /\ w % 4 = 0
    BY WordTyped
  <2>2. d \in Nat /\ d % 4 = 0 /\ d < kept
    BY <1>4, <1>7, <2>1
  <2>3. u[w] = m[q]
    BY <1>1, <1>7 DEF Carried
  <2> HIDE DEF d
  <2>4. q \in Nat /\ q % 4 = 0 /\ b.at <= q /\ q < b.at + r.kept /\ q + 4 <= Highest /\ Base <= q
    BY <1>4, <1>5, <1>7, <2>2, Constants DEF PieceOk
  <2> HIDE DEF q
  <2>5. q \in Words
    BY <2>4, InWords
  <2>6. r.ptr <= q /\ q < r.ptr + r.kept
    BY <2>4
  <2> QED
    BY <1>5, <2>3, <2>5, <2>6 DEF DataOf
<1> DEFINE S == Alloc(L) \ {b}
           gone == {r}
<1>10. ASSUME NEW t \in h \ gone
       PROVE  \E x \in S : x.at = t.ptr
  <2>1. PICK x \in Alloc(L) : x # Start /\ x.at = t.ptr
    BY DEF Owned
  <2>2. t.ptr # r.ptr
    BY <1>10 DEF Owned
  <2> QED
    BY <2>1, <2>2
<1>11. ASSUME NEW x \in S, x # Start
       PROVE  \E t \in h \ gone : t.ptr = x.at
  <2>1. x \in L /\ x # b /\ x \in Alloc(L)
    BY DEF Alloc
  <2>2. PICK t \in h : t.ptr = x.at
    BY <1>11, <2>1 DEF Owned
  <2>3. x.at # b.at
    BY <1>3, <2>1, SameBlock
  <2> QED
    BY <2>2, <2>3
<1>12. n # Start
  BY <1>2, <1>3, StartTaken
<1>13. S \in SUBSET Alloc(L) /\ gone \in SUBSET h /\ Keeps(m, u, S) /\ n \notin S /\ Alloc(K) = S \cup {n}
  BY <1>1, <1>2
<1> HIDE DEF S, gone
<1>14. /\ \A t \in h \ gone : \E x \in S : x.at = t.ptr
       /\ \A x \in S : x = Start \/ \E t \in h \ gone : t.ptr = x.at
  BY <1>10, <1>11
<1>15. n.at = s.ptr /\ s.size + 8 <= n.size
  BY <1>2, <1>6
<1>16. Sound(u, brk, (h \ gone) \cup {s})
  <2>1. /\ Layout(L, brk0) /\ Owned(m, L, h) /\ Books(u, K, brk) /\ Tidy(K)
        /\ n \in K /\ PieceOk(s) /\ DataOf(u, s)
    BY <1>1, <1>2, <1>3, <1>8, <1>9
  <2> QED
    BY ONLY <1>12, <1>13, <1>14, <1>15, <2>1, OwnedNew
<1>17. at = r.ptr \/ at + size <= r.ptr \/ r.ptr + r.size <= at
  <2>1. r.ptr = b.at /\ r.size \in Nat
    BY <1>5 DEF PieceOk
  <2>2. at = b.at \/ End(n) <= b.at \/ End(b) <= at
    BY <1>2 DEF Apart
  <2>3. size + 8 <= n.size /\ r.size + 8 <= b.size
    BY <1>2, <1>5
  <2> QED
    BY <1>4, <2>1, <2>2, <2>3
<1> QED
  <2>1. gone = {r}
    BY DEF gone
  <2>2. Sound(u, brk, (h \ {r}) \cup {s})
    BY ONLY <1>16, <2>1
  <2> QED
    BY <1>3, <1>17, <2>2
(* What follows from sound books.                                          *)
LEMMA SoundFacts ==
  ASSUME NEW m, NEW brk, NEW h, Sound(m, brk, h)
  PROVE  /\ Memory(m) /\ brk \in Base .. Highest /\ brk % 8 = 0
         /\ \A r \in h : /\ r.ptr \in Words /\ r.ptr \in Nat /\ r.size \in Nat /\ PieceOk(r)
                         /\ Base <= r.ptr /\ r.ptr + r.size + 8 <= Highest
         /\ \A r, s \in h : r = s \/ r.ptr + r.size <= s.ptr \/ s.ptr + s.size <= r.ptr
<1>1. PICK L : Books(m, L, brk) /\ Tidy(L) /\ Owned(m, L, h)
  BY DEF Sound
<1>2. Memory(m) /\ Layout(L, brk)
  BY <1>1 DEF Books
<1>3. brk \in Base .. Highest /\ brk % 8 = 0
  <2>1. brk \in Nat /\ brk % 8 = 0 /\ brk <= Highest /\ Base + 16 <= brk
    BY <1>2, BlockFacts DEF Layout
  <2> QED
    BY <2>1, Constants
<1>4. ASSUME NEW r \in h
      PROVE  \E b \in L : b.at = r.ptr /\ r.size + 8 <= b.size /\ PieceOk(r)
  BY <1>1 DEF Owned, Alloc
<1>5. ASSUME NEW b \in L
      PROVE  /\ b.at \in Nat /\ b.at % 8 = 0 /\ b.size \in Nat /\ End(b) = b.at + b.size
             /\ Base + 8 <= b.at /\ b.at + b.size <= Highest /\ 8 <= b.size /\ b.at \in Words
  <2>1. /\ b.at \in Nat /\ b.at % 8 = 0 /\ b.size \in Nat /\ End(b) = b.at + b.size
        /\ Base + 8 <= b.at /\ End(b) <= brk /\ brk <= Highest /\ 8 <= b.size /\ brk \in Nat
    BY <1>2, BlockFacts
  <2> QED
    BY <2>1, InWords, Constants
<1>6. ASSUME NEW r \in h
      PROVE  /\ r.ptr \in Words /\ r.ptr \in Nat /\ r.size \in Nat /\ PieceOk(r)
             /\ Base <= r.ptr /\ r.ptr + r.size + 8 <= Highest
  <2>1. PICK b \in L : b.at = r.ptr /\ r.size + 8 <= b.size /\ PieceOk(r)
    BY <1>4
  <2> QED
    BY <1>5, <2>1, Constants DEF PieceOk
<1>7. ASSUME NEW r \in h, NEW s \in h, r # s
      PROVE  r.ptr + r.size <= s.ptr \/ s.ptr + s.size <= r.ptr
  <2>1. PICK b \in L : b.at = r.ptr /\ r.size + 8 <= b.size
    BY <1>4
  <2>2. PICK c \in L : c.at = s.ptr /\ s.size + 8 <= c.size
    BY <1>4
  <2>3. b # c
    BY <1>1, <1>7, <2>1, <2>2 DEF Owned
  <2>4. End(b) <= c.at \/ End(c) <= b.at
    BY <1>2, <2>3 DEF Layout, Apart
  <2>5. r.size \in Nat /\ s.size \in Nat
    BY <1>6
  <2> QED
    BY <1>5, <2>1, <2>2, <2>4, <2>5
<1> QED
  BY <1>2, <1>3, <1>6, <1>7

(* Padding, prologue and epilogue.                                         *)
EmptyHeap(m) ==
  PUT(PUT(PUT(PUT(m, Base, 0),
              Base + WSIZE, PACK(DSIZE, 1)),
          Base + 2 * WSIZE, PACK(DSIZE, 1)),
      Base + 3 * WSIZE, PACK(0, 1))

LEMMA EmptyBooks ==
  ASSUME NEW m, Memory(m), Base + 16 <= Highest
  PROVE  Books(EmptyHeap(m), {Start}, Base + 16)
<1> DEFINE u == EmptyHeap(m)
<1>1. /\ Base \in Nat /\ Base % 8 = 0 /\ Prologue = Base + 8 /\ WSIZE = 4 /\ DSIZE = 8
  BY Constants
<1>2. Base \in Words /\ Base + 4 \in Words /\ Base + 8 \in Words /\ Base + 12 \in Words
  BY <1>1, InWords, Constants
<1>3. PACK(DSIZE, 1) = 9 /\ PACK(0, 1) = 1
  BY <1>1 DEF PACK
<1>4. u = PUT(PUT(PUT(PUT(m, Base, 0), Base + 4, 9), Base + 8, 9), Base + 12, 1)
  BY <1>1, <1>3 DEF EmptyHeap
<1> HIDE DEF u
<1>5. Memory(u) /\ u[Base + 4] = 9 /\ u[Base + 8] = 9 /\ u[Base + 12] = 1
  <2> DEFINE p0 == Base
             p1 == Base + 4
             p2 == Base + 8
             p3 == Base + 12
  <2>1. p1 # p2 /\ p1 # p3 /\ p2 # p3 /\ p0 \in Words /\ p1 \in Words /\ p2 \in Words /\ p3 \in Words
    BY <1>1, <1>2
  <2>2. u = [[[[m EXCEPT ![p0] = 0] EXCEPT ![p1] = 9] EXCEPT ![p2] = 9] EXCEPT ![p3] = 1]
    BY <1>4 DEF PUT
  <2> HIDE DEF p0, p1, p2, p3
  <2>3. Memory(u) /\ u[p1] = 9 /\ u[p2] = 9 /\ u[p3] = 1
    BY <2>1, <2>2 DEF Memory
  <2> QED
    BY <2>3 DEF p1, p2, p3
<1>6. Start.at = Base + 8 /\ Start.size = 8 /\ Start.alloc = 1 /\ End(Start) = Base + 16
  BY StartFields
<1>7. IsBlock(Start)
  BY <1>1, NewBlock DEF Start
<1>8. Layout({Start}, Base + 16)
  BY <1>1, <1>6, <1>7 DEF Layout
<1>9. Tagged(u, Start)
  BY <1>1, <1>5, <1>6 DEF Tagged
<1>10. u[(Base + 16) - 4] = 1
  <2>1. (Base + 16) - 4 = Base + 12
    BY <1>1
  <2> QED
    BY <1>5, <2>1
<1>11. Books(u, {Start}, Base + 16)
  <2> DEFINE top == Base + 16
  <2> HIDE DEF top
  <2>1. Layout({Start}, top) /\ u[top - 4] = 1
    BY <1>8, <1>10 DEF top
  <2>2. Books(u, {Start}, top)
    BY <1>5, <1>9, <2>1 DEF Books
  <2> QED
    BY <2>2 DEF top
<1> QED
  BY <1>11 DEF u

LEMMA InitSound ==
  ASSUME NEW m, Memory(m), Base + 16 <= Highest
  PROVE  /\ Sound(EmptyHeap(m), Base + 16, {})
         /\ Base + 16 + CHUNKSIZE <= Highest
              => Sound(ExtendHeap(EmptyHeap(m), Base + 16, CHUNKSIZE).mem,
                       Base + 16 + CHUNKSIZE, {})
<1> DEFINE e   == EmptyHeap(m)
           top == Base + 16
           L   == {Start}
           r   == ExtendHeap(e, top, CHUNKSIZE)
<1>1. Books(e, L, top)
  BY EmptyBooks
<1>2. Base \in Nat /\ CHUNKSIZE \in Nat /\ CHUNKSIZE % 8 = 0 /\ 8 <= CHUNKSIZE
  BY Constants
<1>3. Tidy(L)
  BY StartFields DEF Tidy
<1>4. Alloc(L) = {Start}
  BY StartFields DEF Alloc
<1>5. ASSUME NEW u, NEW K, Alloc(K) = Alloc(L)
      PROVE  Owned(u, K, {})
  BY <1>4, <1>5 DEF Owned
<1>6. Sound(e, top, {})
  <2> HIDE DEF e, top, L
  <2> QED
    BY <1>1, <1>3, <1>5 DEF Sound
<1>7. ASSUME top + CHUNKSIZE <= Highest
      PROVE  Sound(r.mem, top + CHUNKSIZE, {})
  <2> HIDE DEF e, top, L
  <2>1. Grown(e, L, top + CHUNKSIZE, CHUNKSIZE, r)
    BY <1>1, <1>2, <1>3, <1>7, GrowEffect
  <2> HIDE DEF r
  <2>2. PICK K : Books(r.mem, K, top + CHUNKSIZE) /\ Tidy(K) /\ Alloc(K) = Alloc(L)
    BY <2>1 DEF Grown
  <2> QED
    BY <1>5, <2>2 DEF Sound
<1> QED
  BY <1>6, <1>7

-----------------------------------------------------------------------------
(* The invariant.                                                          *)

Pieces == [ptr : Words, size : Sizes, mark : Marks, kept : Nat]

(* The program may have pieces only of a heap that is there, and whose     *)
(* books are right, tidy and those of the pieces.                          *)
TagInv ==
  /\ Memory(mem)
  /\ mem_brk \in Base .. Highest /\ mem_brk % DSIZE = 0
  /\ heap_listp \in {0, -1, Prologue}
  /\ held \subseteq Pieces
  /\ Ready => Sound(mem, mem_brk, held)
  /\ ~ Ready => held = {}

LEMMA PieceTyped ==
  ASSUME NEW m, NEW brk, NEW h, Sound(m, brk, h), NEW r \in h, NEW ptr, NEW size \in Sizes,
         NEW mark \in Marks, NEW kept, r = [ptr |-> ptr, size |-> size, mark |-> mark, kept |-> kept]
  PROVE  r \in Pieces
<1>1. r.ptr \in Words /\ r.kept \in Nat /\ r.ptr = ptr /\ r.kept = kept
  BY SoundFacts DEF PieceOk
<1> QED
  BY <1>1 DEF Pieces

LEMMA InvInit ==
  ASSUME Init
  PROVE  TagInv
<1>1. Memory(mem)
  BY TagAssumption DEF Init, Memory
<1>2. mem_brk = Base /\ heap_listp = 0 /\ held = {}
  BY DEF Init
<1> QED
  BY <1>1, <1>2, Constants DEF TagInv, Ready

LEMMA InvCallInit ==
  ASSUME TagInv, NEW sp \in StackPtrs, CallInit(sp)
  PROVE  TagInv'
<1> DEFINE e == EmptyHeap(mem)
<1>1. /\ Memory(mem) /\ heap_listp = 0 /\ ~ Ready /\ held = {} /\ held' = {}
      /\ sp \in Nat /\ sp <= Highest /\ Base \in Nat /\ Highest \in Nat
      /\ Prologue = Base + 8 /\ Base % 8 = 0 /\ CHUNKSIZE \in Nat /\ CHUNKSIZE % 8 = 0
      /\ Prologue # 0 /\ Prologue # -1 /\ mem_brk \in Base .. Highest /\ mem_brk % 8 = 0
  BY Constants DEF TagInv, CallInit, Ready, StackPtrs
<1>2. Extension(CHUNKSIZE) = CHUNKSIZE
  BY <1>1, ExtensionIs
<1>3. \/ heap_listp' = -1 /\ mem' = mem /\ mem_brk' = mem_brk
      \/ /\ heap_listp' = Prologue /\ Base + 16 <= Highest
         /\ \/ /\ Base + 16 + CHUNKSIZE <= Highest /\ mem_brk' = Base + 16 + CHUNKSIZE
               /\ mem' = ExtendHeap(e, Base + 16, CHUNKSIZE).mem
            \/ mem' = e /\ mem_brk' = Base + 16
  BY <1>1, <1>2 DEF CallInit, CanSbrk, EmptyHeap, WSIZE, DSIZE
<1> HIDE DEF e
<1>4. CASE heap_listp' = -1 /\ mem' = mem /\ mem_brk' = mem_brk
  BY <1>1, <1>4 DEF TagInv, Ready, Memory
<1>5. CASE /\ heap_listp' = Prologue /\ Base + 16 <= Highest
           /\ \/ /\ Base + 16 + CHUNKSIZE <= Highest /\ mem_brk' = Base + 16 + CHUNKSIZE
                 /\ mem' = ExtendHeap(e, Base + 16, CHUNKSIZE).mem
              \/ mem' = e /\ mem_brk' = Base + 16
  <2>1. Sound(mem', mem_brk', {})
    BY <1>1, <1>5, InitSound DEF e
  <2>2. Memory(mem') /\ mem_brk' \in Base .. Highest /\ mem_brk' % 8 = 0
    BY <2>1, SoundFacts
  <2>3. heap_listp' = Prologue /\ held' = {}
    BY <1>1, <1>5
  <2> QED
    BY <2>1, <2>2, <2>3 DEF TagInv, Ready, Memory, Sound, DSIZE
<1> QED
  BY <1>3, <1>4, <1>5

(* A step of a heap that is there.                                         *)
LEMMA InvKept ==
  ASSUME Ready, heap_listp' = heap_listp, Sound(mem', mem_brk', held'), held' \subseteq Pieces
  PROVE  TagInv'
<1>1. Memory(mem') /\ mem_brk' \in Base .. Highest /\ mem_brk' % 8 = 0
  BY SoundFacts
<1>2. Ready' /\ heap_listp' = Prologue
  BY DEF Ready, Prologue
<1> QED
  BY <1>1, <1>2 DEF TagInv, Memory, DSIZE, Pieces, Sound, Books, Tidy, Owned, DataOf
(* The pieces as the program of the malloc library sees them.              *)
View(h) == {[ptr |-> r.ptr, size |-> r.size] : r \in h}

Seen(r) == [ptr |-> r.ptr, size |-> r.size]

LEMMA OnePointer ==
  ASSUME NEW m, NEW brk, NEW h, Sound(m, brk, h)
  PROVE  \A r, s \in h : r.ptr = s.ptr => r = s
BY DEF Sound, Owned

LEMMA SeenIn ==
  ASSUME NEW h, NEW x
  PROVE  x \in View(h) <=> \E r \in h : x = Seen(r)
BY DEF View, Seen

LEMMA ViewAdd ==
  ASSUME NEW h, NEW r
  PROVE  View(h \cup {r}) = View(h) \cup {Seen(r)}
<1>1. \A x : x \in View(h \cup {r}) <=> x \in View(h) \cup {Seen(r)}
  BY SeenIn
<1> QED
  BY <1>1

LEMMA ViewDrop ==
  ASSUME NEW m, NEW brk, NEW h, Sound(m, brk, h), NEW r \in h
  PROVE  View(h \ {r}) = View(h) \ {Seen(r)} /\ Seen(r) \in View(h)
<1>1. \A s \in h : Seen(s) = Seen(r) => s = r
  <2> SUFFICES ASSUME NEW s \in h, Seen(s) = Seen(r) PROVE s = r
    OBVIOUS
  <2>1. Seen(s).ptr = s.ptr /\ Seen(r).ptr = r.ptr
    BY DEF Seen
  <2> QED
    BY <2>1, OnePointer
<1>2. \A x : x \in View(h \ {r}) <=> x \in View(h) \ {Seen(r)}
  BY <1>1, SeenIn
<1> QED
  BY <1>2, SeenIn

(* A piece apart from the others, and below the stack.                     *)
LEMMA FreshSeen ==
  ASSUME NEW m, NEW brk, NEW h, NEW r \in Pieces, r \notin h, Sound(m, brk, h \cup {r})
  PROVE  Seen(r) \in Lib!Fresh(View(h))
<1>1. /\ r.ptr \in Nat /\ Base <= r.ptr /\ r.size \in Nat /\ r.ptr + r.size + 8 <= Highest
      /\ \A s \in h : r.ptr + r.size <= s.ptr \/ s.ptr + s.size <= r.ptr
  BY SoundFacts
<1>2. r.size \in Sizes
  BY DEF Pieces
<1>3. Base \in Nat /\ Highest \in Nat
  BY Constants
<1>4. \A s : Seen(s).ptr = s.ptr /\ Seen(s).size = s.size
  BY DEF Seen
<1>5. r.ptr \in Base .. Highest - 1 /\ r.ptr + r.size <= Highest
  BY <1>1, <1>3
<1>6. Seen(r) \in [ptr : Base .. Highest - 1, size : Sizes]
  BY <1>2, <1>5 DEF Seen
<1>7. \A x \in View(h) : Lib!Disjoint(Seen(r), x)
  BY <1>1, <1>4, SeenIn DEF Lib!Disjoint
<1> QED
  BY <1>4, <1>5, <1>6, <1>7 DEF Lib!Fresh

LEMMA TakenRefines ==
  ASSUME NEW r \in Pieces, held' = held \cup {r}, Sound(mem', mem_brk', held')
  PROVE  [Lib!Next]_(View(held))
<1>1. CASE r \in held
  <2>1. held' = held
    BY <1>1
  <2> QED
    BY <2>1 DEF View
<1>2. CASE r \notin held
  <2>1. Seen(r) \in Lib!Fresh(View(held))
    BY <1>2, FreshSeen
  <2>2. View(held') = View(held) \cup {Seen(r)}
    BY ViewAdd
  <2> QED
    BY <2>1, <2>2 DEF Lib!Next, Lib!Malloc, View
<1> QED
  BY <1>1, <1>2

LEMMA DroppedRefines ==
  ASSUME NEW r \in held, held' = held \ {r}, Sound(mem, mem_brk, held)
  PROVE  [Lib!Next]_(View(held))
<1>1. View(held') = View(held) \ {Seen(r)} /\ Seen(r) \in View(held)
  BY ViewDrop
<1> QED
  BY <1>1 DEF Lib!Next, Lib!Free, View

LEMMA ResizedRefines ==
  ASSUME NEW r \in held, NEW s \in Pieces, held' = (held \ {r}) \cup {s},
         Sound(mem, mem_brk, held), Sound(mem', mem_brk', held'),
         s.ptr = r.ptr \/ s.ptr + s.size <= r.ptr \/ r.ptr + r.size <= s.ptr
  PROVE  [Lib!Next]_(View(held))
<1>1. CASE s \in held \ {r}
  <2>1. held' = held \ {r}
    BY <1>1
  <2> QED
    BY <2>1, DroppedRefines
<1>2. CASE s \notin held \ {r}
  <2>1. Seen(s) \in Lib!Fresh(View(held \ {r}))
    BY <1>2, FreshSeen
  <2>2. View(held \ {r}) = View(held) \ {Seen(r)} /\ Seen(r) \in View(held)
    BY ViewDrop
  <2>3. View(held') = (View(held) \ {Seen(r)}) \cup {Seen(s)}
    BY <2>2, ViewAdd
  <2>4. Seen(s).ptr = Seen(r).ptr \/ Lib!Disjoint(Seen(s), Seen(r))
    BY DEF Seen, Lib!Disjoint
  <2> QED
    BY <2>1, <2>2, <2>3, <2>4 DEF Lib!Next, Lib!Realloc, View
<1> QED
  BY <1>1, <1>2
LEMMA MallocStep ==
  ASSUME TagInv, NEW size \in Sizes \cup {0}, NEW mark \in Marks, NEW sp \in StackPtrs,
         CallMalloc(size, mark, sp)
  PROVE  TagInv' /\ [Lib!Next]_(View(held))
<1> DEFINE new == MmMalloc(mem, mem_brk, size, sp)
           r   == [ptr |-> new.ptr, size |-> size, mark |-> mark, kept |-> size]
<1>1. /\ Ready /\ heap_listp' = heap_listp /\ Sound(mem, mem_brk, held) /\ held \subseteq Pieces
      /\ mem' = IF new.ptr = 0 THEN new.mem ELSE Fill(new.mem, new.ptr, size, mark)
      /\ mem_brk' = new.brk
      /\ held' = held \cup Piece(new.ptr, size, mark, size)
  BY DEF CallMalloc, TagInv, Pieces
<1>2. size \in Nat /\ mark \in Nat /\ sp \in StackTops
  BY TagAssumption DEF StackPtrs
<1>3. PICK L : Books(mem, L, mem_brk) /\ Tidy(L) /\ Owned(mem, L, held)
  BY <1>1 DEF Sound
<1>4. Piece(new.ptr, size, mark, size) = IF new.ptr = 0 \/ size = 0 THEN {} ELSE {r}
  BY DEF Piece
<1> HIDE DEF new
<1>5. \/ new.ptr = 0 /\ new.mem = mem /\ new.brk = mem_brk
      \/ size # 0 /\ Given(mem, L, new.brk, new.mem, new.ptr, Asize(size))
  BY <1>2, <1>3, MallocEffect DEF new
<1>6. CASE new.ptr = 0 /\ new.mem = mem /\ new.brk = mem_brk
  <2>1. mem' = mem /\ mem_brk' = mem_brk /\ held' = held
    BY <1>1, <1>4, <1>6
  <2> QED
    BY <1>1, <2>1, InvKept DEF View
<1>7. CASE size # 0 /\ Given(mem, L, new.brk, new.mem, new.ptr, Asize(size))
  <2> DEFINE u == Fill(new.mem, new.ptr, size, mark)
  <2>1. r = [ptr |-> new.ptr, size |-> size, mark |-> mark, kept |-> size]
    OBVIOUS
  <2> HIDE DEF u, r
  <2>2. Sound(u, new.brk, held \cup {r}) /\ new.ptr # 0
    BY <1>2, <1>3, <1>7, <2>1, MallocOwned DEF u
  <2>3. mem' = u /\ mem_brk' = new.brk /\ held' = held \cup {r}
    BY <1>1, <1>4, <1>7, <2>2 DEF u
  <2>4. Sound(mem', mem_brk', held')
    BY <2>2, <2>3
  <2>5. r \in Pieces
    BY <1>7, <2>1, <2>2, PieceTyped
  <2>6. held' \subseteq Pieces
    BY <1>1, <2>3, <2>5
  <2> QED
    BY <1>1, <2>3, <2>4, <2>5, <2>6, InvKept, TakenRefines
<1> QED
  BY <1>5, <1>6, <1>7

(* The block of a piece that is held.                                      *)
LEMMA BlockOf ==
  ASSUME NEW m, NEW L, NEW h, Owned(m, L, h), NEW r \in h
  PROVE  \E b \in Alloc(L) : b # Start /\ b.at = r.ptr
BY DEF Owned

LEMMA FreeStep ==
  ASSUME TagInv, NEW r \in held, CallFree(r)
  PROVE  TagInv' /\ [Lib!Next]_(View(held))
<1>1. /\ Ready /\ heap_listp' = heap_listp /\ Sound(mem, mem_brk, held) /\ held \subseteq Pieces
      /\ mem' = MmFree(mem, r.ptr) /\ mem_brk' = mem_brk /\ held' = held \ {r}
  BY DEF CallFree, TagInv, Pieces
<1>2. PICK L : Books(mem, L, mem_brk) /\ Tidy(L) /\ Owned(mem, L, held)
  BY <1>1 DEF Sound
<1>3. PICK b \in Alloc(L) : b # Start /\ b.at = r.ptr
  BY <1>2, BlockOf
<1>4. Freed(mem, L, mem_brk, mem', b)
  BY <1>1, <1>2, <1>3, FreeEffect DEF Alloc
<1>5. Sound(mem', mem_brk, held \ {r})
  BY <1>2, <1>3, <1>4, OwnedFree
<1>6. Sound(mem', mem_brk', held')
  BY <1>1, <1>5
<1> QED
  BY <1>1, <1>6, InvKept, DroppedRefines

LEMMA ReallocStep ==
  ASSUME TagInv, NEW r \in held, NEW size \in Sizes \cup {0}, NEW sp \in StackPtrs,
         CallRealloc(r, size, sp)
  PROVE  TagInv' /\ [Lib!Next]_(View(held))
<1> DEFINE new  == MmRealloc(mem, mem_brk, r.ptr, size, sp)
           kept == IF r.kept < size THEN r.kept ELSE size
           s    == [ptr |-> new.ptr, size |-> size, mark |-> r.mark, kept |-> kept]
<1>1. /\ Ready /\ heap_listp' = heap_listp /\ Sound(mem, mem_brk, held) /\ held \subseteq Pieces
      /\ mem' = new.mem /\ mem_brk' = new.brk
      /\ held' = IF new.ptr = 0 THEN held
                 ELSE (held \ {r}) \cup Piece(new.ptr, size, r.mark, kept)
  BY DEF CallRealloc, TagInv, Pieces
<1>2. size \in Nat /\ sp \in StackTops /\ r.mark \in Marks /\ r.ptr \in Words
  BY <1>1, TagAssumption DEF StackPtrs, Pieces
<1>3. PICK L : Books(mem, L, mem_brk) /\ Tidy(L) /\ Owned(mem, L, held)
  BY <1>1 DEF Sound
<1>4. PICK b \in Alloc(L) : b # Start /\ b.at = r.ptr
  BY <1>3, BlockOf
<1>5. Piece(new.ptr, size, r.mark, kept) = IF new.ptr = 0 \/ size = 0 THEN {} ELSE {s}
  BY DEF Piece
<1>6. new = MmRealloc(mem, mem_brk, b.at, size, sp)
  BY <1>4
<1>7. b \in L /\ b.alloc = 1
  BY <1>4 DEF Alloc
<1>8. s = [ptr |-> new.ptr, size |-> size, mark |-> r.mark,
           kept |-> IF r.kept < size THEN r.kept ELSE size]
  OBVIOUS
<1>9. s = [ptr |-> new.ptr, size |-> size, mark |-> r.mark, kept |-> kept] /\ s.ptr = new.ptr
      /\ s.size = size
  OBVIOUS
<1> HIDE DEF new, s, kept
<1>10. \/ /\ size = 0 /\ new.ptr = b.at /\ new.brk = mem_brk
          /\ Freed(mem, L, mem_brk, new.mem, b)
       \/ size # 0 /\ new.ptr = 0 /\ new.mem = mem /\ new.brk = mem_brk
       \/ size # 0 /\ new.ptr # 0 /\ Moved(mem, L, new.brk, new.mem, b, new.ptr, size)
  BY <1>2, <1>3, <1>4, <1>6, <1>7, ReallocEffect
<1>11. CASE /\ size = 0 /\ new.ptr = b.at /\ new.brk = mem_brk
            /\ Freed(mem, L, mem_brk, new.mem, b)
  <2>1. new.ptr # 0
    BY <1>2, <1>4, <1>11, Constants, WordTyped
  <2>2. mem' = new.mem /\ mem_brk' = mem_brk /\ held' = held \ {r}
    BY <1>1, <1>5, <1>11, <2>1
  <2>3. Sound(new.mem, mem_brk, held \ {r})
    BY <1>3, <1>4, <1>11, OwnedFree
  <2>4. Sound(mem', mem_brk', held')
    BY <2>2, <2>3
  <2> QED
    BY <1>1, <2>2, <2>4, InvKept, DroppedRefines
<1>12. CASE size # 0 /\ new.ptr = 0 /\ new.mem = mem /\ new.brk = mem_brk
  <2>1. mem' = mem /\ mem_brk' = mem_brk /\ held' = held
    BY <1>1, <1>12
  <2> QED
    BY <1>1, <2>1, InvKept DEF View
<1>13. CASE size # 0 /\ new.ptr # 0 /\ Moved(mem, L, new.brk, new.mem, b, new.ptr, size)
  <2>1. /\ Sound(new.mem, new.brk, (held \ {r}) \cup {s})
        /\ new.ptr = r.ptr \/ new.ptr + size <= r.ptr \/ r.ptr + r.size <= new.ptr
    BY <1>2, <1>3, <1>4, <1>8, <1>13, ReallocOwned
  <2>2. held' = (held \ {r}) \cup {s}
    BY <1>1, <1>5, <1>13
  <2>3. Sound(mem', mem_brk', held')
    BY <1>1, <2>1, <2>2
  <2>4. s \in Pieces
    BY <1>2, <1>9, <1>13, <2>1, PieceTyped
  <2>5. held' \subseteq Pieces
    BY <1>1, <2>2, <2>4
  <2>6. s.ptr = r.ptr \/ s.ptr + s.size <= r.ptr \/ r.ptr + r.size <= s.ptr
    BY <1>9, <2>1
  <2> QED
    BY <1>1, <2>2, <2>3, <2>4, <2>5, <2>6, InvKept, ResizedRefines
<1> QED
  BY <1>10, <1>11, <1>12, <1>13

LEMMA InvStep ==
  ASSUME TagInv, [Next]_vars
  PROVE  TagInv' /\ [Lib!Next]_(View(held))
<1>1. ASSUME NEW sp \in StackPtrs, CallInit(sp)
      PROVE  TagInv' /\ [Lib!Next]_(View(held))
  <2>1. held' = held
    BY <1>1 DEF CallInit
  <2> QED
    BY <1>1, <2>1, InvCallInit DEF View
<1>2. CASE UNCHANGED vars
  BY <1>2 DEF vars, TagInv, View, Ready, Sound, Memory, Books, Tagged, Owned, DataOf
<1> QED
  BY <1>1, <1>2, MallocStep, FreeStep, ReallocStep DEF Next
LEMMA TagInvariant == Spec => []TagInv
<1>1. TagInv /\ [Next]_vars => TagInv'
  BY InvStep
<1> QED
  BY InvInit, <1>1, PTL DEF Spec

-----------------------------------------------------------------------------
(* What the invariant says of the blocks that the headers lead to.         *)

LEMMA EndApart ==
  ASSUME NEW L, NEW brk, Layout(L, brk), NEW b \in L
  PROVE  b.at # brk /\ (b.at = Prologue <=> b = Start)
<1>1. b.at \in Nat /\ b.size \in Nat /\ 8 <= b.size /\ b.at + b.size <= brk /\ brk \in Nat
  BY BlockFacts
<1>2. Start \in L /\ Start.at = Prologue
  BY StartFields, Constants DEF Layout
<1> QED
  BY <1>1, <1>2, SameBlock

LEMMA WellTaggedHolds ==
  ASSUME TagInv
  PROVE  WellTagged
<1> SUFFICES ASSUME Ready PROVE WellTagged
  BY DEF WellTagged
<1>1. PICK L : Books(mem, L, mem_brk)
  BY DEF TagInv, Sound
<1>2. Blocks = {b.at : b \in L} \cup {mem_brk}
  BY <1>1, BlocksAre
<1>3. GET(mem, HDRP(mem_brk)) = 1
  BY <1>1, EndReads
<1>4. ASSUME NEW b \in L
      PROVE  /\ GET(mem, HDRP(b.at)) = b.size + b.alloc
             /\ GET(mem, FTRP(mem, b.at)) = b.size + b.alloc
             /\ BlkSize(mem, b.at) > 0
  <2>1. Layout(L, mem_brk) /\ Tagged(mem, b)
    BY <1>1 DEF Books
  <2>2. /\ HDRP(b.at) = b.at - 4 /\ FTRP(mem, b.at) = b.at + b.size - 8
        /\ BlkSize(mem, b.at) = b.size
    BY <1>1, BlockReads
  <2>3. b.at - 4 \in Words /\ b.at + b.size - 8 \in Words /\ b.size \in Nat /\ 8 <= b.size
    BY <2>1, BlockFacts
  <2> QED
    BY <2>1, <2>2, <2>3 DEF GET, Tagged
<1>5. Start \in L /\ Start.at = Prologue /\ Start.size = 8 /\ Start.alloc = 1
  BY <1>1, StartFields, Constants DEF Books, Layout
<1>6. GET(mem, HDRP(Prologue)) = 9
  BY <1>4, <1>5
<1>7. ASSUME NEW bp \in Blocks \ {mem_brk}
      PROVE  BlkSize(mem, bp) > 0 /\ GET(mem, FTRP(mem, bp)) = GET(mem, HDRP(bp))
  <2>1. PICK b \in L : b.at = bp
    BY <1>2
  <2> QED
    BY <1>4, <2>1
<1>8. PACK(0, 1) = 1 /\ PACK(DSIZE, 1) = 9
  BY DEF PACK, DSIZE
<1> QED
  BY <1>2, <1>3, <1>6, <1>7, <1>8 DEF WellTagged

LEMMA CoalescedHolds ==
  ASSUME TagInv
  PROVE  Coalesced
<1>1. CASE ~ Ready
  BY <1>1 DEF Coalesced, Blocks
<1>2. CASE Ready
  <2>1. PICK L : Books(mem, L, mem_brk) /\ Tidy(L)
    BY <1>2 DEF TagInv, Sound
  <2>2. Blocks = {b.at : b \in L} \cup {mem_brk}
    BY <1>2, <2>1, BlocksAre
  <2> SUFFICES ASSUME NEW bp \in Blocks, IsFree(mem, bp)
               PROVE  ~ IsFree(mem, NEXT_BLKP(mem, bp))
    BY DEF Coalesced
  <2>3. ~ IsFree(mem, mem_brk)
    BY <2>1, EndReads
  <2>4. PICK b \in L : b.at = bp
    BY <2>2, <2>3
  <2>5. b.alloc = 0 /\ NEXT_BLKP(mem, bp) = End(b)
    BY <2>1, <2>4, BlockReads
  <2>6. Layout(L, mem_brk)
    BY <2>1 DEF Books
  <2>7. CASE End(b) = mem_brk
    BY <2>3, <2>5, <2>7
  <2>8. CASE End(b) # mem_brk
    <3>1. PICK c \in L : c.at = End(b)
      BY <2>6, <2>8 DEF Layout
    <3>2. c.alloc = 1
      BY <2>1, <2>5, <3>1 DEF Tidy
    <3> QED
      BY <2>1, <2>5, <3>1, <3>2, BlockReads
  <2> QED
    BY <2>7, <2>8
<1> QED
  BY <1>1, <1>2

LEMMA HeldExactHolds ==
  ASSUME TagInv
  PROVE  HeldExact
<1>1. CASE ~ Ready
  <2>1. held = {} /\ Blocks = {}
    BY <1>1 DEF TagInv, Blocks
  <2> QED
    BY <2>1 DEF HeldExact, Allocated
<1>2. CASE Ready
  <2>1. PICK L : Books(mem, L, mem_brk) /\ Owned(mem, L, held)
    BY <1>2 DEF TagInv, Sound
  <2>2. Blocks = {b.at : b \in L} \cup {mem_brk}
    BY <1>2, <2>1, BlocksAre
  <2>3. Layout(L, mem_brk)
    BY <2>1 DEF Books
  <2>4. \A b \in L : /\ b.alloc \in {0, 1} /\ (IsFree(mem, b.at) <=> b.alloc = 0)
                     /\ BlkSize(mem, b.at) = b.size
    BY <2>1, <2>3, BlockReads, BlockFacts
  <2>5. \A b \in L : b.at # mem_brk /\ (b.at = Prologue <=> b = Start)
    BY <2>3, EndApart
  <2>6. \A p : p \in Allocated <=> \E b \in Alloc(L) : b # Start /\ b.at = p
    BY <2>2, <2>4, <2>5 DEF Allocated, Alloc
  <2>7. \A p : p \in {r.ptr : r \in held} <=> \E b \in Alloc(L) : b # Start /\ b.at = p
    BY <2>1 DEF Owned
  <2>8. Allocated = {r.ptr : r \in held}
    BY <2>6, <2>7
  <2>9. ASSUME NEW r \in held
        PROVE  r.size + DSIZE <= BlkSize(mem, r.ptr)
    <3>1. PICK b \in L : b.at = r.ptr /\ r.size + 8 <= b.size
      BY <2>1 DEF Owned, Alloc
    <3> QED
      BY <2>4, <3>1 DEF DSIZE
  <2>10. \A r, s \in held : r.ptr = s.ptr => r = s
    BY <2>1 DEF Owned
  <2> QED
    BY <2>8, <2>9, <2>10 DEF HeldExact
<1> QED
  BY <1>1, <1>2

LEMMA DataKeptHolds ==
  ASSUME TagInv
  PROVE  DataKept
<1>1. CASE ~ Ready
  BY <1>1 DEF TagInv, DataKept
<1>2. CASE Ready
  <2>1. \A r \in held : DataOf(mem, r)
    BY <1>2 DEF TagInv, Sound, Owned
  <2> QED
    BY <2>1 DEF DataKept, DataOf
<1> QED
  BY <1>1, <1>2

-----------------------------------------------------------------------------
(* The theorems.                                                           *)

(* Memory stays a function of its addresses to words, the break inside the *)
(* memory and double-word aligned, whatever mm_malloc, mm_free, mm_realloc *)
(* and mem_sbrk write and return.                                          *)
THEOREM TagsTyped == Spec => []TypeOK
<1>1. TagInv => TypeOK
  BY DEF TagInv, TypeOK, Memory, Pieces
<1> QED
  BY <1>1, TagInvariant, PTL

(* From the prologue the headers lead to the epilogue below the break, and *)
(* each footer repeats its header: coalesce, place, extend_heap and the    *)
(* in-place paths of mm_realloc leave the tags of a walkable heap, and the *)
(* program never writes on one.                                            *)
THEOREM TagsRight == Spec => []WellTagged
BY WellTaggedHolds, TagInvariant, PTL

(* coalesce merges on each path that frees: mm_free, extend_heap, and the  *)
(* remainders that shrink_blk and extend_blk cut off.                      *)
THEOREM NoFreeNeighbours == Spec => []Coalesced
BY CoalescedHolds, TagInvariant, PTL

(* The allocated blocks are the program's pieces, one each, and a piece    *)
(* fits between its tags, also after mm_realloc grew or cut it in place.   *)
THEOREM BlocksAreHeld == Spec => []HeldExact
BY HeldExactHolds, TagInvariant, PTL

(* What the program wrote in a piece is there until it gives it back: no   *)
(* operation writes a tag on it, and mm_realloc copies it when it moves.   *)
THEOREM PayloadKept == Spec => []DataKept
BY DataKeptHolds, TagInvariant, PTL

(* The in-place allocator is a malloc library: disjoint pieces below the   *)
(* stack, and a piece that mm_realloc moves is clear of its old place.     *)
THEOREM InPlaceIsMalloc == Spec => ImplementsMalloc
<1>1. Init => Lib!Init
  BY DEF Init, Lib!Init
<1>2. TagInv /\ [Next]_vars => [Lib!Next]_({[ptr |-> r.ptr, size |-> r.size] : r \in held})
  BY InvStep DEF View
<1> QED
  BY <1>1, <1>2, TagInvariant, PTL DEF Spec, ImplementsMalloc, Lib!Spec
=============================================================================
