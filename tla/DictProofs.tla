------------------------------ MODULE DictProofs ------------------------------
(***************************************************************************)
(* The chained, doubling hash table is a partial function: Dict implements *)
(* DictAbs.  What is behind it is that a chain is a sequence of entries    *)
(* with different keys, and that a doubling loses and repeats none.        *)
(***************************************************************************)
EXTENDS Dict, FiniteSetTheorems, WellFoundedInduction, NaturalsInduction, TLAPS

-----------------------------------------------------------------------------
(* Induction along a loop.                                                 *)

LEMMA LeastOf ==
  ASSUME NEW T \in SUBSET Nat, T # {}
  PROVE  \E x \in T : \A y \in T : x <= y
<1>1. PICK x \in T : \A y \in T : ~ (<<y, x>> \in OpToRel(<, Nat))
  BY NatLessThanWellFounded, WFMin
<1>2. \A y \in T : ~ (y < x)
  BY <1>1 DEF OpToRel
<1> QED
  BY <1>2

(* What holds before the loop and is kept by each turn holds after it.     *)
LEMMA UpTo ==
  ASSUME NEW m \in Nat, NEW T, 0 \in T, \A j \in 1 .. m : j - 1 \in T => j \in T
  PROVE  m \in T
<1> SUFFICES ASSUME (0 .. m) \ T # {} PROVE FALSE
  OBVIOUS
<1>1. PICK j \in (0 .. m) \ T : \A k \in (0 .. m) \ T : j <= k
  <2>1. (0 .. m) \ T \in SUBSET Nat
    OBVIOUS
  <2> QED
    BY <2>1, LeastOf
<1>2. j \in 1 .. m /\ j - 1 \in 0 .. m /\ ~ (j <= j - 1)
  BY <1>1
<1> QED
  BY <1>1, <1>2

(* A loop of m turns has a run: turn j takes the state s to turn[<<j, s>>].   *)
TurnOf(m, S, turn) == turn \in [(1 .. m) \X S -> S]

RunOf(m, S, turn, start, f) ==
  /\ f \in [0 .. m -> S] /\ f[0] = start
  /\ \A j \in 1 .. m : f[j] = turn[<<j, f[j - 1]>>]

LEMMA LoopRuns ==
  ASSUME NEW m \in Nat, NEW S, NEW turn, TurnOf(m, S, turn), NEW start \in S
  PROVE  \E f : RunOf(m, S, turn, start, f)
<1>0. turn \in [(1 .. m) \X S -> S]
  BY DEF TurnOf
<1> DEFINE Run(k, f) == /\ f \in [0 .. k -> S] /\ f[0] = start
                        /\ \A j \in 1 .. k : f[j] = turn[<<j, f[j - 1]>>]
           T == {k \in 0 .. m : \E f : Run(k, f)}
<1>1. 0 \in T
  <2>1. Run(0, [k \in 0 .. 0 |-> start])
    OBVIOUS
  <2> HIDE DEF Run
  <2> QED
    BY <2>1
<1>2. ASSUME NEW k \in 1 .. m, k - 1 \in T
      PROVE  k \in T
  <2>1. PICK f : Run(k - 1, f)
    BY <1>2
  <2> DEFINE g == [j \in 0 .. k |-> IF j = k THEN turn[<<k, f[k - 1]>>] ELSE f[j]]
  <2>2. k - 1 \in 0 .. k - 1 /\ 0 \in 0 .. k - 1 /\ k # 0
    OBVIOUS
  <2>3. f[k - 1] \in S /\ turn[<<k, f[k - 1]>>] \in S
    BY <1>0, <2>1, <2>2
  <2>4. g \in [0 .. k -> S] /\ g[0] = start
    BY <2>1, <2>2, <2>3
  <2>5. ASSUME NEW j \in 1 .. k
        PROVE  g[j] = turn[<<j, g[j - 1]>>]
    <3>1. j - 1 \in 0 .. k - 1 /\ j - 1 # k /\ j \in 0 .. k
      OBVIOUS
    <3>2. g[j - 1] = f[j - 1]
      BY <3>1
    <3>3. CASE j = k
      BY <3>1, <3>2, <3>3
    <3>4. CASE j # k
      <4>1. j \in 1 .. k - 1 /\ g[j] = f[j]
        BY <3>1, <3>4
      <4> QED
        BY <2>1, <3>2, <4>1
    <3> QED
      BY <3>3, <3>4
  <2>6. Run(k, g)
    BY <2>4, <2>5
  <2> HIDE DEF Run, g
  <2>7. k \in 0 .. m
    OBVIOUS
  <2> QED
    BY <2>6, <2>7
<1> HIDE DEF T
<1>3. m \in T
  BY <1>1, <1>2, UpTo
<1> QED
  BY <1>3 DEF T, RunOf

-----------------------------------------------------------------------------
(* Chains.                                                                 *)

Bucket ==
  {c \in [head : Entries \cup {Unused.head}, rest : Seq(Entries)] :
     c.head = Unused.head => c.rest = << >>}

Tables(n) == [0 .. n - 1 -> Bucket]

LEMMA EntryFacts ==
  ASSUME NEW e \in Entries
  PROVE  /\ e.key \in Nat \ {0} /\ e.key \in Keys /\ e.ptr \in Blks /\ e # Unused.head
         /\ e = Entry(e.key, e.ptr)
<1>1. Unused.head.key = 0
  BY DEF Unused, Entry
<1> QED
  BY <1>1, KeyAssumption DEF Entries, Entry

(* A bucket is its chain.                                                  *)
LEMMA ChainFacts ==
  ASSUME NEW c \in Bucket
  PROVE  /\ Chain(c) \in Seq(Entries)
         /\ c.rest \in Seq(Entries)
         /\ \/ /\ c.head = Unused.head /\ c.head.key = 0 /\ c.rest = << >>
               /\ Chain(c) = << >>
            \/ /\ c.head \in Entries /\ c.head.key # 0
               /\ Chain(c) = <<c.head>> \o c.rest
               /\ Len(Chain(c)) = Len(c.rest) + 1 /\ Chain(c)[1] = c.head
               /\ \A j \in 1 .. Len(c.rest) : Chain(c)[j + 1] = c.rest[j]
<1>1. c.head \in Entries \cup {Unused.head} /\ c.rest \in Seq(Entries)
      /\ (c.head = Unused.head => c.rest = << >>)
  BY DEF Bucket
<1>2. CASE c.head = Unused.head
  <2>1. c.head.key = 0
    BY <1>2 DEF Unused, Entry
  <2>2. Chain(c) = << >> \o << >>
    BY <1>1, <1>2, <2>1 DEF Chain
  <2> QED
    BY <1>1, <1>2, <2>1, <2>2
<1>3. CASE c.head \in Entries
  <2>1. c.head.key # 0
    BY <1>3, EntryFacts
  <2>2. Chain(c) = <<c.head>> \o c.rest
    BY <2>1 DEF Chain
  <2> QED
    BY <1>1, <1>3, <2>1, <2>2
<1> QED
  BY <1>1, <1>2, <1>3

Distinct(s) == \A j, k \in 1 .. Len(s) : s[j].key = s[k].key => j = k

Members(s) == {s[j] : j \in 1 .. Len(s)}

LEMMA MembersRange ==
  ASSUME NEW s \in Seq(Entries)
  PROVE  Range(s) = Members(s) /\ Members(s) \in SUBSET Entries
<1>1. DOMAIN s = 1 .. Len(s) /\ \A j \in 1 .. Len(s) : s[j] \in Entries
  OBVIOUS
<1> QED
  BY <1>1 DEF Range, Members

LEMMA HasKeyFacts ==
  ASSUME NEW c \in Bucket, NEW key \in Nat \ {0}
  PROVE  HasKey(c, key) <=> \E e \in Members(Chain(c)) : e.key = key
<1>1. CASE c.head = Unused.head
  <2>1. c.head.key = 0 /\ c.rest = << >> /\ Chain(c) = << >>
    BY <1>1, ChainFacts, EntryFacts
  <2>2. DOMAIN c.rest = {} /\ 1 .. Len(Chain(c)) = {}
    BY <2>1
  <2> QED
    BY <2>1, <2>2 DEF HasKey, Members
<1>2. CASE c.head # Unused.head
  <2> DEFINE s == Chain(c)
  <2>1. /\ Len(s) = Len(c.rest) + 1 /\ s[1] = c.head /\ c.rest \in Seq(Entries)
        /\ \A j \in 1 .. Len(c.rest) : s[j + 1] = c.rest[j]
    BY <1>2, ChainFacts
  <2> HIDE DEF s
  <2>2. \A j \in 1 .. Len(s) : j = 1 \/ (j - 1 \in 1 .. Len(c.rest) /\ s[j] = c.rest[j - 1])
    BY <2>1
  <2>3. \A j \in 1 .. Len(c.rest) : j + 1 \in 1 .. Len(s)
    BY <2>1
  <2>4. DOMAIN c.rest = 1 .. Len(c.rest) /\ 1 \in 1 .. Len(s)
    BY <2>1
  <2>5. ASSUME HasKey(c, key)
        PROVE  \E i \in 1 .. Len(s) : s[i].key = key
    BY <2>1, <2>3, <2>4, <2>5 DEF HasKey
  <2>6. ASSUME NEW i \in 1 .. Len(s), s[i].key = key
        PROVE  HasKey(c, key)
    BY <2>1, <2>2, <2>4, <2>6 DEF HasKey
  <2> QED
    BY <2>5, <2>6 DEF Members, s
<1> QED
  BY <1>1, <1>2
LEMMA LookupFacts ==
  ASSUME NEW c \in Bucket, NEW key \in Nat \ {0}, Distinct(Chain(c))
  PROVE  \/ \E e \in Members(Chain(c)) : e.key = key /\ Lookup(c, key) = e.ptr
         \/ (\A e \in Members(Chain(c)) : e.key # key) /\ Lookup(c, key) = NULL
<1> DEFINE s == Chain(c)
<1>1. CASE ~ HasKey(c, key)
  BY <1>1, HasKeyFacts DEF Lookup, HasKey
<1>2. CASE HasKey(c, key)
  <2>1. c.head # Unused.head
    <3>1. PICK e \in Members(s) : e.key = key
      BY <1>2, HasKeyFacts
    <3>2. s # << >>
      BY <3>1 DEF Members
    <3> QED
      BY <3>2, ChainFacts, EntryFacts
  <2>2. /\ Len(s) = Len(c.rest) + 1 /\ s[1] = c.head /\ c.rest \in Seq(Entries)
        /\ \A j \in 1 .. Len(c.rest) : s[j + 1] = c.rest[j] /\ j + 1 \in 1 .. Len(s)
        /\ DOMAIN c.rest = 1 .. Len(c.rest) /\ 1 \in 1 .. Len(s)
    <3>1. /\ Len(s) = Len(c.rest) + 1 /\ s[1] = c.head /\ c.rest \in Seq(Entries)
          /\ \A j \in 1 .. Len(c.rest) : s[j + 1] = c.rest[j]
      BY <2>1, ChainFacts
    <3> HIDE DEF s
    <3> QED
      BY <3>1
  <2> HIDE DEF s
  <2>3. CASE c.head.key = key
    <3>1. Lookup(c, key) = s[1].ptr /\ s[1] \in Members(s) /\ s[1].key = key
      BY <2>2, <2>3 DEF Lookup, Members
    <3> QED
      BY <3>1 DEF s
  <2>4. CASE c.head.key # key
    <3> DEFINE First(j) == c.rest[j].key = key /\ \A k \in 1 .. j - 1 : c.rest[k].key # key
    <3>1. PICK j \in DOMAIN c.rest : c.rest[j].key = key
      BY <1>2, <2>4 DEF HasKey
    <3>2. First(j)
      <4> SUFFICES ASSUME NEW k \in 1 .. j - 1, c.rest[k].key = key PROVE FALSE
        BY <3>1
      <4>1. k \in 1 .. Len(c.rest) /\ j \in 1 .. Len(c.rest) /\ k + 1 # j + 1
        BY <2>2
      <4>2. /\ k + 1 \in 1 .. Len(s) /\ j + 1 \in 1 .. Len(s)
            /\ s[k + 1].key = s[j + 1].key
        BY <2>2, <3>1, <4>1
      <4>3. Distinct(s)
        BY DEF s
      <4> QED
        BY <4>1, <4>2, <4>3 DEF Distinct
    <3> DEFINE i == CHOOSE i \in DOMAIN c.rest : First(i)
    <3>3. i \in DOMAIN c.rest /\ First(i)
      BY <3>2
    <3>4. Lookup(c, key) = c.rest[i].ptr
      BY <1>2, <2>4 DEF Lookup
    <3> HIDE DEF i
    <3>5. c.rest[i] \in Members(s)
      BY <2>2, <3>3 DEF Members
    <3> QED
      BY <3>3, <3>4, <3>5 DEF s
  <2> QED
    BY <2>3, <2>4
<1> QED
  BY <1>1, <1>2

(* free(NULL) looks for key 0 and finds nothing, used or not.              *)
LEMMA LookupNull ==
  ASSUME NEW c \in Bucket
  PROVE  Lookup(c, 0) = NULL
<1>1. CASE c.head = Unused.head
  BY <1>1 DEF Lookup, Unused, Entry
<1>2. CASE c.head # Unused.head
  <2>1. c.head.key # 0 /\ c.rest \in Seq(Entries)
    BY <1>2, ChainFacts, EntryFacts
  <2>2. \A j \in DOMAIN c.rest : c.rest[j] \in Entries
    BY <2>1
  <2>3. ~ HasKey(c, 0)
    BY <2>1, <2>2, EntryFacts DEF HasKey
  <2> QED
    BY <2>1, <2>3 DEF Lookup
<1> QED
  BY <1>1, <1>2

-----------------------------------------------------------------------------
(* Sequences of entries with different keys.                               *)

LEMMA AppendDistinct ==
  ASSUME NEW s \in Seq(Entries), NEW e \in Entries, Distinct(s),
         \A x \in Members(s) : x.key # e.key
  PROVE  /\ Append(s, e) \in Seq(Entries) /\ Distinct(Append(s, e))
         /\ Members(Append(s, e)) = Members(s) \cup {e}
<1> DEFINE u == Append(s, e)
<1>1. /\ u \in Seq(Entries) /\ Len(u) = Len(s) + 1 /\ u[Len(s) + 1] = e /\ Len(s) \in Nat
      /\ \A j \in 1 .. Len(s) : u[j] = s[j]
  OBVIOUS
<1> HIDE DEF u
<1>2. \A j \in 1 .. Len(u) : j \in 1 .. Len(s) \/ j = Len(s) + 1
  BY <1>1
<1>3. \A j \in 1 .. Len(s) : j \in 1 .. Len(u)
  BY <1>1
<1>4. Len(s) + 1 \in 1 .. Len(u)
  BY <1>1
<1>5. Members(u) = Members(s) \cup {e}
  BY <1>1, <1>2, <1>3, <1>4 DEF Members
<1>6. Distinct(u)
  BY <1>1, <1>2 DEF Distinct, Members
<1> QED
  BY <1>1, <1>5, <1>6 DEF u

(* r is s without its j-th entry.                                          *)
Cut(s, r, j) ==
  /\ Len(r) = Len(s) - 1
  /\ \A k \in 1 .. Len(r) : r[k] = IF k < j THEN s[k] ELSE s[k + 1]

LEMMA CutDistinct ==
  ASSUME NEW s \in Seq(Entries), NEW r \in Seq(Entries), NEW j \in 1 .. Len(s),
         Cut(s, r, j), Distinct(s)
  PROVE  Distinct(r) /\ Members(r) = {x \in Members(s) : x.key # s[j].key}
<1> DEFINE at(k) == IF k < j THEN k ELSE k + 1
<1>1. Len(s) \in Nat /\ Len(r) = Len(s) - 1
  BY DEF Cut
<1>2. \A k \in 1 .. Len(r) : r[k] = s[at(k)] /\ at(k) \in 1 .. Len(s) /\ at(k) # j
  BY <1>1 DEF Cut
<1>3. \A k, l \in 1 .. Len(r) : at(k) = at(l) => k = l
  OBVIOUS
<1>4. \A i \in 1 .. Len(s) : i # j => \E k \in 1 .. Len(r) : at(k) = i
  <2> SUFFICES ASSUME NEW i \in 1 .. Len(s), i # j PROVE \E k \in 1 .. Len(r) : at(k) = i
    OBVIOUS
  <2>1. CASE i < j
    <3>1. i \in 1 .. Len(r) /\ at(i) = i
      BY <1>1, <2>1
    <3> HIDE DEF at
    <3> QED
      BY <3>1
  <2>2. CASE i > j
    <3>1. i - 1 \in 1 .. Len(r) /\ at(i - 1) = i
      BY <1>1, <2>2
    <3> QED
      BY <3>1
  <2> QED
    BY <2>1, <2>2
<1> HIDE DEF at
<1>5. Distinct(r)
  BY <1>2, <1>3 DEF Distinct
<1>6. \A k \in 1 .. Len(r) : r[k] \in Members(s) /\ r[k].key # s[j].key
  BY <1>2 DEF Distinct, Members
<1>7. \A i \in 1 .. Len(s) : s[i].key # s[j].key => s[i] \in Members(r)
  BY <1>2, <1>4 DEF Members
<1> QED
  BY <1>5, <1>6, <1>7 DEF Members

LEMMA Concatenated ==
  ASSUME NEW S, NEW a \in Seq(S), NEW b \in Seq(S)
  PROVE  /\ a \o b \in Seq(S) /\ Len(a \o b) = Len(a) + Len(b)
         /\ \A k \in 1 .. Len(a) + Len(b) :
              (a \o b)[k] = IF k <= Len(a) THEN a[k] ELSE b[k - Len(a)]
OBVIOUS

LEMMA RemoveAtCut ==
  ASSUME NEW s \in Seq(Entries), NEW j \in 1 .. Len(s)
  PROVE  RemoveAt(s, j) \in Seq(Entries) /\ Cut(s, RemoveAt(s, j), j)
<1> DEFINE a == SubSeq(s, 1, j - 1)
           b == SubSeq(s, j + 1, Len(s))
<1>1. /\ a \in Seq(Entries) /\ Len(a) = j - 1 /\ \A k \in 1 .. j - 1 : a[k] = s[k]
      /\ Len(s) \in Nat
  OBVIOUS
<1>2. b \in Seq(Entries) /\ Len(b) = Len(s) - j /\ \A k \in 1 .. Len(s) - j : b[k] = s[j + k]
  OBVIOUS
<1> HIDE DEF a, b
<1>3. /\ a \o b \in Seq(Entries) /\ Len(a \o b) = Len(a) + Len(b)
      /\ \A k \in 1 .. Len(a) + Len(b) : (a \o b)[k] = IF k <= Len(a) THEN a[k] ELSE b[k - Len(a)]
  BY <1>1, <1>2, Concatenated
<1>4. RemoveAt(s, j) = a \o b
  BY DEF RemoveAt, a, b
<1>5. ASSUME NEW k \in 1 .. Len(s) - 1
      PROVE  (a \o b)[k] = IF k < j THEN s[k] ELSE s[k + 1]
  <2>1. CASE k < j
    BY <1>1, <1>2, <1>3, <2>1
  <2>2. CASE ~ (k < j)
    <3>1. k - Len(a) \in 1 .. Len(s) - j /\ j + (k - Len(a)) = k + 1 /\ ~ (k <= Len(a))
          /\ k \in 1 .. Len(a) + Len(b)
      BY <1>1, <1>2, <2>2
    <3> QED
      BY <1>2, <1>3, <2>2, <3>1
  <2> QED
    BY <2>1, <2>2
<1>6. Len(a \o b) = Len(s) - 1
  BY <1>1, <1>2, <1>3
<1> QED
  BY <1>3, <1>4, <1>5, <1>6 DEF Cut
-----------------------------------------------------------------------------
(* Buckets.                                                                *)

LEMMA BucketOf ==
  ASSUME NEW head \in Entries, NEW rest \in Seq(Entries)
  PROVE  LET c == [head |-> head, rest |-> rest] IN
         /\ c \in Bucket /\ Chain(c) = <<head>> \o rest
         /\ Chain(c) \in Seq(Entries)
         /\ Len(Chain(c)) = Len(rest) + 1 /\ Chain(c)[1] = head
         /\ \A j \in 1 .. Len(rest) : Chain(c)[j + 1] = rest[j]
<1> DEFINE c == [head |-> head, rest |-> rest]
<1>1. c.head = head /\ c.rest = rest /\ head # Unused.head /\ head.key # 0
  BY EntryFacts
<1>2. c \in Bucket
  BY <1>1 DEF Bucket
<1>3. Chain(c) = <<head>> \o rest
  BY <1>1 DEF Chain
<1> HIDE DEF c
<1>4. /\ <<head>> \o rest \in Seq(Entries) /\ Len(<<head>> \o rest) = Len(rest) + 1
      /\ (<<head>> \o rest)[1] = head
      /\ \A j \in 1 .. Len(rest) : (<<head>> \o rest)[j + 1] = rest[j]
  OBVIOUS
<1> QED
  BY <1>2, <1>3, <1>4 DEF c

Pushed(c, e) ==
  IF c.head.key # 0
  THEN [head |-> c.head, rest |-> Append(c.rest, e)]
  ELSE [head |-> e, rest |-> << >>]

LEMMA PushedFacts ==
  ASSUME NEW c \in Bucket, NEW e \in Entries
  PROVE  Pushed(c, e) \in Bucket /\ Chain(Pushed(c, e)) = Append(Chain(c), e)
<1>1. CASE c.head.key = 0
  <2>1. Chain(c) = << >> /\ << >> \in Seq(Entries)
    BY <1>1, ChainFacts
  <2>2. Pushed(c, e) = [head |-> e, rest |-> << >>]
    BY <1>1 DEF Pushed
  <2>3. Pushed(c, e) \in Bucket /\ Chain(Pushed(c, e)) = <<e>> \o << >>
    BY <2>1, <2>2, BucketOf
  <2>4. <<e>> \o << >> = Append(<< >>, e)
    OBVIOUS
  <2> QED
    BY <2>1, <2>3, <2>4
<1>2. CASE c.head.key # 0
  <2>1. c.head \in Entries /\ c.rest \in Seq(Entries) /\ Chain(c) = <<c.head>> \o c.rest
    BY <1>2, ChainFacts
  <2>2. Append(c.rest, e) \in Seq(Entries)
    BY <2>1
  <2>3. Pushed(c, e) = [head |-> c.head, rest |-> Append(c.rest, e)]
    BY <1>2 DEF Pushed
  <2>4. Pushed(c, e) \in Bucket /\ Chain(Pushed(c, e)) = <<c.head>> \o Append(c.rest, e)
    <3> DEFINE h == c.head
               r == Append(c.rest, e)
    <3>1. h \in Entries /\ r \in Seq(Entries) /\ Pushed(c, e) = [head |-> h, rest |-> r]
      BY <2>1, <2>2, <2>3
    <3> HIDE DEF h, r
    <3>2. Pushed(c, e) \in Bucket /\ Chain(Pushed(c, e)) = <<h>> \o r
      BY <3>1, BucketOf
    <3> QED
      BY <3>2 DEF h, r
  <2>5. \A h \in Entries, r \in Seq(Entries) : <<h>> \o Append(r, e) = Append(<<h>> \o r, e)
    OBVIOUS
  <2> QED
    BY <2>1, <2>4, <2>5
<1> QED
  BY <1>1, <1>2

LEMMA NewRest ==
  ASSUME NEW h, NEW r, NEW x, NEW c, c = [head |-> h, rest |-> r]
  PROVE  [c EXCEPT !.rest = x] = [head |-> h, rest |-> x]
OBVIOUS

LEMMA InsertIsPush ==
  ASSUME NEW n \in Nat \ {0}, NEW t \in Tables(n), NEW e \in Entries
  PROVE  LET i == Hash(e.key, n) IN
         /\ i \in 0 .. n - 1
         /\ InternalInsert(t, n, e) = [t EXCEPT ![i] = Pushed(t[i], e)]
<1> DEFINE i == Hash(e.key, n)
<1>1. i \in 0 .. n - 1
  BY EntryFacts DEF Hash
<1>2. t[i] \in Bucket
  BY <1>1 DEF Tables
<1> HIDE DEF i
<1>3. t[i] = [head |-> t[i].head, rest |-> t[i].rest]
  BY <1>2 DEF Bucket
<1>4. CASE t[i].head.key # 0
  <2> DEFINE h == t[i].head
             r == t[i].rest
  <2>1. Pushed(t[i], e) = [t[i] EXCEPT !.rest = Append(@, e)]
    <3>1. t[i] = [head |-> h, rest |-> r]
      BY <1>3
    <3>2. Pushed(t[i], e) = [head |-> h, rest |-> Append(r, e)]
      BY <1>4 DEF Pushed
    <3> HIDE DEF h, r
    <3>3. [t[i] EXCEPT !.rest = Append(r, e)] = [head |-> h, rest |-> Append(r, e)]
      <4> DEFINE b == t[i]
                 x == Append(r, e)
      <4>1. b = [head |-> h, rest |-> r]
        BY <3>1
      <4> HIDE DEF b, x
      <4>2. [b EXCEPT !.rest = x] = [head |-> h, rest |-> x]
        BY <4>1, NewRest
      <4> QED
        BY <4>2 DEF b, x
    <3> QED
      BY <3>2, <3>3 DEF r
  <2>2. InternalInsert(t, n, e) = [t EXCEPT ![i] = [t[i] EXCEPT !.rest = Append(@, e)]]
    BY <1>4 DEF InternalInsert, i
  <2> QED
    BY <1>1, <2>1, <2>2 DEF i
<1>5. CASE t[i].head.key = 0
  BY <1>1, <1>5 DEF InternalInsert, Pushed, i
<1> QED
  BY <1>4, <1>5

LEMMA RemovedFacts ==
  ASSUME NEW c \in Bucket, NEW key \in Nat \ {0}, HasKey(c, key), Distinct(Chain(c))
  PROVE  LET d == Removed(c, key) IN
         /\ d \in Bucket /\ Distinct(Chain(d))
         /\ Members(Chain(d)) = {x \in Members(Chain(c)) : x.key # key}
<1> DEFINE s == Chain(c)
           d == Removed(c, key)
<1>1. /\ c.head \in Entries /\ c.rest \in Seq(Entries) /\ s \in Seq(Entries)
      /\ Len(s) = Len(c.rest) + 1 /\ s[1] = c.head
      /\ \A j \in 1 .. Len(c.rest) : s[j + 1] = c.rest[j]
      /\ DOMAIN c.rest = 1 .. Len(c.rest) /\ Len(c.rest) \in Nat
      /\ \A j \in 1 .. Len(c.rest) : j + 1 \in 1 .. Len(s)
  <2>1. PICK e \in Members(s) : e.key = key
    BY HasKeyFacts
  <2>2. s # << >>
    BY <2>1 DEF Members
  <2>3. /\ c.head \in Entries /\ c.rest \in Seq(Entries) /\ s \in Seq(Entries)
        /\ Len(s) = Len(c.rest) + 1 /\ s[1] = c.head
        /\ \A j \in 1 .. Len(c.rest) : s[j + 1] = c.rest[j]
    BY <2>2, ChainFacts
  <2> QED
    BY <2>3
<1>2. Distinct(s)
  OBVIOUS
<1>3. Members(s) = {x \in Members(Chain(c)) : TRUE}
  OBVIOUS
<1> HIDE DEF s
<1>4. CASE c.head.key = key /\ c.rest = << >>
  <2>1. d = Unused
    BY <1>4 DEF Removed
  <2>2. Unused \in Bucket /\ Chain(Unused) = << >>
    BY DEF Bucket, Unused, Entry, Chain
  <2>3. Len(s) = 1
    <3>1. Len(<< >>) = 0
      OBVIOUS
    <3> QED
      BY <1>1, <1>4, <3>1
  <2>4. Members(s) = {c.head}
    <3>1. 1 .. Len(s) = {1}
      BY <2>3
    <3> QED
      BY <1>1, <3>1 DEF Members
  <2>5. Members(<< >>) = {} /\ Distinct(<< >>)
    BY DEF Members, Distinct
  <2> HIDE DEF d
  <2> QED
    BY <1>4, <2>1, <2>2, <2>4, <2>5 DEF s, d
<1>5. CASE c.head.key = key /\ c.rest # << >>
  <2> DEFINE h == Head(c.rest)
             r == Tail(c.rest)
  <2>1. d = [head |-> h, rest |-> r]
    BY <1>5 DEF Removed
  <2>2. h \in Entries /\ r \in Seq(Entries) /\ <<h>> \o r = c.rest
    <3> DEFINE q == c.rest
    <3>1. q \in Seq(Entries) /\ q # << >>
      BY <1>1, <1>5
    <3> HIDE DEF q
    <3>2. Head(q) \in Entries /\ Tail(q) \in Seq(Entries) /\ <<Head(q)>> \o Tail(q) = q
      BY <3>1
    <3> QED
      BY <3>2 DEF q
  <2> HIDE DEF h, r, d
  <2>3. d \in Bucket /\ Chain(d) = c.rest
    <3>1. d \in Bucket /\ Chain(d) = <<h>> \o r
      BY <2>1, <2>2, BucketOf
    <3> QED
      BY <2>2, <3>1
  <2>4. Cut(s, c.rest, 1) /\ 1 \in 1 .. Len(s)
    BY <1>1 DEF Cut
  <2>5. Distinct(c.rest) /\ Members(c.rest) = {x \in Members(s) : x.key # s[1].key}
    BY <1>1, <1>2, <2>4, CutDistinct
  <2> QED
    BY <1>1, <1>5, <2>3, <2>5 DEF s, d
<1>6. CASE c.head.key # key
  <2> DEFINE First(j) == c.rest[j].key = key /\ \A k \in 1 .. j - 1 : c.rest[k].key # key
  <2>1. PICK j \in DOMAIN c.rest : c.rest[j].key = key
    BY <1>6 DEF HasKey
  <2>2. First(j)
    <3> SUFFICES ASSUME NEW k \in 1 .. j - 1, c.rest[k].key = key PROVE FALSE
      BY <2>1
    <3>1. k \in 1 .. Len(c.rest) /\ j \in 1 .. Len(c.rest) /\ k + 1 # j + 1
      BY <1>1
    <3>2. /\ k + 1 \in 1 .. Len(s) /\ j + 1 \in 1 .. Len(s)
          /\ s[k + 1].key = s[j + 1].key
      BY <1>1, <2>1, <3>1
    <3> QED
      BY <1>2, <3>1, <3>2 DEF Distinct
  <2> DEFINE i == CHOOSE i \in DOMAIN c.rest : First(i)
  <2>3. i \in DOMAIN c.rest /\ First(i)
    BY <2>2
  <2> DEFINE r == RemoveAt(c.rest, i)
  <2>4. d = [c EXCEPT !.rest = r]
    BY <1>6 DEF Removed
  <2>5. c = [head |-> c.head, rest |-> c.rest]
    BY DEF Bucket
  <2> HIDE DEF i
  <2>6. i \in 1 .. Len(c.rest) /\ s[i + 1].key = key /\ i + 1 \in 1 .. Len(s)
    BY <1>1, <2>3
  <2>7. r \in Seq(Entries) /\ Cut(c.rest, r, i)
    BY <1>1, <2>6, RemoveAtCut
  <2> HIDE DEF r
  <2>8. d = [head |-> c.head, rest |-> r]
    BY <2>4, <2>5
  <2> HIDE DEF d
  <2>9. /\ d \in Bucket /\ Chain(d) \in Seq(Entries)
        /\ Len(Chain(d)) = Len(r) + 1 /\ Chain(d)[1] = c.head
        /\ \A k \in 1 .. Len(r) : Chain(d)[k + 1] = r[k]
    BY <1>1, <2>7, <2>8, BucketOf
  <2> DEFINE u == Chain(d)
  <2>10. Cut(s, u, i + 1)
    <3>1. Len(u) = Len(s) - 1 /\ Len(r) = Len(c.rest) - 1
      BY <1>1, <2>7, <2>9 DEF Cut
    <3>2. ASSUME NEW k \in 1 .. Len(u)
          PROVE  u[k] = IF k < i + 1 THEN s[k] ELSE s[k + 1]
      <4>1. CASE k = 1
        BY <1>1, <2>6, <2>9, <4>1
      <4>2. CASE k # 1
        <5>1. k - 1 \in 1 .. Len(r) /\ (k - 1) + 1 = k
          BY <2>9, <3>1, <4>2, <1>1
        <5>2. u[k] = r[k - 1]
          BY <2>9, <5>1
        <5>3. r[k - 1] = IF k - 1 < i THEN c.rest[k - 1] ELSE c.rest[k]
          BY <2>7, <5>1 DEF Cut
        <5>4. k - 1 \in 1 .. Len(c.rest) /\ k \in 1 .. Len(c.rest)
          BY <1>1, <3>1, <5>1, <4>2
        <5>5. c.rest[k - 1] = s[k] /\ c.rest[k] = s[k + 1]
          BY <1>1, <5>1, <5>4
        <5> QED
          BY <2>6, <5>2, <5>3, <5>5
      <4> QED
        BY <4>1, <4>2
    <3> QED
      BY <3>1, <3>2 DEF Cut
  <2> HIDE DEF u
  <2>11. u \in Seq(Entries)
    BY <2>9 DEF u
  <2>12. Distinct(u) /\ Members(u) = {x \in Members(s) : x.key # s[i + 1].key}
    BY <1>1, <1>2, <2>6, <2>10, <2>11, CutDistinct
  <2> QED
    BY <2>6, <2>9, <2>12 DEF s, d, u
<1> QED
  BY <1>4, <1>5, <1>6
-----------------------------------------------------------------------------
(* Tables.                                                                 *)

(* Each entry in its bucket, and no key twice.                             *)
Good(t, n) ==
  /\ t \in Tables(n)
  /\ \A i \in 0 .. n - 1 :
       /\ Distinct(Chain(t[i]))
       /\ \A e \in Members(Chain(t[i])) : Hash(e.key, n) = i

LEMMA HashIn ==
  ASSUME NEW n \in Nat \ {0}, NEW key \in Nat
  PROVE  Hash(key, n) \in 0 .. n - 1
BY DEF Hash

LEMMA ChainsTyped ==
  ASSUME NEW n \in Nat, NEW t \in Tables(n), NEW i \in 0 .. n - 1
  PROVE  /\ t[i] \in Bucket /\ Chain(t[i]) \in Seq(Entries)
         /\ Members(Chain(t[i])) \in SUBSET Entries
<1>1. t[i] \in Bucket
  BY DEF Tables
<1>2. Chain(t[i]) \in Seq(Entries)
  BY <1>1, ChainFacts
<1> QED
  BY <1>1, <1>2, MembersRange

LEMMA PresentIs ==
  ASSUME NEW n \in Nat, NEW t \in Tables(n)
  PROVE  Present(t) = UNION {Members(Chain(t[i])) : i \in 0 .. n - 1}
<1>1. DOMAIN t = 0 .. n - 1
  BY DEF Tables
<1>2. \A i \in 0 .. n - 1 : Range(Chain(t[i])) = Members(Chain(t[i]))
  BY ChainsTyped, MembersRange
<1> QED
  BY <1>1, <1>2 DEF Present

LEMMA PresentAt ==
  ASSUME NEW n \in Nat \ {0}, NEW t, Good(t, n), NEW e
  PROVE  e \in Present(t) <=> e \in Entries /\ e \in Members(Chain(t[Hash(e.key, n)]))
<1>1. t \in Tables(n)
  BY DEF Good
<1>2. e \in Present(t) <=> \E i \in 0 .. n - 1 : e \in Members(Chain(t[i]))
  BY <1>1, PresentIs
<1>3. e \in Entries => Hash(e.key, n) \in 0 .. n - 1
  BY EntryFacts, HashIn
<1>4. \A i \in 0 .. n - 1 : e \in Members(Chain(t[i])) => e \in Entries /\ Hash(e.key, n) = i
  BY <1>1, ChainsTyped DEF Good
<1> QED
  BY <1>2, <1>3, <1>4

LEMMA ReplaceGood ==
  ASSUME NEW n \in Nat \ {0}, NEW t, Good(t, n), NEW i \in 0 .. n - 1, NEW c \in Bucket,
         Distinct(Chain(c)), \A e \in Members(Chain(c)) : Hash(e.key, n) = i,
         NEW u, u = [t EXCEPT ![i] = c]
  PROVE  /\ Good(u, n)
         /\ \A e : e \in Present(u) <=>
                     e \in Members(Chain(c)) \/ (e \in Present(t) /\ Hash(e.key, n) # i)
<1>1. t \in Tables(n)
  BY DEF Good
<1>2. u \in Tables(n) /\ u[i] = c /\ \A k \in 0 .. n - 1 : k # i => u[k] = t[k]
  BY <1>1 DEF Tables
<1>3. Good(u, n)
  <2> SUFFICES ASSUME NEW k \in 0 .. n - 1
               PROVE  /\ Distinct(Chain(u[k]))
                      /\ \A e \in Members(Chain(u[k])) : Hash(e.key, n) = k
    BY <1>2 DEF Good
  <2>1. CASE k = i
    BY <1>2, <2>1
  <2>2. CASE k # i
    BY <1>2, <2>2 DEF Good
  <2> QED
    BY <2>1, <2>2
<1>4. Members(Chain(c)) \in SUBSET Entries
  BY ChainFacts, MembersRange
<1>5. ASSUME NEW e
      PROVE  e \in Present(u) <=> e \in Members(Chain(c)) \/ (e \in Present(t) /\ Hash(e.key, n) # i)
  <2>1. e \in Present(u) <=> e \in Entries /\ e \in Members(Chain(u[Hash(e.key, n)]))
    BY <1>3, PresentAt
  <2>2. e \in Present(t) <=> e \in Entries /\ e \in Members(Chain(t[Hash(e.key, n)]))
    BY PresentAt
  <2>3. e \in Entries => Hash(e.key, n) \in 0 .. n - 1
    BY EntryFacts, HashIn
  <2> QED
    BY <1>2, <1>4, <2>1, <2>2, <2>3
<1> QED
  BY <1>3, <1>5

LEMMA InsertGood ==
  ASSUME NEW n \in Nat \ {0}, NEW t, Good(t, n), NEW e \in Entries,
         \A x \in Present(t) : x.key # e.key
  PROVE  /\ Good(InternalInsert(t, n, e), n)
         /\ Present(InternalInsert(t, n, e)) = Present(t) \cup {e}
<1> DEFINE i == Hash(e.key, n)
           c == Pushed(t[i], e)
<1>1. t \in Tables(n) /\ i \in 0 .. n - 1
  BY EntryFacts, HashIn DEF Good
<1>2. InternalInsert(t, n, e) = [t EXCEPT ![i] = c]
  BY <1>1, InsertIsPush
<1>3. /\ t[i] \in Bucket /\ Chain(t[i]) \in Seq(Entries)
      /\ Members(Chain(t[i])) \in SUBSET Entries /\ Distinct(Chain(t[i]))
      /\ \A x \in Members(Chain(t[i])) : Hash(x.key, n) = i
  BY <1>1, ChainsTyped DEF Good
<1>4. c \in Bucket /\ Chain(c) = Append(Chain(t[i]), e)
  BY <1>3, PushedFacts
<1>5. \A x : x \in Present(t) <=> x \in Entries /\ x \in Members(Chain(t[Hash(x.key, n)]))
  BY PresentAt
<1>6. \A x \in Members(Chain(t[i])) : x.key # e.key
  BY <1>3, <1>5
<1>7. Distinct(Chain(c)) /\ Members(Chain(c)) = Members(Chain(t[i])) \cup {e}
  BY <1>3, <1>4, <1>6, AppendDistinct
<1> HIDE DEF c
<1>8. \A x \in Members(Chain(c)) : Hash(x.key, n) = i
  BY <1>3, <1>7
<1>0. Hash(e.key, n) = i
  OBVIOUS
<1> HIDE DEF i
<1> DEFINE u == InternalInsert(t, n, e)
<1> HIDE DEF u
<1>9. /\ Good(u, n)
      /\ \A x : x \in Present(u) <=>
                  x \in Members(Chain(c)) \/ (x \in Present(t) /\ Hash(x.key, n) # i)
  <2>1. u = [t EXCEPT ![i] = c]
    BY <1>2 DEF u
  <2> QED
    BY <1>1, <1>4, <1>7, <1>8, <2>1, ReplaceGood
<1>10. Members(Chain(t[i])) = {x \in Present(t) : Hash(x.key, n) = i}
  BY <1>3, <1>5
<1>11. Present(u) = Present(t) \cup {e}
  BY <1>0, <1>7, <1>9, <1>10
<1> QED
  BY <1>9, <1>11 DEF u

LEMMA KeyAbsent ==
  ASSUME NEW n \in Nat \ {0}, NEW t, Good(t, n), NEW key \in Keys
  PROVE  HasKey(t[Hash(key, n)], key) <=> \E x \in Present(t) : x.key = key
<1> DEFINE i == Hash(key, n)
<1>1. key \in Nat \ {0} /\ i \in 0 .. n - 1 /\ t \in Tables(n)
  BY KeyAssumption, HashIn DEF Good
<1>2. t[i] \in Bucket /\ Members(Chain(t[i])) \in SUBSET Entries
  BY <1>1, ChainsTyped
<1>3. HasKey(t[i], key) <=> \E x \in Members(Chain(t[i])) : x.key = key
  BY <1>1, <1>2, HasKeyFacts
<1>4. \A x : x \in Present(t) <=> x \in Entries /\ x \in Members(Chain(t[Hash(x.key, n)]))
  BY PresentAt
<1>5. \A x \in Members(Chain(t[i])) : Hash(x.key, n) = i
  BY <1>1 DEF Good
<1> QED
  BY <1>2, <1>3, <1>4, <1>5

LEMMA DeleteGood ==
  ASSUME NEW n \in Nat \ {0}, NEW t, Good(t, n), NEW key \in Keys,
         HasKey(t[Hash(key, n)], key)
  PROVE  LET u == [t EXCEPT ![Hash(key, n)] = Removed(@, key)] IN
         Good(u, n) /\ Present(u) = {x \in Present(t) : x.key # key}
<1> DEFINE i == Hash(key, n)
           c == Removed(t[i], key)
           u == [t EXCEPT ![i] = c]
<1>1. key \in Nat \ {0} /\ i \in 0 .. n - 1 /\ t \in Tables(n)
  BY KeyAssumption, HashIn DEF Good
<1>2. /\ t[i] \in Bucket /\ Distinct(Chain(t[i]))
      /\ Members(Chain(t[i])) \in SUBSET Entries
      /\ \A x \in Members(Chain(t[i])) : Hash(x.key, n) = i
  BY <1>1, ChainsTyped DEF Good
<1>3. /\ c \in Bucket /\ Distinct(Chain(c))
      /\ Members(Chain(c)) = {x \in Members(Chain(t[i])) : x.key # key}
  BY <1>1, <1>2, RemovedFacts
<1>0. \A x \in Present(t) : x.key = key => Hash(x.key, n) = i
  OBVIOUS
<1> HIDE DEF c, i
<1>4. /\ Good(u, n)
      /\ \A x : x \in Present(u) <=>
                  x \in Members(Chain(c)) \/ (x \in Present(t) /\ Hash(x.key, n) # i)
  <2>1. \A x \in Members(Chain(c)) : Hash(x.key, n) = i
    BY <1>2, <1>3
  <2>2. u = [t EXCEPT ![i] = c]
    OBVIOUS
  <2> HIDE DEF u
  <2> QED
    BY <1>1, <1>3, <2>1, <2>2, ReplaceGood
<1>5. \A x : x \in Present(t) <=> x \in Entries /\ x \in Members(Chain(t[Hash(x.key, n)]))
  BY PresentAt
<1> HIDE DEF u
<1>7. Present(u) = {x \in Present(t) : x.key # key}
  BY <1>0, <1>2, <1>3, <1>4, <1>5
<1> QED
  BY <1>4, <1>7 DEF u, c, i

LEMMA EmptyGood ==
  ASSUME NEW n \in Nat
  PROVE  Good(EmptyTable(n), n) /\ Present(EmptyTable(n)) = {}
<1> DEFINE t == EmptyTable(n)
<1>1. Unused \in Bucket /\ Chain(Unused) = << >>
  BY DEF Bucket, Unused, Entry, Chain
<1>2. t \in Tables(n) /\ \A i \in 0 .. n - 1 : t[i] = Unused
  BY <1>1 DEF EmptyTable, Tables
<1> HIDE DEF t
<1>3. Members(<< >>) = {} /\ Distinct(<< >>)
  BY DEF Members, Distinct
<1>4. Good(t, n)
  BY <1>1, <1>2, <1>3 DEF Good
<1>5. Present(t) = {}
  BY <1>1, <1>2, <1>3, PresentIs
<1> QED
  BY <1>4, <1>5 DEF t
-----------------------------------------------------------------------------
(* Doubling.                                                               *)

LEMMA InsertTyped ==
  ASSUME NEW n \in Nat \ {0}, NEW t \in Tables(n), NEW e \in Entries
  PROVE  InternalInsert(t, n, e) \in Tables(n)
<1> DEFINE i == Hash(e.key, n)
           c == Pushed(t[i], e)
<1>1. i \in 0 .. n - 1 /\ InternalInsert(t, n, e) = [t EXCEPT ![i] = c]
  BY InsertIsPush
<1>2. c \in Bucket
  BY <1>1, ChainsTyped, PushedFacts
<1> HIDE DEF i, c
<1> QED
  BY <1>1, <1>2 DEF Tables

(* The inner loop of dict_double.                                          *)
LEMMA InsertAllRuns ==
  ASSUME NEW n \in Nat \ {0}, NEW t \in Tables(n), NEW es \in Seq(Entries)
  PROVE  \E g : /\ g[0] = t /\ InsertAll(t, n, es) = g[Len(es)]
                /\ \A j \in 1 .. Len(es) : g[j] = InternalInsert(g[j - 1], n, es[j])
<1> DEFINE m == Len(es)
           S == Tables(n)
           turn == [p \in (1 .. m) \X S |-> InternalInsert(p[2], n, es[p[1]])]
           Step(h) == [j \in 0 .. m |-> IF j = 0 THEN t ELSE InternalInsert(h[j - 1], n, es[j])]
           after == CHOOSE h : h = Step(h)
<1>1. m \in Nat /\ \A j \in 1 .. m : es[j] \in Entries
  OBVIOUS
<1>2. TurnOf(m, S, turn)
  BY <1>1, InsertTyped DEF TurnOf
<1>3. InsertAll(t, n, es) = after[m]
  BY DEF InsertAll
<1>4. \A j \in 1 .. m, u \in S : turn[<<j, u>>] = InternalInsert(u, n, es[j])
  OBVIOUS
<1> HIDE DEF m, turn, S
<1>5. PICK f : RunOf(m, S, turn, t, f)
  <2>1. m \in Nat /\ t \in S
    BY <1>1 DEF S
  <2> QED
    BY ONLY <1>2, <2>1, LoopRuns
<1>6. f = Step(f)
  <2>1. ASSUME NEW j \in 0 .. m
        PROVE  f[j] = Step(f)[j]
    <3>1. CASE j = 0
      BY <1>5, <3>1 DEF RunOf
    <3>2. CASE j # 0
      <4>1. j \in 1 .. m /\ j - 1 \in 0 .. m
        BY <1>1, <3>2
      <4>2. f[j - 1] \in S
        BY <1>5, <4>1 DEF RunOf
      <4> QED
        BY <1>4, <1>5, <3>2, <4>1, <4>2 DEF RunOf
    <3> QED
      BY <3>1, <3>2
  <2> QED
    BY <1>5, <2>1 DEF RunOf
<1>7. after = Step(after)
  BY <1>6
<1> HIDE DEF after
<1>8. after[0] = t /\ \A j \in 1 .. m : after[j] = InternalInsert(after[j - 1], n, es[j])
  <2>1. 0 \in 0 .. m /\ \A j \in 1 .. m : j \in 0 .. m /\ j # 0
    BY <1>1
  <2> QED
    BY <1>7, <2>1
<1> QED
  BY <1>3, <1>8 DEF m

LEMMA InsertAllTyped ==
  ASSUME NEW n \in Nat \ {0}, NEW t \in Tables(n), NEW es \in Seq(Entries)
  PROVE  InsertAll(t, n, es) \in Tables(n)
<1>1. PICK g : /\ g[0] = t /\ InsertAll(t, n, es) = g[Len(es)]
               /\ \A j \in 1 .. Len(es) : g[j] = InternalInsert(g[j - 1], n, es[j])
  BY InsertAllRuns
<1> DEFINE T == {j \in 0 .. Len(es) : g[j] \in Tables(n)}
<1>2. Len(es) \in Nat /\ 0 \in T
  BY <1>1
<1>3. ASSUME NEW j \in 1 .. Len(es), j - 1 \in T
      PROVE  j \in T
  <2>1. es[j] \in Entries
    OBVIOUS
  <2> QED
    BY <1>1, <1>3, <2>1, InsertTyped
<1>4. Len(es) \in T
  <2> HIDE DEF T
  <2> QED
    BY <1>2, <1>3, UpTo
<1> QED
  BY <1>1, <1>4

LEMMA InsertAllGood ==
  ASSUME NEW n \in Nat \ {0}, NEW t, Good(t, n), NEW es \in Seq(Entries), Distinct(es),
         \A x \in Present(t), e \in Members(es) : x.key # e.key
  PROVE  /\ Good(InsertAll(t, n, es), n)
         /\ Present(InsertAll(t, n, es)) = Present(t) \cup Members(es)
<1>1. PICK g : /\ g[0] = t /\ InsertAll(t, n, es) = g[Len(es)]
               /\ \A j \in 1 .. Len(es) : g[j] = InternalInsert(g[j - 1], n, es[j])
  BY InsertAllRuns DEF Good
<1> DEFINE First(j) == {es[k] : k \in 1 .. j}
           T == {j \in 0 .. Len(es) : Good(g[j], n) /\ Present(g[j]) = Present(t) \cup First(j)}
<1>2. Len(es) \in Nat /\ 0 \in T
  <2>1. First(0) = {} /\ Len(es) \in Nat
    OBVIOUS
  <2> HIDE DEF First
  <2> QED
    BY <1>1, <2>1
<1>3. ASSUME NEW j \in 1 .. Len(es), j - 1 \in T
      PROVE  j \in T
  <2>1. es[j] \in Entries /\ es[j] \in Members(es) /\ j \in 0 .. Len(es)
    BY DEF Members
  <2>2. \A x \in First(j - 1) : x.key # es[j].key
    <3> SUFFICES ASSUME NEW k \in 1 .. j - 1, es[k].key = es[j].key PROVE FALSE
      OBVIOUS
    <3>1. k \in 1 .. Len(es) /\ k # j
      OBVIOUS
    <3> QED
      BY <3>1 DEF Distinct
  <2>3. First(j) = First(j - 1) \cup {es[j]}
    <3>1. 1 .. j = (1 .. j - 1) \cup {j}
      OBVIOUS
    <3> QED
      BY <3>1
  <2>4. Good(g[j - 1], n) /\ Present(g[j - 1]) = Present(t) \cup First(j - 1)
    BY <1>3
  <2> HIDE DEF First
  <2>5. \A x \in Present(g[j - 1]) : x.key # es[j].key
    BY <2>1, <2>2, <2>4
  <2>6. Good(g[j], n) /\ Present(g[j]) = Present(g[j - 1]) \cup {es[j]}
    <3> DEFINE u == g[j - 1]
               e == es[j]
    <3>1. Good(u, n) /\ e \in Entries /\ \A x \in Present(u) : x.key # e.key
      BY <2>1, <2>4, <2>5
    <3>2. g[j] = InternalInsert(u, n, e)
      BY <1>1
    <3> HIDE DEF u, e
    <3>3. Good(g[j], n) /\ Present(g[j]) = Present(u) \cup {e}
      BY <3>1, <3>2, InsertGood
    <3> QED
      BY <3>3 DEF u, e
  <2> QED
    BY <2>1, <2>3, <2>4, <2>6
<1>4. Len(es) \in T
  <2> HIDE DEF T
  <2> QED
    BY <1>2, <1>3, UpTo
<1> QED
  BY <1>1, <1>4 DEF Members

(* The outer loop.                                                         *)
LEMMA DoubledRuns ==
  ASSUME NEW n \in Nat \ {0}, NEW t \in Tables(n)
  PROVE  \E g : /\ g[0] = EmptyTable(2 * n) /\ Doubled(t, n) = g[n]
                /\ \A i \in 1 .. n : g[i] = InsertAll(g[i - 1], 2 * n, Chain(t[i - 1]))
<1> DEFINE S == Tables(2 * n)
           start == EmptyTable(2 * n)
           turn == [p \in (1 .. n) \X S |-> InsertAll(p[2], 2 * n, Chain(t[p[1] - 1]))]
           Step(h) == [i \in 0 .. n |-> IF i = 0 THEN start
                                        ELSE InsertAll(h[i - 1], 2 * n, Chain(t[i - 1]))]
           moved == CHOOSE h : h = Step(h)
<1>1. 2 * n \in Nat \ {0} /\ n \in Nat /\ \A i \in 1 .. n : i - 1 \in 0 .. n - 1
  OBVIOUS
<1>2. TurnOf(n, S, turn)
  <2>1. \A i \in 1 .. n : Chain(t[i - 1]) \in Seq(Entries)
    BY <1>1, ChainsTyped
  <2> QED
    BY <1>1, <2>1, InsertAllTyped DEF TurnOf
<1>3. Doubled(t, n) = moved[n]
  BY DEF Doubled
<1>4. \A i \in 1 .. n, u \in S : turn[<<i, u>>] = InsertAll(u, 2 * n, Chain(t[i - 1]))
  OBVIOUS
<1>5. start \in S
  BY <1>1, EmptyGood DEF Good
<1> HIDE DEF turn, S, start
<1>6. PICK f : RunOf(n, S, turn, start, f)
  <2>1. n \in Nat
    OBVIOUS
  <2> QED
    BY ONLY <1>2, <1>5, <2>1, LoopRuns
<1>7. f = Step(f)
  <2>1. ASSUME NEW i \in 0 .. n
        PROVE  f[i] = Step(f)[i]
    <3>1. CASE i = 0
      BY <1>6, <3>1 DEF RunOf
    <3>2. CASE i # 0
      <4>1. i \in 1 .. n /\ i - 1 \in 0 .. n
        BY <1>1, <3>2
      <4>2. f[i - 1] \in S
        BY <1>6, <4>1 DEF RunOf
      <4> QED
        BY <1>4, <1>6, <3>2, <4>1, <4>2 DEF RunOf
    <3> QED
      BY <3>1, <3>2
  <2> QED
    BY <1>6, <2>1 DEF RunOf
<1>8. moved = Step(moved)
  BY <1>7
<1> HIDE DEF moved
<1>9. moved[0] = start /\ \A i \in 1 .. n : moved[i] = InsertAll(moved[i - 1], 2 * n, Chain(t[i - 1]))
  <2>1. 0 \in 0 .. n /\ \A i \in 1 .. n : i \in 0 .. n /\ i # 0
    BY <1>1
  <2> QED
    BY <1>8, <2>1
<1> QED
  BY <1>3, <1>9 DEF start

(* A doubling keeps all entries, once, each in its new bucket.             *)
LEMMA DoubledGood ==
  ASSUME NEW n \in Nat \ {0}, NEW t, Good(t, n)
  PROVE  Good(Doubled(t, n), 2 * n) /\ Present(Doubled(t, n)) = Present(t)
<1>0. t \in Tables(n) /\ 2 * n \in Nat \ {0} /\ n \in Nat
  BY DEF Good
<1>1. PICK g : /\ g[0] = EmptyTable(2 * n) /\ Doubled(t, n) = g[n]
               /\ \A i \in 1 .. n : g[i] = InsertAll(g[i - 1], 2 * n, Chain(t[i - 1]))
  BY <1>0, DoubledRuns
<1> DEFINE First(i) == {x \in Present(t) : Hash(x.key, n) < i}
           T == {i \in 0 .. n : Good(g[i], 2 * n) /\ Present(g[i]) = First(i)}
<1>2. \A x : x \in Present(t) <=> x \in Entries /\ x \in Members(Chain(t[Hash(x.key, n)]))
  BY PresentAt
<1>3. \A x \in Present(t) : x \in Entries /\ Hash(x.key, n) \in 0 .. n - 1
  BY <1>2, EntryFacts, HashIn
<1>4. 0 \in T
  <2>1. First(0) = {}
    BY <1>3
  <2> HIDE DEF First
  <2> QED
    BY <1>0, <1>1, <2>1, EmptyGood
<1>5. ASSUME NEW i \in 1 .. n, i - 1 \in T
      PROVE  i \in T
  <2> DEFINE u == g[i - 1]
             es == Chain(t[i - 1])
  <2>1. /\ i - 1 \in 0 .. n - 1 /\ es \in Seq(Entries) /\ Members(es) \in SUBSET Entries
        /\ Distinct(es) /\ \A e \in Members(es) : Hash(e.key, n) = i - 1
    BY <1>0, ChainsTyped DEF Good
  <2>2. Good(u, 2 * n) /\ Present(u) = First(i - 1) /\ g[i] = InsertAll(u, 2 * n, es)
    BY <1>1, <1>5
  <2>3. \A x : x \in Members(es) <=> x \in Present(t) /\ Hash(x.key, n) = i - 1
    BY <1>2, <2>1
  <2> HIDE DEF u, es
  <2>4. \A x \in Present(u), e \in Members(es) : x.key # e.key
    BY <1>3, <2>2, <2>3
  <2>5. Good(g[i], 2 * n) /\ Present(g[i]) = Present(u) \cup Members(es)
    BY <1>0, <2>1, <2>2, <2>4, InsertAllGood
  <2>6. Present(g[i]) = First(i)
    BY <1>3, <2>2, <2>3, <2>5
  <2> QED
    BY <2>5, <2>6
<1>6. n \in T
  <2> HIDE DEF T
  <2> QED
    BY <1>0, <1>4, <1>5, UpTo
<1>7. First(n) = Present(t)
  BY <1>3
<1> QED
  BY <1>1, <1>6, <1>7
-----------------------------------------------------------------------------
(* The inductive invariant.                                                *)

DictInv ==
  /\ size \in 0 .. MaxSize /\ Good(table, size)
  /\ found \in (Keys \cup {0}) \X (Blks \cup {NULL})
  /\ IsFiniteSet(Contents) /\ count = Cardinality(Contents) /\ count <= size

Pairs(t) == {<<e.key, e.ptr>> : e \in Present(t)}

LEMMA InvTyped ==
  ASSUME DictInv
  PROVE  /\ size \in Nat /\ MaxSize \in Nat /\ size <= MaxSize /\ count \in Nat
         /\ table \in Tables(size)
BY CountAssumption, FS_CardinalityType DEF DictInv, Good

(* The dictionary is empty.                                                *)
LEMMA EmptyInv ==
  ASSUME NEW n \in 0 .. MaxSize,
         found \in (Keys \cup {0}) \X (Blks \cup {NULL}),
         size = n, count = 0, table = EmptyTable(n)
  PROVE  DictInv /\ Contents = {}
<1>1. n \in Nat
  BY CountAssumption
<1>2. Good(table, size) /\ Present(table) = {}
  BY <1>1, EmptyGood
<1>3. Contents = {}
  BY <1>2 DEF Contents
<1>4. IsFiniteSet({}) /\ Cardinality({}) = 0
  BY FS_EmptySet
<1> QED
  BY <1>1, <1>2, <1>3, <1>4 DEF DictInv

LEMMA InitInv ==
  ASSUME Init
  PROVE  DictInv /\ Contents = {}
<1>1. START_COUNT \in 0 .. MaxSize
  BY CountAssumption
<1> QED
  BY <1>1, EmptyInv DEF Init

LEMMA InsertInv ==
  ASSUME DictInv, size # 0, NEW key \in Keys, NEW ptr \in Blks, DictInsert(key, ptr)
  PROVE  /\ DictInv' /\ Contents' = Contents \cup {<<key, ptr>>}
         /\ \A p \in Contents : p[1] # key
<1> DEFINE e     == Entry(key, ptr)
           t     == InternalInsert(table, size, e)
           grows == count + 1 > size
<1>1. /\ size \in Nat \ {0} /\ MaxSize \in Nat /\ size <= MaxSize /\ count \in Nat
      /\ Good(table, size) /\ count <= size
  BY InvTyped DEF DictInv
<1>2. e \in Entries /\ e.key = key /\ e.ptr = ptr
  BY DEF Entries, Entry
<1>3. \A x \in Present(table) : x.key # e.key
  <2>1. ~ HasKey(table[Hash(key, size)], key)
    BY DEF DictInsert
  <2> QED
    BY <1>1, <1>2, <2>1, KeyAbsent
<1> HIDE DEF e
<1>4. Good(t, size) /\ Present(t) = Present(table) \cup {e}
  BY <1>1, <1>2, <1>3, InsertGood
<1>5. /\ count' = count + 1 /\ found' = found /\ (grows => 2 * size <= MaxSize)
      /\ size' = IF grows THEN 2 * size ELSE size
      /\ table' = IF grows THEN Doubled(t, size) ELSE t
  BY DEF DictInsert, e
<1> HIDE DEF t
<1>6. Good(table', size') /\ Present(table') = Present(table) \cup {e}
  <2>1. CASE grows
    <3>1. Good(Doubled(t, size), 2 * size) /\ Present(Doubled(t, size)) = Present(t)
      BY <1>1, <1>4, DoubledGood
    <3>2. size' = 2 * size /\ table' = Doubled(t, size)
      BY <1>5, <2>1
    <3> QED
      BY <1>4, <3>1, <3>2
  <2>2. CASE ~ grows
    <3>1. size' = size /\ table' = t
      BY <1>5, <2>2
    <3> QED
      BY <1>4, <3>1
  <2> QED
    BY <2>1, <2>2
<1>7. size' \in 0 .. MaxSize /\ count' <= size'
  BY <1>1, <1>5
<1>8. Contents' = Contents \cup {<<key, ptr>>} /\ \A p \in Contents : p[1] # key
  <2>1. Contents = Pairs(table) /\ Contents' = Pairs(table')
    BY DEF Contents, Pairs
  <2> QED
    BY <1>2, <1>3, <1>6, <2>1 DEF Pairs
<1>9. IsFiniteSet(Contents') /\ count' = Cardinality(Contents')
  <2>1. <<key, ptr>> \notin Contents /\ IsFiniteSet(Contents) /\ count = Cardinality(Contents)
    BY <1>8 DEF DictInv
  <2>2. /\ IsFiniteSet(Contents \cup {<<key, ptr>>})
        /\ Cardinality(Contents \cup {<<key, ptr>>}) = Cardinality(Contents) + 1
    BY <2>1, FS_AddElement
  <2> QED
    BY <1>5, <1>8, <2>1, <2>2
<1>10. found' \in (Keys \cup {0}) \X (Blks \cup {NULL})
  BY <1>5 DEF DictInv
<1> QED
  BY <1>6, <1>7, <1>8, <1>9, <1>10 DEF DictInv

LEMMA DeleteInv ==
  ASSUME DictInv, size # 0, NEW key \in Keys, DictDelete(key)
  PROVE  DictInv' /\ Contents' = {p \in Contents : p[1] # key}
<1> DEFINE i == Hash(key, size)
           u == [table EXCEPT ![i] = Removed(@, key)]
<1>1. /\ size \in Nat \ {0} /\ size <= MaxSize /\ count \in Nat
      /\ Good(table, size) /\ count <= size /\ MaxSize \in Nat
  BY InvTyped DEF DictInv
<1>2. size' = size /\ found' = found
  BY DEF DictDelete
<1>3. Contents = Pairs(table) /\ Contents' = Pairs(table')
  BY DEF Contents, Pairs
<1>4. HasKey(table[i], key) <=> \E x \in Present(table) : x.key = key
  BY <1>1, KeyAbsent
<1>5. CASE HasKey(table[i], key)
  <2>1. table' = u /\ count' = count - 1
    BY <1>5 DEF DictDelete
  <2>2. Good(u, size) /\ Present(u) = {x \in Present(table) : x.key # key}
    BY <1>1, <1>5, DeleteGood
  <2> HIDE DEF u, i
  <2>3. Contents' = {p \in Contents : p[1] # key}
    BY <1>3, <2>1, <2>2 DEF Pairs
  <2>4. PICK x \in Present(table) : x.key = key
    BY <1>4, <1>5
  <2> DEFINE q == <<key, x.ptr>>
  <2>5. q \in Contents /\ \A p \in Contents : p[1] = key => p = q
    <3>1. \A y \in Present(table) : y.key = key => y = x
      <4> SUFFICES ASSUME NEW y \in Present(table), y.key = key PROVE y = x
        OBVIOUS
      <4>0. key \in Nat \ {0} /\ Hash(key, size) \in 0 .. size - 1
        BY <1>1, KeyAssumption, HashIn
      <4> DEFINE s == Chain(table[Hash(key, size)])
      <4>1. x \in Members(s) /\ y \in Members(s)
        BY <1>1, <2>4, PresentAt
      <4>2. Distinct(s)
        BY <1>1, <4>0 DEF Good
      <4> HIDE DEF s
      <4> QED
        BY <2>4, <4>1, <4>2 DEF Members, Distinct
    <3> QED
      BY <1>3, <2>4, <3>1 DEF Pairs
  <2> HIDE DEF q
  <2>6. Contents' = Contents \ {q}
    <3>1. q[1] = key
      BY DEF q
    <3> QED
      BY <2>3, <2>5, <3>1
  <2>7. IsFiniteSet(Contents) /\ count = Cardinality(Contents)
    BY DEF DictInv
  <2>8. /\ IsFiniteSet(Contents \ {q})
        /\ Cardinality(Contents \ {q}) = Cardinality(Contents) - 1
    BY <2>5, <2>7, FS_RemoveElement
  <2>9. IsFiniteSet(Contents') /\ count' = Cardinality(Contents') /\ count' <= size'
    BY <1>1, <1>2, <2>1, <2>6, <2>7, <2>8
  <2>10. /\ Good(table', size') /\ size' \in 0 .. MaxSize
         /\ found' \in (Keys \cup {0}) \X (Blks \cup {NULL})
    BY <1>1, <1>2, <2>1, <2>2 DEF DictInv
  <2> QED
    BY <2>3, <2>9, <2>10 DEF DictInv
<1>6. CASE ~ HasKey(table[i], key)
  <2>1. table' = table /\ count' = count
    BY <1>6 DEF DictDelete
  <2>2. Contents' = Contents /\ \A p \in Contents : p[1] # key
    BY <1>3, <1>4, <1>6, <2>1 DEF Pairs
  <2>3. DictInv'
    BY <1>2, <2>1, <2>2 DEF DictInv
  <2> QED
    BY <2>2, <2>3
<1> QED
  BY <1>5, <1>6

LEMMA SearchInv ==
  ASSUME DictInv, size # 0, NEW key \in Keys \cup {0}, DictSearch(key)
  PROVE  /\ DictInv' /\ Contents' = Contents
         /\ \/ found' \in Contents /\ found'[1] = key
            \/ (\A p \in Contents : p[1] # key) /\ found' = <<key, NULL>>
<1> DEFINE i == Hash(key, size)
           b == Lookup(table[i], key)
<1>1. /\ size \in Nat \ {0} /\ Good(table, size) /\ table \in Tables(size)
  BY InvTyped DEF DictInv
<1>2. /\ found' = <<key, b>> /\ size' = size /\ count' = count /\ table' = table
      /\ Contents' = Contents
  BY DEF DictSearch, Contents
<1>3. key \in Nat /\ i \in 0 .. size - 1
  BY <1>1, KeyAssumption, HashIn
<1>4. table[i] \in Bucket /\ Distinct(Chain(table[i]))
  BY <1>1, <1>3, ChainsTyped DEF Good
<1>5. \A x : x \in Present(table) <=>
               x \in Entries /\ x \in Members(Chain(table[Hash(x.key, size)]))
  BY <1>1, PresentAt
<1>6. Members(Chain(table[i])) \in SUBSET Entries
      /\ \A x \in Members(Chain(table[i])) : Hash(x.key, size) = i
  BY <1>1, <1>3, ChainsTyped DEF Good
<1>7. \A x \in Members(Chain(table[i])) : x \in Present(table)
  BY <1>5, <1>6
<1>8. \A x \in Present(table) : x.key = key => x \in Members(Chain(table[i]))
  BY <1>5
<1>9. \A x \in Present(table) : x \in Entries
  BY <1>5
<1>10. \/ \E x \in Present(table) : x.key = key /\ b = x.ptr
       \/ (\A x \in Present(table) : x.key # key) /\ b = NULL
  <2>1. CASE key = 0
    <3>1. b = NULL
      BY <1>4, <2>1, LookupNull
    <3> QED
      BY <1>9, <2>1, <3>1, EntryFacts
  <2>2. CASE key # 0
    <3>1. \/ \E x \in Members(Chain(table[i])) : x.key = key /\ b = x.ptr
          \/ (\A x \in Members(Chain(table[i])) : x.key # key) /\ b = NULL
      BY <1>3, <1>4, <2>2, LookupFacts
    <3> HIDE DEF b, i
    <3> QED
      BY <1>7, <1>8, <3>1
  <2> QED
    BY <2>1, <2>2
<1> HIDE DEF b, i
<1>11. \/ <<key, b>> \in Contents
       \/ (\A p \in Contents : p[1] # key) /\ b = NULL
  BY <1>10 DEF Contents
<1>12. b \in Blks \cup {NULL}
  BY <1>9, <1>10, EntryFacts
<1>13. DictInv'
  BY <1>2, <1>12 DEF DictInv
<1> QED
  BY <1>2, <1>11, <1>13

LEMMA NextInv ==
  ASSUME DictInv, [Next]_vars
  PROVE  DictInv' /\ [Abs!Next]_<<Contents, found>>
<1>1. ASSUME size # 0, NEW key \in Keys, NEW ptr \in Blks, DictInsert(key, ptr)
      PROVE  DictInv' /\ Abs!Next
  <2>1. /\ DictInv' /\ Contents' = Contents \cup {<<key, ptr>>}
        /\ \A p \in Contents : p[1] # key
    BY <1>1, InsertInv
  <2>2. found' = found
    BY <1>1 DEF DictInsert
  <2>3. Abs!Insert(key, ptr)
    BY <2>1, <2>2 DEF Abs!Insert, Abs!Used
  <2> QED
    BY <2>1, <2>3 DEF Abs!Next
<1>2. ASSUME size # 0, NEW key \in Keys, DictDelete(key)
      PROVE  DictInv' /\ Abs!Next
  <2>1. DictInv' /\ Contents' = {p \in Contents : p[1] # key}
    BY <1>2, DeleteInv
  <2>2. found' = found
    BY <1>2 DEF DictDelete
  <2>3. Abs!Delete(key)
    BY <2>1, <2>2 DEF Abs!Delete
  <2> QED
    BY <2>1, <2>3 DEF Abs!Next
<1>3. ASSUME size # 0, NEW key \in Keys \cup {0}, DictSearch(key)
      PROVE  DictInv' /\ Abs!Next
  <2>1. /\ DictInv' /\ Contents' = Contents
        /\ \/ found' \in Contents /\ found'[1] = key
           \/ (\A p \in Contents : p[1] # key) /\ found' = <<key, NULL>>
    BY <1>3, SearchInv
  <2>2. Abs!Search(key)
    BY <2>1 DEF Abs!Search, Abs!Used
  <2> QED
    BY <2>1, <2>2 DEF Abs!Next
<1>4. ASSUME NEW n \in 0 .. MaxSize, size' = n, count' = 0, table' = EmptyTable(n),
             found' = found
      PROVE  DictInv' /\ Abs!Next
  <2>1. found' \in (Keys \cup {0}) \X (Blks \cup {NULL})
    BY <1>4 DEF DictInv
  <2>2. n \in Nat
    BY CountAssumption
  <2>3. Good(table', size') /\ Present(table') = {}
    BY <1>4, <2>2, EmptyGood
  <2>4. Contents' = {}
    BY <2>3 DEF Contents
  <2>5. IsFiniteSet({}) /\ Cardinality({}) = 0
    BY FS_EmptySet
  <2>6. DictInv'
    BY <1>4, <2>1, <2>2, <2>3, <2>4, <2>5 DEF DictInv
  <2>7. Abs!Empty
    BY <1>4, <2>4 DEF Abs!Empty
  <2> QED
    BY <2>6, <2>7 DEF Abs!Next
<1>5. ASSUME DictCreate
      PROVE  DictInv' /\ Abs!Next
  <2>1. START_COUNT \in 0 .. MaxSize
    BY CountAssumption
  <2> QED
    BY <1>4, <1>5, <2>1 DEF DictCreate
<1>6. ASSUME DictDestroy
      PROVE  DictInv' /\ Abs!Next
  <2>1. 0 \in 0 .. MaxSize
    BY CountAssumption
  <2> QED
    BY <1>4, <1>6, <2>1 DEF DictDestroy
<1>7. ASSUME UNCHANGED vars
      PROVE  DictInv' /\ UNCHANGED <<Contents, found>>
  <2>1. /\ size' = size /\ count' = count /\ table' = table /\ found' = found
        /\ Contents' = Contents
    BY <1>7 DEF vars, Contents
  <2> QED
    BY <2>1 DEF DictInv
<1> QED
  BY <1>1, <1>2, <1>3, <1>5, <1>6, <1>7 DEF Next

LEMMA AlwaysInv == Spec => []DictInv
<1>1. Init => DictInv
  BY InitInv
<1>2. DictInv /\ [Next]_vars => DictInv'
  BY NextInv
<1> QED
  BY <1>1, <1>2, PTL DEF Spec

(* What the invariant says of the table.                                   *)
LEMMA InvMeans ==
  ASSUME DictInv
  PROVE  TypeOK /\ WellHashed /\ CountExact
<1>1. size \in Nat /\ MaxSize \in Nat /\ count \in Nat /\ table \in Tables(size)
  BY InvTyped
<1>2. CountExact
  BY DEF DictInv, CountExact
<1>3. DOMAIN table = 0 .. size - 1 /\ \A i \in 0 .. size - 1 : table[i] \in Bucket
  BY <1>1 DEF Tables
<1>4. TypeOK
  BY <1>1, <1>3 DEF DictInv, TypeOK, Bucket
<1>5. ASSUME NEW i \in 0 .. size - 1,
             NEW j \in DOMAIN Chain(table[i]), NEW k \in 1 .. j - 1
      PROVE  Chain(table[i])[k].key # Chain(table[i])[j].key
  <2> DEFINE s == Chain(table[i])
  <2>1. s \in Seq(Entries) /\ Distinct(s)
    BY <1>1, ChainsTyped DEF DictInv, Good
  <2> HIDE DEF s
  <2>2. j \in 1 .. Len(s) /\ k \in 1 .. Len(s) /\ k # j
    <3>1. DOMAIN s = 1 .. Len(s) /\ Len(s) \in Nat
      BY <2>1
    <3>2. j \in 1 .. Len(s)
      BY <3>1 DEF s
    <3> QED
      BY <3>1, <3>2
  <2>3. s[k].key # s[j].key
    BY <2>1, <2>2 DEF Distinct
  <2> QED
    BY <2>3 DEF s
<1>6. ASSUME NEW i \in 0 .. size - 1, NEW j \in DOMAIN Chain(table[i])
      PROVE  Hash(Chain(table[i])[j].key, size) = i
  <2> DEFINE s == Chain(table[i])
  <2>1. s \in Seq(Entries) /\ \A e \in Members(s) : Hash(e.key, size) = i
    BY <1>1, ChainsTyped DEF DictInv, Good
  <2> HIDE DEF s
  <2>2. j \in DOMAIN s /\ DOMAIN s = 1 .. Len(s)
    BY <2>1 DEF s
  <2>3. Hash(s[j].key, size) = i
    BY <2>1, <2>2 DEF Members
  <2> QED
    BY <2>3 DEF s
<1>7. WellHashed
  BY <1>3, <1>5, <1>6 DEF WellHashed
<1> QED
  BY <1>2, <1>4, <1>7

(* The fields of the dictionary keep their types; the table has as many    *)
(* buckets as its size says, through every doubling of dict_insert.        *)
THEOREM TableTyped == Spec => []TypeOK
BY InvMeans, AlwaysInv, PTL

(* Any table, however often it has doubled, holds every entry in the       *)
(* bucket that dict_search looks in, and no key twice; an unused entry in  *)
(* place has none behind it.                                               *)
THEOREM TableSound == Spec => []WellHashed
BY InvMeans, AlwaysInv, PTL

(* The count that decides when dict_insert doubles is the number of        *)
(* entries, at most that of the buckets.                                   *)
THEOREM CountAlwaysExact == Spec => []CountExact
BY InvMeans, AlwaysInv, PTL

(* dict.c is a partial function from pointers to blocks: a search returns  *)
(* the block of its key when there is one and NULL otherwise, an insertion *)
(* adds one pair, a deletion takes the pair of its key, and a doubling     *)
(* cannot be noticed.                                                      *)
THEOREM DictIsFunction == Spec => ImplementsDictAbs
<1>1. Init => Abs!Init
  BY InitInv DEF Init, Abs!Init
<1>2. DictInv /\ [Next]_vars => [Abs!Next]_<<Contents, found>>
  BY NextInv
<1> QED
  BY <1>1, <1>2, AlwaysInv, PTL DEF Spec, ImplementsDictAbs, Abs!Spec
=============================================================================
