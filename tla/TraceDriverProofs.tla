------------------------- MODULE TraceDriverProofs -------------------------
(* That the test program's verdicts can be trusted, for every trace, every *)
(* heap and every allocator.                                               *)
EXTENDS TraceDriver, SequenceTheorems, FiniteSetTheorems, WellFoundedInduction,
        NaturalsInduction, TLAPS

-----------------------------------------------------------------------------
(* Induction.                                                              *)

LEMMA LeastOf ==
  ASSUME NEW T \in SUBSET Nat, T # {}
  PROVE  \E x \in T : \A y \in T : x <= y
<1>1. PICK x \in T : \A y \in T : ~ (<<y, x>> \in OpToRel(<, Nat))
  BY NatLessThanWellFounded, WFMin
<1>2. \A y \in T : ~ (y < x)
  BY <1>1 DEF OpToRel
<1> QED
  BY <1>2

(* What is true of 0, and of each number if of the one before it.          *)
LEMMA Counting ==
  ASSUME NEW T, 0 \in T, \A n \in Nat : n \in T => n + 1 \in T
  PROVE  Nat \subseteq T
<1> SUFFICES ASSUME Nat \ T # {} PROVE FALSE
  OBVIOUS
<1>1. PICK x \in Nat \ T : \A y \in Nat \ T : x <= y
  BY LeastOf
<1>2. x # 0 /\ x - 1 \in Nat /\ x - 1 \in T
  BY <1>1
<1>3. (x - 1) + 1 \in T
  BY <1>2
<1> QED
  BY <1>1, <1>3

-----------------------------------------------------------------------------
(* Sums over finite sets.                                                  *)

TotalOf(f, S) == MapThenSumSet(LAMBDA x : f[x], S)

(* g gives each part of S the sum of f over it, in whatever order.         *)
SumsOf(g, f, S) ==
  /\ g \in [SUBSET S -> Int] /\ g[{}] = 0
  /\ \A s \in SUBSET S : \A x \in s : g[s] = f[x] + g[s \ {x}]

LEMMA SumsMore ==
  ASSUME NEW S, NEW x, x \notin S, NEW f, NEW g, SumsOf(g, f, S), f[x] \in Int,
         \A y \in S : f[y] \in Int
  PROVE  \E h : SumsOf(h, f, S \cup {x})
<1> DEFINE U == S \cup {x}
           h == [t \in SUBSET U |-> IF x \in t THEN f[x] + g[t \ {x}] ELSE g[t]]
<1>1. /\ g \in [SUBSET S -> Int] /\ g[{}] = 0
      /\ \A s \in SUBSET S : \A y \in s : g[s] = f[y] + g[s \ {y}]
  BY DEF SumsOf
<1>2. \A t \in SUBSET U : t \ {x} \in SUBSET S /\ (x \notin t => t \in SUBSET S /\ t \ {x} = t)
  OBVIOUS
<1>3. \A t \in SUBSET U : h[t] = (IF x \in t THEN f[x] + g[t \ {x}] ELSE g[t]) /\ h[t] \in Int
  BY <1>1, <1>2
<1>4. h \in [SUBSET U -> Int]
  <2>1. h = [t \in SUBSET U |-> h[t]]
    OBVIOUS
  <2> HIDE DEF h
  <2> QED
    BY <1>3, <2>1
<1>5. h[{}] = 0
  BY <1>1, <1>3
<1> HIDE DEF h, U
<1>6. ASSUME NEW t \in SUBSET U, NEW y \in t
      PROVE  h[t] = f[y] + h[t \ {y}]
  <2>1. t \ {y} \in SUBSET U /\ f[y] \in Int
    BY DEF U
  <2>2. CASE y = x
    <3>1. h[t] = f[x] + g[t \ {x}] /\ h[t \ {x}] = g[(t \ {x})]
      BY <1>3, <2>1, <2>2
    <3> QED
      BY <2>2, <3>1
  <2>3. CASE y # x /\ x \notin t
    <3>1. h[t] = g[t] /\ h[t \ {y}] = g[t \ {y}] /\ t \in SUBSET S
      BY <1>2, <1>3, <2>1, <2>3
    <3> QED
      BY <1>1, <3>1
  <2>4. CASE y # x /\ x \in t
    <3> DEFINE r == t \ {x}
               q == r \ {y}
    <3>1. (t \ {y}) \ {x} = q /\ y \in r /\ r \in SUBSET S /\ q \in SUBSET S
      BY <1>2, <2>4
    <3>2. h[t] = f[x] + g[r] /\ h[t \ {y}] = f[x] + g[q]
      BY <1>3, <2>1, <2>4, <3>1
    <3>3. g[r] = f[y] + g[q]
      BY <1>1, <3>1
    <3>4. g[q] \in Int /\ g[r] \in Int
      BY <1>1, <3>1
    <3> HIDE DEF q, r
    <3> QED
      BY <2>1, <3>2, <3>3, <3>4
  <2> QED
    BY <2>2, <2>3, <2>4
<1> QED
  BY <1>4, <1>5, <1>6 DEF SumsOf, U

LEMMA SumsExist ==
  ASSUME NEW S, IsFiniteSet(S), NEW f, \A x \in S : f[x] \in Int
  PROVE  \E g : SumsOf(g, f, S)
<1> DEFINE T == {n \in Nat : \A s \in SUBSET S : Cardinality(s) = n => \E g : SumsOf(g, f, s)}
<1>1. \A s \in SUBSET S : IsFiniteSet(s) /\ Cardinality(s) \in Nat
  BY FS_Subset, FS_CardinalityType
<1>2. 0 \in T
  <2> SUFFICES ASSUME NEW s \in SUBSET S, Cardinality(s) = 0
               PROVE  \E g : SumsOf(g, f, s)
    OBVIOUS
  <2>1. s = {}
    BY <1>1, FS_EmptySet
  <2>2. SumsOf([t \in SUBSET {} |-> 0], f, {})
    BY DEF SumsOf
  <2> QED
    BY <2>1, <2>2
<1>3. ASSUME NEW n \in Nat, n \in T
      PROVE  n + 1 \in T
  <2> SUFFICES ASSUME NEW s \in SUBSET S, Cardinality(s) = n + 1
               PROVE  \E g : SumsOf(g, f, s)
    OBVIOUS
  <2>1. s # {}
    BY FS_EmptySet
  <2>2. PICK x \in s : TRUE
    BY <2>1
  <2>3. Cardinality(s \ {x}) = n /\ s \ {x} \in SUBSET S
    BY <1>1, <2>2, FS_RemoveElement
  <2>4. PICK g : SumsOf(g, f, s \ {x})
    BY <1>3, <2>3
  <2>5. (s \ {x}) \cup {x} = s
    BY <2>2
  <2>6. f[x] \in Int /\ \A y \in s \ {x} : f[y] \in Int
    BY <2>2
  <2>7. \E h : SumsOf(h, f, (s \ {x}) \cup {x})
    BY <2>4, <2>6, SumsMore
  <2> QED
    BY <2>5, <2>7
<1> HIDE DEF T
<1>4. Nat \subseteq T
  BY <1>2, <1>3, Counting
<1>5. Cardinality(S) \in T
  BY <1>1, <1>4
<1> QED
  BY <1>5 DEF T

(* The fold takes the elements in some order; any gives this.              *)
Turn(f, h, S) ==
  [s \in SUBSET S |->
     IF s = {} THEN 0 ELSE f[CHOOSE x \in s : TRUE] + h[s \ {CHOOSE x \in s : TRUE}]]

LEMMA SumIsFold ==
  ASSUME NEW f, NEW S
  PROVE  TotalOf(f, S) = (CHOOSE h : h = Turn(f, h, S))[S]
BY DEF TotalOf, MapThenSumSet, MapThenFoldSet, Turn

LEMMA FoldIs ==
  ASSUME NEW f, NEW S, IsFiniteSet(S), NEW g, SumsOf(g, f, S), NEW h, h = Turn(f, h, S)
  PROVE  h[S] = g[S]
<1> DEFINE T == {n \in Nat : \A s \in SUBSET S : Cardinality(s) = n => h[s] = g[s]}
<1>1. \A s \in SUBSET S : IsFiniteSet(s) /\ Cardinality(s) \in Nat
  BY FS_Subset, FS_CardinalityType
<1>2. \A s \in SUBSET S : h[s] = IF s = {} THEN 0 ELSE f[CHOOSE x \in s : TRUE]
                                                       + h[s \ {CHOOSE x \in s : TRUE}]
  <2>1. \A s \in SUBSET S : Turn(f, h, S)[s] =
            IF s = {} THEN 0 ELSE f[CHOOSE x \in s : TRUE] + h[s \ {CHOOSE x \in s : TRUE}]
    BY DEF Turn
  <2> QED
    BY <2>1
<1>3. 0 \in T
  <2> SUFFICES ASSUME NEW s \in SUBSET S, Cardinality(s) = 0 PROVE h[s] = g[s]
    OBVIOUS
  <2>1. s = {}
    BY <1>1, FS_EmptySet
  <2> QED
    BY <1>2, <2>1 DEF SumsOf
<1>4. ASSUME NEW n \in Nat, n \in T
      PROVE  n + 1 \in T
  <2> SUFFICES ASSUME NEW s \in SUBSET S, Cardinality(s) = n + 1 PROVE h[s] = g[s]
    OBVIOUS
  <2> DEFINE x == CHOOSE y \in s : TRUE
  <2>1. s # {}
    BY FS_EmptySet
  <2>2. x \in s
    BY <2>1
  <2>3. h[s] = f[x] + h[s \ {x}]
    BY <1>2, <2>1
  <2> HIDE DEF x
  <2>4. Cardinality(s \ {x}) = n /\ s \ {x} \in SUBSET S
    <3>1. IsFiniteSet(s) /\ Cardinality(s) = n + 1
      BY <1>1
    <3>2. Cardinality(s \ {x}) = Cardinality(s) - 1
      BY ONLY <2>2, <3>1, FS_RemoveElement
    <3> QED
      BY <3>1, <3>2
  <2>5. h[s \ {x}] = g[s \ {x}]
    BY <1>4, <2>4
  <2> QED
    BY <2>2, <2>3, <2>5 DEF SumsOf
<1> HIDE DEF T
<1>5. Nat \subseteq T
  BY <1>3, <1>4, Counting
<1>6. Cardinality(S) \in T
  BY <1>1, <1>5
<1> QED
  BY <1>6 DEF T

LEMMA SumIs ==
  ASSUME NEW f, NEW S, IsFiniteSet(S), NEW g, SumsOf(g, f, S)
  PROVE  TotalOf(f, S) = g[S]
<1>1. g = Turn(f, g, S)
  <2>1. \A s \in SUBSET S : g[s] = IF s = {} THEN 0 ELSE f[CHOOSE x \in s : TRUE]
                                                         + g[s \ {CHOOSE x \in s : TRUE}]
    <3> SUFFICES ASSUME NEW s \in SUBSET S, s # {}
                 PROVE  g[s] = f[CHOOSE x \in s : TRUE] + g[s \ {CHOOSE x \in s : TRUE}]
      BY DEF SumsOf
    <3>1. (CHOOSE x \in s : TRUE) \in s
      OBVIOUS
    <3> QED
      BY <3>1 DEF SumsOf
  <2>2. g = [s \in SUBSET S |-> g[s]]
    BY DEF SumsOf
  <2> QED
    BY <2>1, <2>2 DEF Turn
<1> DEFINE h == CHOOSE k : k = Turn(f, k, S)
<1>2. h = Turn(f, h, S)
  BY <1>1
<1>3. TotalOf(f, S) = h[S]
  BY SumIsFold
<1> HIDE DEF h
<1> QED
  BY <1>2, <1>3, FoldIs

LEMMA SumAdd ==
  ASSUME NEW f, NEW S, IsFiniteSet(S), NEW x, x \notin S, f[x] \in Int,
         \A y \in S : f[y] \in Int
  PROVE  TotalOf(f, S \cup {x}) = TotalOf(f, S) + f[x] /\ TotalOf(f, S) \in Int
<1>1. PICK g : SumsOf(g, f, S)
  BY SumsExist
<1> DEFINE U == S \cup {x}
<1>2. IsFiniteSet(U) /\ \A y \in U : f[y] \in Int
  BY FS_AddElement
<1>3. PICK h : SumsOf(h, f, U)
  BY <1>2, SumsExist
<1> DEFINE k == [s \in SUBSET S |-> h[s]]
<1>4. SumsOf(k, f, S)
  <2>1. \A s \in SUBSET S : s \in SUBSET U /\ h[s] \in Int /\ k[s] = h[s]
    BY <1>3 DEF SumsOf
  <2>2. k \in [SUBSET S -> Int]
    BY <2>1
  <2> HIDE DEF k
  <2>3. \A s \in SUBSET S : \A y \in s : k[s] = f[y] + k[s \ {y}]
    <3> SUFFICES ASSUME NEW s \in SUBSET S, NEW y \in s PROVE k[s] = f[y] + k[s \ {y}]
      OBVIOUS
    <3>1. h[s] = f[y] + h[s \ {y}] /\ s \ {y} \in SUBSET S
      BY <1>3, <2>1 DEF SumsOf
    <3> QED
      BY <2>1, <3>1
  <2> QED
    BY <1>3, <2>1, <2>2, <2>3 DEF SumsOf
<1>5. TotalOf(f, S) = h[S]
  <2>1. k[S] = h[S]
    OBVIOUS
  <2> HIDE DEF k
  <2> QED
    BY <1>4, <2>1, SumIs
<1>6. TotalOf(f, U) = h[U]
  BY <1>2, <1>3, SumIs
<1>7. h[U] = f[x] + h[U \ {x}] /\ U \ {x} = S /\ h[S] \in Int
  BY <1>3 DEF SumsOf
<1> HIDE DEF k
<1>8. h[U] = f[x] + h[S]
  BY <1>7
<1> HIDE DEF U
<1>9. TotalOf(f, U) = TotalOf(f, S) + f[x] /\ TotalOf(f, S) \in Int
  BY <1>5, <1>6, <1>7, <1>8
<1> QED
  BY <1>9 DEF U

LEMMA SumOfNone ==
  ASSUME NEW f
  PROVE  TotalOf(f, {}) = 0
<1>1. SumsOf([t \in SUBSET {} |-> 0], f, {})
  BY DEF SumsOf
<1> QED
  BY <1>1, SumIs, FS_EmptySet

LEMMA SumSame ==
  ASSUME NEW f, NEW e, NEW S, IsFiniteSet(S), \A y \in S : f[y] \in Int /\ e[y] = f[y]
  PROVE  TotalOf(e, S) = TotalOf(f, S)
<1>1. PICK g : SumsOf(g, f, S)
  BY SumsExist
<1>2. SumsOf(g, e, S)
  BY <1>1 DEF SumsOf
<1> QED
  BY <1>1, <1>2, SumIs

-----------------------------------------------------------------------------
(* Types.                                                                  *)

Ops == [type : {"ALLOC", "REALLOC", "FREE"}, index : Ids, size : Sizes \cup {0}]

Ranges == [lo : Nat, hi : Int]

TypeInv ==
  /\ pass \in {"valid", "util", "done", "stuck"}
  /\ ops \in Seq(Ops)
  /\ i \in Nat
  /\ ranges \in Seq(Ranges)
  /\ blocks \in [Ids -> Nat]
  /\ block_sizes \in [Ids -> Nat]
  /\ pass = "valid" => i = Len(ops)

-----------------------------------------------------------------------------
(* Lists of ranges, of which no two start at one address.                  *)

Distinct(rs) == \A j, k \in DOMAIN rs : j # k => rs[j].lo # rs[k].lo

(* Two ranges of the list with a byte in common: the newer is around the   *)
(* older.                                                                  *)
Contained(rs) ==
  \A j, k \in DOMAIN rs :
    j < k /\ rs[j].lo <= rs[k].hi /\ rs[k].lo <= rs[j].hi =>
      rs[j].lo < rs[k].lo /\ rs[k].hi < rs[j].hi

(* What remains of a list is what does not start at the address removed,   *)
(* in its order.                                                           *)
LEMMA RemoveRangeEffect ==
  ASSUME NEW rs \in Seq(Ranges), NEW lo, Distinct(rs)
  PROVE  LET rest == RemoveRange(rs, lo) IN
         /\ rest \in Seq(Ranges)
         /\ \E f \in [DOMAIN rest -> DOMAIN rs] :
              /\ \A j \in DOMAIN rest : rest[j] = rs[f[j]] /\ rs[f[j]].lo # lo
              /\ \A j, k \in DOMAIN rest : j < k => f[j] < f[k]
              /\ \A k \in DOMAIN rs : rs[k].lo # lo => \E j \in DOMAIN rest : f[j] = k
<1> DEFINE I    == {j \in 1 .. Len(rs) : rs[j].lo = lo}
           at   == SelectInSeq(rs, LAMBDA p : p.lo = lo)
           rest == RemoveRange(rs, lo)
<1>1. CASE I = {}
  <2>1. at = 0
    BY <1>1 DEF SelectInSeq
  <2>2. rest = rs
    BY <2>1 DEF RemoveRange
  <2>3. \A j \in DOMAIN rs : rs[j].lo # lo
    BY <1>1
  <2> DEFINE f == [j \in DOMAIN rs |-> j]
  <2>4. /\ f \in [DOMAIN rest -> DOMAIN rs]
        /\ \A j \in DOMAIN rest : rest[j] = rs[f[j]] /\ rs[f[j]].lo # lo
        /\ \A j, k \in DOMAIN rest : j < k => f[j] < f[k]
        /\ \A k \in DOMAIN rs : \E j \in DOMAIN rest : f[j] = k
    BY <2>2, <2>3
  <2> HIDE DEF f, rest
  <2> QED
    BY <2>2, <2>4 DEF rest
<1>2. CASE I # {}
  <2>1. PICK a \in 1 .. Len(rs) : rs[a].lo = lo
    BY <1>2
  <2>2. I = {a}
    BY <2>1 DEF Distinct
  <2>3. at = a
    BY <2>2 DEF SelectInSeq, Min
  <2>4. rest = SubSeq(rs, 1, a - 1) \o SubSeq(rs, a + 1, Len(rs))
    <3>1. at # 0
      BY <2>1, <2>3
    <3>2. rest = RemoveAt(rs, at)
      BY <3>1 DEF RemoveRange
    <3>3. rest = RemoveAt(rs, a)
      <4> HIDE DEF at, rest
      <4> QED
        BY <2>3, <3>2
    <3> QED
      BY <3>3, Zenon DEF RemoveAt
  <2>5. /\ rest \in Seq(Ranges) /\ Len(rest) = Len(rs) - 1
        /\ \A j \in 1 .. Len(rs) - 1 :
             rest[j] = IF j < a THEN rs[j] ELSE rs[j + 1]
    <3> DEFINE s == SubSeq(rs, 1, a - 1)
               t == SubSeq(rs, a + 1, Len(rs))
    <3>1. /\ s \in Seq(Ranges) /\ Len(s) = a - 1
          /\ \A j \in 1 .. a - 1 : s[j] = rs[j]
      BY <2>1
    <3>2. /\ t \in Seq(Ranges) /\ Len(t) = Len(rs) - a
          /\ \A j \in 1 .. Len(rs) - a : t[j] = rs[a + j]
      BY <2>1
    <3>3. rest = s \o t
      BY <2>4
    <3> HIDE DEF s, t, rest
    <3>4. rest \in Seq(Ranges) /\ Len(rest) = Len(rs) - 1
      <4>1. s \o t \in Seq(Ranges) /\ Len(s \o t) = Len(s) + Len(t)
          BY <3>1, <3>2, ConcatProperties
      <4>2. Len(s) + Len(t) = Len(rs) - 1
        BY <2>1, <3>1, <3>2
      <4> QED
        BY <3>3, <4>1, <4>2
    <3>5. ASSUME NEW j \in 1 .. Len(rs) - 1
          PROVE  rest[j] = IF j < a THEN rs[j] ELSE rs[j + 1]
      <4>1. CASE j < a
        BY <2>1, <3>1, <3>2, <3>3, <4>1
      <4>2. CASE ~ (j < a)
        <5>1. j - (a - 1) \in 1 .. Len(rs) - a /\ a + (j - (a - 1)) = j + 1
          BY <2>1, <4>2
        <5>2. rest[j] = t[j - (a - 1)]
          BY <2>1, <3>1, <3>2, <3>3, <4>2
        <5> QED
          BY <3>2, <4>2, <5>1, <5>2
      <4> QED
        BY <4>1, <4>2
    <3> QED
      BY <3>4, <3>5
  <2> DEFINE f == [j \in 1 .. Len(rs) - 1 |-> IF j < a THEN j ELSE j + 1]
  <2>6. DOMAIN rest = 1 .. Len(rs) - 1 /\ DOMAIN rs = 1 .. Len(rs)
    BY <2>5
  <2>7. f \in [1 .. Len(rs) - 1 -> 1 .. Len(rs)]
    BY <2>1
  <2>8. \A j \in 1 .. Len(rs) - 1 : f[j] # a
    BY <2>1
  <2>9. \A j \in 1 .. Len(rs) : rs[j].lo = lo => j = a
    BY <2>2
  <2>10. \A j \in 1 .. Len(rs) - 1 : rest[j] = rs[f[j]] /\ rs[f[j]].lo # lo
    <3>1. \A j \in 1 .. Len(rs) - 1 : rest[j] = rs[f[j]]
      BY <2>1, <2>5
    <3> HIDE DEF f, rest
    <3> QED
      BY <2>7, <2>8, <2>9, <3>1
  <2>11. \A j, k \in 1 .. Len(rs) - 1 : j < k => f[j] < f[k]
    BY <2>1
  <2>12. ASSUME NEW k \in 1 .. Len(rs), rs[k].lo # lo
         PROVE  \E j \in 1 .. Len(rs) - 1 : f[j] = k
    <3>1. k # a
      BY <2>1, <2>12
    <3>2. CASE k < a
      <4>1. k \in 1 .. Len(rs) - 1 /\ f[k] = k
        BY <2>1, <3>2
      <4> QED
        BY <4>1
    <3>3. CASE a < k
      <4>1. k - 1 \in 1 .. Len(rs) - 1 /\ f[k - 1] = k
        BY <2>1, <3>3
      <4> QED
        BY <4>1
    <3> QED
      BY <2>1, <3>1, <3>2, <3>3
  <2> HIDE DEF f, rest
  <2>13. /\ f \in [DOMAIN rest -> DOMAIN rs]
         /\ \A j \in DOMAIN rest : rest[j] = rs[f[j]] /\ rs[f[j]].lo # lo
         /\ \A j, k \in DOMAIN rest : j < k => f[j] < f[k]
         /\ \A k \in DOMAIN rs : rs[k].lo # lo => \E j \in DOMAIN rest : f[j] = k
    BY <2>6, <2>7, <2>10, <2>11, <2>12
  <2> QED
    BY <2>5, <2>13 DEF rest
<1> QED
  BY <1>1, <1>2

(* So it keeps what the list has.                                          *)
LEMMA RemoveRangeKeeps ==
  ASSUME NEW rs \in Seq(Ranges), NEW lo, Distinct(rs), Contained(rs)
  PROVE  LET rest == RemoveRange(rs, lo) IN
         /\ rest \in Seq(Ranges) /\ Distinct(rest) /\ Contained(rest)
         /\ \A j \in DOMAIN rest : \E k \in DOMAIN rs : rest[j] = rs[k] /\ rs[k].lo # lo
         /\ \A k \in DOMAIN rs : rs[k].lo # lo => \E j \in DOMAIN rest : rest[j] = rs[k]
<1> DEFINE rest == RemoveRange(rs, lo)
<1>1. PICK f \in [DOMAIN rest -> DOMAIN rs] :
        /\ \A j \in DOMAIN rest : rest[j] = rs[f[j]] /\ rs[f[j]].lo # lo
        /\ \A j, k \in DOMAIN rest : j < k => f[j] < f[k]
        /\ \A k \in DOMAIN rs : rs[k].lo # lo => \E j \in DOMAIN rest : f[j] = k
  BY RemoveRangeEffect
<1>2. rest \in Seq(Ranges)
  BY RemoveRangeEffect
<1> HIDE DEF rest
<1>3. \A j, k \in DOMAIN rest : j # k => f[j] # f[k]
  <2> SUFFICES ASSUME NEW j \in DOMAIN rest, NEW k \in DOMAIN rest, j # k
               PROVE  f[j] # f[k]
    OBVIOUS
  <2>1. j \in Nat /\ k \in Nat /\ f[j] \in Nat /\ f[k] \in Nat
    BY <1>1, <1>2
  <2>2. j < k \/ k < j
    BY <2>1
  <2>3. f[j] < f[k] \/ f[k] < f[j]
    BY <1>1, <2>2
  <2> QED
    BY <2>1, <2>3
<1>4. Distinct(rest)
  BY <1>1, <1>3 DEF Distinct
<1>5. Contained(rest)
  <2> SUFFICES ASSUME NEW j \in DOMAIN rest, NEW k \in DOMAIN rest, j < k,
                      rest[j].lo <= rest[k].hi, rest[k].lo <= rest[j].hi
               PROVE  rest[j].lo < rest[k].lo /\ rest[k].hi < rest[j].hi
    BY DEF Contained
  <2>1. f[j] < f[k] /\ f[j] \in DOMAIN rs /\ f[k] \in DOMAIN rs
    BY <1>1
  <2> QED
    BY <1>1, <2>1 DEF Contained
<1> QED
  BY <1>1, <1>2, <1>4, <1>5 DEF rest

(* A range that passes the checks can be added.                            *)
LEMMA AddRangeKeeps ==
  ASSUME NEW rs \in Seq(Ranges), Distinct(rs), Contained(rs),
         \A j \in DOMAIN rs : rs[j].lo <= rs[j].hi,
         NEW lo \in Nat, NEW size \in Nat \ {0}, AddRangeOk(rs, lo, size)
  PROVE  LET new == AddRange(rs, lo, size) IN
         /\ new \in Seq(Ranges) /\ Distinct(new) /\ Contained(new)
         /\ \A j \in DOMAIN new :
              new[j] = Range_t(lo, size) \/ \E k \in DOMAIN rs : new[j] = rs[k]
         /\ \E j \in DOMAIN new : new[j] = Range_t(lo, size)
         /\ \A k \in DOMAIN rs : rs[k].lo # lo /\ \E j \in DOMAIN new : new[j] = rs[k]
<1> DEFINE r   == Range_t(lo, size)
           new == AddRange(rs, lo, size)
<1>1. r \in Ranges /\ r.lo = lo /\ r.hi = lo + size - 1
  BY DEF Range_t, Ranges
<1>2. \A j \in DOMAIN rs : ~ Overlaps(r, rs[j])
  BY DEF AddRangeOk, ToSet
<1>3. new = <<r>> \o rs
  BY DEF AddRange
<1> HIDE DEF r, new
<1>4. /\ new \in Seq(Ranges) /\ Len(new) = Len(rs) + 1
      /\ \A j \in 1 .. Len(rs) + 1 : new[j] = IF j = 1 THEN r ELSE rs[j - 1]
  <2>1. <<r>> \in Seq(Ranges) /\ Len(<<r>>) = 1 /\ <<r>>[1] = r
    BY <1>1
  <2> QED
    BY <1>3, <2>1, ConcatProperties
<1>5. DOMAIN new = 1 .. Len(rs) + 1 /\ DOMAIN rs = 1 .. Len(rs) /\ Len(rs) \in Nat
  BY <1>4
<1>6. \A k \in DOMAIN rs :
        /\ rs[k].lo \in Nat /\ rs[k].hi \in Int /\ rs[k].lo <= rs[k].hi
        /\ ~ (rs[k].lo <= r.lo /\ r.lo <= rs[k].hi)
        /\ ~ (rs[k].lo <= r.hi /\ r.hi <= rs[k].hi)
  <2> SUFFICES ASSUME NEW k \in DOMAIN rs
               PROVE  /\ rs[k].lo \in Nat /\ rs[k].hi \in Int /\ rs[k].lo <= rs[k].hi
                      /\ ~ (rs[k].lo <= r.lo /\ r.lo <= rs[k].hi)
                      /\ ~ (rs[k].lo <= r.hi /\ r.hi <= rs[k].hi)
    OBVIOUS
  <2>1. rs[k] \in Ranges
    OBVIOUS
  <2>2. ~ Overlaps(r, rs[k])
    BY <1>2
  <2> QED
    BY <2>1, <2>2 DEF Overlaps, Ranges
<1>7. \A k \in DOMAIN rs : rs[k].lo # r.lo
  BY <1>1, <1>6
<1>8. \A j \in DOMAIN new : j # 1 => j - 1 \in DOMAIN rs /\ new[j] = rs[j - 1]
  BY <1>4, <1>5
<1>9. 1 \in DOMAIN new /\ new[1] = r
  BY <1>4, <1>5
<1>10. Distinct(new)
  <2> SUFFICES ASSUME NEW j \in DOMAIN new, NEW k \in DOMAIN new, j # k
               PROVE  new[j].lo # new[k].lo
    BY DEF Distinct
  <2>1. CASE j = 1
    BY <1>7, <1>8, <1>9, <2>1
  <2>2. CASE k = 1
    BY <1>7, <1>8, <1>9, <2>2
  <2>3. CASE j # 1 /\ k # 1
    <3>1. j - 1 # k - 1
      BY <1>5
    <3> QED
      BY <1>8, <2>3, <3>1 DEF Distinct
  <2> QED
    BY <2>1, <2>2, <2>3
<1>11. Contained(new)
  <2> SUFFICES ASSUME NEW j \in DOMAIN new, NEW k \in DOMAIN new, j < k,
                      new[j].lo <= new[k].hi, new[k].lo <= new[j].hi
               PROVE  new[j].lo < new[k].lo /\ new[k].hi < new[j].hi
    BY DEF Contained
  <2>1. k # 1
    BY <1>5
  <2>2. CASE j = 1
    BY <1>1, <1>6, <1>8, <1>9, <2>1, <2>2
  <2>3. CASE j # 1
    <3>1. j - 1 < k - 1
      BY <1>5
    <3> QED
      BY <1>8, <2>1, <2>3, <3>1 DEF Contained
  <2> QED
    BY <2>2, <2>3
<1>12. \A j \in DOMAIN new : new[j] = r \/ \E k \in DOMAIN rs : new[j] = rs[k]
  BY <1>8, <1>9
<1>13. ASSUME NEW k \in DOMAIN rs
       PROVE  rs[k].lo # lo /\ \E j \in DOMAIN new : new[j] = rs[k]
  <2>1. k + 1 \in DOMAIN new /\ k + 1 # 1 /\ (k + 1) - 1 = k
    BY <1>5
  <2>2. new[k + 1] = rs[k]
    BY <1>8, <2>1
  <2> QED
    BY <1>1, <1>7, <2>1, <2>2
<1> QED
  BY <1>4, <1>9, <1>10, <1>11, <1>12, <1>13 DEF r, new

-----------------------------------------------------------------------------
(* The trace.                                                              *)

(* The ids that are live after k requests of a trace.                      *)
LiveOf(o, k) ==
  {id \in Ids : \E j \in 1 .. k :
     /\ o[j].index = id /\ o[j].type # "FREE"
     /\ \A l \in j + 1 .. k : o[l].index = id => o[l].type # "FREE"}

(* A trace allocates ids that are not live, resizes and frees those that   *)
(* are.                                                                    *)
LegalTrace(o) ==
  \A j \in 1 .. Len(o) : o[j].type = "ALLOC" <=> o[j].index \notin LiveOf(o, j - 1)

LEMMA LiveIs == \A k : LiveIds(k) = LiveOf(ops, k)
BY DEF LiveIds, LiveOf

LEMMA LiveIsNext == LiveIds(i)' = LiveOf(ops', i')
BY Zenon DEF LiveIds, LiveOf

LEMMA LiveNone ==
  ASSUME NEW o
  PROVE  LiveOf(o, 0) = {}
BY DEF LiveOf

(* A request makes its block live or takes it away.                        *)
LEMMA LiveStep ==
  ASSUME NEW o \in Seq(Ops), NEW k \in Nat, k < Len(o), NEW op, op = o[k + 1]
  PROVE  /\ op.type # "FREE" => LiveOf(o, k + 1) = LiveOf(o, k) \cup {op.index}
         /\ op.type = "FREE" => LiveOf(o, k + 1) = LiveOf(o, k) \ {op.index}
<1>1. op.index \in Ids
  <2>1. k + 1 \in 1 .. Len(o)
    OBVIOUS
  <2>2. op \in Ops
    BY <2>1
  <2> QED
    BY <2>2 DEF Ops
<1>2. 1 .. k + 1 = (1 .. k) \cup {k + 1} /\ (k + 1) + 1 .. k + 1 = {}
  OBVIOUS
<1>3. ASSUME NEW id \in Ids, NEW j \in 1 .. k
      PROVE  (\A l \in j + 1 .. k + 1 : o[l].index = id => o[l].type # "FREE")
             <=> /\ \A l \in j + 1 .. k : o[l].index = id => o[l].type # "FREE"
                 /\ op.index = id => op.type # "FREE"
  <2>1. j + 1 .. k + 1 = (j + 1 .. k) \cup {k + 1}
    OBVIOUS
  <2> QED
    BY <2>1
<1>4. ASSUME NEW id \in Ids
      PROVE  id \in LiveOf(o, k + 1) <=>
               \/ id = op.index /\ op.type # "FREE"
               \/ id \in LiveOf(o, k) /\ (op.index = id => op.type # "FREE")
  <2> DEFINE Made(j) ==
        /\ o[j].index = id /\ o[j].type # "FREE"
        /\ \A l \in j + 1 .. k + 1 : o[l].index = id => o[l].type # "FREE"
  <2>1. id \in LiveOf(o, k + 1) <=> \E j \in 1 .. k + 1 : Made(j)
    BY Zenon DEF LiveOf
  <2>2. id \in LiveOf(o, k) <=>
          \E j \in 1 .. k :
            /\ o[j].index = id /\ o[j].type # "FREE"
            /\ \A l \in j + 1 .. k : o[l].index = id => o[l].type # "FREE"
    BY DEF LiveOf
  <2>3. (\E j \in 1 .. k : Made(j))
        <=> id \in LiveOf(o, k) /\ (op.index = id => op.type # "FREE")
    BY <1>3, <2>2
  <2>4. Made(k + 1) <=> id = op.index /\ op.type # "FREE"
    BY <1>2
  <2>5. (\E j \in 1 .. k + 1 : Made(j)) <=> Made(k + 1) \/ \E j \in 1 .. k : Made(j)
    <3> HIDE DEF Made
    <3> QED
      BY <1>2
  <2> HIDE DEF Made
  <2> QED
    BY <2>1, <2>3, <2>4, <2>5, Zenon
<1>5. LiveOf(o, k) \subseteq Ids /\ LiveOf(o, k + 1) \subseteq Ids
  BY DEF LiveOf
<1> QED
  BY <1>1, <1>4, <1>5

(* Only the requests so far count.                                         *)
LEMMA LivePrefix ==
  ASSUME NEW o, NEW u, NEW k \in Nat, \A j \in 1 .. k : u[j] = o[j]
  PROVE  LiveOf(u, k) = LiveOf(o, k)
<1>1. \A j \in 1 .. k : \A l \in j + 1 .. k : u[l] = o[l]
  OBVIOUS
<1> QED
  BY <1>1 DEF LiveOf

LEMMA LiveFinite ==
  ASSUME NEW o \in Seq(Ops), NEW k \in 0 .. Len(o)
  PROVE  IsFiniteSet(LiveOf(o, k))
<1> DEFINE T == {n \in Nat : n <= Len(o) => IsFiniteSet(LiveOf(o, n))}
<1>1. 0 \in T
  BY LiveNone, FS_EmptySet
<1>2. ASSUME NEW n \in Nat, n \in T
      PROVE  n + 1 \in T
  <2> SUFFICES ASSUME n + 1 <= Len(o) PROVE IsFiniteSet(LiveOf(o, n + 1))
    OBVIOUS
  <2>1. n < Len(o) /\ IsFiniteSet(LiveOf(o, n))
    BY <1>2
  <2> DEFINE op == o[n + 1]
  <2>2. \/ LiveOf(o, n + 1) = LiveOf(o, n) \cup {op.index}
        \/ LiveOf(o, n + 1) = LiveOf(o, n) \ {op.index}
    BY <2>1, LiveStep
  <2> HIDE DEF op
  <2> QED
    BY <2>1, <2>2, FS_AddElement, FS_RemoveElement
<1> HIDE DEF T
<1>3. k \in T
  BY <1>1, <1>2, Counting
<1> QED
  BY <1>3 DEF T

LEMMA LiveAfter ==
  ASSUME TypeInv, pass = "valid", NEW op \in Ops, LegalTrace(ops),
         ops' = Append(ops, op), i' = i + 1,
         op.type = "ALLOC" <=> op.index \notin LiveIds(i)
  PROVE  /\ LiveIds(i)' = IF op.type = "FREE" THEN LiveIds(i) \ {op.index}
                          ELSE LiveIds(i) \cup {op.index}
         /\ LegalTrace(ops')
<1>1. /\ ops \in Seq(Ops) /\ ops' \in Seq(Ops) /\ i \in Nat /\ i = Len(ops)
      /\ Len(ops') = i + 1 /\ \A j \in 1 .. i : ops'[j] = ops[j]
      /\ ops'[i + 1] = op
  BY DEF TypeInv
<1>2. ASSUME NEW k \in 0 .. i
      PROVE  LiveOf(ops', k) = LiveOf(ops, k)
  <2>1. k \in Nat /\ \A j \in 1 .. k : ops'[j] = ops[j]
    BY <1>1
  <2> QED
    BY ONLY <2>1, LivePrefix
<1>3. LiveOf(ops', i) = LiveIds(i)
  BY <1>1, <1>2, LiveIs
<1>4. LiveIds(i)' = LiveOf(ops', i + 1)
  BY LiveIsNext
<1>5. /\ op.type # "FREE" => LiveOf(ops', i + 1) = LiveOf(ops', i) \cup {op.index}
      /\ op.type = "FREE" => LiveOf(ops', i + 1) = LiveOf(ops', i) \ {op.index}
  <2>1. ops' \in Seq(Ops) /\ i \in Nat /\ i < Len(ops') /\ op = ops'[i + 1]
    BY <1>1
  <2> QED
    BY ONLY <2>1, LiveStep
<1>6. LegalTrace(ops')
  <2> SUFFICES ASSUME NEW j \in 1 .. i + 1
               PROVE  ops'[j].type = "ALLOC" <=> ops'[j].index \notin LiveOf(ops', j - 1)
    BY <1>1 DEF LegalTrace
  <2>1. CASE j = i + 1
    <3>1. ops'[j] = op /\ LiveOf(ops', j - 1) = LiveIds(i)
      BY <1>1, <1>3, <2>1
    <3> QED
      BY <3>1
  <2>2. CASE j \in 1 .. i
    <3>1. ops'[j] = ops[j] /\ LiveOf(ops', j - 1) = LiveOf(ops, j - 1)
      BY <1>1, <1>2, <2>2
    <3> QED
      BY <1>1, <2>2, <3>1 DEF LegalTrace
  <2> QED
    BY <1>1, <2>1, <2>2
<1> QED
  BY <1>3, <1>4, <1>5, <1>6

LEMMA ReadTypes ==
  ASSUME TypeInv, NEW op \in Ops, Read(op)
  PROVE  ops' \in Seq(Ops) /\ i' \in Nat /\ i' = Len(ops')
BY DEF TypeInv, Read

-----------------------------------------------------------------------------
(* The list of ranges and the blocks of the trace.                         *)

(* The list, in the first pass, against the blocks that are live.          *)
Listed ==
  /\ Distinct(ranges) /\ Contained(ranges)
  /\ \A j \in DOMAIN ranges : \E id \in LiveIds(i) : ranges[j] = Piece(id)
  /\ \A id, other \in LiveIds(i) : blocks[id] = blocks[other] => id = other
  /\ \A id \in LiveIds(i) :
       /\ \E j \in DOMAIN ranges : ranges[j] = Piece(id)
       /\ block_sizes[id] > 0
       /\ HeapLo <= Piece(id).lo /\ Piece(id).hi <= HeapHi

(* A list of the pieces of the other live blocks.                          *)
OthersListed(rs, id) ==
  /\ rs \in Seq(Ranges) /\ Distinct(rs) /\ Contained(rs)
  /\ \A j \in DOMAIN rs : \E other \in LiveIds(i) \ {id} : rs[j] = Piece(other)
  /\ \A other \in LiveIds(i) \ {id} : \E j \in DOMAIN rs : rs[j] = Piece(other)

LEMMA SizesPositive ==
  ASSUME NEW size \in Sizes
  PROVE  size \in Nat \ {0}
BY DriverAssumption

(* A correct answer passes the checks.                                     *)
LEMMA LegalPasses ==
  ASSUME TypeInv, Listed, NEW id \in Ids, NEW size \in Sizes, NEW p \in Nat,
         NEW rs, OthersListed(rs, id), Legal(id, p, size)
  PROVE  p # NULL /\ AddRangeOk(rs, p, size)
<1> DEFINE r == Range_t(p, size)
<1>1. size \in Nat \ {0}
  BY SizesPositive
<1>2. r.lo = p /\ r.hi = p + size - 1
  BY DEF Range_t
<1> HIDE DEF r
<1>3. HeapLo <= p /\ r.hi <= HeapHi
  BY <1>1, <1>2, DriverAssumption DEF Legal
<1>4. ASSUME NEW q \in ToSet(rs)
      PROVE  ~ Overlaps(r, q)
  <2>1. PICK other \in LiveIds(i) \ {id} : q = Piece(other)
    BY DEF OthersListed, ToSet
  <2>2. /\ q.lo = blocks[other] /\ q.hi = blocks[other] + block_sizes[other] - 1
    BY <2>1 DEF Piece, Range_t
  <2>3. blocks[other] \in Nat /\ block_sizes[other] \in Nat
    BY DEF TypeInv, LiveIds
  <2>4. \/ p + size <= blocks[other]
        \/ blocks[other] + block_sizes[other] <= p
    BY DEF Legal
  <2> QED
    BY <1>1, <1>2, <2>2, <2>3, <2>4 DEF Overlaps
<1> QED
  BY <1>3, <1>4 DEF Legal, AddRangeOk, r

(* An answer that passes the checks keeps the list right.                  *)
LEMMA RecordKeeps ==
  ASSUME TypeInv, Listed, NEW id \in Ids, NEW size \in Sizes, NEW p \in Nat,
         NEW rs, OthersListed(rs, id), AddRangeOk(rs, p, size),
         ranges' = AddRange(rs, p, size), Record(id, p, size),
         LiveIds(i)' = LiveIds(i) \cup {id}
  PROVE  ranges' \in Seq(Ranges) /\ Listed'
<1>1. size \in Nat \ {0}
  BY SizesPositive
<1>2. LiveIds(i) \subseteq Ids
  BY DEF LiveIds
<1>3. ASSUME NEW other \in LiveIds(i)
      PROVE  /\ Piece(other).lo \in Nat /\ Piece(other).hi \in Int
             /\ Piece(other).lo <= Piece(other).hi
  <2>1. blocks[other] \in Nat /\ block_sizes[other] \in Nat /\ block_sizes[other] > 0
    BY <1>2 DEF TypeInv, Listed
  <2> QED
    BY <2>1 DEF Piece, Range_t
<1>4. \A j \in DOMAIN rs : rs[j].lo <= rs[j].hi
  BY <1>3 DEF OthersListed
<1>5. /\ ranges' \in Seq(Ranges) /\ Distinct(ranges') /\ Contained(ranges')
      /\ \A j \in DOMAIN ranges' :
           ranges'[j] = Range_t(p, size) \/ \E k \in DOMAIN rs : ranges'[j] = rs[k]
      /\ \E j \in DOMAIN ranges' : ranges'[j] = Range_t(p, size)
      /\ \A k \in DOMAIN rs : rs[k].lo # p /\ \E j \in DOMAIN ranges' : ranges'[j] = rs[k]
  BY <1>1, <1>4, AddRangeKeeps DEF OthersListed
<1>6. \A other \in LiveIds(i) \ {id} :
        /\ blocks'[other] = blocks[other] /\ block_sizes'[other] = block_sizes[other]
        /\ Piece(other)' = Piece(other)
  BY <1>2 DEF Record, TypeInv, Piece
<1>7. /\ blocks'[id] = p /\ block_sizes'[id] = size
      /\ Piece(id)' = Range_t(p, size)
  BY DEF Record, TypeInv, Piece
<1>8. \A j \in DOMAIN ranges' : \E other \in LiveIds(i)' : ranges'[j] = Piece(other)'
  <2> SUFFICES ASSUME NEW j \in DOMAIN ranges'
               PROVE  \E other \in LiveIds(i)' : ranges'[j] = Piece(other)'
    OBVIOUS
  <2>1. CASE ranges'[j] = Range_t(p, size)
    BY <1>7, <2>1
  <2>2. CASE \E k \in DOMAIN rs : ranges'[j] = rs[k]
    BY <1>6, <2>2 DEF OthersListed
  <2> QED
    BY <1>5, <2>1, <2>2
<1>9. ASSUME NEW other \in LiveIds(i) \ {id}
      PROVE  /\ blocks'[other] # p
             /\ \E j \in DOMAIN ranges' : ranges'[j] = Piece(other)'
  <2>1. PICK k \in DOMAIN rs : rs[k] = Piece(other)
    BY DEF OthersListed
  <2>2. Piece(other).lo = blocks[other]
    BY DEF Piece, Range_t
  <2> QED
    BY <1>5, <1>6, <2>1, <2>2
<1>10. \A x, y \in LiveIds(i)' : blocks'[x] = blocks'[y] => x = y
  BY <1>6, <1>7, <1>9 DEF Listed
<1>11. \A other \in LiveIds(i)' : \E j \in DOMAIN ranges' : ranges'[j] = Piece(other)'
  BY <1>5, <1>7, <1>9
<1>12. \A other \in LiveIds(i)' :
        /\ block_sizes'[other] > 0
        /\ HeapLo <= Piece(other)'.lo /\ Piece(other)'.hi <= HeapHi
  <2> SUFFICES ASSUME NEW other \in LiveIds(i)'
               PROVE  /\ block_sizes'[other] > 0
                      /\ HeapLo <= Piece(other)'.lo /\ Piece(other)'.hi <= HeapHi
    OBVIOUS
  <2>1. CASE other = id
    BY <1>1, <1>7, <2>1 DEF AddRangeOk, Range_t
  <2>2. CASE other # id
    BY <1>6, <2>2 DEF Listed
  <2> QED
    BY <2>1, <2>2
<1> QED
  BY <1>5, <1>8, <1>10, <1>11, <1>12 DEF Listed, Distinct, Contained

(* Without the range of a block the list is that of the others.            *)
LEMMA RemovedListed ==
  ASSUME TypeInv, Listed, NEW id \in LiveIds(i)
  PROVE  OthersListed(RemoveRange(ranges, blocks[id]), id)
<1> DEFINE rest == RemoveRange(ranges, blocks[id])
<1>1. /\ rest \in Seq(Ranges) /\ Distinct(rest) /\ Contained(rest)
      /\ \A j \in DOMAIN rest :
           \E k \in DOMAIN ranges : rest[j] = ranges[k] /\ ranges[k].lo # blocks[id]
      /\ \A k \in DOMAIN ranges :
           ranges[k].lo # blocks[id] => \E j \in DOMAIN rest : rest[j] = ranges[k]
  <2>1. ranges \in Seq(Ranges) /\ Distinct(ranges) /\ Contained(ranges)
    BY DEF TypeInv, Listed
  <2> QED
    BY <2>1, RemoveRangeKeeps
<1> HIDE DEF rest
<1>2. \A other : Piece(other).lo = blocks[other]
  BY DEF Piece, Range_t
<1>3. ASSUME NEW j \in DOMAIN rest
      PROVE  \E other \in LiveIds(i) \ {id} : rest[j] = Piece(other)
  <2>1. PICK k \in DOMAIN ranges : rest[j] = ranges[k] /\ ranges[k].lo # blocks[id]
    BY <1>1
  <2>2. PICK other \in LiveIds(i) : ranges[k] = Piece(other)
    BY DEF Listed
  <2> QED
    BY <1>2, <2>1, <2>2
<1>4. ASSUME NEW other \in LiveIds(i) \ {id}
      PROVE  \E j \in DOMAIN rest : rest[j] = Piece(other)
  <2>1. PICK k \in DOMAIN ranges : ranges[k] = Piece(other)
    BY DEF Listed
  <2>2. blocks[other] # blocks[id]
    BY DEF Listed
  <2> QED
    BY <1>1, <1>2, <2>1, <2>2
<1> QED
  BY <1>1, <1>3, <1>4 DEF OthersListed, rest

-----------------------------------------------------------------------------
(* The running total of the second pass.                                   *)

Summed ==
  /\ i <= Len(ops)
  /\ total_size = TotalOf(block_sizes, LiveIds(i))
  /\ max_total_size \in Int /\ total_size <= max_total_size

(* A new size for one of the blocks, or for one more.                      *)
LEMMA ResizedTotal ==
  ASSUME NEW f \in [Ids -> Nat], NEW S \in SUBSET Ids, IsFiniteSet(S), NEW id \in Ids,
         NEW g, g[id] \in Nat, \A y \in Ids \ {id} : g[y] = f[y]
  PROVE  TotalOf(g, S \cup {id})
           = TotalOf(f, S) + g[id] - (IF id \in S THEN f[id] ELSE 0)
<1> DEFINE R == S \ {id}
<1>1. IsFiniteSet(R) /\ id \notin R /\ S \cup {id} = R \cup {id}
  BY FS_RemoveElement
<1>2. \A y \in R : f[y] \in Int /\ g[y] = f[y] /\ g[y] \in Int
  OBVIOUS
<1>3. id \in S => R \cup {id} = S
  OBVIOUS
<1>4. id \notin S => R = S
  OBVIOUS
<1> HIDE DEF R
<1>5. TotalOf(g, R) = TotalOf(f, R)
  BY <1>1, <1>2, SumSame
<1>6. TotalOf(g, R \cup {id}) = TotalOf(g, R) + g[id] /\ TotalOf(g, R) \in Int
  <2>1. IsFiniteSet(R) /\ id \notin R /\ g[id] \in Int /\ \A y \in R : g[y] \in Int
    BY <1>1, <1>2
  <2>2. TotalOf(g, R \cup {id}) = TotalOf(g, R) + g[id] /\ TotalOf(g, R) \in Int
    BY ONLY <2>1, SumAdd
  <2> QED
    BY <1>2, <2>2
<1>7. id \in S => TotalOf(f, S) = TotalOf(f, R) + f[id] /\ f[id] \in Int
  BY <1>1, <1>2, <1>3, SumAdd
<1>8. \A t, u, v \in Int : t + u = (t + v) + u - v /\ t + u = t + u - 0
  OBVIOUS
<1>9. TotalOf(g, S \cup {id}) = TotalOf(f, R) + g[id] /\ TotalOf(f, R) \in Int
  BY <1>1, <1>5, <1>6
<1>10. CASE id \in S
  <2>1. TotalOf(f, S) = TotalOf(f, R) + f[id]
    BY <1>7, <1>10
  <2> QED
    BY <1>7, <1>8, <1>9, <1>10, <2>1
<1>11. CASE id \notin S
  <2>1. TotalOf(f, S) = TotalOf(f, R)
    BY <1>4, <1>11
  <2> QED
    BY <1>8, <1>9, <1>11, <2>1
<1> QED
  BY <1>10, <1>11

LEMMA DroppedTotal ==
  ASSUME NEW f \in [Ids -> Nat], NEW S \in SUBSET Ids, IsFiniteSet(S), NEW id \in S
  PROVE  TotalOf(f, S \ {id}) = TotalOf(f, S) - f[id]
<1> DEFINE R == S \ {id}
<1>1. IsFiniteSet(R) /\ id \notin R /\ R \cup {id} = S
  BY FS_RemoveElement
<1>2. f[id] \in Int /\ \A y \in R : f[y] \in Int
  OBVIOUS
<1> HIDE DEF R
<1>3. TotalOf(f, S) = TotalOf(f, R) + f[id] /\ TotalOf(f, R) \in Int
  BY <1>1, <1>2, SumAdd
<1> QED
  BY <1>2, <1>3 DEF R

LEMMA TotalTyped ==
  ASSUME NEW f \in [Ids -> Nat], NEW S \in SUBSET Ids, IsFiniteSet(S)
  PROVE  TotalOf(f, S) \in Int
<1>1. PICK g : SumsOf(g, f, S)
  BY SumsExist
<1>2. TotalOf(f, S) = g[S]
  BY <1>1, SumIs
<1> QED
  BY <1>1, <1>2 DEF SumsOf

(* Each request of the trace changes the total by what it does to the      *)
(* payload in use.                                                         *)
LEMMA UtilOpSums ==
  ASSUME TypeInv, LegalTrace(ops), Summed, NEW p \in Answers, UtilOp(p), pass' # "stuck"
  PROVE  Summed'
<1> DEFINE op == ops[i + 1]
           S  == LiveIds(i)
           id == op.index
           f  == block_sizes
<1>1. /\ pass = "util" /\ i \in Nat /\ i < Len(ops) /\ i' = i + 1 /\ ops' = ops
      /\ ops \in Seq(Ops) /\ f \in [Ids -> Nat] /\ op \in Ops
      /\ total_size' = total_size + Growth(op)
      /\ max_total_size' = IF total_size' > max_total_size THEN total_size'
                           ELSE max_total_size
      /\ IF op.type = "FREE" THEN f' = f ELSE f' = [f EXCEPT ![id] = op.size]
  BY DEF UtilOp, TypeInv, Stuck, Record
<1>2. id \in Ids /\ op.size \in Nat /\ op.type \in {"ALLOC", "REALLOC", "FREE"}
  BY <1>1, SizesPositive DEF Ops
<1>3. S = LiveOf(ops, i) /\ S \in SUBSET Ids /\ IsFiniteSet(S)
  <2>1. S = LiveOf(ops, i)
    BY LiveIs
  <2>2. S \in SUBSET Ids
    BY DEF LiveIds
  <2>3. ops \in Seq(Ops) /\ i \in 0 .. Len(ops)
    BY <1>1
  <2> QED
    BY <2>1, <2>2, <2>3, LiveFinite
<1>4. LiveIds(i)' = LiveOf(ops, i + 1)
  BY <1>1, LiveIsNext
<1>5. /\ op.type # "FREE" => LiveIds(i)' = S \cup {id}
      /\ op.type = "FREE" => LiveIds(i)' = S \ {id}
  <2>1. ops \in Seq(Ops) /\ i \in Nat /\ i < Len(ops) /\ op = ops[i + 1]
    BY <1>1
  <2>2. /\ op.type # "FREE" => LiveOf(ops, i + 1) = LiveOf(ops, i) \cup {op.index}
        /\ op.type = "FREE" => LiveOf(ops, i + 1) = LiveOf(ops, i) \ {op.index}
    BY ONLY <2>1, LiveStep
  <2> QED
    BY <1>3, <1>4, <2>2
<1>6. op.type = "ALLOC" <=> id \notin S
  <2>1. i + 1 \in 1 .. Len(ops) /\ (i + 1) - 1 = i
    BY <1>1
  <2> QED
    BY <1>3, <2>1 DEF LegalTrace
<1>7. total_size = TotalOf(f, S) /\ total_size \in Int /\ max_total_size \in Int
  BY <1>1, <1>3, TotalTyped DEF Summed
<1>8. Growth(op) = IF op.type = "ALLOC" THEN op.size
                   ELSE IF op.type = "REALLOC" THEN op.size - f[id] ELSE 0 - f[id]
  BY <1>2 DEF Growth
<1>9. f[id] \in Nat
  BY <1>1, <1>2
<1>10. total_size' = TotalOf(f', LiveIds(i)')
  <2> HIDE DEF op, S, id, f
  <2>1. CASE op.type = "FREE"
    <3>1. TotalOf(f, S \ {id}) = TotalOf(f, S) - f[id]
      BY <1>1, <1>3, <1>6, <2>1, DroppedTotal
    <3>2. f' = f /\ LiveIds(i)' = S \ {id} /\ total_size' = total_size + (0 - f[id])
      BY <1>1, <1>5, <1>8, <2>1
    <3> QED
      BY <1>7, <1>9, <3>1, <3>2
  <2>2. CASE op.type # "FREE"
    <3>1. f' = [f EXCEPT ![id] = op.size] /\ LiveIds(i)' = S \cup {id}
      BY <1>1, <1>5, <2>2
    <3>2. TotalOf(f', S \cup {id})
            = TotalOf(f, S) + op.size - (IF id \in S THEN f[id] ELSE 0)
      <4>1. /\ f \in [Ids -> Nat] /\ S \in SUBSET Ids /\ IsFiniteSet(S) /\ id \in Ids
            /\ f'[id] \in Nat /\ \A y \in Ids \ {id} : f'[y] = f[y]
        BY <1>1, <1>2, <1>3, <3>1
      <4>2. f'[id] = op.size
        BY <1>1, <1>2, <3>1
      <4>3. TotalOf(f', S \cup {id})
              = TotalOf(f, S) + f'[id] - (IF id \in S THEN f[id] ELSE 0)
        BY ONLY <4>1, ResizedTotal
      <4> QED
        BY <4>2, <4>3
    <3>3. total_size' = total_size + Growth(op)
      BY <1>1
    <3>4. Growth(op) = op.size - (IF id \in S THEN f[id] ELSE 0)
      BY <1>2, <1>6, <1>8, <1>9, <2>2
    <3> QED
      BY <1>2, <1>7, <1>9, <3>1, <3>2, <3>3, <3>4
  <2> QED
    BY <2>1, <2>2
<1>11. total_size' \in Int
  BY <1>1, <1>2, <1>7, <1>8, <1>9
<1>12. max_total_size' \in Int /\ total_size' <= max_total_size'
  BY <1>1, <1>7, <1>11
<1>13. i' <= Len(ops')
  BY <1>1
<1> QED
  BY <1>10, <1>12, <1>13 DEF Summed, f

-----------------------------------------------------------------------------
(* What the theorems rest on.                                              *)

IInv ==
  /\ TypeInv /\ LegalTrace(ops)
  /\ pass = "valid" => Listed
  /\ pass \in {"util", "done"} => Summed
  /\ NoFalseAlarm

LEMMA InitIInv == Init => IInv
<1> SUFFICES ASSUME Init PROVE IInv
  OBVIOUS
<1>1. LiveIds(i) = {}
  BY DEF Init, LiveIds
<1>2. TypeInv
  <2>1. ops \in Seq(Ops) /\ Len(ops) = 0 /\ ranges \in Seq(Ranges)
    BY DEF Init
  <2>2. blocks \in [Ids -> Nat] /\ block_sizes \in [Ids -> Nat]
    BY DEF Init, NULL
  <2>3. pass = "valid" /\ i = 0
    BY DEF Init
  <2> QED
    BY <2>1, <2>2, <2>3 DEF TypeInv
<1>3. DOMAIN ranges = {}
  BY DEF Init
<1>4. Listed
  BY <1>1, <1>3 DEF Listed, Distinct, Contained
<1>5. NoFalseAlarm /\ pass = "valid"
  BY DEF Init, NoFalseAlarm
<1>6. LegalTrace(ops)
  BY DEF Init, LegalTrace
<1> QED
  BY <1>2, <1>4, <1>5, <1>6 DEF IInv

LEMMA AnswersAreAddresses == Answers \subseteq Nat
BY DriverAssumption DEF Answers, NULL

LEMMA ValidAllocIInv ==
  ASSUME IInv, NEW id \in Ids, NEW size \in Sizes, NEW p \in Answers,
         NEW room \in BOOLEAN, ValidAlloc(id, size, p, room)
  PROVE  IInv'
<1> DEFINE op == [type |-> "ALLOC", index |-> id, size |-> size]
<1>1. /\ pass = "valid" /\ TypeInv /\ LegalTrace(ops) /\ Listed /\ Read(op) /\ id \notin LiveIds(i)
      /\ ops' = Append(ops, op) /\ i' = i + 1
  BY DEF IInv, ValidAlloc, Read
<1>2. op \in Ops /\ op.type = "ALLOC" /\ op.index = id
  BY DEF Ops
<1>3. ops' \in Seq(Ops) /\ i' \in Nat /\ i' = Len(ops')
  <2> HIDE DEF op
  <2> QED
    BY <1>1, <1>2, ReadTypes
<1>4. LiveIds(i)' = LiveIds(i) \cup {id} /\ LegalTrace(ops')
  <2> HIDE DEF op
  <2> QED
    BY <1>1, <1>2, LiveAfter
<1>5. OthersListed(ranges, id)
  BY <1>1 DEF OthersListed, Listed, TypeInv
<1>6. size \in Nat /\ p \in Nat
  BY SizesPositive, AnswersAreAddresses
<1>7. CASE p # NULL /\ AddRangeOk(ranges, p, size) /\ room
  <2>1. ranges' = AddRange(ranges, p, size) /\ Record(id, p, size) /\ pass' = pass
    BY <1>7 DEF ValidAlloc
  <2>2. ranges' \in Seq(Ranges) /\ Listed'
    BY <1>1, <1>4, <1>5, <1>6, <1>7, <2>1, RecordKeeps
  <2>3. blocks' \in [Ids -> Nat] /\ block_sizes' \in [Ids -> Nat]
    BY <1>1, <1>6, <2>1 DEF Record, TypeInv
  <2> QED
    BY <1>1, <1>3, <1>4, <2>1, <2>2, <2>3 DEF IInv, TypeInv, NoFalseAlarm
<1>8. CASE ~ (p # NULL /\ AddRangeOk(ranges, p, size) /\ room)
  <2>1. pass' = "stuck" /\ UNCHANGED <<blocks, block_sizes, ranges>>
    BY <1>8 DEF ValidAlloc, Stuck
  <2>2. ~ room \/ ~ Legal(id, p, size)
    BY <1>1, <1>5, <1>6, <1>8, LegalPasses
  <2>3. wrong' = (wrong \/ ~ room \/ ~ Legal(id, p, size))
    BY Zenon DEF ValidAlloc
  <2>4. wrong'
    BY <2>2, <2>3
  <2> QED
    BY <1>1, <1>3, <1>4, <2>1, <2>4 DEF IInv, TypeInv, NoFalseAlarm
<1> QED
  BY <1>7, <1>8

LEMMA ValidReallocIInv ==
  ASSUME IInv, NEW id \in Ids, NEW size \in Sizes, NEW p \in Answers,
         NEW room \in BOOLEAN, NEW kept \in BOOLEAN,
         ValidRealloc(id, size, p, room, kept)
  PROVE  IInv'
<1> DEFINE op   == [type |-> "REALLOC", index |-> id, size |-> size]
           rest == RemoveRange(ranges, blocks[id])
<1>1. /\ pass = "valid" /\ TypeInv /\ LegalTrace(ops) /\ Listed /\ Read(op) /\ id \in LiveIds(i)
      /\ ops' = Append(ops, op) /\ i' = i + 1
  BY DEF IInv, ValidRealloc, Read
<1>2. op \in Ops /\ op.type = "REALLOC" /\ op.index = id
  BY DEF Ops
<1>3. ops' \in Seq(Ops) /\ i' \in Nat /\ i' = Len(ops')
  <2> HIDE DEF op
  <2> QED
    BY <1>1, <1>2, ReadTypes
<1>4. LiveIds(i)' = LiveIds(i) \cup {id} /\ LegalTrace(ops')
  <2> HIDE DEF op
  <2> QED
    BY <1>1, <1>2, LiveAfter
<1>5. OthersListed(rest, id) /\ rest \in Seq(Ranges)
  BY <1>1, RemovedListed DEF OthersListed
<1>6. size \in Nat /\ p \in Nat
  BY SizesPositive, AnswersAreAddresses
<1>7. CASE p # NULL /\ AddRangeOk(rest, p, size) /\ room
  <2>1. /\ ranges' = AddRange(rest, p, size)
        /\ IF kept THEN Record(id, p, size) /\ UNCHANGED pass ELSE Stuck
        /\ wrong' = (wrong \/ ~ room \/ ~ kept \/ ~ Legal(id, p, size))
    BY <1>7 DEF ValidRealloc
  <2> HIDE DEF rest
  <2>2. CASE kept
    <3>1. ranges' \in Seq(Ranges) /\ Listed'
      BY <1>1, <1>4, <1>5, <1>6, <1>7, <2>1, <2>2, RecordKeeps
    <3>2. blocks' \in [Ids -> Nat] /\ block_sizes' \in [Ids -> Nat]
      BY <1>1, <1>6, <2>1, <2>2 DEF Record, TypeInv
    <3> QED
      BY <1>1, <1>3, <1>4, <2>1, <2>2, <3>1, <3>2 DEF IInv, TypeInv, NoFalseAlarm
  <2>3. CASE ~ kept
    <3>1. pass' = "stuck" /\ UNCHANGED <<blocks, block_sizes>> /\ wrong'
      BY <2>1, <2>3 DEF Stuck
    <3>2. ranges' \in Seq(Ranges)
      <4>1. Range_t(p, size) \in Ranges
        BY <1>6 DEF Range_t, Ranges
      <4> QED
        BY <1>5, <2>1, <4>1, ConcatProperties DEF AddRange
    <3> QED
      BY <1>1, <1>3, <1>4, <3>1, <3>2 DEF IInv, TypeInv, NoFalseAlarm
  <2> QED
    BY <2>2, <2>3
<1>8. CASE ~ (p # NULL /\ AddRangeOk(rest, p, size) /\ room)
  <2>1. /\ pass' = "stuck" /\ UNCHANGED <<blocks, block_sizes>>
        /\ ranges' = IF p = NULL THEN ranges ELSE rest
        /\ wrong' = (wrong \/ ~ room \/ ~ kept \/ ~ Legal(id, p, size))
    BY <1>8 DEF ValidRealloc, Stuck
  <2> HIDE DEF rest
  <2>2. ~ room \/ ~ Legal(id, p, size)
    BY <1>1, <1>5, <1>6, <1>8, LegalPasses
  <2>3. wrong'
    BY <2>1, <2>2
  <2>4. ranges' \in Seq(Ranges)
    BY <1>1, <1>5, <2>1 DEF TypeInv
  <2> QED
    BY <1>1, <1>3, <1>4, <2>1, <2>3, <2>4 DEF IInv, TypeInv, NoFalseAlarm
<1> QED
  BY <1>7, <1>8

LEMMA ValidFreeIInv ==
  ASSUME IInv, NEW id \in Ids, ValidFree(id)
  PROVE  IInv'
<1> DEFINE op   == [type |-> "FREE", index |-> id, size |-> 0]
           rest == RemoveRange(ranges, blocks[id])
<1>1. /\ pass = "valid" /\ TypeInv /\ LegalTrace(ops) /\ Listed /\ Read(op) /\ id \in LiveIds(i)
      /\ ops' = Append(ops, op) /\ i' = i + 1 /\ ranges' = rest
      /\ UNCHANGED <<pass, blocks, block_sizes, wrong>>
  BY DEF IInv, ValidFree, Read
<1>2. op \in Ops /\ op.type = "FREE" /\ op.index = id
  BY DEF Ops
<1>3. ops' \in Seq(Ops) /\ i' \in Nat /\ i' = Len(ops')
  <2> HIDE DEF op
  <2> QED
    BY <1>1, <1>2, ReadTypes
<1>4. LiveIds(i)' = LiveIds(i) \ {id} /\ LegalTrace(ops')
  <2> HIDE DEF op
  <2> QED
    BY <1>1, <1>2, LiveAfter
<1>5. OthersListed(rest, id)
  BY <1>1, RemovedListed
<1> HIDE DEF op, rest
<1>6. \A other : Piece(other)' = Piece(other)
  BY <1>1 DEF Piece
<1>7. Listed'
  <2>1. Distinct(rest) /\ Contained(rest)
    BY <1>5 DEF OthersListed
  <2>2. Distinct(ranges') /\ Contained(ranges')
    BY <1>1, <2>1
  <2>3. \A j \in DOMAIN ranges' : \E other \in LiveIds(i)' : ranges'[j] = Piece(other)'
    BY <1>1, <1>4, <1>5, <1>6 DEF OthersListed
  <2>4. \A other \in LiveIds(i)' :
          /\ \E j \in DOMAIN ranges' : ranges'[j] = Piece(other)'
          /\ block_sizes'[other] > 0
          /\ HeapLo <= Piece(other)'.lo /\ Piece(other)'.hi <= HeapHi
    BY <1>1, <1>4, <1>5, <1>6 DEF Listed, OthersListed
  <2>5. \A x, y \in LiveIds(i)' : blocks'[x] = blocks'[y] => x = y
    BY <1>1, <1>4 DEF Listed
  <2> QED
    BY <2>2, <2>3, <2>4, <2>5 DEF Listed, Distinct, Contained
<1> QED
  BY <1>1, <1>3, <1>4, <1>5, <1>7 DEF IInv, TypeInv, NoFalseAlarm, OthersListed

LEMMA UtilOpIInv ==
  ASSUME IInv, NEW p \in Answers, UtilOp(p)
  PROVE  IInv'
<1> DEFINE op == ops[i + 1]
<1>1. /\ pass = "util" /\ TypeInv /\ LegalTrace(ops) /\ Summed
      /\ i' = i + 1 /\ UNCHANGED <<ops, ranges>>
      /\ i < Len(ops)
      /\ wrong' = (wrong \/ (op.type # "FREE" /\ p = NULL))
      /\ IF op.type # "FREE" /\ p = NULL THEN Stuck
         ELSE /\ IF op.type = "FREE" THEN UNCHANGED <<blocks, block_sizes>>
                 ELSE Record(op.index, p, op.size)
              /\ UNCHANGED pass
  BY DEF IInv, UtilOp
<1>2. op \in Ops /\ p \in Nat
  BY <1>1, AnswersAreAddresses DEF TypeInv
<1> HIDE DEF op
<1>3. op.index \in Ids /\ op.size \in Nat
  BY <1>2, SizesPositive DEF Ops
<1>4. blocks' \in [Ids -> Nat] /\ block_sizes' \in [Ids -> Nat]
  BY <1>1, <1>2, <1>3 DEF Stuck, Record, TypeInv
<1>5. pass' \in {"util", "stuck"} /\ (pass' = "stuck" => wrong')
  BY <1>1 DEF Stuck
<1>6. pass' # "stuck" => Summed'
  BY <1>1, UtilOpSums
<1> QED
  BY <1>1, <1>4, <1>5, <1>6 DEF IInv, TypeInv, NoFalseAlarm

LEMMA NextIInv == IInv /\ [Next]_vars => IInv'
<1> SUFFICES ASSUME IInv, [Next]_vars PROVE IInv'
  OBVIOUS
<1>1. ASSUME NEW id \in Ids, NEW size \in Sizes, NEW p \in Answers,
             NEW room \in BOOLEAN, ValidAlloc(id, size, p, room)
      PROVE  IInv'
  BY <1>1, ValidAllocIInv
<1>2. ASSUME NEW id \in Ids, NEW size \in Sizes, NEW p \in Answers,
             NEW room \in BOOLEAN, NEW kept \in BOOLEAN,
             ValidRealloc(id, size, p, room, kept)
      PROVE  IInv'
  BY <1>2, ValidReallocIInv
<1>3. ASSUME NEW id \in Ids, ValidFree(id)
      PROVE  IInv'
  BY <1>3, ValidFreeIInv
<1>4. CASE EndValid
  <2>1. /\ TypeInv' /\ LegalTrace(ops') /\ NoFalseAlarm' /\ pass' = "util"
        /\ i' = 0 /\ ops' \in Seq(Ops) /\ total_size' = 0 /\ max_total_size' = 0
    BY <1>4 DEF EndValid, IInv, TypeInv, NoFalseAlarm, trace
  <2>2. LiveIds(i)' = {}
    BY <2>1, LiveIsNext, LiveNone
  <2>3. TotalOf(block_sizes', LiveIds(i)') = 0
    BY <2>2, SumOfNone
  <2>4. Summed'
    BY <2>1, <2>3 DEF Summed
  <2> QED
    BY <2>1, <2>4 DEF IInv
<1>5. ASSUME NEW p \in Answers, UtilOp(p)
      PROVE  IInv'
  BY <1>5, UtilOpIInv
<1>6. CASE EndUtil
  <2>1. /\ LiveIds(i)' = LiveIds(i) /\ i' = i /\ ops' = ops /\ block_sizes' = block_sizes
        /\ total_size' = total_size /\ max_total_size' = max_total_size
    BY <1>6 DEF EndUtil, LiveIds, trace
  <2>2. Summed => Summed'
    BY <2>1 DEF Summed
  <2> QED
    BY <1>6, <2>2 DEF EndUtil, IInv, TypeInv, NoFalseAlarm, trace
<1>7. CASE UNCHANGED vars
  <2>1. /\ LiveIds(i)' = LiveIds(i) /\ ranges' = ranges /\ blocks' = blocks
        /\ block_sizes' = block_sizes /\ \A id : Piece(id)' = Piece(id)
    BY <1>7 DEF vars, LiveIds, Piece
  <2>2. Listed => Listed'
    BY <2>1 DEF Listed, Distinct, Contained
  <2>3. Summed => Summed'
    BY <1>7, <2>1 DEF vars, Summed
  <2> QED
    BY <1>7, <2>2, <2>3 DEF vars, IInv, TypeInv, NoFalseAlarm
<1> QED
  BY <1>1, <1>2, <1>3, <1>4, <1>5, <1>6, <1>7 DEF Next

(* There are as many places as live blocks: each holds the piece of one,   *)
(* and no two the same.                                                    *)
LEMMA ListedExact ==
  ASSUME TypeInv, Listed
  PROVE  ToSet(ranges) = {Piece(id) : id \in LiveIds(i)} /\ Len(ranges) = Cardinality(LiveIds(i))
<1>1. ranges \in Seq(Ranges) /\ DOMAIN ranges = 1 .. Len(ranges) /\ Len(ranges) \in Nat
  BY DEF TypeInv
<1>2. \A j \in DOMAIN ranges : \E id \in LiveIds(i) : ranges[j] = Piece(id)
  BY DEF Listed
<1>3. \A id \in LiveIds(i) : \E j \in DOMAIN ranges : ranges[j] = Piece(id)
  BY DEF Listed
<1>4. ToSet(ranges) = {Piece(id) : id \in LiveIds(i)}
  BY <1>1, <1>2, <1>3 DEF ToSet
<1>5. \A id : Piece(id).lo = blocks[id]
  BY DEF Piece, Range_t
<1>6. \A id, other \in LiveIds(i) : Piece(id) = Piece(other) => id = other
  BY <1>5 DEF Listed
<1>7. \A j, k \in DOMAIN ranges : ranges[j] = ranges[k] => j = k
  BY DEF Listed, Distinct
<1> DEFINE D == DOMAIN ranges
           L == LiveIds(i)
           f == [j \in D |-> CHOOSE id \in L : ranges[j] = Piece(id)]
<1>8. \A j \in D : f[j] \in L /\ ranges[j] = Piece(f[j])
  BY <1>2
<1>9. f \in [D -> L]
  BY <1>8
<1> HIDE DEF f
<1>10. \A id \in L : \E j \in D : f[j] = id
  BY <1>3, <1>6, <1>8
<1>11. \A j, k \in D : f[j] = f[k] => j = k
  BY <1>7, <1>8
<1> HIDE DEF D, L
<1>12. ExistsBijection(D, L)
  BY <1>9, <1>10, <1>11 DEF ExistsBijection, Bijection, Injection, Surjection, IsInjective
<1>13. IsFiniteSet(D) /\ Cardinality(D) = Len(ranges)
  BY <1>1, FS_Interval DEF D
<1>14. Cardinality(L) = Cardinality(D)
  BY <1>12, <1>13, FS_Bijection
<1> QED
  BY <1>4, <1>13, <1>14 DEF L

LEMMA BooksHold == IInv => BooksExact
<1> SUFFICES ASSUME IInv PROVE BooksExact
  OBVIOUS
<1>1. CASE pass = "valid"
  BY <1>1, ListedExact DEF IInv, BooksExact
<1>2. CASE pass \in {"util", "done"}
  BY <1>2 DEF IInv, Summed, TotalOf, BooksExact
<1>3. CASE pass \notin {"valid", "util", "done"}
  BY <1>3 DEF BooksExact
<1> QED
  BY <1>1, <1>2, <1>3

(* The list of the first pass holds the live blocks, each once, and the    *)
(* running total of the second is the payload in use, whatever the trace,  *)
(* the heap and the allocator.                                             *)
THEOREM BooksAlwaysExact == Spec => []BooksExact
BY BooksHold, InitIInv, NextIInv, PTL DEF Spec

(* A driver that stops with an error has met an allocator that failed:     *)
(* no range it still keeps makes a correct answer look wrong.              *)
THEOREM AlarmsAreReal == Spec => []NoFalseAlarm
<1>1. IInv => NoFalseAlarm
  BY DEF IInv
<1> QED
  BY <1>1, InitIInv, NextIInv, PTL DEF Spec

(* What passes the driver's checks and is wrong still is a block laid      *)
(* around an older one, or one that ends on the byte at the break.         *)
THEOREM MissesAreContainments == Spec => []MissesOnlyContainment
<1>1. IInv => MissesOnlyContainment
  BY DEF IInv, Listed, Contained, MissesOnlyContainment
<1> QED
  BY <1>1, InitIInv, NextIInv, PTL DEF Spec
=============================================================================
