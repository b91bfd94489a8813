---------------------------- MODULE PcHeapProofs ----------------------------
(***************************************************************************)
(* Proofs about PcHeap.                                                    *)
(***************************************************************************)
EXTENDS PcHeap, FiniteSetTheorems, SequenceTheorems, TLAPS

-----------------------------------------------------------------------------
(* The class of a size and the class lists.                                *)

(* class_index (pc_mm.c:34) always gives an index of class_table.          *)
LEMMA ClassIndexInTable ==
  ASSUME NEW s \in Nat
  PROVE  ClassIndex(s) \in Class
<1> DEFINE d == s \div DSIZE
           K == {k \in 0 .. SIZE_CLASSES - LINEAR - 1 : d >= LINEAR * 2^k}
<1> USE SizeAssumption
<1>1. d \in Nat
  OBVIOUS
<1>2. /\ IsFiniteSet(0 .. SIZE_CLASSES - LINEAR - 1)
      /\ Cardinality(0 .. SIZE_CLASSES - LINEAR - 1) = SIZE_CLASSES - LINEAR
  BY FS_Interval
<1>3. /\ Cardinality(K) \in Nat
      /\ Cardinality(K) <= SIZE_CLASSES - LINEAR
  BY <1>2, FS_Subset, FS_CardinalityType
<1>4. CASE d = 0
  BY <1>4 DEF ClassIndex, Class
<1>5. CASE d # 0 /\ d <= LINEAR
  <2>1. ClassIndex(s) = d - 1
    BY <1>5, <1>1 DEF ClassIndex
  <2> HIDE DEF d
  <2> QED
    BY <2>1, <1>5, <1>1 DEF Class
<1>6. CASE d # 0 /\ ~ (d <= LINEAR)
  <2>1. ClassIndex(s) = LINEAR - 1 + Cardinality(K)
    BY <1>6, <1>1 DEF ClassIndex
  <2> HIDE DEF d, K
  <2> QED
    BY <2>1, <1>3 DEF Class
<1> QED
  BY <1>4, <1>5, <1>6

(* free_blk_remove's list without the block.                               *)
LEMMA DropEffect ==
  ASSUME NEW s \in Seq(Node), NEW b \in Node,
         \A j, k \in DOMAIN s : s[j] = s[k] => j = k
  PROVE  /\ Drop(s, b) \in Seq(Node)
         /\ \A j, k \in DOMAIN Drop(s, b) : Drop(s, b)[j] = Drop(s, b)[k] => j = k
         /\ \A n \in Node : In(Drop(s, b), n) <=> In(s, n) /\ n # b
<1>1. CASE ~ In(s, b)
  BY <1>1 DEF Drop, In
<1>2. CASE In(s, b)
  <2> DEFINE j == CHOOSE j \in DOMAIN s : s[j] = b
             t == SubSeq(s, 1, j - 1) \o SubSeq(s, j + 1, Len(s))
  <2>1. j \in 1 .. Len(s) /\ s[j] = b
    BY <1>2 DEF In
  <2>2. Drop(s, b) = t
    BY <1>2 DEF Drop
  <2> HIDE DEF j
  <2>3. /\ t \in Seq(Node)
        /\ Len(t) = Len(s) - 1
        /\ \A k \in 1 .. Len(s) - 1 : t[k] = IF k < j THEN s[k] ELSE s[k + 1]
    <3> DEFINE u == SubSeq(s, 1, j - 1)  v == SubSeq(s, j + 1, Len(s))
    <3>1. /\ u \in Seq(Node) /\ Len(u) = j - 1
          /\ \A k \in 1 .. j - 1 : u[k] = s[k]
      BY <2>1, SubSeqProperties
    <3>2. /\ v \in Seq(Node) /\ Len(v) = Len(s) - j
          /\ \A k \in 1 .. Len(s) - j : v[k] = s[k + j]
      BY <2>1, SubSeqProperties
    <3> HIDE DEF u, v
    <3>3. /\ u \o v \in Seq(Node) /\ Len(u \o v) = Len(u) + Len(v)
          /\ \A k \in 1 .. Len(u) + Len(v) :
               (u \o v)[k] = IF k <= Len(u) THEN u[k] ELSE v[k - Len(u)]
      BY <3>1, <3>2, ConcatProperties
    <3>4. t = u \o v
      BY DEF u, v
    <3> HIDE DEF t
    <3>5. \A k \in 1 .. Len(s) - 1 : t[k] = IF k < j THEN s[k] ELSE s[k + 1]
      <4> SUFFICES ASSUME NEW k \in 1 .. Len(s) - 1
                   PROVE  t[k] = IF k < j THEN s[k] ELSE s[k + 1]
        OBVIOUS
      <4>1. CASE k < j
        BY <2>1, <3>1, <3>2, <3>3, <3>4, <4>1
      <4>2. CASE ~ (k < j)
        <5>1. t[k] = v[k - (j - 1)] /\ k - (j - 1) \in 1 .. Len(s) - j
          BY <2>1, <3>1, <3>2, <3>3, <3>4, <4>2
        <5>2. v[k - (j - 1)] = s[(k - (j - 1)) + j]
          BY <5>1, <3>2
        <5>3. (k - (j - 1)) + j = k + 1
          BY <2>1
        <5> QED
          BY <5>1, <5>2, <5>3, <4>2
      <4> QED
        BY <4>1, <4>2
    <3>6. Len(t) = (j - 1) + (Len(s) - j)
      BY <3>1, <3>2, <3>3, <3>4
    <3>7. Len(t) = Len(s) - 1
      BY <3>6, <2>1
    <3> QED
      BY <3>3, <3>4, <3>5, <3>7
  <2> HIDE DEF t
  <2>4. \A n \in Node : In(t, n) <=> In(s, n) /\ n # b
    <3> SUFFICES ASSUME NEW n \in Node PROVE In(t, n) <=> In(s, n) /\ n # b
      OBVIOUS
    <3>1. ASSUME In(t, n) PROVE In(s, n) /\ n # b
      BY <2>1, <2>3, <3>1 DEF In
    <3>2. ASSUME In(s, n), n # b PROVE In(t, n)
      <4>1. PICK k \in 1 .. Len(s) : s[k] = n
        BY <3>2 DEF In
      <4>2. CASE k < j
        BY <4>1, <4>2, <2>1, <2>3 DEF In
      <4>3. CASE k > j
        <5>1. k - 1 \in 1 .. Len(t) /\ t[k - 1] = n
          BY <4>1, <4>3, <2>1, <2>3
        <5> QED
          BY <5>1, <2>3 DEF In
      <4> QED
        BY <4>1, <4>2, <4>3, <2>1, <3>2
    <3> QED
      BY <3>1, <3>2
  <2> QED
    BY <2>1, <2>2, <2>3, <2>4
<1> QED
  BY <1>1, <1>2

(* Adding at the head of a list.                                           *)
LEMMA PushEffect ==
  ASSUME NEW s \in Seq(Node), NEW b \in Node, ~ In(s, b),
         \A j, k \in DOMAIN s : s[j] = s[k] => j = k
  PROVE  LET t == <<b>> \o s IN
         /\ t \in Seq(Node)
         /\ \A j, k \in DOMAIN t : t[j] = t[k] => j = k
         /\ \A n \in Node : In(t, n) <=> In(s, n) \/ n = b
<1> DEFINE t == <<b>> \o s
<1>1. /\ t \in Seq(Node)
      /\ Len(t) = Len(s) + 1
      /\ t[1] = b
      /\ \A k \in 2 .. Len(s) + 1 : t[k] = s[k - 1]
  OBVIOUS
<1> HIDE DEF t
<1>2. \A k \in 1 .. Len(s) : t[k + 1] = s[k]
  BY <1>1
<1>3. \A n \in Node : In(t, n) <=> In(s, n) \/ n = b
  <2> SUFFICES ASSUME NEW n \in Node PROVE In(t, n) <=> In(s, n) \/ n = b
    OBVIOUS
  <2>1. ASSUME In(t, n), n # b PROVE In(s, n)
    BY <1>1, <2>1 DEF In
  <2>2. ASSUME In(s, n) PROVE In(t, n)
    <3>1. PICK k \in 1 .. Len(s) : s[k] = n
      BY <2>2 DEF In
    <3>2. k + 1 \in 1 .. Len(t) /\ t[k + 1] = n
      BY <3>1, <1>1, <1>2
    <3> QED
      BY <3>2, <1>1 DEF In
  <2>3. In(t, b)
    BY <1>1 DEF In
  <2> QED
    BY <2>1, <2>2, <2>3
<1>4. \A j, k \in DOMAIN t : t[j] = t[k] => j = k
  <2>1. DOMAIN t = 1 .. Len(s) + 1 /\ DOMAIN s = 1 .. Len(s) /\ Len(s) \in Nat
    BY <1>1
  <2>2. \A k \in 2 .. Len(s) + 1 : k - 1 \in DOMAIN s /\ t[k] = s[k - 1] /\ t[k] # b
    <3> SUFFICES ASSUME NEW k \in 2 .. Len(s) + 1
                 PROVE  k - 1 \in DOMAIN s /\ t[k] = s[k - 1] /\ t[k] # b
      OBVIOUS
    <3>1. k - 1 \in 1 .. Len(s) /\ t[k] = s[k - 1]
      BY <1>1, <2>1
    <3> QED
      BY <2>1, <3>1 DEF In
  <2> SUFFICES ASSUME NEW j \in DOMAIN t, NEW k \in DOMAIN t, t[j] = t[k]
               PROVE  j = k
    OBVIOUS
  <2>3. CASE j = 1 \/ k = 1
    BY <1>1, <2>1, <2>2, <2>3
  <2>4. CASE j # 1 /\ k # 1
    <3>1. j \in 2 .. Len(s) + 1 /\ k \in 2 .. Len(s) + 1
      BY <2>1, <2>4
    <3>2. s[j - 1] = s[k - 1] /\ j - 1 \in DOMAIN s /\ k - 1 \in DOMAIN s
      BY <2>2, <3>1
    <3>3. j - 1 = k - 1
      BY <3>2
    <3> QED
      BY <3>1, <3>3
  <2> QED
    BY <2>3, <2>4
<1> QED
  BY <1>1, <1>3, <1>4 DEF t

-----------------------------------------------------------------------------
(* Operations on the class lists.                                          *)

LEMMA RemoveEffect ==
  ASSUME NEW h \in HeapType, NEW b \in Node, NoDup(h), Listed(h, b)
  PROVE  LET g == FreeBlkRemove(h, b) IN
         /\ g = [h EXCEPT !.class = g.class]
         /\ g.class \in [Class -> Seq(Node)]
         /\ NoDup(g)
         /\ \A n \in Node, i \in Class : In(g.class[i], n) <=> In(h.class[i], n) /\ n # b
<1> DEFINE g == FreeBlkRemove(h, b)
<1>1. g = [h EXCEPT !.class = [i \in Class |-> Drop(h.class[i], b)]]
  BY DEF FreeBlkRemove
<1>2. \A i \in Class : h.class[i] \in Seq(Node)
  BY DEF HeapType
<1>3. g.class = [i \in Class |-> Drop(h.class[i], b)]
  BY <1>1 DEF HeapType
<1>4. g = [h EXCEPT !.class = g.class]
  BY <1>1, <1>3
<1> HIDE DEF g
<1>5. ASSUME NEW i \in Class
      PROVE  /\ g.class[i] \in Seq(Node)
             /\ \A j, k \in DOMAIN g.class[i] :
                  g.class[i][j] = g.class[i][k] => j = k
             /\ \A n \in Node : In(g.class[i], n) <=> In(h.class[i], n) /\ n # b
  <2>1. g.class[i] = Drop(h.class[i], b)
    BY <1>3
  <2>2. \A j, k \in DOMAIN h.class[i] : h.class[i][j] = h.class[i][k] => j = k
    BY DEF NoDup
  <2> QED
    BY <2>1, <2>2, <1>2, DropEffect
<1>6. NoDup(g)
  BY <1>5 DEF NoDup
<1>7. g.class \in [Class -> Seq(Node)]
  BY <1>3, <1>5
<1> QED
  BY <1>4, <1>5, <1>6, <1>7 DEF g

LEMMA AddEffect ==
  ASSUME NEW h \in HeapType, NEW b \in Node, NoDup(h), ~ Listed(h, b),
         h.alloc[b] = 0
  PROVE  LET g == FreeBlkAdd(h, b) IN
         /\ g = [h EXCEPT !.class = g.class]
         /\ g.class \in [Class -> Seq(Node)]
         /\ NoDup(g)
         /\ \A n \in Node, i \in Class :
              In(g.class[i], n) <=>
                In(h.class[i], n) \/ (n = b /\ i = ClassIndex(h.size[b]))
<1> DEFINE g == FreeBlkAdd(h, b)
           c == ClassIndex(h.size[b])
<1>1. g = [h EXCEPT !.class = [h.class EXCEPT ![c] = <<b>> \o @]]
  BY DEF FreeBlkAdd
<1>2. h.class \in [Class -> Seq(Node)] /\ h.size[b] \in Nat
  BY DEF HeapType, Elt
<1>3. g.class = [h.class EXCEPT ![c] = <<b>> \o @]
  BY <1>1 DEF HeapType
<1>4. g = [h EXCEPT !.class = g.class]
  BY <1>1, <1>3
<1>5. c \in Class
  BY <1>2, ClassIndexInTable
<1> HIDE DEF g, c
<1>6. ASSUME NEW i \in Class
      PROVE  /\ g.class[i] \in Seq(Node)
             /\ \A j, k \in DOMAIN g.class[i] :
                  g.class[i][j] = g.class[i][k] => j = k
             /\ \A n \in Node : In(g.class[i], n) <=> In(h.class[i], n) \/ (n = b /\ i = c)
  <2>1. \A j, k \in DOMAIN h.class[i] : h.class[i][j] = h.class[i][k] => j = k
    BY DEF NoDup
  <2>2. ~ In(h.class[i], b)
    BY DEF Listed
  <2>3. CASE i = c
    <3>1. g.class[i] = <<b>> \o h.class[i]
      BY <1>2, <1>3, <2>3
    <3> QED
      BY <3>1, <1>2, <2>1, <2>2, <2>3, PushEffect
  <2>4. CASE i # c
    BY <1>2, <1>3, <2>1, <2>4
  <2> QED
    BY <2>3, <2>4
<1>7. NoDup(g)
  BY <1>6 DEF NoDup
<1>8. g.class \in [Class -> Seq(Node)]
  BY <1>2, <1>3, <1>6
<1> QED
  BY <1>4, <1>6, <1>7, <1>8 DEF g, c

-----------------------------------------------------------------------------
(* Merging a block with the free block behind it (pc_mm.c:108).            *)

LEMMA ReleaseFields ==
  ASSUME NEW h \in HeapType, NEW n \in Node
  PROVE  LET g == Release(h, n) IN
         /\ g \in HeapType
         /\ g.live  = h.live \ {n}
         /\ g.next  = [h.next EXCEPT ![n] = Start]
         /\ g.prev  = [h.prev EXCEPT ![n] = Start]
         /\ g.ptr   = [h.ptr EXCEPT ![n] = 0]
         /\ g.size  = [h.size EXCEPT ![n] = 0]
         /\ g.alloc = [h.alloc EXCEPT ![n] = 0]
         /\ g.class = h.class /\ g.dict = h.dict /\ g.status = h.status
<1>1. /\ h.live \ {n} \in SUBSET Node
      /\ [h.next EXCEPT ![n] = Start] \in [Elt -> Elt]
      /\ [h.prev EXCEPT ![n] = Start] \in [Elt -> Elt]
      /\ [h.ptr EXCEPT ![n] = 0] \in [Elt -> Nat]
      /\ [h.size EXCEPT ![n] = 0] \in [Elt -> Nat]
      /\ [h.alloc EXCEPT ![n] = 0] \in [Elt -> {0, 1}]
  BY DEF HeapType, Elt
<1> QED
  BY <1>1 DEF Release, HeapType

LEMMA MergeNextFields ==
  ASSUME NEW h \in HeapType, NEW b \in Node, h.next[b] \in Node,
         NoDup(h), Listed(h, h.next[b]), b # h.next[b]
  PROVE  LET g == MergeNext(h, b)  t == h.next[b] IN
         /\ g \in HeapType
         /\ g.live  = h.live \ {t}
         /\ g.next  = [h.next EXCEPT ![b] = h.next[t], ![t] = Start]
         /\ g.prev  = [h.prev EXCEPT ![h.next[t]] = b, ![t] = Start]
         /\ g.ptr   = [h.ptr EXCEPT ![t] = 0]
         /\ g.size  = [h.size EXCEPT ![b] = h.size[b] + h.size[t], ![t] = 0]
         /\ g.alloc = [h.alloc EXCEPT ![t] = 0]
         /\ g.dict  = {e \in h.dict : e[1] # h.ptr[t]}
         /\ g.status = h.status
         /\ NoDup(g)
         /\ \A n \in Node, i \in Class :
              In(g.class[i], n) <=> In(h.class[i], n) /\ n # t
<1> DEFINE t == h.next[b]
           a == [h EXCEPT !.size[b] = h.size[b] + h.size[t],
                          !.prev[h.next[t]] = b,
                          !.next[b] = h.next[t]]
           r == FreeBlkRemove(a, t)
           g == MergeNext(h, b)
<1>1. a \in HeapType /\ a.class = h.class
  <2>1. /\ h.size[b] + h.size[t] \in Nat /\ h.next[t] \in Elt
        /\ b \in Elt /\ t \in Elt
    BY DEF HeapType, Elt
  <2> QED
    BY <2>1 DEF HeapType
<1>2. NoDup(a) /\ Listed(a, t)
  BY <1>1 DEF NoDup, Listed
<1>3. /\ r = [a EXCEPT !.class = r.class]
      /\ r.class \in [Class -> Seq(Node)]
      /\ NoDup(r)
      /\ \A n \in Node, i \in Class :
           In(r.class[i], n) <=> In(h.class[i], n) /\ n # t
  <2> HIDE DEF a
  <2> QED
    BY <1>1, <1>2, RemoveEffect
<1>4. g = Release(DictDelete(r, h.ptr[t]), t)
  BY DEF MergeNext
<1> HIDE DEF r, g
<1>5. /\ r \in HeapType
      /\ r.live = h.live /\ r.ptr = h.ptr /\ r.alloc = h.alloc
      /\ r.dict = h.dict /\ r.status = h.status
      /\ r.next = [h.next EXCEPT ![b] = h.next[t]]
      /\ r.prev = [h.prev EXCEPT ![h.next[t]] = b]
      /\ r.size = [h.size EXCEPT ![b] = h.size[b] + h.size[t]]
  BY <1>1, <1>3 DEF HeapType, Elt
<1> HIDE DEF a
<1>6. /\ g \in HeapType
      /\ g.live = r.live \ {t} /\ g.status = r.status /\ g.class = r.class
      /\ g.next  = [r.next EXCEPT ![t] = Start]
      /\ g.prev  = [r.prev EXCEPT ![t] = Start]
      /\ g.ptr   = [r.ptr EXCEPT ![t] = 0]
      /\ g.size  = [r.size EXCEPT ![t] = 0]
      /\ g.alloc = [r.alloc EXCEPT ![t] = 0]
      /\ g.dict  = {e \in r.dict : e[1] # h.ptr[t]}
  <2> DEFINE d == DictDelete(r, h.ptr[t])
  <2>1. /\ d \in HeapType
        /\ d.live = r.live /\ d.next = r.next /\ d.prev = r.prev
        /\ d.ptr = r.ptr /\ d.size = r.size /\ d.alloc = r.alloc
        /\ d.class = r.class /\ d.status = r.status
        /\ d.dict = {e \in r.dict : e[1] # h.ptr[t]}
    BY <1>5 DEF DictDelete, HeapType
  <2> HIDE DEF d
  <2>2. g = Release(d, t)
    BY <1>4 DEF d
  <2>3. d \in HeapType
    BY <2>1
  <2>4. /\ g \in HeapType
        /\ g.live = d.live \ {t} /\ g.status = d.status /\ g.class = d.class
        /\ g.next  = [d.next EXCEPT ![t] = Start]
        /\ g.prev  = [d.prev EXCEPT ![t] = Start]
        /\ g.ptr   = [d.ptr EXCEPT ![t] = 0]
        /\ g.size  = [d.size EXCEPT ![t] = 0]
        /\ g.alloc = [d.alloc EXCEPT ![t] = 0]
        /\ g.dict  = d.dict
    BY <2>2, <2>3, ReleaseFields
  <2> QED
    BY <2>1, <2>4
<1>7. NoDup(g)
  BY <1>3, <1>6 DEF NoDup
<1> QED
  BY <1>3, <1>5, <1>6, <1>7 DEF g

(* The shape of the list survives, and nothing else about a block changes. *)
LEMMA MergeNextShape ==
  ASSUME NEW h, NEW brk \in Nat, Shape(h, brk),
         NEW b \in h.live, h.next[b] # Start, Listed(h, h.next[b])
  PROVE  LET g == MergeNext(h, b)  t == h.next[b] IN
         /\ Shape(g, brk)
         /\ t \in h.live /\ t # b
         /\ g.live = h.live \ {t}
         /\ g.ptr[Start] = h.ptr[Start]
         /\ \A n \in List(g) :
              /\ g.ptr[n] = h.ptr[n]
              /\ g.alloc[n] = h.alloc[n]
              /\ g.size[n] = IF n = b THEN h.size[b] + h.size[t] ELSE h.size[n]
              /\ g.next[n] = IF n = b THEN h.next[t] ELSE h.next[n]
              /\ g.prev[n] = IF n = h.next[t] THEN b ELSE h.prev[n]
         /\ \A n \in Node, i \in Class :
              In(g.class[i], n) <=> In(h.class[i], n) /\ n # t
<1> DEFINE g == MergeNext(h, b)
           t == h.next[b]
           u == h.next[t]
<1>1. /\ h \in HeapType /\ NoDup(h) /\ h.status = "serving"
      /\ h.alloc[Start] = 1 /\ h.size[Start] = 0
  BY DEF Shape, Typed, Sized
<1>2. /\ h.live \subseteq Node /\ h.next \in [Elt -> Elt] /\ h.prev \in [Elt -> Elt]
      /\ h.ptr \in [Elt -> Nat] /\ h.size \in [Elt -> Nat]
      /\ h.alloc \in [Elt -> {0, 1}]
  BY <1>1 DEF HeapType
<1>3. Start \notin h.live /\ List(h) \subseteq Elt /\ Start \in Elt
  BY <1>2, NodeAssumption DEF List, Elt
<1>4. \A n \in List(h) : /\ h.next[n] \in List(h) /\ h.prev[h.next[n]] = n
                        /\ h.prev[n] \in List(h) /\ h.next[h.prev[n]] = n
  BY DEF Shape, Linked
<1>5. t \in h.live /\ b \in Node /\ t \in Node /\ u \in List(h)
  BY <1>2, <1>4 DEF List
<1>6. h.ptr[b] + h.size[b] = h.ptr[t]
  BY <1>5 DEF Shape, Tiled, List
<1>7. \A n \in h.live : h.size[n] > 0
  BY DEF Shape, Sized
<1>8. t # b
  <2>1. h.ptr[b] \in Nat /\ h.size[b] \in Nat /\ h.size[b] > 0
    BY <1>2, <1>3, <1>7 DEF List
  <2> QED
    BY <1>6, <2>1
<1>9. u # t
  BY <1>4, <1>5, <1>8 DEF List
<1> HIDE DEF g
<1>10. /\ g \in HeapType /\ NoDup(g) /\ g.status = "serving"
       /\ g.live  = h.live \ {t}
       /\ g.next  = [h.next EXCEPT ![b] = u, ![t] = Start]
       /\ g.prev  = [h.prev EXCEPT ![u] = b, ![t] = Start]
       /\ g.ptr   = [h.ptr EXCEPT ![t] = 0]
       /\ g.size  = [h.size EXCEPT ![b] = h.size[b] + h.size[t], ![t] = 0]
       /\ g.alloc = [h.alloc EXCEPT ![t] = 0]
       /\ g.dict  = {e \in h.dict : e[1] # h.ptr[t]}
       /\ \A n \in Node, i \in Class :
            In(g.class[i], n) <=> In(h.class[i], n) /\ n # t
  BY <1>1, <1>5, <1>8, MergeNextFields DEF g
<1> HIDE DEF t, u
<1>11. List(g) = List(h) \ {t} /\ b \in List(g) /\ Start \in List(g)
  BY <1>3, <1>5, <1>8, <1>10 DEF List
<1>12. \A n \in List(g) :
         /\ g.ptr[n] = h.ptr[n]
         /\ g.alloc[n] = h.alloc[n]
         /\ g.size[n] = IF n = b THEN h.size[b] + h.size[t] ELSE h.size[n]
         /\ g.next[n] = IF n = b THEN u ELSE h.next[n]
         /\ g.prev[n] = IF n = u THEN b ELSE h.prev[n]
  BY <1>2, <1>3, <1>10, <1>11
<1>13. Typed(g) /\ g.ptr[Start] = h.ptr[Start] /\ g.size[Start] = 0
  BY <1>1, <1>3, <1>5, <1>10, <1>11, <1>12 DEF Typed
<1>14. Linked(g)
  <2> SUFFICES ASSUME NEW n \in List(g)
               PROVE  /\ g.next[n] \in List(g) /\ g.prev[g.next[n]] = n
                      /\ g.prev[n] \in List(g) /\ g.next[g.prev[n]] = n
    BY DEF Linked
  <2>1. h.next[n] = t => n = b
    BY <1>4, <1>11, <1>12 DEF t, List
  <2>2. h.prev[n] = t => n = u
    BY <1>4, <1>11 DEF u
  <2>3. u \in List(g) /\ h.prev[u] = t
    BY <1>4, <1>5, <1>9, <1>11 DEF u, List
  <2>4. n \in List(h) /\ n # t
    BY <1>11
  <2>5. g.next[n] \in List(g) /\ g.prev[g.next[n]] = n
    <3>1. CASE n = b
      BY <1>11, <1>12, <2>3, <3>1
    <3>2. CASE n # b
      <4>1. /\ g.next[n] = h.next[n] /\ h.next[n] \in List(g)
            /\ h.prev[h.next[n]] = n
        BY <1>4, <1>11, <1>12, <2>1, <2>4, <3>2
      <4>2. h.next[n] # u
        BY <2>3, <2>4, <4>1
      <4> QED
        BY <1>12, <4>1, <4>2
    <3> QED
      BY <3>1, <3>2
  <2>6. g.prev[n] \in List(g) /\ g.next[g.prev[n]] = n
    <3>1. CASE n = u
      BY <1>11, <1>12, <3>1
    <3>2. CASE n # u
      <4>1. /\ g.prev[n] = h.prev[n] /\ h.prev[n] \in List(g)
            /\ h.next[h.prev[n]] = n
        BY <1>4, <1>11, <1>12, <2>2, <2>4, <3>2
      <4>2. h.prev[n] # b
        BY <2>4, <4>1 DEF t
      <4> QED
        BY <1>12, <4>1, <4>2
    <3> QED
      BY <3>1, <3>2
  <2> QED
    BY <2>5, <2>6
<1>15. Sized(g)
  BY <1>2, <1>3, <1>5, <1>7, <1>10, <1>12, <1>13 DEF Sized, List
<1>16. Tiled(g, brk)
  <2> SUFFICES ASSUME NEW n \in List(g)
               PROVE  g.ptr[n] + g.size[n] =
                        IF g.next[n] = Start THEN brk ELSE g.ptr[g.next[n]]
    BY DEF Tiled
  <2>1. h.ptr[t] + h.size[t] = IF u = Start THEN brk ELSE h.ptr[u]
    BY <1>5 DEF Shape, Tiled, u, List
  <2>2. h.ptr[n] + h.size[n] = IF h.next[n] = Start THEN brk ELSE h.ptr[h.next[n]]
    BY <1>11 DEF Shape, Tiled
  <2>3. g.next[n] \in List(g)
    BY <1>14 DEF Linked
  <2>4. g.ptr[g.next[n]] = h.ptr[g.next[n]]
    BY <2>3, <1>12
  <2>5. CASE n = b
    <3>1. g.ptr[n] = h.ptr[b] /\ g.size[n] = h.size[b] + h.size[t] /\ g.next[n] = u
      BY <1>11, <1>12, <2>5
    <3>2. h.ptr[b] \in Nat /\ h.size[b] \in Nat /\ h.size[t] \in Nat
      BY <1>2, <1>3, <1>5 DEF Elt
    <3>3. h.ptr[b] + (h.size[b] + h.size[t]) = h.ptr[t] + h.size[t]
      BY <1>6, <3>2
    <3> QED
      BY <2>1, <2>4, <3>1, <3>3
  <2>6. CASE n # b
    BY <1>12, <2>2, <2>4, <2>6
  <2> QED
    BY <2>5, <2>6
<1>17. Apart(g)
  <2> SUFFICES ASSUME NEW c \in g.live, NEW d \in g.live, c # d
               PROVE  \/ g.ptr[c] + g.size[c] <= g.ptr[d]
                      \/ g.ptr[d] + g.size[d] <= g.ptr[c]
    BY DEF Apart
  <2>1. \A x, y \in h.live : x # y => \/ h.ptr[x] + h.size[x] <= h.ptr[y]
                                    \/ h.ptr[y] + h.size[y] <= h.ptr[x]
    BY DEF Shape, Apart
  <2>2. /\ c \in h.live /\ d \in h.live /\ c # t /\ d # t
        /\ c \in List(g) /\ d \in List(g)
    BY <1>10 DEF List
  <2>3. /\ h.ptr[c] \in Nat /\ h.ptr[d] \in Nat /\ h.ptr[t] \in Nat /\ h.ptr[b] \in Nat
        /\ h.size[c] \in Nat /\ h.size[d] \in Nat /\ h.size[t] \in Nat /\ h.size[b] \in Nat
        /\ h.size[c] > 0 /\ h.size[d] > 0
    BY <1>2, <1>5, <1>7, <2>2 DEF Elt
  <2>4. CASE c = b
    BY <1>5, <1>6, <1>12, <2>1, <2>2, <2>3, <2>4
  <2>5. CASE d = b
    BY <1>5, <1>6, <1>12, <2>1, <2>2, <2>3, <2>5
  <2>6. CASE c # b /\ d # b
    BY <1>12, <2>1, <2>2, <2>6
  <2> QED
    BY <2>4, <2>5, <2>6
<1>18. Within(g, brk)
  <2> SUFFICES ASSUME NEW c \in g.live
               PROVE  g.ptr[Start] <= g.ptr[c] /\ g.ptr[c] + g.size[c] <= brk
    BY DEF Within
  <2>1. \A x \in h.live : h.ptr[Start] <= h.ptr[x] /\ h.ptr[x] + h.size[x] <= brk
    BY DEF Shape, Within
  <2>2. c \in h.live /\ c \in List(g)
    BY <1>10 DEF List
  <2>3. /\ h.ptr[t] \in Nat /\ h.ptr[b] \in Nat
        /\ h.size[t] \in Nat /\ h.size[b] \in Nat
    BY <1>2, <1>5 DEF Elt
  <2> QED
    BY <1>5, <1>6, <1>12, <1>13, <2>1, <2>2, <2>3
<1>19. Keyed(g)
  <2>1. h.dict = {<<h.ptr[n], n>> : n \in h.live}
    BY DEF Shape, Keyed
  <2>2. \A n \in h.live : n # t => h.ptr[n] # h.ptr[t]
    <3> SUFFICES ASSUME NEW n \in h.live, n # t, h.ptr[n] = h.ptr[t] PROVE FALSE
      OBVIOUS
    <3>1. \/ h.ptr[n] + h.size[n] <= h.ptr[t]
          \/ h.ptr[t] + h.size[t] <= h.ptr[n]
      BY <1>5 DEF Shape, Apart
    <3>2. /\ h.ptr[t] \in Nat /\ h.size[t] \in Nat /\ h.size[n] \in Nat
          /\ h.size[t] > 0 /\ h.size[n] > 0
      BY <1>2, <1>5, <1>7 DEF Elt
    <3> QED
      BY <3>1, <3>2
  <2>3. g.dict = {<<h.ptr[n], n>> : n \in h.live \ {t}}
    BY <1>10, <2>1, <2>2
  <2>4. \A n \in g.live : g.ptr[n] = h.ptr[n]
    BY <1>12 DEF List
  <2> QED
    BY <1>10, <2>3, <2>4 DEF Keyed
<1> QED
  BY <1>5, <1>8, <1>10, <1>12, <1>13, <1>14, <1>15, <1>16, <1>17, <1>18, <1>19
     DEF Shape, g, t, u

-----------------------------------------------------------------------------
(* Coalescing (pc_mm.c:122).                                               *)

LEMMA ShapeTypes ==
  ASSUME NEW h, NEW brk \in Nat, Shape(h, brk)
  PROVE  /\ h \in HeapType /\ h.live \subseteq Node
         /\ h.next \in [Elt -> Elt] /\ h.prev \in [Elt -> Elt]
         /\ h.ptr \in [Elt -> Nat] /\ h.size \in [Elt -> Nat]
         /\ h.alloc \in [Elt -> {0, 1}]
         /\ h.class \in [Class -> Seq(Node)]
         /\ h.alloc[Start] = 1 /\ NoDup(h)
         /\ Start \notin Node /\ Start \notin h.live /\ Start \in List(h)
         /\ List(h) \subseteq Elt /\ h.live \subseteq List(h)
         /\ \A n \in List(h) : n # Start => n \in h.live
         /\ \A n \in h.live : h.size[n] > 0 /\ h.size[n] \in Nat
                             /\ ClassIndex(h.size[n]) \in Class
<1>1. h \in HeapType /\ h.alloc[Start] = 1 /\ NoDup(h)
  BY DEF Shape, Typed
<1>2. /\ h.live \subseteq Node
      /\ h.next \in [Elt -> Elt] /\ h.prev \in [Elt -> Elt]
      /\ h.ptr \in [Elt -> Nat] /\ h.size \in [Elt -> Nat]
      /\ h.alloc \in [Elt -> {0, 1}]
      /\ h.class \in [Class -> Seq(Node)]
  BY <1>1 DEF HeapType
<1>3. \A n \in h.live : h.size[n] > 0
  BY DEF Shape, Sized
<1>4. \A n \in h.live : h.size[n] \in Nat
  BY <1>2 DEF Elt
<1> QED
  BY <1>1, <1>2, <1>3, <1>4, ClassIndexInTable, NodeAssumption DEF List, Elt

(* The shape does not depend on which list a block is in.                  *)
LEMMA ClassOnlyShape ==
  ASSUME NEW h, NEW brk \in Nat, Shape(h, brk),
         NEW cl \in [Class -> Seq(Node)], NoDup([h EXCEPT !.class = cl])
  PROVE  LET g == [h EXCEPT !.class = cl] IN
         /\ Shape(g, brk)
         /\ g.live = h.live /\ g.next = h.next /\ g.prev = h.prev
         /\ g.ptr = h.ptr /\ g.size = h.size /\ g.alloc = h.alloc
         /\ g.class = cl
<1> DEFINE g == [h EXCEPT !.class = cl]
<1>1. h \in HeapType
  BY ShapeTypes
<1>2. /\ g \in HeapType
      /\ g.live = h.live /\ g.next = h.next /\ g.prev = h.prev
      /\ g.ptr = h.ptr /\ g.size = h.size /\ g.alloc = h.alloc
      /\ g.class = cl /\ g.dict = h.dict /\ g.status = h.status
  BY <1>1 DEF HeapType
<1>3. NoDup(g)
  OBVIOUS
<1> HIDE DEF g
<1>4. List(g) = List(h)
  BY <1>2 DEF List
<1>5. Typed(g) /\ Sized(g) /\ g.status = "serving"
  BY <1>2 DEF Shape, Typed, Sized
<1>6. Linked(g) /\ Tiled(g, brk)
  BY <1>2, <1>4 DEF Shape, Linked, Tiled
<1>7. Apart(g) /\ Within(g, brk) /\ Keyed(g)
  BY <1>2 DEF Shape, Apart, Within, Keyed
<1> QED
  BY <1>2, <1>3, <1>5, <1>6, <1>7 DEF Shape, g

(* A block is in the list of its class after reclassing it.                *)
LEMMA ReclassEffect ==
  ASSUME NEW h, NEW brk \in Nat, Shape(h, brk), NEW b \in h.live, h.alloc[b] = 0,
         NEW old \in Class, \A i \in Class : In(h.class[i], b) <=> i = old
  PROVE  LET g == Reclass(h, b, old) IN
         /\ Shape(g, brk)
         /\ g.live = h.live /\ g.next = h.next /\ g.prev = h.prev
         /\ g.ptr = h.ptr /\ g.size = h.size /\ g.alloc = h.alloc
         /\ \A n \in Node, i \in Class :
              In(g.class[i], n) <=>
                IF n = b THEN i = ClassIndex(h.size[b]) ELSE In(h.class[i], n)
<1> DEFINE g == Reclass(h, b, old)
           c == ClassIndex(h.size[b])
           r == FreeBlkRemove(h, b)
           a == FreeBlkAdd(r, b)
<1>1. /\ h \in HeapType /\ NoDup(h) /\ b \in Node /\ c \in Class
  BY ShapeTypes
<1>2. Listed(h, b)
  BY DEF Listed
<1>3. CASE old = c
  <2>1. g = h
    BY <1>3 DEF Reclass
  <2> QED
    BY <1>3, <2>1
<1>4. CASE old # c
  <2>1. g = a
    BY <1>4 DEF Reclass
  <2>2. /\ r = [h EXCEPT !.class = r.class]
        /\ r.class \in [Class -> Seq(Node)] /\ NoDup(r)
        /\ \A n \in Node, i \in Class : In(r.class[i], n) <=> In(h.class[i], n) /\ n # b
    BY <1>1, <1>2, RemoveEffect
  <2> HIDE DEF r
  <2>3. /\ Shape(r, brk)
        /\ r.live = h.live /\ r.next = h.next /\ r.prev = h.prev
        /\ r.ptr = h.ptr /\ r.size = h.size /\ r.alloc = h.alloc
    <3> DEFINE cl == r.class
    <3>1. r = [h EXCEPT !.class = cl] /\ cl \in [Class -> Seq(Node)]
      BY <2>2
    <3> HIDE DEF cl
    <3> QED
      BY <2>2, <3>1, ClassOnlyShape
  <2>4. r \in HeapType /\ ~ Listed(r, b) /\ r.alloc[b] = 0
    BY <1>1, <2>2, <2>3, ShapeTypes DEF Listed
  <2>5. /\ a = [r EXCEPT !.class = a.class]
        /\ a.class \in [Class -> Seq(Node)] /\ NoDup(a)
        /\ \A n \in Node, i \in Class :
             In(a.class[i], n) <=> In(r.class[i], n) \/ (n = b /\ i = ClassIndex(r.size[b]))
    BY <1>1, <2>2, <2>4, AddEffect
  <2> HIDE DEF a
  <2>6. /\ Shape(a, brk)
        /\ a.live = r.live /\ a.next = r.next /\ a.prev = r.prev
        /\ a.ptr = r.ptr /\ a.size = r.size /\ a.alloc = r.alloc
    <3> DEFINE cl == a.class
    <3>1. a = [r EXCEPT !.class = cl] /\ cl \in [Class -> Seq(Node)]
      BY <2>5
    <3> HIDE DEF cl
    <3> QED
      BY <2>3, <2>5, <3>1, ClassOnlyShape
  <2> HIDE DEF g
  <2>7. ASSUME NEW n \in Node, NEW i \in Class
        PROVE  In(a.class[i], n) <=> IF n = b THEN i = c ELSE In(h.class[i], n)
    BY <2>2, <2>3, <2>5
  <2> QED
    BY <2>1, <2>3, <2>6, <2>7 DEF g
<1> QED
  BY <1>3, <1>4

(* Neighbours in the list are different blocks, and a block, the one       *)
(* behind and the one before are three.                                    *)
LEMMA Neighbours ==
  ASSUME NEW h, NEW brk \in Nat, Shape(h, brk), NEW b \in h.live
  PROVE  /\ h.next[b] \in List(h) /\ h.prev[b] \in List(h)
         /\ h.prev[h.next[b]] = b /\ h.next[h.prev[b]] = b
         /\ h.next[b] # b /\ h.prev[b] # b
         /\ h.next[b] # Start => h.next[b] # h.prev[b]
<1>1. /\ h.next[b] \in List(h) /\ h.prev[b] \in List(h)
      /\ h.prev[h.next[b]] = b /\ h.next[h.prev[b]] = b
  BY ShapeTypes DEF Shape, Linked
<1>2. \A n \in List(h) : h.next[n] # Start => h.ptr[n] + h.size[n] = h.ptr[h.next[n]]
  BY DEF Shape, Tiled
<1>3. /\ h.ptr[b] \in Nat /\ h.size[b] \in Nat /\ h.size[b] > 0 /\ b # Start
      /\ b \in List(h)
  BY ShapeTypes DEF Elt
<1>4. h.next[b] # b
  BY <1>2, <1>3
<1>5. h.prev[b] # b
  BY <1>1, <1>4
<1>6. ASSUME h.next[b] # Start, h.next[b] = h.prev[b] PROVE FALSE
  <2> DEFINE t == h.next[b]
  <2>1. t \in h.live /\ h.next[t] = b
    BY <1>1, <1>6, ShapeTypes
  <2>2. h.ptr[t] \in Nat /\ h.size[t] \in Nat /\ t \in List(h)
    BY <2>1, ShapeTypes DEF Elt
  <2>3. h.ptr[b] + h.size[b] = h.ptr[t] /\ h.ptr[t] + h.size[t] = h.ptr[b]
    BY <1>2, <1>3, <1>6, <2>1, <2>2
  <2> HIDE DEF t
  <2> QED
    BY <1>3, <2>2, <2>3
<1> QED
  BY <1>1, <1>4, <1>5, <1>6

(* After its merges coalesce has one free block, keep, where there were up *)
(* to three, still listed in keep's old class.                             *)
Merged(h, m, brk, keep) ==
  /\ Shape(m, brk)
  /\ m.live \subseteq h.live /\ keep \in m.live
  /\ h.alloc[keep] = 0
  /\ \A n \in h.live : h.alloc[n] = 1 => n \in m.live
  /\ m.ptr[Start] = h.ptr[Start]
  /\ \A n \in List(m) : m.ptr[n] = h.ptr[n] /\ m.alloc[n] = h.alloc[n]
  /\ \A n \in m.live : n # keep => m.size[n] = h.size[n] /\ m.next[n] = h.next[n]
  /\ h.alloc[m.next[keep]] = 1
  /\ \A n \in Node, i \in Class : In(m.class[i], n) <=> In(h.class[i], n) /\ n \in m.live

Lonely(h, b) ==
  \A c \in FreeBlks(h) : h.alloc[h.next[c]] = 0 => c = b \/ h.next[c] = b

(* g is a settled heap in which every block allocated in h is unchanged.   *)
SettledFrom(h, g, brk) ==
  /\ Shape(g, brk) /\ Settled(g)
  /\ g.ptr[Start] = h.ptr[Start] /\ g.live \subseteq h.live
  /\ \A n \in h.live : h.alloc[n] = 1 => n \in g.live
  /\ \A n \in g.live : g.alloc[n] = h.alloc[n]
  /\ \A n \in g.live : h.alloc[n] = 1 =>
       g.ptr[n] = h.ptr[n] /\ g.size[n] = h.size[n]

LEMMA ReclassMerged ==
  ASSUME NEW h, NEW m, NEW brk \in Nat, Shape(h, brk), ListsExactly(h, FreeBlks(h)),
         NEW b \in h.live, h.alloc[b] = 0, Lonely(h, b), NEW keep, Merged(h, m, brk, keep),
         keep = IF h.alloc[h.prev[b]] = 0 THEN h.prev[b] ELSE b,
         b \in m.live => b = keep
  PROVE  SettledFrom(h, Reclass(m, keep, ClassIndex(h.size[keep])), brk)
<1> DEFINE old == ClassIndex(h.size[keep])
           g == Reclass(m, keep, old)
<1>1. /\ Shape(m, brk) /\ m.live \subseteq h.live /\ keep \in m.live /\ keep \in h.live
      /\ h.alloc[keep] = 0 /\ m.alloc[keep] = 0 /\ m.ptr[Start] = h.ptr[Start]
      /\ \A n \in h.live : h.alloc[n] = 1 => n \in m.live
      /\ \A n \in m.live : m.ptr[n] = h.ptr[n] /\ m.alloc[n] = h.alloc[n]
      /\ \A n \in m.live : n # keep => m.size[n] = h.size[n] /\ m.next[n] = h.next[n]
      /\ \A n \in Node, i \in Class :
           In(m.class[i], n) <=> In(h.class[i], n) /\ n \in m.live
  BY DEF Merged, List
<1>2. \A n \in List(m) : m.alloc[n] = h.alloc[n]
  BY DEF Merged
<1>3. old \in Class /\ h.live \subseteq Node
  BY <1>1, ShapeTypes
<1>4. \A n \in Node, i \in Class :
        In(h.class[i], n) <=> n \in FreeBlks(h) /\ ClassIndex(h.size[n]) = i
  BY DEF ListsExactly
<1>5. \A i \in Class : In(m.class[i], keep) <=> i = old
  BY <1>1, <1>3, <1>4 DEF FreeBlks
<1> HIDE DEF g, old
<1>6. /\ Shape(g, brk)
      /\ g.live = m.live /\ g.next = m.next /\ g.prev = m.prev
      /\ g.ptr = m.ptr /\ g.size = m.size /\ g.alloc = m.alloc
      /\ \A n \in Node, i \in Class :
           In(g.class[i], n) <=>
             IF n = keep THEN i = ClassIndex(m.size[keep]) ELSE In(m.class[i], n)
  BY <1>1, <1>3, <1>5, ReclassEffect DEF g
<1>7. ListsExactly(g, FreeBlks(g))
  <2> SUFFICES ASSUME NEW n \in Node, NEW i \in Class
               PROVE  In(g.class[i], n) <=> n \in FreeBlks(g) /\ ClassIndex(g.size[n]) = i
    BY DEF ListsExactly
  <2>1. CASE n = keep
    BY <1>1, <1>6, <2>1 DEF FreeBlks
  <2>2. CASE n # keep
    BY <1>1, <1>4, <1>6, <2>2 DEF FreeBlks
  <2> QED
    BY <2>1, <2>2
<1>8. ASSUME NEW c \in FreeBlks(g)
      PROVE  g.alloc[g.next[c]] = 1
  <2>1. c \in m.live /\ m.alloc[c] = 0 /\ c \in h.live /\ h.alloc[c] = 0
    BY <1>1, <1>6 DEF FreeBlks
  <2>2. m.next[c] \in List(m)
    BY <1>1, <2>1, Neighbours
  <2>3. g.alloc[g.next[c]] = h.alloc[m.next[c]]
    BY <1>2, <1>6, <2>2
  <2>4. CASE c = keep
    BY <2>3, <2>4 DEF Merged
  <2>5. CASE c # keep
    <3>1. m.next[c] = h.next[c] /\ c # b
      BY <1>1, <2>1, <2>5
    <3>2. h.next[c] = b => c = h.prev[b]
      BY <2>1, Neighbours
    <3>3. h.next[c] # b
      BY <2>1, <2>5, <3>1, <3>2
    <3>4. h.alloc[h.next[c]] # 0
      BY <2>1, <3>1, <3>3 DEF Lonely, FreeBlks
    <3>5. h.alloc[h.next[c]] \in {0, 1}
      BY <2>1, Neighbours, ShapeTypes
    <3> QED
      BY <2>3, <3>1, <3>4, <3>5
  <2> QED
    BY <2>4, <2>5
<1>9. Settled(g)
  BY <1>7, <1>8 DEF Settled
<1>10. \A n \in g.live : h.alloc[n] = 1 =>
         g.ptr[n] = h.ptr[n] /\ g.size[n] = h.size[n]
  BY <1>1, <1>6
<1>11. \A n \in g.live : g.alloc[n] = h.alloc[n]
  BY <1>1, <1>6
<1>12. SettledFrom(h, g, brk)
  <2>1. \A n \in h.live : h.alloc[n] = 1 => n \in g.live
    BY <1>1, <1>6
  <2>2. g.ptr[Start] = h.ptr[Start] /\ g.live \subseteq h.live
    BY <1>1, <1>6
  <2> QED
    BY <1>6, <1>9, <1>10, <1>11, <2>1, <2>2 DEF SettledFrom
<1> QED
  BY <1>12 DEF g, old

(* Merging with the block behind only.                                     *)
LEMMA MergedRight ==
  ASSUME NEW h, NEW brk \in Nat, Shape(h, brk), ListsExactly(h, FreeBlks(h)),
         NEW b \in h.live, h.alloc[b] = 0, Lonely(h, b), h.alloc[h.next[b]] = 0
  PROVE  LET m == MergeNext(h, b) IN
         /\ Merged(h, m, brk, b)
         /\ m.live = h.live \ {h.next[b]}
         /\ \A n \in List(m) : m.prev[n] = IF n = h.next[h.next[b]] THEN b ELSE h.prev[n]
<1> DEFINE m == MergeNext(h, b)
           t == h.next[b]
<1>1. /\ t \in List(h) /\ t # b /\ h.prev[t] = b
  BY Neighbours
<1>2. t # Start /\ t \in h.live /\ t \in FreeBlks(h)
  BY <1>1, ShapeTypes DEF FreeBlks
<1>3. Listed(h, t)
  <2>1. t \in Node /\ ClassIndex(h.size[t]) \in Class
    BY <1>2, ShapeTypes
  <2> QED
    BY <1>2, <2>1 DEF ListsExactly, Listed
<1>4. /\ Shape(m, brk)
      /\ m.live = h.live \ {t}
      /\ m.ptr[Start] = h.ptr[Start]
      /\ \A n \in List(m) :
           /\ m.ptr[n] = h.ptr[n]
           /\ m.alloc[n] = h.alloc[n]
           /\ m.size[n] = IF n = b THEN h.size[b] + h.size[t] ELSE h.size[n]
           /\ m.next[n] = IF n = b THEN h.next[t] ELSE h.next[n]
           /\ m.prev[n] = IF n = h.next[t] THEN b ELSE h.prev[n]
      /\ \A n \in Node, i \in Class :
           In(m.class[i], n) <=> In(h.class[i], n) /\ n # t
  BY <1>2, <1>3, MergeNextShape
<1> HIDE DEF m
<1>5. h.alloc[m.next[b]] = 1
  <2>1. m.next[b] = h.next[t]
    BY <1>1, <1>4 DEF List
  <2>2. h.next[t] \in List(h) /\ h.next[t] # t
    BY <1>2, Neighbours
  <2>3. h.next[t] # b
    <3>1. h.next[h.prev[b]] = b /\ h.prev[b] # t
      BY <1>2, Neighbours
    <3>2. h.prev[h.next[t]] = t
      BY <1>2, Neighbours
    <3> QED
      BY <3>1, <3>2
  <2>4. h.alloc[h.next[t]] \in {0, 1}
    BY <2>2, ShapeTypes
  <2> QED
    BY <1>1, <1>2, <2>1, <2>3, <2>4 DEF Lonely
<1>6. \A n \in Node, i \in Class : In(m.class[i], n) <=> In(h.class[i], n) /\ n \in m.live
  BY <1>4 DEF ListsExactly, FreeBlks
<1>7. \A n \in h.live : h.alloc[n] = 1 => n \in m.live
  BY <1>4, <1>2 DEF FreeBlks
<1>8. Merged(h, m, brk, b)
  BY <1>1, <1>4, <1>5, <1>6, <1>7 DEF Merged, List
<1> QED
  BY <1>4, <1>8 DEF m

(* Merging with the block before, after the one behind if that was free.   *)
LEMMA MergedLeft ==
  ASSUME NEW h, NEW brk \in Nat, Shape(h, brk), ListsExactly(h, FreeBlks(h)),
         NEW b \in h.live, h.alloc[b] = 0, h.alloc[h.prev[b]] = 0,
         NEW r, Shape(r, brk), b \in r.live, r.live \subseteq h.live,
         h.prev[b] \in r.live,
         r.ptr[Start] = h.ptr[Start],
         \A n \in List(r) : r.ptr[n] = h.ptr[n] /\ r.alloc[n] = h.alloc[n],
         \A n \in r.live : n # b => r.size[n] = h.size[n] /\ r.next[n] = h.next[n],
         h.alloc[r.next[b]] = 1,
         \A n \in h.live : h.alloc[n] = 1 => n \in r.live,
         \A n \in Node, i \in Class : In(r.class[i], n) <=> In(h.class[i], n) /\ n \in r.live
  PROVE  LET m == MergeNext(r, h.prev[b]) IN
         Merged(h, m, brk, h.prev[b]) /\ b \notin m.live
<1> DEFINE p == h.prev[b]
           m == MergeNext(r, p)
<1>1. p # b /\ h.next[p] = b
  BY Neighbours
<1>2. r.next[p] = b /\ p \in r.live /\ b # Start
  BY <1>1, ShapeTypes
<1>3. Listed(r, b)
  <2>1. b \in Node /\ ClassIndex(h.size[b]) \in Class
    BY ShapeTypes
  <2>2. In(h.class[ClassIndex(h.size[b])], b)
    BY <2>1 DEF ListsExactly, FreeBlks
  <2> QED
    BY <2>1, <2>2 DEF Listed
<1> HIDE DEF p
<1>4. /\ Shape(m, brk)
      /\ m.live = r.live \ {b}
      /\ m.ptr[Start] = r.ptr[Start]
      /\ \A n \in List(m) :
           /\ m.ptr[n] = r.ptr[n]
           /\ m.alloc[n] = r.alloc[n]
           /\ m.size[n] = IF n = p THEN r.size[p] + r.size[b] ELSE r.size[n]
           /\ m.next[n] = IF n = p THEN r.next[b] ELSE r.next[n]
      /\ \A n \in Node, i \in Class :
           In(m.class[i], n) <=> In(r.class[i], n) /\ n # b
  BY <1>2, <1>3, MergeNextShape
<1> HIDE DEF m
<1>5. p \in m.live /\ p \in List(m) /\ List(m) \subseteq List(r)
  BY <1>1, <1>2, <1>4 DEF List
<1>6. h.alloc[m.next[p]] = 1
  BY <1>4, <1>5
<1>7. \A n \in m.live : n # p => m.size[n] = h.size[n] /\ m.next[n] = h.next[n]
  BY <1>4 DEF List
<1>8. \A n \in List(m) : m.ptr[n] = h.ptr[n] /\ m.alloc[n] = h.alloc[n]
  BY <1>4, <1>5
<1>9. \A n \in Node, i \in Class : In(m.class[i], n) <=> In(h.class[i], n) /\ n \in m.live
  BY <1>4
<1>10. \A n \in h.live : h.alloc[n] = 1 => n \in m.live
  BY <1>4
<1>11. Merged(h, m, brk, p)
  <2>1. h.alloc[p] = 0
    BY DEF p
  <2> QED
    BY <1>4, <1>5, <1>6, <1>7, <1>8, <1>9, <1>10, <2>1 DEF Merged
<1> QED
  BY <1>4, <1>11 DEF m, p

(* A freed, shrunk-off or new block is coalesced: the shape is kept, the   *)
(* lists are exact again, no free blocks are adjacent, and every allocated *)
(* block stays where it is.                                                *)
LEMMA CoalesceEffect ==
  ASSUME NEW h, NEW brk \in Nat, Shape(h, brk), ListsExactly(h, FreeBlks(h)),
         NEW b \in h.live, h.alloc[b] = 0, Lonely(h, b)
  PROVE  SettledFrom(h, Coalesce(h, b), brk)
<1> DEFINE g == Coalesce(h, b)
           p == h.prev[b]
           t == h.next[b]
           r == MergeNext(h, b)
<1>1. /\ t \in List(h) /\ p \in List(h) /\ t # b /\ p # b
      /\ h.next[p] = b /\ h.prev[t] = b /\ (t # Start => t # p)
  BY Neighbours
<1>2. h.alloc[p] \in {0, 1} /\ h.alloc[t] \in {0, 1}
  BY <1>1, ShapeTypes
<1>3. CASE h.alloc[p] = 0 /\ h.alloc[t] = 0
  <2>1. /\ Merged(h, r, brk, b)
        /\ r.live = h.live \ {t}
    BY <1>3, MergedRight
  <2>2. p \in r.live
    <3>1. p \in h.live /\ t # Start
      BY <1>1, <1>3, ShapeTypes
    <3> QED
      BY <1>1, <2>1, <3>1
  <2> DEFINE m == MergeNext(r, p)
  <2>3. Merged(h, m, brk, p) /\ b \notin m.live
    <3> HIDE DEF r
    <3> QED
      BY <1>3, <2>1, <2>2, MergedLeft DEF Merged
  <2>4. g = Reclass(m, p, ClassIndex(h.size[p]))
    BY <1>3 DEF Coalesce
  <2>5. p = IF h.alloc[h.prev[b]] = 0 THEN h.prev[b] ELSE b
    BY <1>3
  <2> HIDE DEF g, m, p
  <2>6. SettledFrom(h, Reclass(m, p, ClassIndex(h.size[p])), brk)
    BY <2>3, <2>5, ReclassMerged
  <2> QED
    BY <2>4, <2>6 DEF g
<1>4. CASE h.alloc[p] # 0 /\ h.alloc[t] = 0
  <2>1. Merged(h, r, brk, b)
    BY <1>4, MergedRight
  <2>2. g = Reclass(r, b, ClassIndex(h.size[b]))
    BY <1>4 DEF Coalesce
  <2>3. b = IF h.alloc[h.prev[b]] = 0 THEN h.prev[b] ELSE b
    BY <1>4
  <2> HIDE DEF g, r
  <2>4. SettledFrom(h, Reclass(r, b, ClassIndex(h.size[b])), brk)
    BY <2>1, <2>3, ReclassMerged
  <2> QED
    BY <2>2, <2>4 DEF g
<1>5. CASE h.alloc[p] = 0 /\ h.alloc[t] # 0
  <2> DEFINE m == MergeNext(h, p)
  <2>1. p \in h.live
    BY <1>1, <1>5, ShapeTypes
  <2>2. \A n \in Node, i \in Class : In(h.class[i], n) => n \in h.live
    BY DEF ListsExactly, FreeBlks
  <2>3. Merged(h, m, brk, p) /\ b \notin m.live
    BY <1>2, <1>5, <2>1, <2>2, MergedLeft
  <2>4. g = Reclass(m, p, ClassIndex(h.size[p]))
    BY <1>5 DEF Coalesce
  <2>5. p = IF h.alloc[h.prev[b]] = 0 THEN h.prev[b] ELSE b
    BY <1>5
  <2> HIDE DEF g, m, p
  <2>6. SettledFrom(h, Reclass(m, p, ClassIndex(h.size[p])), brk)
    BY <2>3, <2>5, ReclassMerged
  <2> QED
    BY <2>4, <2>6 DEF g
<1>6. CASE h.alloc[p] # 0 /\ h.alloc[t] # 0
  <2>1. g = h
    BY <1>6 DEF Coalesce
  <2> HIDE DEF g
  <2>2. Settled(h)
    <3> SUFFICES ASSUME NEW c \in FreeBlks(h) PROVE h.alloc[h.next[c]] = 1
      BY DEF Settled
    <3>1. c \in h.live /\ h.alloc[c] = 0
      BY DEF FreeBlks
    <3>2. c # p /\ h.next[c] \in List(h) /\ h.prev[h.next[c]] = c
      BY <1>6, <3>1, Neighbours
    <3>3. h.next[c] # b
      BY <3>2
    <3>4. h.alloc[h.next[c]] \in {0, 1}
      BY <3>2, ShapeTypes
    <3> QED
      BY <1>6, <3>3, <3>4 DEF Lonely
  <2> QED
    BY <2>1, <2>2 DEF g, SettledFrom
<1> QED
  BY <1>2, <1>3, <1>4, <1>5, <1>6
-----------------------------------------------------------------------------
(* Linking a new free block into a gap behind b (pc_mm.c:257, :287, :350). *)

(* s free bytes at p lie between b and the block behind it, or the break.  *)
Gap(h, brk, b, p, s) ==
  /\ Typed(h) /\ Linked(h) /\ Sized(h) /\ Apart(h) /\ Within(h, brk)
  /\ Keyed(h) /\ NoDup(h) /\ h.status = "serving"
  /\ h.ptr[b] + h.size[b] = p
  /\ p + s = IF h.next[b] = Start THEN brk ELSE h.ptr[h.next[b]]
  /\ \A n \in List(h) : n # b =>
       h.ptr[n] + h.size[n] = IF h.next[n] = Start THEN brk ELSE h.ptr[h.next[n]]
  /\ \A n \in h.live : h.ptr[n] + h.size[n] <= p \/ p + s <= h.ptr[n]
  /\ h.ptr[Start] <= p /\ p + s <= brk

LinkFieldsOf(h, g, b, new, p, s) ==
  /\ g \in HeapType /\ NoDup(g)
  /\ g.live  = h.live \cup {new}
  /\ g.next  = [h.next EXCEPT ![new] = h.next[b], ![b] = new]
  /\ g.prev  = [h.prev EXCEPT ![new] = b, ![h.next[b]] = new]
  /\ g.ptr   = [h.ptr EXCEPT ![new] = p]
  /\ g.size  = [h.size EXCEPT ![new] = s]
  /\ g.alloc = [h.alloc EXCEPT ![new] = 0]
  /\ g.dict  = h.dict \cup {<<p, new>>}
  /\ g.status = h.status
  /\ \A n \in Node, i \in Class :
       In(g.class[i], n) <=>
         In(h.class[i], n) \/ (n = new /\ i = ClassIndex(s))

LEMMA LinkFields ==
  ASSUME NEW h \in HeapType, NoDup(h), NEW b \in Elt, NEW new \in Node, b # new,
         ~ Listed(h, new), NEW p \in Nat, NEW s \in Nat
  PROVE  LinkFieldsOf(h, Link(h, b, new, p, s), b, new, p, s)
<1> DEFINE nx == [h.next EXCEPT ![new] = h.next[b], ![b] = new]
           pv == [h.prev EXCEPT ![new] = b, ![h.next[b]] = new]
           pt == [h.ptr EXCEPT ![new] = p]
           sz == [h.size EXCEPT ![new] = s]
           al == [h.alloc EXCEPT ![new] = 0]
           lv == h.live \cup {new}
           linked == [h EXCEPT !.live = lv, !.next = nx, !.prev = pv,
                               !.ptr = pt, !.size = sz, !.alloc = al]
           a == FreeBlkAdd(linked, new)
           g == Link(h, b, new, p, s)
<1>1. /\ lv \in SUBSET Node /\ nx \in [Elt -> Elt] /\ pv \in [Elt -> Elt]
      /\ pt \in [Elt -> Nat] /\ sz \in [Elt -> Nat] /\ al \in [Elt -> {0, 1}]
      /\ al[new] = 0 /\ sz[new] = s
  BY DEF HeapType, Elt
<1>2. g = DictInsert(a, p, new)
  BY DEF Link
<1> HIDE DEF nx, pv, pt, sz, al, lv, a, g
<1>3. /\ linked \in HeapType /\ linked.class = h.class
      /\ linked.live = lv /\ linked.next = nx /\ linked.prev = pv
      /\ linked.ptr = pt /\ linked.size = sz /\ linked.alloc = al
      /\ linked.dict = h.dict /\ linked.status = h.status
  BY <1>1 DEF HeapType
<1> HIDE DEF linked
<1>4. NoDup(linked) /\ ~ Listed(linked, new)
  BY <1>3 DEF NoDup, Listed
<1>5. /\ a = [linked EXCEPT !.class = a.class]
      /\ a.class \in [Class -> Seq(Node)] /\ NoDup(a)
      /\ \A n \in Node, i \in Class :
           In(a.class[i], n) <=>
             In(linked.class[i], n) \/ (n = new /\ i = ClassIndex(linked.size[new]))
  BY <1>1, <1>3, <1>4, AddEffect DEF a
<1>6. /\ a \in HeapType
      /\ a.live = lv /\ a.next = nx /\ a.prev = pv
      /\ a.ptr = pt /\ a.size = sz /\ a.alloc = al
      /\ a.dict = h.dict /\ a.status = h.status
  <2> DEFINE cl == a.class
  <2>1. a = [linked EXCEPT !.class = cl] /\ cl \in [Class -> Seq(Node)]
    BY <1>5
  <2> HIDE DEF cl
  <2> QED
    BY <1>3, <2>1 DEF HeapType
<1>7. /\ g \in HeapType
      /\ g.live = lv /\ g.next = nx /\ g.prev = pv
      /\ g.ptr = pt /\ g.size = sz /\ g.alloc = al
      /\ g.dict = h.dict \cup {<<p, new>>} /\ g.status = h.status
      /\ g.class = a.class
  <2>1. a.dict \cup {<<p, new>>} \in SUBSET (Nat \X Node)
    BY <1>6 DEF HeapType
  <2> QED
    BY <1>2, <1>6, <2>1 DEF DictInsert, HeapType
<1>8. NoDup(g)
  BY <1>5, <1>7 DEF NoDup
<1>9. \A n \in Node, i \in Class :
        In(g.class[i], n) <=> In(h.class[i], n) \/ (n = new /\ i = ClassIndex(s))
  BY <1>1, <1>3, <1>5, <1>7
<1> QED
  BY <1>7, <1>8, <1>9 DEF LinkFieldsOf, g, nx, pv, pt, sz, al, lv

Linking(h, g, brk, b, new, p, s) ==
  /\ Shape(g, brk)
  /\ g.live = h.live \cup {new}
  /\ \A n \in List(h) :
       /\ g.ptr[n] = h.ptr[n]
       /\ g.size[n] = h.size[n]
       /\ g.alloc[n] = h.alloc[n]
       /\ g.next[n] = IF n = b THEN new ELSE h.next[n]
  /\ g.ptr[new] = p /\ g.size[new] = s /\ g.alloc[new] = 0
  /\ g.next[new] = h.next[b]
  /\ \A n \in Node, i \in Class :
       In(g.class[i], n) <=>
         In(h.class[i], n) \/ (n = new /\ i = ClassIndex(s))

LEMMA LinkShape ==
  ASSUME NEW h, NEW brk \in Nat, NEW b \in List(h),
         NEW new \in Node \ h.live, ~ Listed(h, new),
         NEW p \in Nat, NEW s \in Nat \ {0}, Gap(h, brk, b, p, s)
  PROVE  Linking(h, Link(h, b, new, p, s), brk, b, new, p, s)
<1> DEFINE g == Link(h, b, new, p, s)
           t == h.next[b]
<1>1. /\ h \in HeapType /\ NoDup(h) /\ h.status = "serving"
      /\ h.alloc[Start] = 1 /\ h.size[Start] = 0
  BY DEF Gap, Typed, Sized
<1>2. /\ h.live \subseteq Node /\ h.next \in [Elt -> Elt] /\ h.prev \in [Elt -> Elt]
      /\ h.ptr \in [Elt -> Nat] /\ h.size \in [Elt -> Nat]
      /\ h.alloc \in [Elt -> {0, 1}]
  BY <1>1 DEF HeapType
<1>3. /\ Start \notin h.live /\ List(h) \subseteq Elt /\ Start \in List(h)
      /\ new \notin List(h) /\ new # Start /\ new \in Elt /\ b # new
  BY <1>2, NodeAssumption DEF List, Elt
<1>4. \A n \in List(h) : /\ h.next[n] \in List(h) /\ h.prev[h.next[n]] = n
                        /\ h.prev[n] \in List(h) /\ h.next[h.prev[n]] = n
  BY DEF Gap, Linked
<1> HIDE DEF g
<1>5. /\ g \in HeapType /\ NoDup(g)
      /\ g.live  = h.live \cup {new}
      /\ g.next  = [h.next EXCEPT ![new] = t, ![b] = new]
      /\ g.prev  = [h.prev EXCEPT ![new] = b, ![t] = new]
      /\ g.ptr   = [h.ptr EXCEPT ![new] = p]
      /\ g.size  = [h.size EXCEPT ![new] = s]
      /\ g.alloc = [h.alloc EXCEPT ![new] = 0]
      /\ g.dict  = h.dict \cup {<<p, new>>}
      /\ g.status = "serving"
      /\ \A n \in Node, i \in Class :
           In(g.class[i], n) <=> In(h.class[i], n) \/ (n = new /\ i = ClassIndex(s))
  <2>1. b \in Elt /\ b # new /\ new \in Node /\ s \in Nat
    BY <1>3
  <2>2. LinkFieldsOf(h, Link(h, b, new, p, s), b, new, p, s)
    BY <1>1, <2>1, LinkFields
  <2>3. LinkFieldsOf(h, g, b, new, p, s)
    BY <2>2 DEF g
  <2> QED
    BY <1>1, <2>3 DEF LinkFieldsOf
<1>6. t \in List(h) /\ h.prev[t] = b /\ t # new
  BY <1>3, <1>4
<1> HIDE DEF t
<1>7. List(g) = List(h) \cup {new}
  BY <1>5 DEF List
<1>8. \A n \in List(h) :
        /\ g.ptr[n] = h.ptr[n] /\ g.size[n] = h.size[n] /\ g.alloc[n] = h.alloc[n]
        /\ g.next[n] = IF n = b THEN new ELSE h.next[n]
        /\ g.prev[n] = IF n = t THEN new ELSE h.prev[n]
  <2> SUFFICES ASSUME NEW n \in List(h)
               PROVE  /\ g.ptr[n] = h.ptr[n] /\ g.size[n] = h.size[n]
                      /\ g.alloc[n] = h.alloc[n]
                      /\ g.next[n] = IF n = b THEN new ELSE h.next[n]
                      /\ g.prev[n] = IF n = t THEN new ELSE h.prev[n]
    OBVIOUS
  <2>1. n \in Elt /\ n # new /\ b \in Elt /\ t \in Elt
    BY <1>3, <1>6
  <2>2. /\ g.ptr[n] = h.ptr[n] /\ g.size[n] = h.size[n]
        /\ g.alloc[n] = h.alloc[n]
    BY <1>2, <1>5, <2>1
  <2>3. g.next[n] = IF n = b THEN new ELSE h.next[n]
    BY <1>2, <1>3, <1>5, <2>1
  <2>4. g.prev[n] = IF n = t THEN new ELSE h.prev[n]
    BY <1>2, <1>3, <1>5, <2>1
  <2> QED
    BY <2>2, <2>3, <2>4
<1>9. /\ g.ptr[new] = p /\ g.size[new] = s /\ g.alloc[new] = 0
      /\ g.next[new] = t /\ g.prev[new] = b
  BY <1>2, <1>3, <1>5, <1>6
<1>10. Typed(g)
  BY <1>1, <1>3, <1>5, <1>8 DEF Typed
<1>11. Sized(g)
  <2>1. \A n \in h.live : h.size[n] > 0 /\ n \in List(h)
    BY DEF Gap, Sized, List
  <2> QED
    BY <1>1, <1>3, <1>5, <1>8, <1>9, <2>1 DEF Sized
<1>12. Linked(g)
  <2> SUFFICES ASSUME NEW n \in List(g)
               PROVE  /\ g.next[n] \in List(g) /\ g.prev[g.next[n]] = n
                      /\ g.prev[n] \in List(g) /\ g.next[g.prev[n]] = n
    BY DEF Linked
  <2>1. CASE n = new
    BY <1>6, <1>7, <1>8, <1>9, <2>1
  <2>2. CASE n # new
    <3>1. n \in List(h)
      BY <1>7, <2>2
    <3>2. g.next[n] \in List(g) /\ g.prev[g.next[n]] = n
      BY <1>4, <1>6, <1>7, <1>8, <1>9, <3>1 DEF t
    <3>3. g.prev[n] \in List(g) /\ g.next[g.prev[n]] = n
      BY <1>4, <1>6, <1>7, <1>8, <1>9, <3>1 DEF t
    <3> QED
      BY <3>2, <3>3
  <2> QED
    BY <2>1, <2>2
<1>13. Tiled(g, brk)
  <2> SUFFICES ASSUME NEW n \in List(g)
               PROVE  g.ptr[n] + g.size[n] =
                        IF g.next[n] = Start THEN brk ELSE g.ptr[g.next[n]]
    BY DEF Tiled
  <2>1. CASE n = new
    BY <1>6, <1>8, <1>9, <2>1 DEF Gap, t
  <2>2. CASE n = b
    BY <1>3, <1>8, <1>9, <2>2 DEF Gap
  <2>3. CASE n # new /\ n # b
    BY <1>4, <1>7, <1>8, <2>3 DEF Gap
  <2> QED
    BY <2>1, <2>2, <2>3
<1>14. \A n \in h.live : /\ n \in List(h)
                        /\ h.ptr[n] \in Nat /\ h.size[n] \in Nat
  BY <1>2 DEF Elt, List
<1>15. Apart(g)
  <2> SUFFICES ASSUME NEW c \in g.live, NEW d \in g.live, c # d
               PROVE  \/ g.ptr[c] + g.size[c] <= g.ptr[d]
                      \/ g.ptr[d] + g.size[d] <= g.ptr[c]
    BY DEF Apart
  <2>1. /\ \A x, y \in h.live : x # y => \/ h.ptr[x] + h.size[x] <= h.ptr[y]
                                       \/ h.ptr[y] + h.size[y] <= h.ptr[x]
        /\ \A n \in h.live : h.ptr[n] + h.size[n] <= p \/ p + s <= h.ptr[n]
    BY DEF Gap, Apart
  <2>2. CASE c = new
    BY <1>5, <1>8, <1>9, <1>14, <2>1, <2>2
  <2>3. CASE d = new
    BY <1>5, <1>8, <1>9, <1>14, <2>1, <2>3
  <2>4. CASE c # new /\ d # new
    BY <1>5, <1>8, <1>14, <2>1, <2>4
  <2> QED
    BY <2>2, <2>3, <2>4
<1>16. Within(g, brk)
  <2> SUFFICES ASSUME NEW c \in g.live
               PROVE  g.ptr[Start] <= g.ptr[c] /\ g.ptr[c] + g.size[c] <= brk
    BY DEF Within
  <2>1. /\ \A x \in h.live : h.ptr[Start] <= h.ptr[x] /\ h.ptr[x] + h.size[x] <= brk
        /\ h.ptr[Start] <= p /\ p + s <= brk
    BY DEF Gap, Within
  <2>2. CASE c = new
    BY <1>3, <1>8, <1>9, <2>1, <2>2
  <2>3. CASE c # new
    BY <1>3, <1>5, <1>8, <1>14, <2>1, <2>3
  <2> QED
    BY <2>2, <2>3
<1>17. Keyed(g)
  <2>1. h.dict = {<<h.ptr[n], n>> : n \in h.live}
    BY DEF Gap, Keyed
  <2>2. \A n \in h.live : g.ptr[n] = h.ptr[n]
    BY <1>8, <1>14
  <2> QED
    BY <1>5, <1>9, <2>1, <2>2 DEF Keyed
<1> QED
  BY <1>5, <1>8, <1>9, <1>10, <1>11, <1>12, <1>13, <1>15, <1>16, <1>17
     DEF Linking, Shape, g, t
-----------------------------------------------------------------------------
(* What each operation of the block list does.                             *)

(* The shape is about neither the lists nor the alloc bits.                *)
LEMMA SameShape ==
  ASSUME NEW h, NEW brk \in Nat, Shape(h, brk), NEW g \in HeapType,
         g.live = h.live, g.next = h.next, g.prev = h.prev,
         g.ptr = h.ptr, g.size = h.size, g.dict = h.dict, g.status = h.status,
         g.alloc[Start] = 1, NoDup(g)
  PROVE  Shape(g, brk)
<1>1. List(g) = List(h)
  BY DEF List
<1>2. Typed(g) /\ Sized(g) /\ g.status = "serving"
  BY DEF Shape, Typed, Sized
<1>3. Linked(g) /\ Tiled(g, brk)
  BY <1>1 DEF Shape, Linked, Tiled
<1>4. Apart(g) /\ Within(g, brk) /\ Keyed(g)
  BY DEF Shape, Apart, Within, Keyed
<1> QED
  BY <1>2, <1>3, <1>4 DEF Shape

SizedTo(h, g, b, asize) ==
  /\ g \in HeapType /\ g.live = h.live /\ g.next = h.next /\ g.prev = h.prev
  /\ g.ptr = h.ptr /\ g.size = [h.size EXCEPT ![b] = asize] /\ g.alloc = h.alloc
  /\ g.class = h.class /\ g.dict = h.dict /\ g.status = h.status

(* Cutting a block to asize leaves a gap behind it.                        *)
LEMMA CutGap ==
  ASSUME NEW h, NEW brk \in Nat, Shape(h, brk), NEW b \in h.live,
         NEW asize \in Nat \ {0}, asize < h.size[b]
  PROVE  LET g == [h EXCEPT !.size[b] = asize] IN
         /\ SizedTo(h, g, b, asize)
         /\ Gap(g, brk, b, h.ptr[b] + asize, h.size[b] - asize)
<1> DEFINE g == [h EXCEPT !.size[b] = asize]
           p == h.ptr[b] + asize
           s == h.size[b] - asize
<1>1. /\ h \in HeapType /\ NoDup(h) /\ h.status = "serving" /\ h.alloc[Start] = 1
      /\ h.size[Start] = 0 /\ b \in Elt /\ b # Start /\ Start \in Elt
  BY ShapeTypes DEF Shape, Sized, Elt
<1>2. /\ h.ptr \in [Elt -> Nat] /\ h.size \in [Elt -> Nat] /\ h.live \subseteq Node
  BY <1>1 DEF HeapType
<1>3. SizedTo(h, g, b, asize)
  <2>1. [h.size EXCEPT ![b] = asize] \in [Elt -> Nat]
    BY <1>2
  <2> QED
    BY <1>1, <2>1 DEF SizedTo, HeapType
<1> HIDE DEF g
<1>4. /\ g \in HeapType /\ g.live = h.live /\ g.next = h.next /\ g.prev = h.prev
      /\ g.ptr = h.ptr /\ g.size = [h.size EXCEPT ![b] = asize] /\ g.alloc = h.alloc
      /\ g.class = h.class /\ g.dict = h.dict /\ g.status = h.status
  BY <1>3 DEF SizedTo
<1>5. /\ List(g) = List(h)
      /\ \A n \in List(h) : n # b => g.size[n] = h.size[n]
      /\ g.size[b] = asize
  <2>1. List(h) \subseteq Elt
    BY ShapeTypes
  <2> QED
    BY <1>1, <1>2, <1>4, <2>1 DEF List
<1>6. Typed(g) /\ Linked(g) /\ Keyed(g) /\ NoDup(g) /\ g.status = "serving"
  BY <1>1, <1>4, <1>5 DEF Shape, Typed, Linked, Keyed, NoDup
<1>7. Sized(g)
  BY <1>1, <1>4, <1>5 DEF Shape, Sized, List
<1>8. \A n \in h.live : /\ n \in List(h) /\ h.ptr[n] \in Nat
                       /\ h.size[n] \in Nat /\ h.size[n] > 0
  BY <1>2, ShapeTypes DEF Elt
<1>9. Apart(g)
  BY <1>4, <1>5, <1>8 DEF Shape, Apart
<1>10. Within(g, brk)
  BY <1>4, <1>5, <1>8 DEF Shape, Within
<1>11. g.ptr[b] + g.size[b] = p
  BY <1>4, <1>5
<1>12. p + s = IF g.next[b] = Start THEN brk ELSE g.ptr[g.next[b]]
  <2>1. h.ptr[b] + h.size[b] = IF h.next[b] = Start THEN brk ELSE h.ptr[h.next[b]]
    BY <1>8 DEF Shape, Tiled
  <2>2. p + s = h.ptr[b] + h.size[b]
    BY <1>8
  <2> HIDE DEF p, s
  <2> QED
    BY <1>4, <2>1, <2>2
<1>13. \A n \in List(g) : n # b =>
         g.ptr[n] + g.size[n] = IF g.next[n] = Start THEN brk ELSE g.ptr[g.next[n]]
  BY <1>4, <1>5 DEF Shape, Tiled
<1>14. \A n \in g.live : g.ptr[n] + g.size[n] <= p \/ p + s <= g.ptr[n]
  <2> SUFFICES ASSUME NEW n \in h.live
               PROVE  g.ptr[n] + g.size[n] <= p \/ p + s <= g.ptr[n]
    BY <1>4
  <2>1. CASE n = b
    BY <1>8, <1>11, <2>1
  <2>2. CASE n # b
    <3>1. \/ h.ptr[n] + h.size[n] <= h.ptr[b]
          \/ h.ptr[b] + h.size[b] <= h.ptr[n]
      BY <2>2 DEF Shape, Apart
    <3>2. g.ptr[n] = h.ptr[n] /\ g.size[n] = h.size[n]
      BY <1>4, <1>5, <1>8, <2>2
    <3> QED
      BY <1>8, <3>1, <3>2
  <2> QED
    BY <2>1, <2>2
<1>15. g.ptr[Start] <= p /\ p + s <= brk
  <2>1. h.ptr[Start] <= h.ptr[b] /\ h.ptr[b] + h.size[b] <= brk
    BY DEF Shape, Within
  <2>2. h.ptr[Start] \in Nat /\ h.ptr[b] \in Nat /\ h.size[b] \in Nat
    BY <1>1, <1>2
  <2>3. g.ptr[Start] = h.ptr[Start]
    BY <1>4
  <2> QED
    BY <2>1, <2>2, <2>3
<1> HIDE DEF p, s
<1>16. Gap(g, brk, b, p, s)
  BY <1>6, <1>7, <1>9, <1>10, <1>11, <1>12, <1>13, <1>14, <1>15 DEF Gap
<1> QED
  BY <1>3, <1>16 DEF g, p, s
(* Every allocated block but b stays as it is, and none is added.          *)
Others(h, g, b) ==
  /\ g.ptr[Start] = h.ptr[Start]
  /\ \A n \in h.live : n # b /\ h.alloc[n] = 1 =>
       n \in g.live /\ g.alloc[n] = 1 /\ g.ptr[n] = h.ptr[n] /\ g.size[n] = h.size[n]
  /\ \A n \in g.live : n # b /\ g.alloc[n] = 1 => n \in h.live /\ h.alloc[n] = 1

(* b is allocated, where it was, with asize bytes.                         *)
Resized(h, g, brk, b, asize) ==
  /\ Shape(g, brk) /\ Settled(g) /\ Others(h, g, b)
  /\ b \in g.live /\ g.alloc[b] = 1 /\ g.ptr[b] = h.ptr[b] /\ g.size[b] = asize

LEMMA NotListed ==
  ASSUME NEW h, ListsExactly(h, FreeBlks(h)), NEW n \in Node, n \notin FreeBlks(h)
  PROVE  ~ Listed(h, n)
BY DEF ListsExactly, Listed

(* A block alone or with its rest split off.                               *)
LEMMA PlaceEffect ==
  ASSUME NEW h, NEW brk \in Nat, Shape(h, brk), Settled(h),
         NEW b \in h.live, h.alloc[b] = 0,
         NEW asize \in Nat \ {0}, h.size[b] >= asize, NEW new \in Node \ h.live
  PROVE  Resized(h, Place(h, b, asize, new), brk, b, asize)
<1> DEFINE a == [h EXCEPT !.alloc[b] = 1]
           k == FreeBlkRemove(a, b)
           g == Place(h, b, asize, new)
<1>1. /\ h \in HeapType /\ h.live \subseteq Node /\ h.alloc \in [Elt -> {0, 1}]
      /\ h.status = "serving" /\ b \in Node /\ b \in Elt /\ b # Start /\ NoDup(h)
      /\ h.alloc[Start] = 1 /\ Start \in Elt /\ List(h) \subseteq Elt
      /\ \A n \in h.live : n \in List(h)
      /\ ClassIndex(h.size[b]) \in Class
  BY ShapeTypes DEF Shape, Elt
<1>2. /\ a \in HeapType /\ a.live = h.live /\ a.next = h.next /\ a.prev = h.prev
      /\ a.ptr = h.ptr /\ a.size = h.size /\ a.class = h.class /\ a.dict = h.dict
      /\ a.status = h.status /\ a.alloc = [h.alloc EXCEPT ![b] = 1]
  <2>1. [h.alloc EXCEPT ![b] = 1] \in [Elt -> {0, 1}]
    BY <1>1
  <2> QED
    BY <1>1, <2>1 DEF HeapType
<1>3. \A n \in Node, i \in Class :
        In(h.class[i], n) <=> n \in FreeBlks(h) /\ ClassIndex(h.size[n]) = i
  BY DEF Settled, ListsExactly
<1> HIDE DEF a
<1>4. NoDup(a) /\ Listed(a, b)
  BY <1>1, <1>2, <1>3 DEF NoDup, Listed, FreeBlks
<1>5. /\ k = [a EXCEPT !.class = k.class]
      /\ k.class \in [Class -> Seq(Node)]
      /\ NoDup(k)
      /\ \A n \in Node, i \in Class : In(k.class[i], n) <=> In(a.class[i], n) /\ n # b
  BY <1>1, <1>2, <1>4, RemoveEffect DEF k
<1> HIDE DEF k
<1>6. /\ k \in HeapType /\ k.live = h.live /\ k.next = h.next /\ k.prev = h.prev
      /\ k.ptr = h.ptr /\ k.size = h.size /\ k.dict = h.dict
      /\ k.status = h.status /\ k.alloc = [h.alloc EXCEPT ![b] = 1]
  <2> DEFINE cl == k.class
  <2>1. k = [a EXCEPT !.class = cl] /\ cl \in [Class -> Seq(Node)]
    BY <1>5
  <2> HIDE DEF cl
  <2> QED
    BY <1>2, <2>1 DEF HeapType
<1>7. /\ k.alloc[b] = 1 /\ k.alloc[Start] = 1
      /\ \A n \in List(h) : n # b => k.alloc[n] = h.alloc[n]
  BY <1>1, <1>6
<1>8. Shape(k, brk)
  BY <1>5, <1>6, <1>7, SameShape
<1>9. ListsExactly(k, FreeBlks(k))
  BY <1>1, <1>2, <1>3, <1>5, <1>6, <1>7 DEF ListsExactly, FreeBlks
<1>10. \A c \in FreeBlks(k) : k.alloc[h.next[c]] = 1
  <2> SUFFICES ASSUME NEW c \in FreeBlks(k) PROVE k.alloc[h.next[c]] = 1
    OBVIOUS
  <2>1. c \in FreeBlks(h) /\ h.alloc[h.next[c]] = 1
    BY <1>1, <1>6, <1>7 DEF FreeBlks, Settled
  <2>2. h.next[c] \in List(h)
    BY <2>1, Neighbours DEF FreeBlks
  <2> QED
    BY <1>7, <2>1, <2>2
<1>11. CASE ~ (h.size[b] > asize)
  <2>1. g = k
    BY <1>11 DEF Place, a, k
  <2>2. h.size[b] = asize
    <3>1. h.size[b] \in Nat
      BY ShapeTypes
    <3> QED
      BY <1>11, <3>1
  <2> HIDE DEF g
  <2>3. Settled(g)
    BY <1>6, <1>9, <1>10, <2>1 DEF Settled
  <2>4. Others(h, g, b)
    BY <1>1, <1>6, <1>7, <2>1 DEF Others
  <2> QED
    BY <1>6, <1>7, <1>8, <2>1, <2>2, <2>3, <2>4 DEF Resized, g
<1>12. CASE h.size[b] > asize
  <2> DEFINE z == [k EXCEPT !.size[b] = asize]
             p == h.ptr[b] + asize
             s == h.size[b] - asize
  <2>1. g = Link(z, b, new, p, s)
    BY <1>12 DEF Place, a, k
  <2>2. h.size[b] \in Nat /\ h.ptr[b] \in Nat /\ p \in Nat /\ s \in Nat \ {0}
    BY <1>1, <1>12, ShapeTypes
  <2>3. SizedTo(k, z, b, asize) /\ Gap(z, brk, b, p, s)
    <3>1. /\ b \in k.live /\ asize < k.size[b]
          /\ k.ptr[b] = h.ptr[b] /\ k.size[b] = h.size[b]
      BY <1>6, <1>12, <2>2
    <3> QED
      BY <1>8, <3>1, CutGap
  <2> HIDE DEF g, z, p, s
  <2>4. /\ z.live = h.live /\ z.next = h.next /\ z.ptr = h.ptr
        /\ z.size = [h.size EXCEPT ![b] = asize] /\ z.alloc = k.alloc
        /\ z.class = k.class
    BY <1>6, <2>3 DEF SizedTo
  <2>5. /\ List(z) = List(h) /\ z.size[b] = asize
        /\ \A n \in List(h) : n # b => z.size[n] = h.size[n]
    BY <1>1, <2>4, ShapeTypes DEF List
  <2>6. ~ Listed(z, new)
    <3>1. ~ Listed(k, new)
      BY <1>6, <1>9, NotListed DEF FreeBlks
    <3> QED
      BY <2>4, <3>1 DEF Listed
  <2>7. Linking(z, g, brk, b, new, p, s)
    <3>1. b \in List(z) /\ new \in Node \ z.live
      BY <1>1, <2>4, <2>5
    <3> QED
      BY <2>1, <2>2, <2>3, <2>6, <3>1, LinkShape
  <2>8. /\ Shape(g, brk) /\ g.live = h.live \cup {new}
        /\ g.ptr[new] = p /\ g.size[new] = s /\ g.alloc[new] = 0
        /\ g.next[new] = h.next[b]
        /\ \A n \in List(h) :
             /\ g.ptr[n] = h.ptr[n] /\ g.alloc[n] = k.alloc[n]
             /\ g.size[n] = IF n = b THEN asize ELSE h.size[n]
             /\ g.next[n] = IF n = b THEN new ELSE h.next[n]
        /\ \A n \in Node, i \in Class :
             In(g.class[i], n) <=> In(k.class[i], n) \/ (n = new /\ i = ClassIndex(s))
    BY <2>4, <2>5, <2>7 DEF Linking
  <2>9. FreeBlks(g) = FreeBlks(k) \cup {new}
    BY <1>1, <1>6, <2>8 DEF FreeBlks
  <2>10. ListsExactly(g, FreeBlks(g))
    <3> SUFFICES ASSUME NEW n \in Node, NEW i \in Class
                 PROVE  In(g.class[i], n) <=> n \in FreeBlks(g) /\ ClassIndex(g.size[n]) = i
      BY DEF ListsExactly
    <3>1. In(k.class[i], n) <=> n \in FreeBlks(k) /\ ClassIndex(k.size[n]) = i
      BY <1>9 DEF ListsExactly
    <3>2. n \in FreeBlks(k) => n \in List(h) /\ n # b /\ n # new
      BY <1>1, <1>6, <1>7 DEF FreeBlks
    <3> QED
      BY <1>6, <2>8, <2>9, <3>1, <3>2
  <2>11. \A c \in FreeBlks(g) : g.alloc[g.next[c]] = 1
    <3> SUFFICES ASSUME NEW c \in FreeBlks(g) PROVE g.alloc[g.next[c]] = 1
      OBVIOUS
    <3>1. CASE c = new
      <4>1. h.next[b] \in List(h) /\ h.next[b] # b /\ h.alloc[h.next[b]] = 1
        BY Neighbours DEF Settled, FreeBlks
      <4> QED
        BY <1>7, <2>8, <3>1, <4>1
    <3>2. CASE c # new
      <4>1. c \in FreeBlks(k) /\ c \in h.live /\ c \in List(h) /\ c # b
        BY <1>1, <1>6, <1>7, <2>9, <3>2 DEF FreeBlks
      <4>2. h.next[c] \in List(h)
        BY <4>1, Neighbours
      <4> QED
        BY <1>10, <2>8, <4>1, <4>2
    <3> QED
      BY <3>1, <3>2
  <2>12. Others(h, g, b)
    <3>1. Start \in List(h) /\ Start # b
      BY ShapeTypes
    <3> QED
      BY <1>1, <1>7, <2>8, <3>1 DEF Others
  <2> QED
    BY <1>1, <1>7, <2>8, <2>10, <2>11, <2>12 DEF Resized, Settled, g
<1> QED
  BY <1>11, <1>12
(* b is not, or no longer, an allocated block.                             *)
Without(h, g, brk, b) ==
  /\ Shape(g, brk) /\ Settled(g) /\ Others(h, g, b)
  /\ b \in g.live => g.alloc[b] = 0

(* Coalescing b in a heap m that differs from h in b only.                 *)
LEMMA CoalesceWithout ==
  ASSUME NEW h, NEW m, NEW brk \in Nat, Shape(m, brk), ListsExactly(m, FreeBlks(m)),
         NEW b \in m.live, m.alloc[b] = 0, Lonely(m, b), Others(h, m, b)
  PROVE  Without(h, Coalesce(m, b), brk, b)
<1> DEFINE g == Coalesce(m, b)
<1>1. SettledFrom(m, g, brk)
  BY CoalesceEffect
<1> HIDE DEF g
<1>2. Others(h, g, b)
  BY <1>1 DEF Others, SettledFrom
<1> QED
  BY <1>1, <1>2 DEF Without, SettledFrom, g

(* A new free block in a gap behind b, coalesced.                          *)
LEMMA LinkCoalesce ==
  ASSUME NEW h, NEW brk \in Nat, NEW b \in List(h), NEW new \in Node \ h.live,
         ListsExactly(h, FreeBlks(h)),
         \A c \in FreeBlks(h) : c # b => h.alloc[h.next[c]] = 1,
         NEW p \in Nat, NEW s \in Nat \ {0}, Gap(h, brk, b, p, s)
  PROVE  Without(h, Coalesce(Link(h, b, new, p, s), new), brk, new)
<1> DEFINE m == Link(h, b, new, p, s)
<1>1. ~ Listed(h, new)
  BY NotListed DEF FreeBlks
<1>2. Linking(h, m, brk, b, new, p, s)
  BY <1>1, LinkShape
<1> HIDE DEF m
<1>3. /\ Shape(m, brk) /\ m.live = h.live \cup {new}
      /\ \A n \in List(h) :
           /\ m.ptr[n] = h.ptr[n] /\ m.size[n] = h.size[n] /\ m.alloc[n] = h.alloc[n]
           /\ m.next[n] = IF n = b THEN new ELSE h.next[n]
      /\ m.ptr[new] = p /\ m.size[new] = s /\ m.alloc[new] = 0
      /\ \A n \in Node, i \in Class :
           In(m.class[i], n) <=> In(h.class[i], n) \/ (n = new /\ i = ClassIndex(s))
  BY <1>2 DEF Linking
<1>4. /\ h.live \subseteq Node /\ Start \in List(h) /\ \A n \in h.live : n \in List(h)
  BY DEF Gap, Typed, HeapType, List
<1>5. FreeBlks(m) = FreeBlks(h) \cup {new}
  BY <1>3, <1>4 DEF FreeBlks
<1>6. ListsExactly(m, FreeBlks(m))
  <2> SUFFICES ASSUME NEW n \in Node, NEW i \in Class
               PROVE  In(m.class[i], n) <=> n \in FreeBlks(m) /\ ClassIndex(m.size[n]) = i
    BY DEF ListsExactly
  <2>1. In(h.class[i], n) <=> n \in FreeBlks(h) /\ ClassIndex(h.size[n]) = i
    BY DEF ListsExactly
  <2>2. n \in FreeBlks(h) => n \in List(h) /\ n # new
    BY <1>4 DEF FreeBlks
  <2> QED
    BY <1>3, <1>5, <2>1, <2>2
<1>7. Lonely(m, new)
  <2> SUFFICES ASSUME NEW c \in FreeBlks(m), c # new, m.next[c] # new
               PROVE  m.alloc[m.next[c]] # 0
    BY DEF Lonely
  <2>1. c \in FreeBlks(h) /\ c \in h.live /\ c \in List(h) /\ c # b
    BY <1>3, <1>4, <1>5 DEF FreeBlks
  <2>2. m.next[c] = h.next[c] /\ h.next[c] \in List(h)
    BY <1>3, <2>1 DEF Gap, Linked
  <2> QED
    BY <1>3, <2>1, <2>2
<1>8. Others(h, m, new)
  BY <1>3, <1>4 DEF Others
<1>9. new \in m.live
  BY <1>3
<1>10. Without(h, Coalesce(m, new), brk, new)
  BY <1>3, <1>6, <1>7, <1>8, <1>9, CoalesceWithout
<1> QED
  BY <1>10 DEF m

(* shrink_blk (pc_mm.c:271).                                               *)
LEMMA ShrinkEffect ==
  ASSUME NEW h, NEW brk \in Nat, Shape(h, brk), Settled(h),
         NEW b \in h.live, h.alloc[b] = 1,
         NEW asize \in Nat \ {0}, asize < h.size[b], NEW new \in Node \ h.live
  PROVE  Resized(h, ShrinkBlk(h, b, asize, new), brk, b, asize)
<1> DEFINE z == [h EXCEPT !.size[b] = asize]
           p == h.ptr[b] + asize
           s == h.size[b] - asize
           g == Coalesce(Link(z, b, new, p, s), new)
<1>1. /\ h.size[b] \in Nat /\ h.ptr[b] \in Nat /\ p \in Nat /\ s \in Nat \ {0}
      /\ h.size \in [Elt -> Nat] /\ b \in Elt /\ b # new /\ b # Start
      /\ List(h) \subseteq Elt /\ Start \in List(h) /\ \A n \in h.live : n \in List(h)
  <2>1. /\ h.ptr \in [Elt -> Nat] /\ h.size \in [Elt -> Nat] /\ b \in Elt
        /\ b # new /\ b # Start
        /\ List(h) \subseteq Elt /\ Start \in List(h)
        /\ \A n \in h.live : n \in List(h)
    BY ShapeTypes DEF Elt
  <2>2. h.size[b] \in Nat /\ h.ptr[b] \in Nat
    BY <2>1
  <2>3. p \in Nat /\ s \in Nat \ {0}
    BY <2>2
  <2> QED
    BY <2>1, <2>2, <2>3
<1>2. SizedTo(h, z, b, asize) /\ Gap(z, brk, b, p, s)
  BY CutGap
<1>3. ShrinkBlk(h, b, asize, new) = g
  BY DEF ShrinkBlk
<1> HIDE DEF z, p, s
<1>4. /\ z.live = h.live /\ z.next = h.next /\ z.ptr = h.ptr /\ z.class = h.class
      /\ z.size = [h.size EXCEPT ![b] = asize] /\ z.alloc = h.alloc
  BY <1>2 DEF SizedTo
<1>5. /\ List(z) = List(h) /\ FreeBlks(z) = FreeBlks(h) /\ z.size[b] = asize
      /\ \A n \in List(h) : n # b => z.size[n] = h.size[n]
  BY <1>1, <1>4 DEF List, FreeBlks
<1>6. ListsExactly(z, FreeBlks(z))
  <2> SUFFICES ASSUME NEW n \in Node, NEW i \in Class
               PROVE  In(z.class[i], n) <=> n \in FreeBlks(z) /\ ClassIndex(z.size[n]) = i
    BY DEF ListsExactly
  <2>1. In(h.class[i], n) <=> n \in FreeBlks(h) /\ ClassIndex(h.size[n]) = i
    BY DEF Settled, ListsExactly
  <2>2. n \in FreeBlks(h) => n \in List(h) /\ n # b
    BY <1>1 DEF FreeBlks
  <2> QED
    BY <1>4, <1>5, <2>1, <2>2
<1>7. \A c \in FreeBlks(z) : c # b => z.alloc[z.next[c]] = 1
  BY <1>4, <1>5 DEF Settled
<1>8. b \in List(z) /\ new \in Node \ z.live
  BY <1>1, <1>4, <1>5
<1>9. Without(z, g, brk, new)
  BY <1>1, <1>2, <1>6, <1>7, <1>8, LinkCoalesce
<1> HIDE DEF g
<1>10. Others(h, g, b)
  BY <1>1, <1>4, <1>5, <1>9 DEF Without, Others
<1>11. b \in g.live /\ g.alloc[b] = 1 /\ g.ptr[b] = h.ptr[b] /\ g.size[b] = asize
  BY <1>1, <1>4, <1>5, <1>9 DEF Without, Others
<1>12. Resized(h, g, brk, b, asize)
  BY <1>9, <1>10, <1>11 DEF Resized, Without
<1> QED
  BY <1>3, <1>12

(* The tail of an sbrk request (pc_mm.c:343): the free block at the break. *)
LEMMA SbrkEffect ==
  ASSUME NEW h, NEW brk \in Nat, Shape(h, brk), Settled(h), h.ptr[Start] <= brk,
         NEW incr \in Nat \ {0}, NEW new \in Node \ h.live
  PROVE  LET last == h.prev[Start] IN
         Without(h, Coalesce(Link(h, last, new, h.ptr[last] + h.size[last], incr), new),
                 brk + incr, new)
<1> DEFINE last == h.prev[Start]
           p == h.ptr[last] + h.size[last]
<1>1. last \in List(h) /\ h.next[last] = Start
  BY ShapeTypes DEF Shape, Linked
<1>2. /\ h.ptr \in [Elt -> Nat] /\ h.size \in [Elt -> Nat] /\ List(h) \subseteq Elt
      /\ Start \in Elt /\ \A n \in h.live : n \in List(h) /\ n \in Elt
  BY ShapeTypes DEF Elt
<1> HIDE DEF last
<1>3. p = brk
  BY <1>1 DEF Shape, Tiled
<1>4. \A n \in List(h) : n # last =>
        h.next[n] # Start /\ h.ptr[n] + h.size[n] = h.ptr[h.next[n]]
  <2> SUFFICES ASSUME NEW n \in List(h), n # last
               PROVE  h.next[n] # Start /\ h.ptr[n] + h.size[n] = h.ptr[h.next[n]]
    OBVIOUS
  <2>1. h.next[n] # Start
    BY DEF Shape, Linked, last
  <2> QED
    BY <2>1 DEF Shape, Tiled
<1>5. Within(h, brk + incr) /\ \A n \in h.live : h.ptr[n] + h.size[n] <= p
  <2> SUFFICES ASSUME NEW n \in h.live
               PROVE  /\ h.ptr[Start] <= h.ptr[n] /\ h.ptr[n] + h.size[n] <= brk + incr
                      /\ h.ptr[n] + h.size[n] <= p
    BY DEF Within
  <2>1. h.ptr[Start] <= h.ptr[n] /\ h.ptr[n] + h.size[n] <= brk
    BY DEF Shape, Within
  <2>2. h.ptr[n] \in Nat /\ h.size[n] \in Nat
    BY <1>2
  <2> QED
    BY <1>3, <2>1, <2>2
<1>6. Gap(h, brk + incr, last, p, incr)
  <2> HIDE DEF p
  <2>1. h.ptr[last] + h.size[last] = p /\ p + incr = brk + incr
    BY <1>3 DEF p
  <2>2. h.ptr[Start] <= p /\ p + incr <= brk + incr
    BY <1>3
  <2> QED
    BY <1>1, <1>4, <1>5, <2>1, <2>2 DEF Gap, Shape
<1>7. /\ ListsExactly(h, FreeBlks(h))
      /\ \A c \in FreeBlks(h) : c # last => h.alloc[h.next[c]] = 1
  BY DEF Settled
<1>8. p \in Nat /\ brk + incr \in Nat
  BY <1>3
<1> HIDE DEF p
<1>9. Without(h, Coalesce(Link(h, last, new, p, incr), new), brk + incr, new)
  BY <1>1, <1>6, <1>7, <1>8, LinkCoalesce
<1> QED
  BY <1>9 DEF p, last
(* mm_free of an allocated block (pc_mm.c:425).                            *)
LEMMA FreeEffect ==
  ASSUME NEW h, NEW brk \in Nat, Shape(h, brk), Settled(h),
         NEW b \in h.live, h.alloc[b] = 1
  PROVE  LET f == [h EXCEPT !.alloc[b] = 0] IN
         Without(h, Coalesce(FreeBlkAdd(f, b), b), brk, b)
<1> DEFINE f == [h EXCEPT !.alloc[b] = 0]
           m == FreeBlkAdd(f, b)
<1>1. /\ h \in HeapType /\ h.live \subseteq Node /\ h.alloc \in [Elt -> {0, 1}]
      /\ h.status = "serving" /\ b \in Node /\ b \in Elt /\ b # Start /\ NoDup(h)
      /\ h.alloc[Start] = 1 /\ Start \in List(h) /\ Start \in Elt /\ List(h) \subseteq Elt
      /\ \A n \in h.live : n \in List(h)
  BY ShapeTypes DEF Shape, Elt
<1>2. /\ f \in HeapType /\ f.live = h.live /\ f.next = h.next /\ f.prev = h.prev
      /\ f.ptr = h.ptr /\ f.size = h.size /\ f.class = h.class /\ f.dict = h.dict
      /\ f.status = h.status /\ f.alloc = [h.alloc EXCEPT ![b] = 0]
  <2>1. [h.alloc EXCEPT ![b] = 0] \in [Elt -> {0, 1}]
    BY <1>1
  <2> QED
    BY <1>1, <2>1 DEF HeapType
<1>3. \A n \in Node, i \in Class :
        In(h.class[i], n) <=> n \in FreeBlks(h) /\ ClassIndex(h.size[n]) = i
  BY DEF Settled, ListsExactly
<1> HIDE DEF f
<1>4. /\ f.alloc[b] = 0 /\ f.alloc[Start] = 1
      /\ \A n \in List(h) : n # b => f.alloc[n] = h.alloc[n]
  BY <1>1, <1>2
<1>5. NoDup(f) /\ ~ Listed(f, b)
  BY <1>1, <1>2, <1>3 DEF NoDup, Listed, FreeBlks
<1>6. /\ m = [f EXCEPT !.class = m.class]
      /\ m.class \in [Class -> Seq(Node)]
      /\ NoDup(m)
      /\ \A n \in Node, i \in Class :
           In(m.class[i], n) <=>
             In(f.class[i], n) \/ (n = b /\ i = ClassIndex(f.size[b]))
  BY <1>1, <1>2, <1>4, <1>5, AddEffect DEF m
<1> HIDE DEF m
<1>7. /\ m \in HeapType /\ m.live = h.live /\ m.next = h.next /\ m.prev = h.prev
      /\ m.ptr = h.ptr /\ m.size = h.size /\ m.dict = h.dict
      /\ m.status = h.status /\ m.alloc = f.alloc
  <2> DEFINE cl == m.class
  <2>1. m = [f EXCEPT !.class = cl] /\ cl \in [Class -> Seq(Node)]
    BY <1>6
  <2> HIDE DEF cl
  <2> QED
    BY <1>2, <2>1 DEF HeapType
<1>8. Shape(m, brk)
  BY <1>4, <1>6, <1>7, SameShape
<1>9. FreeBlks(m) = FreeBlks(h) \cup {b}
  BY <1>1, <1>4, <1>7 DEF FreeBlks
<1>10. ListsExactly(m, FreeBlks(m))
  BY <1>2, <1>3, <1>6, <1>7, <1>9 DEF ListsExactly
<1>11. Lonely(m, b)
  <2> SUFFICES ASSUME NEW c \in FreeBlks(m), c # b, h.next[c] # b
               PROVE  m.alloc[h.next[c]] # 0
    BY <1>7 DEF Lonely
  <2>1. c \in FreeBlks(h) /\ h.alloc[h.next[c]] = 1
    BY <1>9 DEF Settled
  <2>2. h.next[c] \in List(h)
    BY <2>1, Neighbours DEF FreeBlks
  <2> QED
    BY <1>4, <1>7, <2>1, <2>2
<1>12. Others(h, m, b)
  BY <1>1, <1>4, <1>7 DEF Others
<1>13. Without(h, Coalesce(m, b), brk, b)
  BY <1>4, <1>7, <1>8, <1>10, <1>11, <1>12, CoalesceWithout
<1> QED
  BY <1>13 DEF m, f

(* extend_blk (pc_mm.c:303) when something is left of the block behind.    *)
Rekeyed(h, g, b, n, p, s, asize) ==
  /\ g \in HeapType /\ NoDup(g)
  /\ g.live = h.live /\ g.next = h.next /\ g.prev = h.prev
  /\ g.alloc = h.alloc /\ g.class = h.class /\ g.status = h.status
  /\ g.ptr = [h.ptr EXCEPT ![n] = p]
  /\ g.size = [h.size EXCEPT ![n] = s, ![b] = asize]
  /\ g.dict = {e \in h.dict : e[1] # h.ptr[n]} \cup {<<p, n>>}

LEMMA RekeyedShape ==
  ASSUME NEW h, NEW brk \in Nat, Shape(h, brk),
         NEW b \in h.live, NEW n \in h.live, n = h.next[b],
         NEW asize \in Nat \ {0}, NEW p, NEW s, NEW g,
         p = h.ptr[b] + asize, s = h.size[b] + h.size[n] - asize,
         asize < h.size[b] + h.size[n],
         Rekeyed(h, g, b, n, p, s, asize)
  PROVE  Shape(g, brk)
<1>1. /\ h \in HeapType /\ h.alloc[Start] = 1 /\ h.size[Start] = 0
      /\ h.ptr \in [Elt -> Nat] /\ h.size \in [Elt -> Nat]
      /\ h.live \subseteq Node /\ Start \notin h.live /\ Start \in List(h)
      /\ List(h) \subseteq Elt
      /\ \A c \in h.live : c \in List(h)
  BY ShapeTypes DEF Shape, Sized
<1>2. \A c \in h.live : h.ptr[c] \in Nat /\ h.size[c] \in Nat /\ h.size[c] > 0
  BY <1>1, ShapeTypes
<1>3. n # b /\ n # Start /\ b # Start /\ h.ptr[b] + h.size[b] = h.ptr[n]
  <2>1. h.ptr[b] + h.size[b] = h.ptr[n]
    BY <1>1 DEF Shape, Tiled
  <2> QED
    BY <1>1, <2>1, Neighbours
<1>4. p \in Nat /\ s \in Nat /\ s > 0 /\ p + s = h.ptr[n] + h.size[n]
  BY <1>2, <1>3
<1>5. /\ g \in HeapType /\ NoDup(g) /\ g.live = h.live /\ g.next = h.next
      /\ g.prev = h.prev /\ g.alloc = h.alloc /\ g.status = "serving"
      /\ g.dict = {e \in h.dict : e[1] # h.ptr[n]} \cup {<<p, n>>}
      /\ List(g) = List(h)
  BY DEF Rekeyed, List, Shape
<1>6. /\ g.ptr[n] = p /\ g.size[n] = s /\ g.ptr[b] = h.ptr[b] /\ g.size[b] = asize
      /\ \A c \in List(h) : c # n => g.ptr[c] = h.ptr[c]
      /\ \A c \in List(h) : c # n /\ c # b => g.size[c] = h.size[c]
  <2>1. n \in Elt /\ b \in Elt
    BY <1>1
  <2>2. /\ g.ptr = [h.ptr EXCEPT ![n] = p]
        /\ g.size = [h.size EXCEPT ![n] = s, ![b] = asize]
    BY DEF Rekeyed
  <2>3. g.ptr[n] = p /\ g.ptr[b] = h.ptr[b] /\ \A c \in List(h) : c # n => g.ptr[c] = h.ptr[c]
    BY <1>1, <1>3, <2>1, <2>2
  <2>4. g.size[n] = s /\ g.size[b] = asize
    BY <1>1, <1>3, <2>1, <2>2
  <2>5. \A c \in List(h) : c # n /\ c # b => g.size[c] = h.size[c]
    BY <1>1, <2>1, <2>2
  <2> QED
    BY <2>3, <2>4, <2>5
<1>7. Typed(g) /\ Linked(g)
  BY <1>1, <1>5 DEF Shape, Typed, Linked
<1>8. Sized(g)
  BY <1>1, <1>2, <1>3, <1>4, <1>5, <1>6 DEF Sized
<1>9. Tiled(g, brk)
  <2> SUFFICES ASSUME NEW c \in List(h)
               PROVE  g.ptr[c] + g.size[c] =
                        IF h.next[c] = Start THEN brk ELSE g.ptr[h.next[c]]
    BY <1>5 DEF Tiled
  <2>1. h.ptr[c] + h.size[c] = IF h.next[c] = Start THEN brk ELSE h.ptr[h.next[c]]
    BY DEF Shape, Tiled
  <2>2. h.next[c] \in List(h) /\ (h.next[c] = n => c = b) /\ h.next[n] # n
    BY <1>1, Neighbours DEF Shape, Linked
  <2>3. CASE c = b
    BY <1>3, <1>6, <2>3
  <2>4. CASE c = n
    BY <1>4, <1>6, <2>1, <2>2, <2>4
  <2>5. CASE c # b /\ c # n
    BY <1>6, <2>1, <2>2, <2>5
  <2> QED
    BY <2>3, <2>4, <2>5
<1>10. \A c, d \in h.live : c # d => \/ h.ptr[c] + h.size[c] <= h.ptr[d]
                                   \/ h.ptr[d] + h.size[d] <= h.ptr[c]
  BY DEF Shape, Apart
<1>11. ASSUME NEW c \in h.live, c # n, c # b
       PROVE  \/ h.ptr[c] + h.size[c] <= h.ptr[b]
              \/ h.ptr[n] + h.size[n] <= h.ptr[c]
  <2>1. /\ h.ptr[c] + h.size[c] <= h.ptr[b] \/ h.ptr[b] + h.size[b] <= h.ptr[c]
        /\ h.ptr[c] + h.size[c] <= h.ptr[n] \/ h.ptr[n] + h.size[n] <= h.ptr[c]
    BY <1>10, <1>11
  <2>2. /\ h.ptr[c] \in Nat /\ h.size[c] \in Nat /\ h.size[c] > 0
        /\ h.ptr[b] \in Nat /\ h.ptr[n] \in Nat /\ h.size[b] \in Nat
    BY <1>2
  <2> QED
    BY <1>3, <2>1, <2>2
<1>12. Apart(g)
  <2> SUFFICES ASSUME NEW c \in h.live, NEW d \in h.live, c # d
               PROVE  \/ g.ptr[c] + g.size[c] <= g.ptr[d]
                      \/ g.ptr[d] + g.size[d] <= g.ptr[c]
    BY <1>5 DEF Apart
  <2>1. /\ c # n /\ c # b =>
             /\ g.ptr[c] = h.ptr[c] /\ g.size[c] = h.size[c]
             /\ \/ h.ptr[c] + h.size[c] <= h.ptr[b]
                \/ h.ptr[n] + h.size[n] <= h.ptr[c]
        /\ d # n /\ d # b =>
             /\ g.ptr[d] = h.ptr[d] /\ g.size[d] = h.size[d]
             /\ \/ h.ptr[d] + h.size[d] <= h.ptr[b]
                \/ h.ptr[n] + h.size[n] <= h.ptr[d]
    BY <1>1, <1>6, <1>11
  <2>2. /\ h.ptr[c] \in Nat /\ h.size[c] \in Nat /\ h.ptr[d] \in Nat /\ h.size[d] \in Nat
        /\ h.ptr[b] \in Nat /\ h.size[b] \in Nat /\ h.ptr[n] \in Nat /\ h.size[n] \in Nat
    BY <1>2
  <2>3. h.ptr[b] <= p /\ p <= h.ptr[n] + h.size[n] /\ h.ptr[b] + asize = p
    BY <1>4, <2>2
  <2>4. CASE c = n
    <3>1. g.ptr[c] = p /\ g.size[c] = s
      BY <1>6, <2>4
    <3>2. CASE d = b
      BY <1>6, <2>2, <2>3, <3>1, <3>2
    <3>3. CASE d # b
      BY <1>4, <2>1, <2>2, <2>3, <2>4, <3>1, <3>3
    <3> QED
      BY <3>2, <3>3
  <2>5. CASE c = b
    <3>1. g.ptr[c] = h.ptr[b] /\ g.size[c] = asize
      BY <1>6, <2>5
    <3>2. CASE d = n
      BY <1>6, <2>2, <2>3, <3>1, <3>2
    <3>3. CASE d # n
      BY <1>4, <2>1, <2>2, <2>3, <2>5, <3>1, <3>3
    <3> QED
      BY <3>2, <3>3
  <2>6. CASE c # n /\ c # b
    <3>1. CASE d = n
      BY <1>4, <1>6, <2>1, <2>2, <2>3, <2>6, <3>1
    <3>2. CASE d = b
      BY <1>4, <1>6, <2>1, <2>2, <2>3, <2>6, <3>2
    <3>3. CASE d # n /\ d # b
      BY <1>10, <2>1, <2>6, <3>3
    <3> QED
      BY <3>1, <3>2, <3>3
  <2> QED
    BY <2>4, <2>5, <2>6
<1>13. Within(g, brk)
  <2> SUFFICES ASSUME NEW c \in h.live
               PROVE  h.ptr[Start] <= g.ptr[c] /\ g.ptr[c] + g.size[c] <= brk
    BY <1>1, <1>3, <1>5, <1>6 DEF Within
  <2>1. \A x \in h.live : h.ptr[Start] <= h.ptr[x] /\ h.ptr[x] + h.size[x] <= brk
    BY DEF Shape, Within
  <2>2. /\ h.ptr[b] \in Nat /\ h.size[b] \in Nat /\ h.ptr[n] \in Nat /\ h.size[n] \in Nat
        /\ h.ptr[Start] \in Nat
    BY <1>1, <1>2
  <2>3. h.ptr[Start] <= h.ptr[b] /\ h.ptr[n] + h.size[n] <= brk
    BY <2>1
  <2>4. CASE c = n
    BY <1>4, <1>6, <2>2, <2>3, <2>4
  <2>5. CASE c = b
    BY <1>4, <1>6, <2>2, <2>3, <2>5
  <2>6. CASE c # n /\ c # b
    BY <1>1, <1>6, <2>1, <2>6
  <2> QED
    BY <2>4, <2>5, <2>6
<1>14. Keyed(g)
  <2>1. h.dict = {<<h.ptr[c], c>> : c \in h.live}
    BY DEF Shape, Keyed
  <2>2. \A c \in h.live : c # n => h.ptr[c] # h.ptr[n]
    <3> SUFFICES ASSUME NEW c \in h.live, c # n, h.ptr[c] = h.ptr[n] PROVE FALSE
      OBVIOUS
    <3>1. /\ \/ h.ptr[c] + h.size[c] <= h.ptr[n]
             \/ h.ptr[n] + h.size[n] <= h.ptr[c]
          /\ h.ptr[n] \in Nat /\ h.size[n] \in Nat /\ h.size[n] > 0
          /\ h.size[c] \in Nat /\ h.size[c] > 0
      BY <1>2, <1>10
    <3> QED
      BY <3>1
  <2>3. g.dict = {<<h.ptr[c], c>> : c \in h.live \ {n}} \cup {<<p, n>>}
    BY <1>5, <2>1, <2>2
  <2>4. \A c \in h.live : c # n => g.ptr[c] = h.ptr[c]
    BY <1>1, <1>6
  <2> QED
    BY <1>5, <1>6, <2>3, <2>4 DEF Keyed
<1> QED
  BY <1>5, <1>7, <1>8, <1>9, <1>12, <1>13, <1>14 DEF Shape
(* extend_blk: the block behind gives up bytes, or is absorbed whole.      *)
LEMMA ExtendEffect ==
  ASSUME NEW h, NEW brk \in Nat, Shape(h, brk), Settled(h),
         NEW b \in h.live, h.alloc[b] = 1, h.alloc[h.next[b]] = 0,
         NEW asize \in Nat \ {0}, h.size[h.next[b]] + h.size[b] >= asize
  PROVE  Resized(h, ExtendBlk(h, b, asize), brk, b, asize)
<1> DEFINE n == h.next[b]
           total == h.size[b] + h.size[n]
           p == h.ptr[b] + asize
           s == total - asize
           nptr == [h.ptr EXCEPT ![n] = p]
           nsize == [h.size EXCEPT ![n] = s, ![b] = asize]
           d == DictDelete(h, h.ptr[n])
           m == DictInsert([d EXCEPT !.ptr = nptr, !.size = nsize], p, n)
           g == ExtendBlk(h, b, asize)
<1>1. /\ h \in HeapType /\ h.alloc[Start] = 1 /\ NoDup(h) /\ h.live \subseteq Node
      /\ h.ptr \in [Elt -> Nat] /\ h.size \in [Elt -> Nat] /\ h.alloc \in [Elt -> {0, 1}]
      /\ Start \notin h.live /\ Start \in List(h) /\ List(h) \subseteq Elt
      /\ \A c \in h.live : c \in List(h) /\ c \in Elt
      /\ \A c \in h.live : ClassIndex(h.size[c]) \in Class
  BY ShapeTypes
<1>2. n \in h.live /\ n # b /\ n \in FreeBlks(h)
  BY <1>1, Neighbours, ShapeTypes DEF FreeBlks
<1>3. /\ h.ptr[b] \in Nat /\ h.size[b] \in Nat /\ h.size[n] \in Nat
      /\ h.ptr[n] \in Nat /\ total \in Nat /\ total >= asize /\ p \in Nat /\ s \in Nat
  <2>1. h.ptr[b] \in Nat /\ h.size[b] \in Nat /\ h.size[n] \in Nat /\ h.ptr[n] \in Nat
    BY <1>1, <1>2
  <2> QED
    BY <2>1
<1>4. \A x \in Node, i \in Class :
        In(h.class[i], x) <=> x \in FreeBlks(h) /\ ClassIndex(h.size[x]) = i
  BY DEF Settled, ListsExactly
<1>5. \A c \in FreeBlks(h) : /\ c \in h.live /\ c \in List(h) /\ c # b /\ c \in Node
                            /\ h.alloc[c] = 0 /\ h.alloc[h.next[c]] = 1
                            /\ h.next[c] \in List(h) /\ h.next[c] # n
  <2> SUFFICES ASSUME NEW c \in FreeBlks(h)
               PROVE  /\ c \in h.live /\ c \in List(h) /\ c # b /\ c \in Node
                      /\ h.alloc[c] = 0 /\ h.alloc[h.next[c]] = 1
                      /\ h.next[c] \in List(h) /\ h.next[c] # n
    OBVIOUS
  <2>1. c \in h.live /\ h.alloc[c] = 0 /\ h.alloc[h.next[c]] = 1 /\ h.alloc[n] = 0
    BY DEF FreeBlks, Settled
  <2>2. h.next[c] \in List(h)
    BY <2>1, Neighbours
  <2> QED
    BY <1>1, <2>1, <2>2
<1> HIDE DEF n
<1>6. CASE total > asize
  <2> DEFINE old == ClassIndex(h.size[n])
  <2>1. g = Reclass(m, n, old)
    BY <1>6 DEF ExtendBlk, n
  <2>2. Rekeyed(h, m, b, n, p, s, asize)
    <3>1. nptr \in [Elt -> Nat] /\ nsize \in [Elt -> Nat]
      BY <1>1, <1>2, <1>3
    <3> HIDE DEF nptr, nsize, p, s
    <3>2. /\ d \in HeapType /\ d.live = h.live /\ d.next = h.next /\ d.prev = h.prev
          /\ d.alloc = h.alloc /\ d.class = h.class /\ d.status = h.status
          /\ d.dict = {e \in h.dict : e[1] # h.ptr[n]}
      BY <1>1 DEF DictDelete, HeapType
    <3> HIDE DEF d
    <3> DEFINE k == [d EXCEPT !.ptr = nptr, !.size = nsize]
    <3>3. /\ k \in HeapType /\ k.live = d.live /\ k.next = d.next /\ k.prev = d.prev
          /\ k.alloc = d.alloc /\ k.class = d.class /\ k.status = d.status
          /\ k.dict = d.dict /\ k.ptr = nptr /\ k.size = nsize
      BY <3>1, <3>2 DEF HeapType
    <3>4. m = DictInsert(k, p, n)
      OBVIOUS
    <3> HIDE DEF k, m
    <3>5. n \in Node /\ p \in Nat
      BY <1>1, <1>2, <1>3
    <3>6. /\ m \in HeapType /\ m.live = k.live /\ m.next = k.next /\ m.prev = k.prev
          /\ m.alloc = k.alloc /\ m.class = k.class /\ m.status = k.status
          /\ m.dict = k.dict \cup {<<p, n>>} /\ m.ptr = k.ptr /\ m.size = k.size
      <4>1. k.dict \cup {<<p, n>>} \in SUBSET (Nat \X Node)
        BY <3>3, <3>5 DEF HeapType
      <4> QED
        BY <3>3, <3>4, <4>1 DEF DictInsert, HeapType
    <3>7. NoDup(m)
      BY <1>1, <3>2, <3>3, <3>6 DEF NoDup
    <3> QED
      BY <3>2, <3>3, <3>6, <3>7 DEF Rekeyed, nptr, nsize
  <2> HIDE DEF m, d
  <2>3. Shape(m, brk)
    <3>1. asize < h.size[b] + h.size[n] /\ s = h.size[b] + h.size[n] - asize
      BY <1>3, <1>6
    <3>2. n = h.next[b]
      BY DEF n
    <3> HIDE DEF s
    <3> QED
      BY <1>2, <2>2, <3>1, <3>2, RekeyedShape
  <2> HIDE DEF total, s, p
  <2>4. /\ m.live = h.live /\ m.next = h.next /\ m.alloc = h.alloc /\ m.class = h.class
        /\ m.size[n] = s /\ m.ptr[b] = h.ptr[b] /\ m.size[b] = asize
        /\ \A c \in List(h) : c # n => m.ptr[c] = h.ptr[c]
        /\ \A c \in List(h) : c # n /\ c # b => m.size[c] = h.size[c]
    <3>1. b \in Elt /\ n \in Elt
      BY <1>1, <1>2
    <3> QED
      BY <1>1, <1>2, <2>2, <3>1 DEF Rekeyed
  <2>5. n \in m.live /\ m.alloc[n] = 0 /\ old \in Class
    BY <1>1, <1>2, <2>4 DEF FreeBlks
  <2>6. \A i \in Class : In(m.class[i], n) <=> i = old
    BY <1>1, <1>2, <1>4, <2>4
  <2> HIDE DEF old, g
  <2>7. /\ Shape(g, brk)
        /\ g.live = h.live /\ g.next = h.next
        /\ g.ptr = m.ptr /\ g.size = m.size /\ g.alloc = h.alloc
        /\ \A x \in Node, i \in Class :
             In(g.class[i], x) <=>
               IF x = n THEN i = ClassIndex(s) ELSE In(h.class[i], x)
    BY <2>1, <2>3, <2>4, <2>5, <2>6, ReclassEffect
  <2>8. FreeBlks(g) = FreeBlks(h)
    BY <2>7 DEF FreeBlks
  <2>9. ListsExactly(g, FreeBlks(g))
    <3> SUFFICES ASSUME NEW x \in Node, NEW i \in Class
                 PROVE  In(g.class[i], x) <=> x \in FreeBlks(h) /\ ClassIndex(g.size[x]) = i
      BY <2>8 DEF ListsExactly
    <3>1. CASE x = n
      BY <1>2, <2>4, <2>7, <3>1
    <3>2. CASE x # n
      BY <1>4, <1>5, <2>4, <2>7, <3>2
    <3> QED
      BY <3>1, <3>2
  <2>10. Settled(g)
    BY <1>5, <2>7, <2>8, <2>9 DEF Settled
  <2>11. Others(h, g, b)
    <3>1. h.alloc[n] = 0 /\ n # Start
      BY <1>1, <1>2 DEF FreeBlks
    <3> QED
      BY <1>1, <2>4, <2>7, <3>1 DEF Others
  <2> QED
    BY <1>1, <2>4, <2>7, <2>10, <2>11 DEF Resized, g
<1>7. CASE total = asize
  <2>1. g = MergeNext(h, b)
    BY <1>3, <1>7 DEF ExtendBlk, n
  <2> HIDE DEF g
  <2>2. Listed(h, n)
    BY <1>1, <1>2, <1>4 DEF Listed
  <2>3. h.next[b] = n /\ n # Start
    BY <1>1, <1>2 DEF n
  <2>4. /\ Shape(g, brk) /\ g.live = h.live \ {n} /\ g.ptr[Start] = h.ptr[Start]
        /\ \A c \in List(g) :
             /\ g.ptr[c] = h.ptr[c] /\ g.alloc[c] = h.alloc[c]
             /\ g.size[c] = IF c = b THEN h.size[b] + h.size[n] ELSE h.size[c]
             /\ g.next[c] = IF c = b THEN h.next[n] ELSE h.next[c]
        /\ \A x \in Node, i \in Class :
             In(g.class[i], x) <=> In(h.class[i], x) /\ x # n
    BY <2>1, <2>2, <2>3, MergeNextShape
  <2>5. \A c \in List(h) : c # n => c \in List(g)
    BY <2>4 DEF List
  <2>6. FreeBlks(g) = FreeBlks(h) \ {n}
    BY <1>1, <2>4, <2>5 DEF FreeBlks
  <2>7. ListsExactly(g, FreeBlks(g))
    BY <1>4, <1>5, <2>4, <2>5, <2>6 DEF ListsExactly
  <2>8. \A c \in FreeBlks(g) : g.alloc[g.next[c]] = 1
    BY <1>5, <2>4, <2>5, <2>6
  <2>9. Others(h, g, b)
    <3>1. h.alloc[n] = 0
      BY <1>2 DEF FreeBlks
    <3> QED
      BY <1>1, <2>4, <2>5, <3>1 DEF Others
  <2> QED
    BY <1>1, <1>2, <1>7, <2>4, <2>5, <2>7, <2>8, <2>9 DEF Resized, Settled, g
<1> QED
  BY <1>3, <1>6, <1>7
-----------------------------------------------------------------------------
(* The sizes and blocks the handlers work with.                            *)

LEMMA AsizePositive ==
  ASSUME NEW size \in Nat
  PROVE  /\ MallocAsize(size) \in Nat \ {0}
         /\ size # 0 => ReallocAsize(size) \in Nat \ {0}
<1>1. ASSUME NEW x \in Nat, x >= DSIZE
      PROVE  DSIZE * (x \div DSIZE) \in Nat \ {0}
  <2> DEFINE k == x \div DSIZE
  <2>1. DSIZE \in Nat /\ DSIZE > 0
    BY SizeAssumption
  <2>2. k \in Nat /\ k >= 1
    BY <1>1, <2>1
  <2> HIDE DEF k
  <2>3. DSIZE * k >= DSIZE * 1
    BY <2>1, <2>2
  <2>4. DSIZE * k \in Nat \ {0}
    BY <2>1, <2>2, <2>3
  <2> QED
    BY <2>4 DEF k
<1>2. DSIZE \in Nat \ {0}
  BY SizeAssumption
<1>3. MallocAsize(size) \in Nat \ {0}
  <2>1. size + DSIZE + (DSIZE - 1) \in Nat /\ size + DSIZE + (DSIZE - 1) >= DSIZE
    BY <1>2
  <2>2. DSIZE * ((size + DSIZE + (DSIZE - 1)) \div DSIZE) \in Nat \ {0}
    BY <1>1, <2>1
  <2> QED
    BY <1>2, <2>2 DEF MallocAsize
<1>4. ASSUME size # 0 PROVE ReallocAsize(size) \in Nat \ {0}
  <2>1. size + (DSIZE - 1) \in Nat /\ size + (DSIZE - 1) >= DSIZE
    BY <1>2, <1>4
  <2>2. DSIZE * ((size + (DSIZE - 1)) \div DSIZE) \in Nat \ {0}
    BY <1>1, <2>1
  <2> QED
    BY <1>2, <2>2 DEF ReallocAsize
<1> QED
  BY <1>3, <1>4

(* Whatever the policy, the block found is free and large enough.          *)
LEMMA FindFitEffect ==
  ASSUME NEW h, ListsExactly(h, FreeBlks(h)), h.live \subseteq Node, NEW asize \in Nat,
         NEW b \in FindFit(h, asize)
  PROVE  b \in h.live /\ h.alloc[b] = 0 /\ h.size[b] >= asize
<1>1. CASE SEARCH_OPT = "FIRST_FIT"
  <2>1. b \in FirstFit(h, asize)
    BY <1>1 DEF FindFit
  <2> QED
    BY <2>1 DEF FirstFit, Fits
<1>2. CASE SEARCH_OPT = "BEST_FIT"
  <2>1. b \in BestFit(h, asize)
    BY <1>2 DEF FindFit
  <2> QED
    BY <2>1 DEF BestFit, Fits
<1>3. CASE SEARCH_OPT = "SEG_FIT"
  <2>1. b \in SegFit(h, asize)
    BY <1>3 DEF FindFit
  <2>2. b \in h.live /\ h.size[b] >= asize /\ \E i \in Class : In(h.class[i], b)
    BY <2>1 DEF SegFit, In
  <2>3. b \in FreeBlks(h)
    BY <2>2 DEF ListsExactly
  <2> QED
    BY <2>2, <2>3 DEF FreeBlks
<1> QED
  BY <1>1, <1>2, <1>3, PolicyAssumption

(* An empty heap is well formed.                                           *)
LEMMA EmptyHeapShape ==
  ASSUME NEW p \in Nat
  PROVE  /\ Shape(EmptyHeap(p), p) /\ Settled(EmptyHeap(p))
         /\ EmptyHeap(p).ptr[Start] = p /\ EmptyHeap(p).live = {}
         /\ EmptyHeap(p).dict = {}
         /\ \A i \in Class : EmptyHeap(p).class[i] = << >>
<1> DEFINE g == EmptyHeap(p)
<1>1. /\ g \in HeapType /\ g.live = {} /\ g.dict = {} /\ g.status = "serving"
      /\ g.next = [e \in Elt |-> Start] /\ g.prev = [e \in Elt |-> Start]
      /\ g.size = [e \in Elt |-> 0]
      /\ g.ptr = [e \in Elt |-> IF e = Start THEN p ELSE 0]
      /\ g.alloc = [e \in Elt |-> IF e = Start THEN 1 ELSE 0]
      /\ g.class = [i \in Class |-> << >>]
  BY DEF EmptyHeap, HeapType, Elt, Status
<1> HIDE DEF g
<1>2. Start \in Elt /\ List(g) = {Start}
  BY <1>1 DEF Elt, List
<1>3. /\ g.ptr[Start] = p /\ g.size[Start] = 0 /\ g.alloc[Start] = 1
      /\ g.next[Start] = Start /\ g.prev[Start] = Start
      /\ \A i \in Class : g.class[i] = << >>
  BY <1>1, <1>2
<1>4. Typed(g) /\ Linked(g) /\ Sized(g) /\ Tiled(g, p)
  BY <1>1, <1>2, <1>3 DEF Typed, Linked, Sized, Tiled
<1>5. Apart(g) /\ Within(g, p) /\ Keyed(g)
  BY <1>1 DEF Apart, Within, Keyed
<1>6. NoDup(g) /\ \A i \in Class, n \in Node : ~ In(g.class[i], n)
  BY <1>3 DEF NoDup, In
<1>7. Settled(g)
  BY <1>1, <1>6 DEF Settled, ListsExactly, FreeBlks
<1>8. Shape(g, p)
  BY <1>1, <1>4, <1>5, <1>6 DEF Shape
<1> QED
  BY <1>1, <1>3, <1>7, <1>8 DEF g
-----------------------------------------------------------------------------
(* The invariant of the server.                                            *)

(* A client of the C library: it passes pointers it was given, or NULL.    *)
LegalClient == StrayPtrs \subseteq {0}

(* Every request is well typed.                                            *)
LEMMA RequestTyped ==
  ASSUME NEW request \in {"MALLOC", "FREE", "REALLOC", "SBRK"},
         NEW size \in Nat, NEW ptr \in Nat
  PROVE  Request(request, size, ptr) \in RequestType
BY DEF Request, RequestType

LEMMA InitIInv == Init => IInv
<1> SUFFICES ASSUME Init PROVE IInv
  OBVIOUS
<1>1. Base \in Nat /\ heap = EmptyHeap(Base) /\ mem_start_brk = Base /\ mem_brk = Base
  BY BaseAssumption DEF Init
<1>2. Shape(heap, mem_brk) /\ Settled(heap) /\ heap.ptr[Start] = Base
  BY <1>1, EmptyHeapShape
<1>3. heap \in HeapType /\ heap.alloc[Start] = 1 /\ Serving
  BY <1>2 DEF Shape, Typed, Serving
<1>4. TypeOK
  BY <1>1, <1>3, RequestTyped DEF TypeOK, Init
<1> QED
  BY <1>1, <1>2, <1>3, <1>4 DEF IInv

(* Restoring shape and settlement restores the invariant.                  *)
LEMMA Restored ==
  ASSUME IInv, Serving, Shape(heap', mem_brk'), Settled(heap'),
         heap'.ptr[Start] = heap.ptr[Start], mem_brk' \in Nat, mem_brk' >= mem_brk,
         mem_start_brk' = mem_start_brk,
         req_in' \in RequestType, reply' \in Seq(Nat), Len(reply') <= 1
  PROVE  IInv'
<1>1. heap' \in HeapType /\ heap'.alloc[Start] = 1 /\ Serving'
  BY DEF Shape, Typed, Serving
<1>2. TypeOK'
  BY <1>1 DEF IInv, TypeOK
<1>3. mem_start_brk' = Base /\ heap'.ptr[Start] = Base /\ Base <= mem_brk'
  BY BaseAssumption DEF IInv, TypeOK
<1> QED
  BY <1>1, <1>2, <1>3 DEF IInv

LEMMA InvFacts ==
  ASSUME IInv, Serving
  PROVE  /\ Shape(heap, mem_brk) /\ Settled(heap) /\ ListsExactly(heap, FreeBlks(heap))
         /\ mem_brk \in Nat /\ mem_start_brk = Base /\ heap.ptr[Start] = Base
         /\ Base <= mem_brk /\ Base \in Nat \ {0}
         /\ heap.live \subseteq Node /\ Start \notin heap.live
         /\ \A b \in heap.live : heap.ptr[b] \in Nat /\ heap.ptr[b] # 0
<1>1. /\ Shape(heap, mem_brk) /\ Settled(heap) /\ mem_brk \in Nat
      /\ mem_start_brk = Base /\ heap.ptr[Start] = Base /\ Base <= mem_brk
  BY DEF IInv, TypeOK
<1>2. /\ heap.live \subseteq Node /\ heap.ptr \in [Elt -> Nat] /\ Start \notin heap.live
  BY <1>1, ShapeTypes
<1>3. \A b \in heap.live : heap.ptr[b] \in Nat /\ heap.ptr[Start] <= heap.ptr[b]
  BY <1>1, <1>2 DEF Elt, Shape, Within
<1> QED
  BY <1>1, <1>2, <1>3, BaseAssumption DEF Settled

(* A legal pointer that is found is that of an allocated block.            *)
LEMMA LegalPointer ==
  ASSUME LegalClient, IInv, Serving, NEW p \in ClientPtrs,
         NEW b \in DictSearch(heap, p)
  PROVE  b \in heap.live /\ heap.alloc[b] = 1 /\ heap.ptr[b] = p
<1>1. b \in heap.live /\ heap.ptr[b] = p
  BY InvFacts DEF DictSearch, Shape, Keyed
<1>2. p # 0
  BY <1>1, InvFacts
<1>3. PICK n \in Allocated(heap) : heap.ptr[n] = p
  BY <1>2 DEF ClientPtrs, LegalClient
<1>4. n = b
  <2> SUFFICES ASSUME n # b PROVE FALSE
    OBVIOUS
  <2>1. n \in heap.live
    BY DEF Allocated
  <2>2. \/ heap.ptr[n] + heap.size[n] <= heap.ptr[b]
        \/ heap.ptr[b] + heap.size[b] <= heap.ptr[n]
    BY <1>1, <2>1, InvFacts DEF Shape, Apart
  <2>3. /\ heap.size[n] \in Nat /\ heap.size[n] > 0
        /\ heap.size[b] \in Nat /\ heap.size[b] > 0
    BY <1>1, <2>1, InvFacts, ShapeTypes
  <2>4. p \in Nat
    BY <1>1, InvFacts
  <2> QED
    BY <1>1, <1>3, <2>2, <2>3, <2>4
<1> QED
  BY <1>1, <1>3, <1>4 DEF Allocated

(* A pointer the client passes is a number.                                *)
LEMMA ClientPtrsTyped ==
  ASSUME IInv, Serving, NEW p \in ClientPtrs
  PROVE  p \in Nat
<1>1. \A b \in heap.live : heap.ptr[b] \in Nat
  BY InvFacts
<1> QED
  BY <1>1, InputAssumption DEF ClientPtrs, Allocated

LEMMA MallocIInv ==
  ASSUME IInv, NEW size \in MallocSizes, HandleMalloc(size)
  PROVE  IInv'
<1> DEFINE asize == MallocAsize(size)
<1>1. Serving /\ mem_start_brk' = mem_start_brk /\ mem_brk' = mem_brk
  BY DEF HandleMalloc
<1>req. req_in' \in RequestType
  BY InputAssumption, RequestTyped DEF HandleMalloc
<1>2. asize \in Nat \ {0}
  BY InputAssumption, AsizePositive
<1>3. CASE \E b \in FindFit(heap, asize), new \in Node \ heap.live :
             heap' = Place(heap, b, asize, new) /\ reply' = <<heap.ptr[b]>>
  <2>1. PICK b \in FindFit(heap, asize), new \in Node \ heap.live :
          heap' = Place(heap, b, asize, new) /\ reply' = <<heap.ptr[b]>>
    BY <1>3
  <2> HIDE DEF asize
  <2>2. b \in heap.live /\ heap.alloc[b] = 0 /\ heap.size[b] >= asize
    BY <1>1, <1>2, InvFacts, FindFitEffect
  <2>3. Resized(heap, heap', mem_brk, b, asize)
    BY <1>1, <1>2, <2>1, <2>2, InvFacts, PlaceEffect
  <2>4. reply' \in Seq(Nat) /\ Len(reply') <= 1
    <3>1. heap.ptr[b] \in Nat
      BY <1>1, <2>2, InvFacts
    <3> QED
      BY <2>1, <3>1
  <2> QED
    BY <1>req, <1>1, <2>3, <2>4, InvFacts, Restored DEF Resized, Others
<1>4. CASE reply' = <<0>> /\ UNCHANGED heap
  <2>1. Shape(heap', mem_brk') /\ Settled(heap')
    BY <1>1, <1>4, InvFacts
  <2> QED
    BY <1>req, <1>1, <1>4, <2>1, InvFacts, Restored
<1> QED
  BY <1>3, <1>4 DEF HandleMalloc

LEMMA FreeIInv ==
  ASSUME LegalClient, IInv, NEW p \in ClientPtrs, HandleFree(p)
  PROVE  IInv'
<1>1. /\ Serving /\ mem_start_brk' = mem_start_brk /\ mem_brk' = mem_brk
      /\ reply' = << >>
  BY DEF HandleFree
<1>req. req_in' \in RequestType
  BY <1>1, ClientPtrsTyped, RequestTyped DEF HandleFree
<1>2. CASE \E b \in DictSearch(heap, p) :
             heap' = Coalesce(FreeBlkAdd([heap EXCEPT !.alloc[b] = 0], b), b)
  <2>1. PICK b \in DictSearch(heap, p) :
          heap' = Coalesce(FreeBlkAdd([heap EXCEPT !.alloc[b] = 0], b), b)
    BY <1>2
  <2>2. b \in heap.live /\ heap.alloc[b] = 1
    BY <1>1, LegalPointer
  <2>3. Without(heap, heap', mem_brk, b)
    BY <1>1, <2>1, <2>2, InvFacts, FreeEffect
  <2> QED
    BY <1>req, <1>1, <2>3, InvFacts, Restored DEF Without, Others
<1>3. CASE UNCHANGED heap
  <2>1. Shape(heap', mem_brk') /\ Settled(heap')
    BY <1>1, <1>3, InvFacts
  <2> QED
    BY <1>req, <1>1, <1>3, <2>1, InvFacts, Restored
<1> QED
  BY <1>2, <1>3 DEF HandleFree

LEMMA ReallocIInv ==
  ASSUME LegalClient, IInv, NEW p \in ClientPtrs, NEW size \in ReallocSizes,
         HandleRealloc(p, size)
  PROVE  IInv'
<1> DEFINE asize == ReallocAsize(size)
<1>1. Serving /\ mem_start_brk' = mem_start_brk /\ mem_brk' = mem_brk /\ p # 0
  BY DEF HandleRealloc
<1>req. req_in' \in RequestType
  BY <1>1, InputAssumption, ClientPtrsTyped, RequestTyped DEF HandleRealloc
<1>2. asize \in Nat \ {0}
  BY InputAssumption, AsizePositive
<1>3. DictSearch(heap, p) # {}
  <2>1. PICK n \in Allocated(heap) : heap.ptr[n] = p
    BY <1>1 DEF ClientPtrs, LegalClient
  <2>2. n \in heap.live /\ n \in Node
    BY <1>1, InvFacts DEF Allocated
  <2>3. <<p, n>> \in heap.dict
    BY <1>1, <2>1, <2>2, InvFacts DEF Shape, Keyed
  <2> QED
    BY <2>2, <2>3 DEF DictSearch
<1>4. PICK b \in DictSearch(heap, p) : ReallocFound(b, size)
  BY <1>3 DEF HandleRealloc
<1>5. b \in heap.live /\ heap.alloc[b] = 1
  BY <1>1, LegalPointer
<1>6. heap.size[b] \in Nat /\ heap.ptr[b] \in Nat
  BY <1>1, <1>5, InvFacts, ShapeTypes
<1>7. ASSUME Resized(heap, heap', mem_brk, b, asize), reply' = <<heap.ptr[b]>>
      PROVE  IInv'
  BY <1>req, <1>1, <1>6, <1>7, InvFacts, Restored DEF Resized, Others
<1>8. ASSUME UNCHANGED heap, reply' \in {<< 0 >>, <<heap.ptr[b]>>}
      PROVE  IInv'
  <2>1. Shape(heap', mem_brk') /\ Settled(heap')
    BY <1>1, <1>8, InvFacts
  <2>2. CASE reply' = <<0>>
    <3>1. reply' \in Seq(Nat) /\ Len(reply') <= 1
      BY <2>2
    <3> QED
      BY <1>req, <1>1, <1>8, <2>1, <3>1, InvFacts, Restored
  <2>3. CASE reply' = <<heap.ptr[b]>>
    <3>1. reply' \in Seq(Nat) /\ Len(reply') <= 1
      BY <1>6, <2>3
    <3> QED
      BY <1>req, <1>1, <1>8, <2>1, <3>1, InvFacts, Restored
  <2> QED
    BY <1>8, <2>2, <2>3
<1> HIDE DEF asize
<1>9. CASE /\ heap' = ExtendBlk(heap, b, asize) /\ reply' = <<heap.ptr[b]>>
           /\ heap.alloc[heap.next[b]] = 0
           /\ heap.size[heap.next[b]] + heap.size[b] >= asize
  <2>1. Resized(heap, heap', mem_brk, b, asize)
    BY <1>1, <1>2, <1>5, <1>9, InvFacts, ExtendEffect
  <2> QED
    BY <1>7, <1>9, <2>1
<1>10. CASE /\ heap.size[b] > asize /\ reply' = <<heap.ptr[b]>>
            /\ \E new \in Node \ heap.live : heap' = ShrinkBlk(heap, b, asize, new)
  <2>1. PICK new \in Node \ heap.live : heap' = ShrinkBlk(heap, b, asize, new)
    BY <1>10
  <2>2. asize < heap.size[b]
    BY <1>2, <1>6, <1>10
  <2>3. Resized(heap, heap', mem_brk, b, asize)
    BY <1>1, <1>2, <1>5, <2>1, <2>2, InvFacts, ShrinkEffect
  <2> QED
    BY <1>7, <1>10, <2>3
<1>11. CASE UNCHANGED heap /\ reply' \in {<<0>>, <<heap.ptr[b]>>}
  BY <1>8, <1>11
<1> QED
  BY <1>4, <1>9, <1>10, <1>11 DEF ReallocFound, asize

LEMMA SbrkIInv ==
  ASSUME IInv, NEW incr \in SbrkSizes, HandleSbrk(incr)
  PROVE  IInv'
<1> DEFINE last == heap.prev[Start]
<1>1. /\ Serving /\ mem_start_brk' = mem_start_brk /\ mem_brk' = mem_brk + incr
      /\ reply' = << >>
  BY DEF HandleSbrk
<1>2. incr \in Nat \ {0}
  BY InputAssumption
<1>req. req_in' \in RequestType
  BY InputAssumption, RequestTyped DEF HandleSbrk
<1>3. PICK new \in Node \ heap.live :
        heap' = Coalesce(Link(heap, last, new,
                              heap.ptr[last] + heap.size[last], incr), new)
  BY DEF HandleSbrk
<1>4. Without(heap, heap', mem_brk + incr, new)
  BY <1>1, <1>2, <1>3, InvFacts, SbrkEffect
<1>5. mem_brk' \in Nat /\ mem_brk' >= mem_brk
  BY <1>1, <1>2, InvFacts
<1> HIDE DEF last
<1> QED
  BY <1>req, <1>1, <1>4, <1>5, Restored DEF Without, Others

LEMMA ResetIInv ==
  ASSUME IInv, HandleReset
  PROVE  IInv'
<1>1. /\ Serving /\ heap' = EmptyHeap(heap.ptr[Start]) /\ mem_brk' = mem_start_brk
      /\ mem_start_brk' = mem_start_brk /\ reply' = << >>
  BY DEF HandleReset, MmInit
<1>2. heap.ptr[Start] = Base /\ mem_start_brk = Base /\ Base \in Nat
  BY <1>1, InvFacts
<1>req. req_in' \in RequestType
  BY <1>2, RequestTyped DEF HandleReset
<1>3. Shape(heap', mem_brk') /\ Settled(heap') /\ heap'.ptr[Start] = Base
  BY <1>1, <1>2, EmptyHeapShape
<1>4. heap' \in HeapType /\ heap'.alloc[Start] = 1 /\ Serving'
  BY <1>3 DEF Shape, Typed, Serving
<1>5. TypeOK'
  BY <1>req, <1>1, <1>2, <1>4 DEF TypeOK
<1> QED
  BY <1>1, <1>2, <1>3, <1>4, <1>5 DEF IInv

LEMMA EndIInv ==
  ASSUME IInv, HandleEnd
  PROVE  IInv'
<1> DEFINE g == EmptyHeap(heap.ptr[Start])
<1>1. /\ Serving /\ heap' = [g EXCEPT !.status = "ended"] /\ mem_brk' = mem_brk
      /\ mem_start_brk' = mem_start_brk /\ reply' = << >>
  BY DEF HandleEnd, MmInit
<1>2. heap.ptr[Start] = Base /\ mem_start_brk = Base /\ Base \in Nat
      /\ mem_brk \in Nat /\ Base <= mem_brk
  BY <1>1, InvFacts
<1>req. req_in' \in RequestType
  BY RequestTyped DEF HandleEnd
<1>3. /\ Shape(g, Base) /\ g.ptr[Start] = Base /\ g.live = {} /\ g.dict = {}
      /\ \A i \in Class : g.class[i] = << >>
  BY <1>2, EmptyHeapShape
<1>4. g \in HeapType /\ g.alloc[Start] = 1
  BY <1>3 DEF Shape, Typed
<1> HIDE DEF g
<1>5. /\ heap' \in HeapType /\ heap'.alloc[Start] = 1 /\ heap'.ptr[Start] = Base
      /\ heap'.live = {} /\ heap'.dict = {} /\ heap'.status = "ended"
      /\ heap'.class = g.class
  BY <1>1, <1>3, <1>4 DEF HeapType, Status
<1>6. TypeOK'
  BY <1>req, <1>1, <1>2, <1>5 DEF TypeOK
<1>7. ~ Serving'
  BY <1>5 DEF Serving
<1> QED
  BY <1>1, <1>2, <1>3, <1>5, <1>6, <1>7 DEF IInv

LEMMA StutterIInv ==
  ASSUME IInv, UNCHANGED vars
  PROVE  IInv'
BY DEF vars, IInv, TypeOK, Serving

(* The inductive invariant holds in every state, whatever the sizes, the   *)
(* policy, the number of blocks and of requests.                           *)
THEOREM InductiveInvariant ==
  ASSUME LegalClient
  PROVE  Spec => []IInv
<1>1. IInv /\ [Next]_vars => IInv'
  <2> SUFFICES ASSUME IInv, [Next]_vars PROVE IInv'
    OBVIOUS
  <2>1. CASE \E size \in MallocSizes : HandleMalloc(size)
    BY <2>1, MallocIInv
  <2>2. CASE \E p \in ClientPtrs : HandleFree(p)
    BY <2>2, FreeIInv
  <2>3. CASE \E p \in ClientPtrs, size \in ReallocSizes : HandleRealloc(p, size)
    BY <2>3, ReallocIInv
  <2>4. CASE \E incr \in SbrkSizes : HandleSbrk(incr)
    BY <2>4, SbrkIInv
  <2>5. CASE HandleReset
    BY <2>5, ResetIInv
  <2>6. CASE HandleEnd
    BY <2>6, EndIInv
  <2>7. CASE UNCHANGED vars
    BY <2>7, StutterIInv
  <2> QED
    BY <2>1, <2>2, <2>3, <2>4, <2>5, <2>6, <2>7 DEF Next
<1> QED
  BY <1>1, InitIInv, PTL DEF Spec

LEMMA IInvConsequences ==
  IInv => TypeOK /\ WellTiled /\ DictExact /\ ClassExact /\ Coalesced /\ NoCrash
<1> SUFFICES ASSUME IInv
             PROVE  TypeOK /\ WellTiled /\ DictExact /\ ClassExact /\ Coalesced /\ NoCrash
  OBVIOUS
<1>1. TypeOK
  BY DEF IInv
<1>2. CASE Serving
  <2>1. Shape(heap, mem_brk) /\ Settled(heap) /\ heap.ptr[Start] = mem_start_brk
    BY <1>2 DEF IInv
  <2> QED
    BY <1>1, <2>1 DEF WellTiled, DictExact, ClassExact, Coalesced, NoCrash, Shape, Settled
<1>3. CASE ~ Serving
  <2>1. /\ heap.status = "ended" /\ heap.live = {} /\ heap.dict = {}
        /\ \A i \in Class : heap.class[i] = << >>
    BY <1>3 DEF IInv
  <2>2. FreeBlks(heap) = {} /\ NoDup(heap) /\ ListsExactly(heap, FreeBlks(heap))
    BY <2>1 DEF FreeBlks, NoDup, ListsExactly, In
  <2> QED
    BY <1>1, <1>3, <2>1, <2>2 DEF WellTiled, DictExact, Keyed, ClassExact, Coalesced, NoCrash
<1> QED
  BY <1>2, <1>3

(* The fields of the blocks, the break, the queues and the status keep     *)
(* their types through all that pc_mm.c and pc_mlib.c assign to them.      *)
THEOREM AlwaysTyped ==
  ASSUME LegalClient
  PROVE  Spec => []TypeOK
<1>1. IInv => TypeOK
  BY IInvConsequences
<1> QED
  BY <1>1, InductiveInvariant, PTL

(* The list tiles the heap from its start to the break at all times.       *)
THEOREM AlwaysWellTiled ==
  ASSUME LegalClient
  PROVE  Spec => []WellTiled
<1>1. IInv => WellTiled
  BY IInvConsequences
<1> QED
  BY <1>1, InductiveInvariant, PTL

(* The dictionary, the class lists and coalescing agree with the list.     *)
THEOREM AlwaysBooked ==
  ASSUME LegalClient
  PROVE  Spec => [](DictExact /\ ClassExact /\ Coalesced)
<1>1. IInv => DictExact /\ ClassExact /\ Coalesced
  BY IInvConsequences
<1> QED
  BY <1>1, InductiveInvariant, PTL

(* No legal sequence of requests makes the server fail.                    *)
THEOREM NeverCrashes ==
  ASSUME LegalClient
  PROVE  Spec => []NoCrash
<1>1. IInv => NoCrash
  BY IInvConsequences
<1> QED
  BY <1>1, InductiveInvariant, PTL
=============================================================================
