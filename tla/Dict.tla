-------------------------------- MODULE Dict --------------------------------
(***************************************************************************)
(* The pointer dictionary of the PC server, dict.c: a hash table of chains *)
(* whose first entry lies in the table itself (key 0 when it is unused)    *)
(* and whose other entries are malloc()ed.  It doubles when the entries    *)
(* outnumber the buckets.  PcHeap uses it as a set of pairs.               *)
(***************************************************************************)
EXTENDS Integers, FiniteSets, SequencesExt

CONSTANTS
  Keys,          (* Pointers of the MCU that pc_mm.c uses as keys.          *)
  Blks,          (* blk_elt pointers.                                       *)
  NULL,          (* No block.                                               *)
  START_COUNT,   (* Buckets of a new table.                                 *)
  MaxSize        (* Bound: buckets of the largest table.                    *)

ASSUME KeyAssumption   == Keys \subseteq Nat \ {0}
ASSUME BlkAssumption   == NULL \notin Blks
ASSUME CountAssumption == MaxSize \in Nat /\ START_COUNT \in 1 .. MaxSize

VARIABLES
  size, count,   (* Buckets and entries.                                    *)
  table,         (* Of each bucket, the entry in place and those behind it. *)
  found          (* The last dict_search: its key and what it returned.     *)

vars == <<size, count, table, found>>

Entry(key, ptr) == [key |-> key, ptr |-> ptr]

Unused == [head |-> Entry(0, NULL), rest |-> << >>]

EmptyTable(n) == [i \in 0 .. n - 1 |-> Unused]

(* The FNV-1a value is computed and dropped: the key itself is reduced.    *)
Hash(key, n) == key % n

(* internal_dict_insert into a table of n buckets: in place when the bucket *)
(* is unused, else at the end of the chain.                                 *)
InternalInsert(t, n, e) ==
  LET i == Hash(e.key, n) IN
  IF t[i].head.key # 0
  THEN [t EXCEPT ![i].rest = Append(@, e)]
  ELSE [t EXCEPT ![i] = [head |-> e, rest |-> << >>]]

Chain(c) == (IF c.head.key # 0 THEN <<c.head>> ELSE << >>) \o c.rest

(* The inner loop of dict_double: one chain, entry by entry.               *)
InsertAll(t, n, entries) ==
  LET after[j \in 0 .. Len(entries)] ==
        IF j = 0 THEN t ELSE InternalInsert(after[j - 1], n, entries[j])
  IN  after[Len(entries)]

(* Mutant: the entries are hashed with the old number of buckets.          *)
DoubledOldHash(t, n) ==
  LET moved[i \in 0 .. n] ==
        IF i = 0 THEN EmptyTable(2 * n) ELSE InsertAll(moved[i - 1], n, Chain(t[i - 1]))
  IN  moved[n]

(* dict_double: the chains of the old table, one after the other.          *)
Doubled(t, n) ==
  LET moved[i \in 0 .. n] ==
        IF i = 0 THEN EmptyTable(2 * n)
        ELSE InsertAll(moved[i - 1], 2 * n, Chain(t[i - 1]))
  IN  moved[n]

(* Mutant: the entries behind a deleted first entry are lost.              *)
RemovedHeadDrops(c, key) ==
  IF c.head.key = key THEN Unused
  ELSE LET j == CHOOSE j \in DOMAIN c.rest : c.rest[j].key = key
       IN  [c EXCEPT !.rest = RemoveAt(@, j)]

(* Mutant: a deleted first entry is cleared whatever is behind it.         *)
RemovedHeadCleared(c, key) ==
  IF c.head.key = key THEN [c EXCEPT !.head = Unused.head]
  ELSE LET j == CHOOSE j \in DOMAIN c.rest : c.rest[j].key = key
       IN  [c EXCEPT !.rest = RemoveAt(@, j)]

(* The chain without key: the entry behind the first takes its place.      *)
Removed(c, key) ==
  IF c.head.key = key
  THEN IF c.rest # << >>
       THEN [head |-> Head(c.rest), rest |-> Tail(c.rest)]
       ELSE Unused
  ELSE LET j == CHOOSE j \in DOMAIN c.rest :
                  c.rest[j].key = key /\ \A k \in 1 .. j - 1 : c.rest[k].key # key
       IN  [c EXCEPT !.rest = RemoveAt(@, j)]

HasKey(c, key) == c.head.key = key \/ \E j \in DOMAIN c.rest : c.rest[j].key = key

(* The first entry with the key, in place or behind.                       *)
Lookup(c, key) ==
  IF c.head.key = key THEN c.head.ptr
  ELSE IF HasKey(c, key)
  THEN c.rest[CHOOSE j \in DOMAIN c.rest :
                /\ c.rest[j].key = key
                /\ \A k \in 1 .. j - 1 : c.rest[k].key # key].ptr
  ELSE NULL

-----------------------------------------------------------------------------
(* The operations.  mm_init has created the dictionary.                    *)

Init ==
  /\ size = START_COUNT /\ count = 0
  /\ table = EmptyTable(START_COUNT)
  /\ found = <<0, NULL>>

(* Mutant: the count is reset when the table doubles.                      *)
DictInsertRecount(key, ptr) ==
  LET t     == InternalInsert(table, size, Entry(key, ptr))
      grows == count + 1 > size
  IN  /\ ~ HasKey(table[Hash(key, size)], key)
      /\ grows => 2 * size <= MaxSize
      /\ count' = IF grows THEN 1 ELSE count + 1
      /\ size'  = IF grows THEN 2 * size ELSE size
      /\ table' = IF grows THEN Doubled(t, size) ELSE t
      /\ UNCHANGED found

(* pc_mm.c inserts no key twice (DictExact of PcHeap).                     *)
DictInsert(key, ptr) ==
  LET t     == InternalInsert(table, size, Entry(key, ptr))
      grows == count + 1 > size
  IN  /\ ~ HasKey(table[Hash(key, size)], key)
      /\ grows => 2 * size <= MaxSize
      /\ count' = count + 1
      /\ size'  = IF grows THEN 2 * size ELSE size
      /\ table' = IF grows THEN Doubled(t, size) ELSE t
      /\ UNCHANGED found

DictDelete(key) ==
  LET i == Hash(key, size) IN
  /\ IF HasKey(table[i], key)
     THEN table' = [table EXCEPT ![i] = Removed(@, key)] /\ count' = count - 1
     ELSE UNCHANGED <<table, count>>
  /\ UNCHANGED <<size, found>>

DictSearch(key) ==
  /\ found' = <<key, Lookup(table[Hash(key, size)], key)>>
  /\ UNCHANGED <<size, count, table>>

(* dict_create, by mm_init: the old table is dropped, not freed.           *)
DictCreate ==
  /\ size' = START_COUNT /\ count' = 0
  /\ table' = EmptyTable(START_COUNT)
  /\ UNCHANGED found

(* dict_destroy, once, when the session ends.                              *)
DictDestroy ==
  /\ size' = 0 /\ count' = 0
  /\ table' = EmptyTable(0)
  /\ UNCHANGED found

Next ==
  /\ size # 0
  /\ \/ \E key \in Keys, ptr \in Blks : DictInsert(key, ptr)
     \/ \E key \in Keys : DictDelete(key)
     \/ \E key \in Keys \cup {0} : DictSearch(key)
     \/ DictCreate
     \/ DictDestroy

Spec == Init /\ [][Next]_vars

-----------------------------------------------------------------------------
(* Properties.                                                             *)

Entries == [key : Keys, ptr : Blks]

(* Types; and an unused entry in place has nothing behind it, which        *)
(* internal_dict_insert relies on when it resets the link.                 *)
TypeOK ==
  /\ size \in 0 .. MaxSize /\ count \in Nat
  /\ found \in (Keys \cup {0}) \X (Blks \cup {NULL})
  /\ DOMAIN table = 0 .. size - 1
  /\ \A i \in DOMAIN table :
       /\ table[i].head \in Entries \cup {Unused.head}
       /\ table[i].rest \in Seq(Entries)
       /\ table[i].head = Unused.head => table[i].rest = << >>

(* Each entry is in the bucket its key hashes to in the present table, and *)
(* no key is in the table twice, after any number of doublings.            *)
WellHashed ==
  \A i \in DOMAIN table :
    LET c == Chain(table[i]) IN
    \A j \in DOMAIN c : /\ Hash(c[j].key, size) = i
                        /\ \A k \in 1 .. j - 1 : c[k].key # c[j].key

Present(t) == UNION {Range(Chain(t[i])) : i \in DOMAIN t}

Contents == {<<e.key, e.ptr>> : e \in Present(table)}

(* The count that decides when to double is the number of entries, and the *)
(* table has at least as many buckets.                                     *)
CountExact == count = Cardinality(Contents) /\ count <= size

Abs == INSTANCE DictAbs WITH pairs <- Contents, answer <- found

(* The chained, doubling table is the set of pairs PcHeap takes it for: a  *)
(* search finds the block of the key exactly when there is one.            *)
ImplementsDictAbs == Abs!Spec
=============================================================================
