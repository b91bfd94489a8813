---------------------------- MODULE TraceDriver ----------------------------
(***************************************************************************)
(* The test program mcu_mdriver.c: it runs a trace of requests against an  *)
(* allocator and checks the answers (eval_mm_valid), then runs it again    *)
(* and measures (eval_mm_util).  The allocator is external and may answer  *)
(* anything.  What a payload holds is abstracted to whether a realloc kept *)
(* it; the driver's own records are taken to be out of harm's way.         *)
(***************************************************************************)
EXTENDS Integers, Sequences, SequencesExt, FiniteSetsExt

CONSTANTS
  Ids,                (* Block ids of the trace.                             *)
  Sizes,              (* Sizes it asks for.                                  *)
  MaxOps,             (* Bound on its length.                                *)
  Addrs,              (* What the allocator may answer, besides NULL.        *)
  HeapLo, HeapHi,     (* mem_heap_lo, and mem_heap_hi: the break.            *)
  ALIGNMENT

NULL == 0

ASSUME DriverAssumption ==
  /\ Sizes \subseteq Nat \ {0} /\ MaxOps \in Nat
  /\ Addrs \subseteq Nat \ {NULL} /\ HeapLo \in Nat /\ HeapHi \in Nat
  /\ ALIGNMENT \in Nat \ {0}

VARIABLES
  pass,             (* "valid", "util", "done", or "stuck" in loop().      *)
  ops, i,           (* The trace, and how much of it this pass has done.   *)
  ranges,           (* The list of ranges, the newest first.               *)
  blocks,           (* Of each id, the last answer...                      *)
  block_sizes,      (* ... and its size.                                   *)
  total_size, max_total_size,
  wrong             (* The allocator has once answered NULL or wrongly.    *)

trace == <<ops, blocks, block_sizes>>
vars == <<pass, ops, i, ranges, blocks, block_sizes, total_size, max_total_size, wrong>>

(* The ids that have a block after the first k requests.                   *)
LiveIds(k) ==
  {id \in Ids : \E j \in 1 .. k :
     /\ ops[j].index = id /\ ops[j].type # "FREE"
     /\ \A l \in j + 1 .. k : ops[l].index = id => ops[l].type # "FREE"}

-----------------------------------------------------------------------------
(* The list of ranges.                                                     *)

Range_t(lo, size) == [lo |-> lo, hi |-> lo + size - 1]

(* Mutant: only the low end of the payload is looked for.                  *)
OverlapsLow(r, p) == p.lo <= r.lo /\ r.lo <= p.hi

(* An end of the payload lies in an older one.                             *)
Overlaps(r, p) ==
  \/ p.lo <= r.lo /\ r.lo <= p.hi
  \/ p.lo <= r.hi /\ r.hi <= p.hi

AddRangeOk(rs, lo, size) ==
  LET r == Range_t(lo, size) IN
  /\ lo % ALIGNMENT = 0
  /\ HeapLo <= lo /\ r.hi <= HeapHi
  /\ \A p \in ToSet(rs) : ~ Overlaps(r, p)

AddRange(rs, lo, size) == <<Range_t(lo, size)>> \o rs

(* Mutant: the list is not searched beyond its first element.              *)
RemoveRangeFirst(rs, lo) ==
  IF rs # <<>> /\ rs[1].lo = lo THEN Tail(rs) ELSE rs

(* The first range that starts at lo goes.                                 *)
RemoveRange(rs, lo) ==
  LET at == SelectInSeq(rs, LAMBDA p : p.lo = lo)
  IN  IF at = 0 THEN rs ELSE RemoveAt(rs, at)

-----------------------------------------------------------------------------
(* What an allocator must answer: memory in the heap, aligned, and no byte *)
(* of another live block.                                                  *)

Legal(id, lo, size) ==
  /\ lo # NULL /\ lo % ALIGNMENT = 0
  /\ HeapLo <= lo /\ lo + size <= HeapHi
  /\ \A other \in LiveIds(i) \ {id} :
       \/ lo + size <= blocks[other]
       \/ blocks[other] + block_sizes[other] <= lo

Record(id, p, size) ==
  /\ blocks' = [blocks EXCEPT ![id] = p]
  /\ block_sizes' = [block_sizes EXCEPT ![id] = size]

(* malloc_error, app_error and unix_error end in loop().                   *)
Stuck == pass' = "stuck" /\ UNCHANGED <<blocks, block_sizes>>

-----------------------------------------------------------------------------
(* eval_mm_valid.  The next request of the trace is chosen as it is run;   *)
(* room: the allocator has memory for the range record too.                *)

Read(op) ==
  /\ pass = "valid" /\ i < MaxOps
  /\ ops' = Append(ops, op) /\ i' = i + 1
  /\ UNCHANGED <<total_size, max_total_size>>

ValidAlloc(id, size, p, room) ==
  /\ id \notin LiveIds(i)
  /\ Read([type |-> "ALLOC", index |-> id, size |-> size])
  /\ wrong' = (wrong \/ ~ room \/ ~ Legal(id, p, size))
  /\ IF p # NULL /\ AddRangeOk(ranges, p, size) /\ room
     THEN /\ ranges' = AddRange(ranges, p, size)
          /\ Record(id, p, size)
          /\ UNCHANGED pass
     ELSE Stuck /\ UNCHANGED ranges

(* kept: the new block has the old one's data.                             *)
ValidRealloc(id, size, p, room, kept) ==
  LET rest == RemoveRange(ranges, blocks[id]) IN
  /\ id \in LiveIds(i)
  /\ Read([type |-> "REALLOC", index |-> id, size |-> size])
  /\ wrong' = (wrong \/ ~ room \/ ~ kept \/ ~ Legal(id, p, size))
  /\ IF p # NULL /\ AddRangeOk(rest, p, size) /\ room
     THEN /\ ranges' = AddRange(rest, p, size)
          /\ IF kept THEN Record(id, p, size) /\ UNCHANGED pass ELSE Stuck
     ELSE Stuck /\ ranges' = (IF p = NULL THEN ranges ELSE rest)

ValidFree(id) ==
  /\ id \in LiveIds(i)
  /\ Read([type |-> "FREE", index |-> id, size |-> 0])
  /\ ranges' = RemoveRange(ranges, blocks[id])
  /\ UNCHANGED <<pass, blocks, block_sizes, wrong>>

(* main goes on with eval_mm_util.  What the trace has not freed stays     *)
(* allocated, and on the list.                                             *)
EndValid ==
  /\ pass = "valid"
  /\ pass' = "util" /\ i' = 0
  /\ total_size' = 0 /\ max_total_size' = 0
  /\ UNCHANGED <<ranges, trace, wrong>>

-----------------------------------------------------------------------------
(* eval_mm_util: the same requests, unchecked.                             *)

(* Mutant: the old size stays counted.                                     *)
GrowthKept(op) == op.size

(* What a request adds to the payload in use.                              *)
Growth(op) ==
  CASE op.type = "ALLOC"   -> op.size
    [] op.type = "REALLOC" -> op.size - block_sizes[op.index]
    [] op.type = "FREE"    -> 0 - block_sizes[op.index]

UtilOp(p) ==
  LET op == ops[i + 1] IN
  /\ pass = "util" /\ i < Len(ops)
  /\ i' = i + 1
  /\ wrong' = (wrong \/ (op.type # "FREE" /\ p = NULL))
  /\ IF op.type # "FREE" /\ p = NULL
     THEN Stuck /\ UNCHANGED <<total_size, max_total_size>>
     ELSE /\ total_size' = total_size + Growth(op)
          /\ max_total_size' = IF total_size' > max_total_size
                               THEN total_size' ELSE max_total_size
          /\ IF op.type = "FREE" THEN UNCHANGED <<blocks, block_sizes>>
             ELSE Record(op.index, p, op.size)
          /\ UNCHANGED pass
  /\ UNCHANGED <<ops, ranges>>

(* free_trace, the results, mm_finish.                                     *)
EndUtil ==
  /\ pass = "util" /\ i = Len(ops)
  /\ pass' = "done"
  /\ UNCHANGED <<i, ranges, trace, total_size, max_total_size, wrong>>

-----------------------------------------------------------------------------
Init ==
  /\ pass = "valid" /\ ops = <<>> /\ i = 0
  /\ ranges = <<>>
  /\ blocks = [id \in Ids |-> NULL]
  /\ block_sizes = [id \in Ids |-> 0]
  /\ total_size = 0 /\ max_total_size = 0
  /\ wrong = FALSE

Answers == Addrs \cup {NULL}

Next ==
  \/ \E id \in Ids, size \in Sizes, p \in Answers, room \in BOOLEAN :
       \/ ValidAlloc(id, size, p, room)
       \/ \E kept \in BOOLEAN : ValidRealloc(id, size, p, room, kept)
  \/ \E id \in Ids : ValidFree(id)
  \/ EndValid
  \/ \E p \in Answers : UtilOp(p)
  \/ EndUtil

Spec == Init /\ [][Next]_vars

-----------------------------------------------------------------------------
(* Properties.                                                             *)

(* The driver stops with an error only when the allocator has given it     *)
(* NULL, lost data or answered wrongly: no range of a block that is gone   *)
(* makes a good answer look like an overlap.                               *)
NoFalseAlarm == pass = "stuck" => wrong

Piece(id) == Range_t(blocks[id], block_sizes[id])

(* An allocator that gets through with blocks in common bytes has put a    *)
(* newer one around an older one: that, and a payload that ends on the     *)
(* byte at the break, is all the checks can miss.                          *)
MissesOnlyContainment ==
  pass = "valid" =>
    /\ \A j, k \in DOMAIN ranges : j < k /\ ranges[j].lo <= ranges[k].hi
                                         /\ ranges[k].lo <= ranges[j].hi =>
         ranges[j].lo < ranges[k].lo /\ ranges[k].hi < ranges[j].hi
    /\ \A id \in LiveIds(i) : HeapLo <= Piece(id).lo /\ Piece(id).hi <= HeapHi

(* In the first pass the list holds the live blocks, each once, although   *)
(* it is searched by address only; in the second the running total is the  *)
(* payload in use, and its peak not below it, although the blocks of the   *)
(* first are still recorded.                                               *)
BooksExact ==
  /\ pass = "valid" =>
       /\ ToSet(ranges) = {Piece(id) : id \in LiveIds(i)}
       /\ Len(ranges) = Cardinality(LiveIds(i))
  /\ pass \in {"util", "done"} =>
       /\ total_size = MapThenSumSet(LAMBDA id : block_sizes[id], LiveIds(i))
       /\ max_total_size >= total_size
=============================================================================
