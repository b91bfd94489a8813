------------------------------- MODULE PcHeap -------------------------------
(***************************************************************************)
(* The allocator of the PC server: pc_mm.c (the block list, the class      *)
(* lists, place / shrink / extend / coalesce), pc_mlib.c (the PC's copy of *)
(* the break) and the request loop of pc_server.c.  The heap it manages is *)
(* the memory of the microcontroller: the server only keeps the books.     *)
(*                                                                         *)
(* A blk_elt is an element of Node and its fields are functions on Node;   *)
(* Start is the sentinel list_start.  The twelve circular class lists are  *)
(* sequences, the pointer dictionary is a set of <<pointer, block>> pairs. *)
(***************************************************************************)
EXTENDS Integers, FiniteSets, Sequences

CONSTANTS
  Node,          (* Addresses host malloc() gives to blk_elt structures.   *)
  Start,         (* list_start, the sentinel of the block list.            *)
  Base,          (* First byte of the MCU heap, sent by the first request. *)
  DSIZE,         (* Bytes of a double word: block sizes are multiples.     *)
  SIZE_CLASSES,  (* Number of class lists.                                 *)
  LINEAR,        (* Number of classes that hold one size only.             *)
  SEARCH_OPT,    (* The fit policy compiled in.                            *)
  MallocSizes,   (* Sizes of malloc requests.                              *)
  ReallocSizes,  (* Sizes of realloc requests (never 0, mcu_mm.c:124).     *)
  SbrkSizes,     (* Increments of sbrk requests (never 0).                 *)
  StrayPtrs,     (* Pointers sent although no block ever has them.         *)
  MaxHeap        (* Bound: bytes the MCU's memory can give to the heap.    *)

ASSUME NodeAssumption   == Start \notin Node
ASSUME BaseAssumption   == Base \in Nat \ {0}
ASSUME SizeAssumption   == /\ DSIZE \in Nat \ {0}
                           /\ LINEAR \in Nat \ {0, 1}
                           /\ SIZE_CLASSES \in Nat
                           /\ LINEAR < SIZE_CLASSES
ASSUME PolicyAssumption == SEARCH_OPT \in {"FIRST_FIT", "BEST_FIT", "SEG_FIT"}
ASSUME InputAssumption  == /\ MallocSizes \subseteq Nat
                           /\ ReallocSizes \subseteq Nat \ {0}
                           /\ SbrkSizes \subseteq Nat \ {0}
                           /\ StrayPtrs \subseteq Nat
                           /\ MaxHeap \in Nat

VARIABLES
  heap,           (* The block list, the class lists and the dictionary.   *)
  mem_start_brk,  (* pc_mlib.c: first byte of the heap.                    *)
  mem_brk,        (* pc_mlib.c: first byte after the heap.                 *)
  req_in,         (* pc_server.c: the last request received.               *)
  reply           (* Words the last handler put on the wire: none or one.  *)

vars == <<heap, mem_start_brk, mem_brk, req_in, reply>>

Request(request, size, ptr) == [request |-> request, size |-> size, ptr |-> ptr]

RequestType ==
  [request : {"MALLOC", "FREE", "REALLOC", "SBRK"}, size : Nat, ptr : Nat]

Elt    == Node \cup {Start}
Class  == 0 .. SIZE_CLASSES - 1
Status == {"serving", "ended", "crashed"}

HeapType ==
  [live   : SUBSET Node,          (* blk_elts malloc()ed and not free()d   *)
   next   : [Elt -> Elt],
   prev   : [Elt -> Elt],
   ptr    : [Elt -> Nat],
   size   : [Elt -> Nat],
   alloc  : [Elt -> {0, 1}],
   class  : [Class -> Seq(Node)], (* class_table and its circular lists    *)
   dict   : SUBSET (Nat \X Node), (* pointer_dict                          *)
   status : Status]               (* of the server process                 *)

-----------------------------------------------------------------------------
(* Class lists and dictionary.                                             *)

ClassIndex(size) ==
  LET dwords == size \div DSIZE IN
  IF dwords = 0 THEN 1
  ELSE IF dwords <= LINEAR THEN dwords - 1
  ELSE LINEAR - 1
         + Cardinality({k \in 0 .. SIZE_CLASSES - LINEAR - 1 :
                          dwords >= LINEAR * 2^k})

In(s, b) == \E j \in DOMAIN s : s[j] = b

Listed(h, b) == \E i \in Class : In(h.class[i], b)

Drop(s, b) ==
  IF In(s, b)
  THEN LET j == CHOOSE j \in DOMAIN s : s[j] = b
       IN  SubSeq(s, 1, j - 1) \o SubSeq(s, j + 1, Len(s))
  ELSE s

Crash(h) == [h EXCEPT !.status = "crashed"]

(* A block in no class list has NULL links: unlinking it dereferences them. *)
FreeBlkRemove(h, b) ==
  IF Listed(h, b)
  THEN [h EXCEPT !.class = [i \in Class |-> Drop(h.class[i], b)]]
  ELSE Crash(h)

FreeBlkAdd(h, b) ==
  IF h.alloc[b] = 1
  THEN Crash(h)
  ELSE [h EXCEPT !.class[ClassIndex(h.size[b])] = <<b>> \o @]

DictInsert(h, p, b) == [h EXCEPT !.dict = @ \cup {<<p, b>>}]
DictDelete(h, p)    == [h EXCEPT !.dict = {e \in @ : e[1] # p}]
DictSearch(h, p)    == {b \in Node : <<p, b>> \in h.dict}

-----------------------------------------------------------------------------
(* Coalescing.                                                             *)

(* free() of a blk_elt: its fields are dead and get fixed values.          *)
Release(h, n) ==
  [h EXCEPT !.live  = h.live \ {n},
            !.next  = [h.next EXCEPT ![n] = Start],
            !.prev  = [h.prev EXCEPT ![n] = Start],
            !.ptr   = [h.ptr EXCEPT ![n] = 0],
            !.size  = [h.size EXCEPT ![n] = 0],
            !.alloc = [h.alloc EXCEPT ![n] = 0]]

(* Mutant: the block behind the merged one still points back to it.        *)
MergeNextStaleBack(h, b) ==
  LET t == h.next[b]
      absorbed == [h EXCEPT !.size[b] = h.size[b] + h.size[t],
                            !.next[b] = h.next[t]]
  IN  Release(DictDelete(FreeBlkRemove(absorbed, t), h.ptr[t]), t)

(* Mutant: the key of the surviving block is deleted.                      *)
MergeNextWrongKey(h, b) ==
  LET t == h.next[b]
      absorbed == [h EXCEPT !.size[b] = h.size[b] + h.size[t],
                            !.prev[h.next[t]] = b,
                            !.next[b] = h.next[t]]
  IN  Release(DictDelete(FreeBlkRemove(absorbed, t), h.ptr[b]), t)

MergeNext(h, b) ==
  LET t == h.next[b]
      absorbed == [h EXCEPT !.size[b] = h.size[b] + h.size[t],
                            !.prev[h.next[t]] = b,
                            !.next[b] = h.next[t]]
  IN  Release(DictDelete(FreeBlkRemove(absorbed, t), h.ptr[t]), t)

(* Mutant: a merged block stays in the list of its old class.              *)
ReclassNever(h, b, old_index) == h

Reclass(h, b, old_index) ==
  IF old_index = ClassIndex(h.size[b])
  THEN h
  ELSE FreeBlkAdd(FreeBlkRemove(h, b), b)

Coalesce(h, b) ==
  LET prevFree == h.alloc[h.prev[b]] = 0
      nextFree == h.alloc[h.next[b]] = 0
      keep     == IF prevFree THEN h.prev[b] ELSE b
      right    == IF nextFree THEN MergeNext(h, b) ELSE h
      both     == IF prevFree THEN MergeNext(right, keep) ELSE right
  IN  IF prevFree \/ nextFree
      THEN Reclass(both, keep, ClassIndex(h.size[keep]))
      ELSE h

-----------------------------------------------------------------------------
(* Splitting.                                                              *)

(* A new free block of s bytes at p, linked behind b.                      *)
Link(h, b, new, p, s) ==
  LET linked ==
        [h EXCEPT !.live  = h.live \cup {new},
                  !.next  = [h.next EXCEPT ![new] = h.next[b], ![b] = new],
                  !.prev  = [h.prev EXCEPT ![new] = b, ![h.next[b]] = new],
                  !.ptr   = [h.ptr EXCEPT ![new] = p],
                  !.size  = [h.size EXCEPT ![new] = s],
                  !.alloc = [h.alloc EXCEPT ![new] = 0]]
  IN  DictInsert(FreeBlkAdd(linked, new), p, new)

Place(h, b, asize, new) ==
  LET taken == FreeBlkRemove([h EXCEPT !.alloc[b] = 1], b)
  IN  IF h.size[b] > asize
      THEN Link([taken EXCEPT !.size[b] = asize],
                b, new, h.ptr[b] + asize, h.size[b] - asize)
      ELSE taken

ShrinkBlk(h, b, asize, new) ==
  Coalesce(Link([h EXCEPT !.size[b] = asize],
                b, new, h.ptr[b] + asize, h.size[b] - asize), new)

(* Mutant: the shrunk block keeps its old key in the dictionary too.       *)
ExtendBlkStaleKey(h, b, asize) ==
  LET n     == h.next[b]
      total == h.size[b] + h.size[n]
      p     == h.ptr[b] + asize
      moved == DictInsert(
                 [h EXCEPT
                    !.ptr  = [h.ptr EXCEPT ![n] = p],
                    !.size = [h.size EXCEPT ![n] = total - asize, ![b] = asize]],
                 p, n)
  IN  IF total > asize
      THEN Reclass(moved, n, ClassIndex(h.size[n]))
      ELSE MergeNext(h, b)

ExtendBlk(h, b, asize) ==
  LET n     == h.next[b]
      total == h.size[b] + h.size[n]
      p     == h.ptr[b] + asize
      moved == DictInsert(
                 [DictDelete(h, h.ptr[n]) EXCEPT
                    !.ptr  = [h.ptr EXCEPT ![n] = p],
                    !.size = [h.size EXCEPT ![n] = total - asize, ![b] = asize]],
                 p, n)
  IN  IF total > asize
      THEN Reclass(moved, n, ClassIndex(h.size[n]))
      ELSE MergeNext(h, b)

-----------------------------------------------------------------------------
(* Fit policies.  Walk[i] is the i-th block after list_start.              *)

(* Mutant: the rounding goes down.                                         *)
MallocAsizeFloor(size) ==
  IF size <= DSIZE THEN DSIZE ELSE DSIZE * (size \div DSIZE)

MallocAsize(size) ==
  IF size <= DSIZE THEN DSIZE
  ELSE DSIZE * ((size + DSIZE + (DSIZE - 1)) \div DSIZE)

ReallocAsize(size) ==
  IF size < DSIZE THEN DSIZE ELSE DSIZE * ((size + (DSIZE - 1)) \div DSIZE)

Fits(h, b, asize) == h.alloc[b] = 0 /\ h.size[b] >= asize

Walk(h) ==
  LET walk[i \in Nat] == IF i = 0 THEN h.next[Start] ELSE h.next[walk[i - 1]]
  IN  walk

(* Mutant: the scan does not stop at the first block that fits.            *)
FirstFitAny(h, asize) == {b \in h.live : Fits(h, b, asize)}

FirstFit(h, asize) ==
  LET blks == Walk(h) IN
  {b \in h.live :
     \E i \in 0 .. Cardinality(h.live) - 1 :
        /\ blks[i] = b /\ Fits(h, b, asize)
        /\ \A j \in 0 .. i - 1 : ~ Fits(h, blks[j], asize)}

(* Mutant: the comparison keeps the largest block.                         *)
BestFitLargest(h, asize) ==
  {b \in h.live : /\ Fits(h, b, asize)
                  /\ \A c \in h.live : Fits(h, c, asize) => h.size[c] <= h.size[b]}

BestFit(h, asize) ==
  LET blks == Walk(h) IN
  {b \in h.live :
     \E i \in 0 .. Cardinality(h.live) - 1 :
        /\ blks[i] = b /\ Fits(h, b, asize)
        /\ \A j \in 0 .. Cardinality(h.live) - 1 :
              Fits(h, blks[j], asize) =>
                \/ h.size[b] < h.size[blks[j]]
                \/ h.size[b] = h.size[blks[j]] /\ i <= j}

(* Mutant: the classes are tried from the largest down.                    *)
SegFitDown(h, asize) ==
  {b \in h.live :
     \E i \in Class : \E j \in DOMAIN h.class[i] :
        /\ h.class[i][j] = b /\ h.size[b] >= asize
        /\ \A c \in i + 1 .. SIZE_CLASSES - 1 : \A k \in DOMAIN h.class[c] :
              h.size[h.class[c][k]] < asize}

(* seg_fit looks only at the lists from the class of asize on.             *)
SegFit(h, asize) ==
  LET from == ClassIndex(asize) IN
  {b \in h.live :
     \E i \in Class : \E j \in DOMAIN h.class[i] :
        /\ i >= from /\ h.class[i][j] = b /\ h.size[b] >= asize
        /\ \A k \in 1 .. j - 1 : h.size[h.class[i][k]] < asize
        /\ \A c \in from .. i - 1 : \A k \in DOMAIN h.class[c] :
              h.size[h.class[c][k]] < asize}

(* The block the policy finds, as a set of at most one.                    *)
FindFit(h, asize) ==
  CASE SEARCH_OPT = "FIRST_FIT" -> FirstFit(h, asize)
    [] SEARCH_OPT = "BEST_FIT"  -> BestFit(h, asize)
    [] SEARCH_OPT = "SEG_FIT"   -> SegFit(h, asize)

-----------------------------------------------------------------------------
(* The request loop of the server.                                         *)

(* Mutant: the sentinel is not marked allocated.                           *)
EmptyHeapFreeStart(p) ==
  [live   |-> {},
   next   |-> [e \in Elt |-> Start],
   prev   |-> [e \in Elt |-> Start],
   ptr    |-> [e \in Elt |-> IF e = Start THEN p ELSE 0],
   size   |-> [e \in Elt |-> 0],
   alloc  |-> [e \in Elt |-> 0],
   class  |-> [i \in Class |-> << >>],
   dict   |-> {},
   status |-> "serving"]

(* mem_reset_brk and mm_init with list_start at p: dict_create, the class  *)
(* table and the block list emptied.                                       *)
EmptyHeap(p) ==
  [live   |-> {},
   next   |-> [e \in Elt |-> Start],
   prev   |-> [e \in Elt |-> Start],
   ptr    |-> [e \in Elt |-> IF e = Start THEN p ELSE 0],
   size   |-> [e \in Elt |-> 0],
   alloc  |-> [e \in Elt |-> IF e = Start THEN 1 ELSE 0],
   class  |-> [i \in Class |-> << >>],
   dict   |-> {},
   status |-> "serving"]

(* A later mm_init finds list_start there and keeps its ptr.               *)
MmInit(h) == EmptyHeap(h.ptr[Start])

(* The first request, sbrk with the heap start, has been served.           *)
Init ==
  /\ heap = EmptyHeap(Base)
  /\ mem_start_brk = Base
  /\ mem_brk = Base
  /\ req_in = Request("SBRK", 0, Base)
  /\ reply = << >>

Serving == heap.status = "serving"

Allocated(h) == {n \in h.live : h.alloc[n] = 1}

(* Pointers the client may pass: those of allocated blocks, and strays.    *)
ClientPtrs == {heap.ptr[n] : n \in Allocated(heap)} \cup StrayPtrs

HandleMalloc(size) ==
  LET asize == MallocAsize(size)
      found == FindFit(heap, asize)
  IN  /\ Serving
      /\ req_in' = Request("MALLOC", size, 0)
      /\ \/ /\ size # 0
            /\ \E b \in found, new \in Node \ heap.live :
                  /\ heap' = Place(heap, b, asize, new)
                  /\ reply' = <<heap.ptr[b]>>
         \/ /\ size = 0 \/ found = {}
            /\ reply' = <<0>>
            /\ UNCHANGED heap
      /\ UNCHANGED <<mem_start_brk, mem_brk>>

HandleFree(p) ==
  /\ Serving
  /\ req_in' = Request("FREE", 0, p)
  /\ \/ \E b \in DictSearch(heap, p) :
           LET freed == [heap EXCEPT !.alloc[b] = 0]
           IN  heap' = Coalesce(FreeBlkAdd(freed, b), b)
     \/ /\ DictSearch(heap, p) = {}
        /\ UNCHANGED heap
  /\ reply' = << >>
  /\ UNCHANGED <<mem_start_brk, mem_brk>>

(* mm_realloc for the block b that has the pointer.                        *)
ReallocFound(b, size) ==
  LET asize == ReallocAsize(size)
      n     == heap.next[b]
      room  == heap.alloc[n] = 0 /\ heap.size[n] + heap.size[b] >= asize
  IN  \/ /\ heap.size[b] < asize /\ room
         /\ heap' = ExtendBlk(heap, b, asize)
         /\ reply' = <<heap.ptr[b]>>
      \/ /\ heap.size[b] < asize /\ ~ room
         /\ reply' = <<0>>
         /\ UNCHANGED heap
      \/ /\ heap.size[b] > asize
         /\ \E new \in Node \ heap.live : heap' = ShrinkBlk(heap, b, asize, new)
         /\ reply' = <<heap.ptr[b]>>
      \/ /\ heap.size[b] = asize
         /\ reply' = <<heap.ptr[b]>>
         /\ UNCHANGED heap

(* A pointer that is not found: search_blk is NULL and ->size is read.     *)
HandleRealloc(p, size) ==
  /\ Serving
  /\ req_in' = Request("REALLOC", size, p)
  /\ p # 0
  /\ \/ \E b \in DictSearch(heap, p) : ReallocFound(b, size)
     \/ /\ DictSearch(heap, p) = {}
        /\ heap' = Crash(heap)
        /\ reply' = << >>
  /\ UNCHANGED <<mem_start_brk, mem_brk>>

HandleSbrk(incr) ==
  LET last == heap.prev[Start] IN
  /\ Serving
  /\ req_in' = Request("SBRK", incr, 0)
  /\ mem_brk + incr - mem_start_brk <= MaxHeap
  /\ \E new \in Node \ heap.live :
        heap' = Coalesce(Link(heap, last, new,
                              heap.ptr[last] + heap.size[last], incr), new)
  /\ mem_brk' = mem_brk + incr
  /\ reply' = << >>
  /\ UNCHANGED mem_start_brk

(* SBRK with size 0 and the heap start: mem_reset_brk and mm_init.  The    *)
(* MCU always sends the same start.                                        *)
HandleReset ==
  /\ Serving
  /\ req_in' = Request("SBRK", 0, mem_start_brk)
  /\ heap' = MmInit(heap)
  /\ mem_brk' = mem_start_brk
  /\ reply' = << >>
  /\ UNCHANGED mem_start_brk

(* Mutant: the end signal is treated as a reset.                           *)
HandleEndResets ==
  /\ Serving
  /\ req_in' = Request("SBRK", 0, 0)
  /\ heap' = MmInit(heap)
  /\ reply' = << >>
  /\ UNCHANGED <<mem_start_brk, mem_brk>>

(* SBRK with size 0 and ptr 0: the end signal.                             *)
HandleEnd ==
  /\ Serving
  /\ req_in' = Request("SBRK", 0, 0)
  /\ heap' = [MmInit(heap) EXCEPT !.status = "ended"]
  /\ reply' = << >>
  /\ UNCHANGED <<mem_start_brk, mem_brk>>

Next ==
  \/ \E size \in MallocSizes : HandleMalloc(size)
  \/ \E p \in ClientPtrs : HandleFree(p)
  \/ \E p \in ClientPtrs, size \in ReallocSizes : HandleRealloc(p, size)
  \/ \E incr \in SbrkSizes : HandleSbrk(incr)
  \/ HandleReset
  \/ HandleEnd

Spec == Init /\ [][Next]_vars

-----------------------------------------------------------------------------
(* Properties.                                                             *)

TypeOK ==
  /\ heap \in HeapType
  /\ heap.alloc[Start] = 1
  /\ mem_start_brk \in Nat
  /\ mem_brk \in Nat
  /\ req_in \in RequestType
  /\ reply \in Seq(Nat) /\ Len(reply) <= 1

Typed(h) == h \in HeapType /\ h.alloc[Start] = 1

List(h) == h.live \cup {Start}

Linked(h) ==
  \A b \in List(h) : /\ h.next[b] \in List(h) /\ h.prev[h.next[b]] = b
                     /\ h.prev[b] \in List(h) /\ h.next[h.prev[b]] = b

Sized(h) == h.size[Start] = 0 /\ \A b \in h.live : h.size[b] > 0

Tiled(h, brk) ==
  \A b \in List(h) :
    h.ptr[b] + h.size[b] = IF h.next[b] = Start THEN brk ELSE h.ptr[h.next[b]]

(* What list_print asserts of the block list after any sequence of         *)
(* requests: next and prev are inverse, each block begins where the one    *)
(* before it ends; and what pc_mlib.c assumes: the first begins at the     *)
(* heap start and the last ends at the break.                              *)
WellTiled ==
  Serving => /\ heap.ptr[Start] = mem_start_brk
             /\ Linked(heap) /\ Sized(heap) /\ Tiled(heap, mem_brk)

Keyed(h) == h.dict = {<<h.ptr[b], b>> : b \in h.live}

(* The dictionary has each block of the list under its current pointer and *)
(* nothing else, through splits, merges and extend_blk's change of key.    *)
DictExact == Keyed(heap)

NoDup(h) == \A i \in Class : \A j, k \in DOMAIN h.class[i] :
              h.class[i][j] = h.class[i][k] => j = k

(* The blocks of S are listed, each in the list of its class, and no other. *)
ListsExactly(h, S) ==
  \A b \in Node, i \in Class :
    In(h.class[i], b) <=> b \in S /\ ClassIndex(h.size[b]) = i

FreeBlks(h) == {b \in h.live : h.alloc[b] = 0}

(* Each free block is in the list of the class of its current size, once,  *)
(* and no other block is in any list: coalescing and extending move it.    *)
ClassExact == NoDup(heap) /\ ListsExactly(heap, FreeBlks(heap))

(* Immediate coalescing: no two adjacent blocks are both free, whichever   *)
(* order the blocks are freed, shrunk or added by sbrk.                    *)
Coalesced ==
  \A b \in FreeBlks(heap) : heap.alloc[heap.next[b]] = 1

(* The inductive invariant behind the above: what every operation of the   *)
(* block list needs and restores.  Disjoint blocks have distinct pointers, *)
(* so deleting a key deletes one entry.                                    *)
Apart(h) ==
  \A a, b \in h.live : a # b => \/ h.ptr[a] + h.size[a] <= h.ptr[b]
                               \/ h.ptr[b] + h.size[b] <= h.ptr[a]

Within(h, brk) ==
  \A b \in h.live : h.ptr[Start] <= h.ptr[b] /\ h.ptr[b] + h.size[b] <= brk

Shape(h, brk) ==
  /\ Typed(h) /\ Linked(h) /\ Sized(h) /\ Tiled(h, brk)
  /\ Apart(h) /\ Within(h, brk) /\ Keyed(h) /\ NoDup(h)
  /\ h.status = "serving"

Settled(h) ==
  /\ ListsExactly(h, FreeBlks(h))
  /\ \A b \in FreeBlks(h) : h.alloc[h.next[b]] = 1

IInv ==
  /\ TypeOK
  /\ mem_start_brk = Base /\ heap.ptr[Start] = Base /\ Base <= mem_brk
  /\ Serving => Shape(heap, mem_brk) /\ Settled(heap)
  /\ ~ Serving => heap.status = "ended" /\ heap.live = {} /\ heap.dict = {}
                 /\ \A i \in Class : heap.class[i] = << >>

Fitting(asize) == {b \in heap.live : Fits(heap, b, asize)}

Asizes == {MallocAsize(size) : size \in MallocSizes \ {0}}

(* pc_mm.c:168: first fit finds the lowest of the free blocks that fit,    *)
(* and one whenever there is one, in every heap that requests lead to.     *)
FirstFitLowest ==
  Serving => \A asize \in Asizes :
    FirstFit(heap, asize) =
      {b \in Fitting(asize) :
         \A c \in Fitting(asize) : heap.ptr[b] <= heap.ptr[c]}

(* pc_mm.c:182: best fit finds a smallest one, the lowest of those.        *)
BestFitSmallest ==
  Serving => \A asize \in Asizes :
    BestFit(heap, asize) =
      {b \in Fitting(asize) :
         \A c \in Fitting(asize) :
           \/ heap.size[b] < heap.size[c]
           \/ heap.size[b] = heap.size[c] /\ heap.ptr[b] <= heap.ptr[c]}

(* pc_mm.c:203: seg_fit finds one of the lowest class that has any, and    *)
(* misses none although it does not look below the class of the request.   *)
SegFitComplete ==
  Serving => \A asize \in Asizes :
    LET found == SegFit(heap, asize) IN
    /\ Fitting(asize) # {} => Cardinality(found) = 1
    /\ \A b \in found, c \in Fitting(asize) :
         b \in Fitting(asize) /\ ClassIndex(heap.size[b]) <= ClassIndex(heap.size[c])

(* No legal sequence of requests makes the server follow a NULL link, fail *)
(* an assertion or read through a pointer it did not find.                 *)
NoCrash == heap.status # "crashed"

(* The handlers implement the abstract allocator of HeapAbs: regions are   *)
(* the allocated blocks.                                                   *)
Regions == {[lo |-> heap.ptr[b], len |-> heap.size[b]] : b \in Allocated(heap)}

Abs == INSTANCE HeapAbs WITH base <- mem_start_brk, brk <- mem_brk,
                             regions <- Regions, request <- req_in,
                             MallocSlack <- 2 * DSIZE - 1,
                             ReallocSlack <- DSIZE - 1

(* Every request is granted, kept, given back or refused as HeapAbs allows *)
(* for it: no overlap, nothing outside the heap, no refusal with room.     *)
ImplementsHeapAbs == Abs!Spec
=============================================================================
