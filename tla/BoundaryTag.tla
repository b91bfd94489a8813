---------------------------- MODULE BoundaryTag ----------------------------
(***************************************************************************)
(* The allocator of projects/heap: mm.c with mem_sbrk of mcu_mlib.c.  The  *)
(* books lie in the heap itself, as a header and a footer word around each *)
(* block, next to what the program writes there.  Memory is a function     *)
(* from word addresses to words; a tag is PACK(size, alloc), a number.     *)
(***************************************************************************)
EXTENDS Integers, FiniteSets

CONSTANTS
  Base,        (* mem_start_brk: first byte of the heap, double-word aligned *)
  CHUNKSIZE,   (* Least extension of the heap.                               *)
  StackTops,   (* Where the stack pointer is when mem_sbrk looks.            *)
  Sizes,       (* Sizes the program asks for: whole words.                   *)
  Marks,       (* Words the program writes; some look like tags.             *)
  Garbage      (* Words that memory may hold before the first use.           *)

WSIZE == 4
DSIZE == 8

Highest == CHOOSE top \in StackTops : \A sp \in StackTops : sp <= top

Words == {p \in Base .. Highest - WSIZE : p % WSIZE = 0}

ASSUME TagAssumption ==
  /\ Base \in Nat \ {0} /\ Base % DSIZE = 0
  /\ CHUNKSIZE \in Nat \ {0} /\ CHUNKSIZE % DSIZE = 0
  /\ StackTops \subseteq Nat /\ \A sp \in StackTops : sp >= Base
  /\ \E top \in StackTops : \A sp \in StackTops : sp <= top
  /\ \A size \in Sizes : size \in Nat /\ size % WSIZE = 0
  /\ Marks \subseteq Nat /\ Garbage \subseteq Nat

VARIABLES
  mem,         (* The words of the memory.                                *)
  mem_brk,     (* First byte after the heap.                              *)
  heap_listp,  (* The prologue block; 0 before mm_init.                   *)
  held         (* Pieces the program has, and what it has written there.  *)

vars == <<mem, mem_brk, heap_listp, held>>

-----------------------------------------------------------------------------
(* Tags.                                                                   *)

GET(m, p)      == IF p \in Words THEN m[p] ELSE 0
PUT(m, p, val) == [m EXCEPT ![p] = val]

PACK(size, alloc) == size + alloc
GET_SIZE(m, p)    == GET(m, p) - (GET(m, p) % 8)
GET_ALLOC(m, p)   == GET(m, p) % 2

HDRP(bp)         == bp - WSIZE
FTRP(m, bp)      == bp + GET_SIZE(m, HDRP(bp)) - DSIZE
NEXT_BLKP(m, bp) == bp + GET_SIZE(m, bp - WSIZE)
PREV_BLKP(m, bp) == bp - GET_SIZE(m, bp - DSIZE)

Prologue == Base + 2 * WSIZE

BlkSize(m, bp) == GET_SIZE(m, HDRP(bp))
IsFree(m, bp)  == GET_ALLOC(m, HDRP(bp)) = 0

(* Header, then the footer where the new header says it is.                *)
Tag(m, bp, size, alloc) ==
  LET h == PUT(m, HDRP(bp), PACK(size, alloc))
  IN  PUT(h, FTRP(h, bp), PACK(size, alloc))

-----------------------------------------------------------------------------
(* Merging and splitting.  A result is the memory and a block pointer.     *)

Result(m, bp) == [mem |-> m, bp |-> bp]

(* Mutant: only the block behind is merged.                                *)
CoalesceNextOnly(m, bp) ==
  IF IsFree(m, NEXT_BLKP(m, bp))
  THEN Result(Tag(m, bp, BlkSize(m, bp) + BlkSize(m, NEXT_BLKP(m, bp)), 0), bp)
  ELSE Result(m, bp)

Coalesce(m, bp) ==
  LET prev == PREV_BLKP(m, bp)
      next == NEXT_BLKP(m, bp)
      prev_alloc == GET_ALLOC(m, FTRP(m, prev)) = 1
      next_alloc == ~ IsFree(m, next)
      size == BlkSize(m, bp)
      withNext == size + BlkSize(m, next)
      withPrev == size + BlkSize(m, prev)
      withBoth == withNext + BlkSize(m, prev)
  IN  CASE prev_alloc /\ next_alloc -> Result(m, bp)
        [] prev_alloc /\ ~ next_alloc -> Result(Tag(m, bp, withNext, 0), bp)
        [] ~ prev_alloc /\ next_alloc ->
             Result(PUT(PUT(m, FTRP(m, bp), withPrev), HDRP(prev), withPrev), prev)
        [] ~ prev_alloc /\ ~ next_alloc ->
             LET h == PUT(m, HDRP(prev), withBoth)
                 f == PUT(h, FTRP(h, NEXT_BLKP(h, bp)), withBoth)
             IN  Result(f, PREV_BLKP(f, bp))

Place(m, bp, asize) ==
  LET original == BlkSize(m, bp) IN
  IF original >= asize + DSIZE
  THEN Tag(Tag(m, bp + asize, original - asize, 0), bp, asize, 1)
  ELSE Tag(m, bp, original, 1)

(* Mutant: bp's header is shortened before the remainder's footer is found. *)
ShrinkBlkHeaderFirst(m, bp, asize) ==
  LET rest == BlkSize(m, bp) - asize
      head == PUT(PUT(m, HDRP(bp + asize), rest), HDRP(bp), PACK(asize, 1))
      foot == PUT(head, FTRP(head, bp), rest)
  IN  IF BlkSize(m, bp) > asize + DSIZE
      THEN Coalesce(Tag(foot, bp, asize, 1), bp + asize).mem
      ELSE m

(* The footer of the remainder is written through the old header of bp.    *)
ShrinkBlk(m, bp, asize) ==
  LET rest == BlkSize(m, bp) - asize
      head == PUT(m, HDRP(bp + asize), rest)
      foot == PUT(head, FTRP(head, bp), rest)
  IN  IF BlkSize(m, bp) > asize + DSIZE
      THEN Coalesce(Tag(foot, bp, asize, 1), bp + asize).mem
      ELSE m

ExtendBlk(m, bp, asize) ==
  LET combined == BlkSize(m, bp) + BlkSize(m, NEXT_BLKP(m, bp)) IN
  IF combined > asize + DSIZE
  THEN Coalesce(Tag(Tag(m, bp + asize, combined - asize, 0), bp, asize, 1),
                bp + asize).mem
  ELSE Tag(m, bp, combined, 1)

-----------------------------------------------------------------------------
(* Operations, as functions of the memory, the break and the stack pointer *)
(* that mem_sbrk sees.  A pointer of 0 is NULL.                            *)

Asize(size) ==
  IF size <= DSIZE THEN 2 * DSIZE
  ELSE DSIZE * ((size + DSIZE + (DSIZE - 1)) \div DSIZE)

(* From the prologue to the epilogue, the first free block of asize bytes. *)
FirstFit(m, asize) ==
  LET from[bp \in Nat] ==
        IF BlkSize(m, bp) = 0 THEN 0
        ELSE IF IsFree(m, bp) /\ BlkSize(m, bp) >= asize THEN bp
        ELSE from[NEXT_BLKP(m, bp)]
  IN  from[Prologue]

CanSbrk(brk, incr, sp) == brk + incr <= sp

(* Mutant: the parity test is inverted.                                    *)
ExtensionOdd(bytes) ==
  LET words == bytes \div WSIZE IN
  IF words % 2 = 0 THEN (words + 1) * WSIZE ELSE words * WSIZE

(* extend_heap takes words and keeps the break double-word aligned.        *)
Extension(bytes) ==
  LET words == bytes \div WSIZE IN
  IF words % 2 = 1 THEN (words + 1) * WSIZE ELSE words * WSIZE

(* The header of the new block replaces the old epilogue.                  *)
ExtendHeap(m, brk, size) ==
  LET new == Tag(m, brk, size, 0)
  IN  Coalesce(PUT(new, HDRP(NEXT_BLKP(new, brk)), PACK(0, 1)), brk)

MmMalloc(m, brk, size, sp) ==
  LET asize == Asize(size)
      fit   == FirstFit(m, asize)
      incr  == Extension(IF asize > CHUNKSIZE THEN asize ELSE CHUNKSIZE)
      ext   == ExtendHeap(m, brk, incr)
  IN  CASE size = 0 -> [mem |-> m, brk |-> brk, ptr |-> 0]
        [] size # 0 /\ fit # 0 ->
             [mem |-> Place(m, fit, asize), brk |-> brk, ptr |-> fit]
        [] size # 0 /\ fit = 0 /\ CanSbrk(brk, incr, sp) ->
             [mem |-> Place(ext.mem, ext.bp, asize), brk |-> brk + incr,
              ptr |-> ext.bp]
        [] OTHER -> [mem |-> m, brk |-> brk, ptr |-> 0]

MmFree(m, p) == Coalesce(Tag(m, p, BlkSize(m, p), 0), p).mem

(* Mutant: the copy begins at the header.                                  *)
CopyFromHeader(m, new, old, size) ==
  [p \in Words |->
     IF new <= p /\ p < new + size THEN GET(m, HDRP(old) + (p - new)) ELSE m[p]]

(* memcpy of size bytes: all of the new size, whatever the old block has.  *)
Copy(m, new, old, size) ==
  [p \in Words |->
     IF new <= p /\ p < new + size THEN GET(m, old + (p - new)) ELSE m[p]]

(* Mutant: the block behind may be allocated.                              *)
RoomAnyway(m, p, asize) ==
  BlkSize(m, NEXT_BLKP(m, p)) + BlkSize(m, p) >= asize

Room(m, p, asize) ==
  /\ IsFree(m, NEXT_BLKP(m, p))
  /\ BlkSize(m, NEXT_BLKP(m, p)) + BlkSize(m, p) >= asize

(* Mutant: the old block is not freed.                                     *)
MoveKeeping(new, p, size) ==
  IF new.ptr = 0 THEN new ELSE [new EXCEPT !.mem = Copy(@, new.ptr, p, size)]

Move(new, p, size) ==
  IF new.ptr = 0 THEN new
  ELSE [new EXCEPT !.mem = MmFree(Copy(@, new.ptr, p, size), p)]

MmRealloc(m, brk, p, size, sp) ==
  LET asize == Asize(size)
      blk   == BlkSize(m, p)
      stay(after) == [mem |-> after, brk |-> brk, ptr |-> p]
  IN  CASE size = 0 -> stay(MmFree(m, p))
        [] size # 0 /\ blk < asize /\ Room(m, p, asize) -> stay(ExtendBlk(m, p, asize))
        [] size # 0 /\ blk < asize /\ ~ Room(m, p, asize) ->
             Move(MmMalloc(m, brk, size, sp), p, size)
        [] size # 0 /\ blk > asize -> stay(ShrinkBlk(m, p, asize))
        [] OTHER -> stay(m)

-----------------------------------------------------------------------------
(* The program and its calls, one at a time.                               *)

Init ==
  /\ \E g \in Garbage : mem = [p \in Words |-> g]
  /\ mem_brk = Base
  /\ heap_listp = 0
  /\ held = {}

(* mm_init: padding, prologue, epilogue, first chunk.  When there is no    *)
(* room for the chunk the heap is usable, and main ignores the result.     *)
CallInit(sp) ==
  LET empty == PUT(PUT(PUT(PUT(mem, Base, 0),
                           Base + WSIZE, PACK(DSIZE, 1)),
                       Base + 2 * WSIZE, PACK(DSIZE, 1)),
                   Base + 3 * WSIZE, PACK(0, 1))
      brk   == Base + 4 * WSIZE
      size  == Extension(CHUNKSIZE)
  IN  /\ heap_listp = 0
      /\ IF ~ CanSbrk(Base, 4 * WSIZE, sp)
         THEN heap_listp' = -1 /\ UNCHANGED <<mem, mem_brk>>
         ELSE /\ heap_listp' = Prologue
              /\ IF CanSbrk(brk, size, sp)
                 THEN mem' = ExtendHeap(empty, brk, size).mem /\ mem_brk' = brk + size
                 ELSE mem' = empty /\ mem_brk' = brk
      /\ UNCHANGED held

Ready == heap_listp = Prologue

Piece(p, size, mark, kept) ==
  IF p = 0 \/ size = 0 THEN {}
  ELSE {[ptr |-> p, size |-> size, mark |-> mark, kept |-> kept]}

Fill(m, p, size, mark) ==
  [q \in Words |-> IF p <= q /\ q < p + size THEN mark ELSE m[q]]

(* The program writes all of a new piece.                                  *)
CallMalloc(size, mark, sp) ==
  LET new == MmMalloc(mem, mem_brk, size, sp) IN
  /\ Ready
  /\ mem' = IF new.ptr = 0 THEN new.mem ELSE Fill(new.mem, new.ptr, size, mark)
  /\ mem_brk' = new.brk
  /\ held' = held \cup Piece(new.ptr, size, mark, size)
  /\ UNCHANGED heap_listp

CallFree(r) ==
  /\ Ready
  /\ mem' = MmFree(mem, r.ptr)
  /\ held' = held \ {r}
  /\ UNCHANGED <<mem_brk, heap_listp>>

(* NULL: the old piece is still there.  Otherwise what the smaller of the  *)
(* two sizes covers is kept.                                               *)
CallRealloc(r, size, sp) ==
  LET new  == MmRealloc(mem, mem_brk, r.ptr, size, sp)
      kept == IF r.kept < size THEN r.kept ELSE size
  IN  /\ Ready
      /\ mem' = new.mem /\ mem_brk' = new.brk
      /\ held' = IF new.ptr = 0 THEN held
                 ELSE (held \ {r}) \cup Piece(new.ptr, size, r.mark, kept)
      /\ UNCHANGED heap_listp

(* The stack is above the heap.                                            *)
StackPtrs == {sp \in StackTops : mem_brk <= sp}

Next ==
  \/ \E sp \in StackPtrs : CallInit(sp)
  \/ \E size \in Sizes \cup {0}, mark \in Marks, sp \in StackPtrs :
        CallMalloc(size, mark, sp)
  \/ \E r \in held : CallFree(r)
  \/ \E r \in held, size \in Sizes \cup {0}, sp \in StackPtrs : CallRealloc(r, size, sp)

Spec == Init /\ [][Next]_vars

-----------------------------------------------------------------------------
(* Properties.                                                             *)

TypeOK ==
  /\ mem \in [Words -> Nat]
  /\ mem_brk \in Base .. Highest /\ mem_brk % DSIZE = 0
  /\ heap_listp \in {0, -1, Prologue}
  /\ held \subseteq [ptr : Words, size : Sizes, mark : Marks, kept : Nat]

(* The blocks the headers lead to, from the prologue to the epilogue.      *)
Blocks ==
  LET from[bp \in Nat] ==
        IF BlkSize(mem, bp) = 0 THEN {bp} ELSE {bp} \cup from[NEXT_BLKP(mem, bp)]
  IN  IF Ready THEN from[Prologue] ELSE {}

Allocated == {bp \in Blocks : ~ IsFree(mem, bp) /\ bp \notin {Prologue, mem_brk}}

(* Following headers from the prologue ends exactly at the epilogue below  *)
(* the break, and each footer says what its header says: a walk in either  *)
(* direction sees the same blocks, after any mix of splits, merges and     *)
(* writes of the program.                                                  *)
WellTagged ==
  Ready =>
    /\ mem_brk \in Blocks /\ GET(mem, HDRP(mem_brk)) = PACK(0, 1)
    /\ GET(mem, HDRP(Prologue)) = PACK(DSIZE, 1)
    /\ \A bp \in Blocks \ {mem_brk} :
          BlkSize(mem, bp) > 0 /\ GET(mem, FTRP(mem, bp)) = GET(mem, HDRP(bp))

(* No two neighbours are both free.                                        *)
Coalesced ==
  \A bp \in Blocks : IsFree(mem, bp) => ~ IsFree(mem, NEXT_BLKP(mem, bp))

(* The program's pieces are exactly the allocated blocks, and each fits    *)
(* between the tags of its own: nothing is lost, nothing given twice.      *)
HeldExact ==
  /\ Allocated = {r.ptr : r \in held}
  /\ \A r, s \in held : r.ptr = s.ptr => r = s
  /\ \A r \in held : r.size + DSIZE <= BlkSize(mem, r.ptr)

(* What the program wrote is there until it frees the piece: no tag is     *)
(* written over it, and a realloc that moves it copies the right words.    *)
DataKept ==
  \A r \in held : \A p \in Words :
    r.ptr <= p /\ p < r.ptr + r.kept => mem[p] = r.mark

(* To the program this is the malloc library that the offloaded one is.    *)
Lib == INSTANCE MallocAbs
         WITH Lowest <- Base,
              held <- {[ptr |-> r.ptr, size |-> r.size] : r \in held}

(* The pieces are disjoint and below the stack; a piece that realloc moves *)
(* has no byte in common with the old one.                                 *)
ImplementsMalloc == Lib!Spec
=============================================================================
