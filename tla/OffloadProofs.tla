---------------------------- MODULE OffloadProofs ----------------------------
(***************************************************************************)
(* The offloaded heap as a whole keeps the program's memory: each piece    *)
(* the program holds is backed by a block of the server, no block is lost, *)
(* and the machines never take one answer for another.                     *)
(*                                                                         *)
(* The server's half is PcHeapRefinement: what each handler does to the    *)
(* regions.  The rest is about the messages under way.                     *)
(***************************************************************************)
EXTENDS Offload, FiniteSetTheorems, TLAPS

Srv == INSTANCE PcHeapRefinement WITH
         MallocSizes <- Nat, ReallocSizes <- Nat \ {0}, SbrkSizes <- Nat \ {0},
         StrayPtrs <- {0}, MaxHeap <- Highest - Base

-----------------------------------------------------------------------------
(* Srv is the server Pc with other sets of requests: every operator that   *)
(* the handlers are built from is the same.                                *)

LEMMA SameIn ==
  ASSUME NEW s, NEW b
  PROVE  Srv!In(s, b) <=> Pc!In(s, b)
BY DEF Srv!In, Pc!In

LEMMA SameClass ==
  Srv!Class = Pc!Class
BY DEF Srv!Class, Pc!Class

LEMMA SameElt ==
  Srv!Elt = Pc!Elt
BY DEF Srv!Elt, Pc!Elt

LEMMA SameListed ==
  ASSUME NEW h, NEW b
  PROVE  Srv!Listed(h, b) <=> Pc!Listed(h, b)
BY SameIn, SameClass DEF Srv!Listed, Pc!Listed

LEMMA SameDrop ==
  ASSUME NEW s, NEW b
  PROVE  Srv!Drop(s, b) = Pc!Drop(s, b)
BY SameIn DEF Srv!Drop, Pc!Drop

LEMMA SameCrash ==
  ASSUME NEW h
  PROVE  Srv!Crash(h) = Pc!Crash(h)
BY DEF Srv!Crash, Pc!Crash

LEMMA SameFreeBlkRemove ==
  ASSUME NEW h, NEW b
  PROVE  Srv!FreeBlkRemove(h, b) = Pc!FreeBlkRemove(h, b)
BY SameListed, SameDrop, SameCrash, SameClass DEF Srv!FreeBlkRemove, Pc!FreeBlkRemove

LEMMA SameCardinality ==
  ASSUME NEW S
  PROVE  Srv!Cardinality(S) = Pc!Cardinality(S)
BY DEF Srv!Cardinality, Pc!Cardinality

LEMMA SameClassIndex ==
  ASSUME NEW size
  PROVE  Srv!ClassIndex(size) = Pc!ClassIndex(size)
BY SameCardinality DEF Srv!ClassIndex, Pc!ClassIndex

LEMMA SameFreeBlkAdd ==
  ASSUME NEW h, NEW b
  PROVE  Srv!FreeBlkAdd(h, b) = Pc!FreeBlkAdd(h, b)
BY SameClassIndex, SameCrash DEF Srv!FreeBlkAdd, Pc!FreeBlkAdd

LEMMA SameDictInsert ==
  ASSUME NEW h, NEW p, NEW b
  PROVE  Srv!DictInsert(h, p, b) = Pc!DictInsert(h, p, b)
BY DEF Srv!DictInsert, Pc!DictInsert

LEMMA SameDictDelete ==
  ASSUME NEW h, NEW p
  PROVE  Srv!DictDelete(h, p) = Pc!DictDelete(h, p)
BY DEF Srv!DictDelete, Pc!DictDelete

LEMMA SameDictSearch ==
  ASSUME NEW h, NEW p
  PROVE  Srv!DictSearch(h, p) = Pc!DictSearch(h, p)
BY DEF Srv!DictSearch, Pc!DictSearch

LEMMA SameRelease ==
  ASSUME NEW h, NEW n
  PROVE  Srv!Release(h, n) = Pc!Release(h, n)
BY DEF Srv!Release, Pc!Release

LEMMA SameMergeNext ==
  ASSUME NEW h, NEW b
  PROVE  Srv!MergeNext(h, b) = Pc!MergeNext(h, b)
BY SameRelease, SameDictDelete, SameFreeBlkRemove DEF Srv!MergeNext, Pc!MergeNext

LEMMA SameReclass ==
  ASSUME NEW h, NEW b, NEW old_index
  PROVE  Srv!Reclass(h, b, old_index) = Pc!Reclass(h, b, old_index)
BY SameClassIndex, SameFreeBlkAdd, SameFreeBlkRemove DEF Srv!Reclass, Pc!Reclass

LEMMA SameCoalesce ==
  ASSUME NEW h, NEW b
  PROVE  Srv!Coalesce(h, b) = Pc!Coalesce(h, b)
BY SameMergeNext, SameReclass, SameClassIndex DEF Srv!Coalesce, Pc!Coalesce

LEMMA SameLink ==
  ASSUME NEW h, NEW b, NEW new, NEW p, NEW s
  PROVE  Srv!Link(h, b, new, p, s) = Pc!Link(h, b, new, p, s)
BY SameDictInsert, SameFreeBlkAdd DEF Srv!Link, Pc!Link

LEMMA SamePlace ==
  ASSUME NEW h, NEW b, NEW asize, NEW new
  PROVE  Srv!Place(h, b, asize, new) = Pc!Place(h, b, asize, new)
BY SameFreeBlkRemove, SameLink DEF Srv!Place, Pc!Place

LEMMA SameShrinkBlk ==
  ASSUME NEW h, NEW b, NEW asize, NEW new
  PROVE  Srv!ShrinkBlk(h, b, asize, new) = Pc!ShrinkBlk(h, b, asize, new)
BY SameCoalesce, SameLink DEF Srv!ShrinkBlk, Pc!ShrinkBlk

LEMMA SameExtendBlk ==
  ASSUME NEW h, NEW b, NEW asize
  PROVE  Srv!ExtendBlk(h, b, asize) = Pc!ExtendBlk(h, b, asize)
BY SameDictInsert, SameDictDelete, SameReclass, SameClassIndex, SameMergeNext DEF Srv!ExtendBlk, Pc!ExtendBlk

LEMMA SameMallocAsize ==
  ASSUME NEW size
  PROVE  Srv!MallocAsize(size) = Pc!MallocAsize(size)
BY DEF Srv!MallocAsize, Pc!MallocAsize

LEMMA SameReallocAsize ==
  ASSUME NEW size
  PROVE  Srv!ReallocAsize(size) = Pc!ReallocAsize(size)
BY DEF Srv!ReallocAsize, Pc!ReallocAsize

LEMMA SameFits ==
  ASSUME NEW h, NEW b, NEW asize
  PROVE  Srv!Fits(h, b, asize) <=> Pc!Fits(h, b, asize)
BY DEF Srv!Fits, Pc!Fits

LEMMA SameWalk ==
  ASSUME NEW h
  PROVE  Srv!Walk(h) = Pc!Walk(h)
BY DEF Srv!Walk, Pc!Walk

LEMMA SameFirstFit ==
  ASSUME NEW h, NEW asize
  PROVE  Srv!FirstFit(h, asize) = Pc!FirstFit(h, asize)
BY SameFits, SameWalk, SameCardinality DEF Srv!FirstFit, Pc!FirstFit

LEMMA SameBestFit ==
  ASSUME NEW h, NEW asize
  PROVE  Srv!BestFit(h, asize) = Pc!BestFit(h, asize)
BY SameFits, SameWalk, SameCardinality DEF Srv!BestFit, Pc!BestFit

LEMMA SameSegFit ==
  ASSUME NEW h, NEW asize
  PROVE  Srv!SegFit(h, asize) = Pc!SegFit(h, asize)
BY SameClassIndex, SameClass DEF Srv!SegFit, Pc!SegFit

LEMMA SameFindFit ==
  ASSUME NEW h, NEW asize
  PROVE  Srv!FindFit(h, asize) = Pc!FindFit(h, asize)
BY SameFirstFit, SameBestFit, SameSegFit DEF Srv!FindFit, Pc!FindFit

LEMMA SameEmptyHeap ==
  ASSUME NEW p
  PROVE  Srv!EmptyHeap(p) = Pc!EmptyHeap(p)
BY SameElt, SameClass DEF Srv!EmptyHeap, Pc!EmptyHeap

LEMMA SameMmInit ==
  ASSUME NEW h
  PROVE  Srv!MmInit(h) = Pc!MmInit(h)
BY SameEmptyHeap DEF Srv!MmInit, Pc!MmInit

LEMMA SameRequest ==
  ASSUME NEW request, NEW size, NEW ptr
  PROVE  Srv!Request(request, size, ptr) = Pc!Request(request, size, ptr)
BY DEF Srv!Request, Pc!Request

LEMMA SameServing ==
  Srv!Serving <=> Pc!Serving
BY DEF Srv!Serving, Pc!Serving

LEMMA SameAllocated ==
  ASSUME NEW h
  PROVE  Srv!Allocated(h) = Pc!Allocated(h)
BY DEF Srv!Allocated, Pc!Allocated

LEMMA SameHandleMalloc ==
  ASSUME NEW size
  PROVE  Srv!HandleMalloc(size) <=> Pc!HandleMalloc(size)
BY SameMallocAsize, SameFindFit, SameServing, SameRequest, SamePlace DEF Srv!HandleMalloc, Pc!HandleMalloc

LEMMA SameHandleFree ==
  ASSUME NEW p
  PROVE  Srv!HandleFree(p) <=> Pc!HandleFree(p)
BY SameServing, SameRequest, SameDictSearch, SameCoalesce, SameFreeBlkAdd DEF Srv!HandleFree, Pc!HandleFree

LEMMA SameReallocFound ==
  ASSUME NEW b, NEW size
  PROVE  Srv!ReallocFound(b, size) <=> Pc!ReallocFound(b, size)
BY SameReallocAsize, SameExtendBlk, SameShrinkBlk DEF Srv!ReallocFound, Pc!ReallocFound

LEMMA SameHandleRealloc ==
  ASSUME NEW p, NEW size
  PROVE  Srv!HandleRealloc(p, size) <=> Pc!HandleRealloc(p, size)
BY SameServing, SameRequest, SameDictSearch, SameReallocFound, SameCrash DEF Srv!HandleRealloc, Pc!HandleRealloc

LEMMA SameHandleSbrk ==
  ASSUME NEW incr
  PROVE  Srv!HandleSbrk(incr) <=> Pc!HandleSbrk(incr)
BY SameServing, SameRequest, SameCoalesce, SameLink DEF Srv!HandleSbrk, Pc!HandleSbrk

LEMMA SameHandleReset ==
  Srv!HandleReset <=> Pc!HandleReset
BY SameServing, SameRequest, SameMmInit DEF Srv!HandleReset, Pc!HandleReset

LEMMA SameHandleEnd ==
  Srv!HandleEnd <=> Pc!HandleEnd
BY SameServing, SameRequest, SameMmInit DEF Srv!HandleEnd, Pc!HandleEnd


-----------------------------------------------------------------------------
(* The assumptions of PcHeap hold of the server.                           *)

LEMMA HighestTyped == Highest \in Nat /\ Highest - Base \in Nat
<1>1. \E t \in StackTops : \A sp \in StackTops : sp <= t
  BY StackAssumption
<1>2. Highest \in StackTops
  BY <1>1 DEF Highest
<1> QED
  BY <1>2, StackAssumption, HeapAssumption

LEMMA ServerAssumptions ==
  /\ Srv!NodeAssumption /\ Srv!BaseAssumption /\ Srv!SizeAssumption
  /\ Srv!PolicyAssumption /\ Srv!InputAssumption /\ Srv!LegalClient
BY HeapAssumption, HighestTyped
   DEF Srv!NodeAssumption, Srv!BaseAssumption, Srv!SizeAssumption,
       Srv!PolicyAssumption, Srv!InputAssumption, Srv!LegalClient

(* What the client may hold: the regions of the server.                    *)
Sound == Srv!IInv /\ Srv!Rounded(heap)

Regions == Srv!Regions

(* First bytes of the regions.                                             *)
Begins == {r.lo : r \in Regions}

LEMMA BeginsAre == Begins = {heap.ptr[b] : b \in Srv!Allocated(heap)}
<1> DEFINE F(b) == [lo |-> heap.ptr[b], len |-> heap.size[b]]
<1>1. Regions = {F(b) : b \in Srv!Allocated(heap)}
  BY DEF Regions, Srv!Regions
<1>2. \A b : F(b).lo = heap.ptr[b]
  OBVIOUS
<1> HIDE DEF F
<1> QED
  BY <1>1, <1>2 DEF Begins

LEMMA Passable ==
  ASSUME NEW p, p = 0 \/ p \in Begins
  PROVE  p \in Srv!ClientPtrs
BY BeginsAre DEF Srv!ClientPtrs

LEMMA RegionsTyped ==
  ASSUME Sound, Srv!Serving, NEW r \in Regions
  PROVE  r.lo \in Nat \ {0} /\ r.len \in Nat \ {0}
<1>1. r \in Srv!Regions
  BY DEF Regions
<1> QED
  BY <1>1, Srv!RegionFacts, ServerAssumptions DEF Sound

LEMMA MallocRun ==
  ASSUME Sound, NEW size \in Nat, Pc!HandleMalloc(size)
  PROVE  /\ Sound'
         /\ \/ reply' = << 0 >> /\ Regions' = Regions
            \/ \E lo \in Nat \ {0}, len \in Nat :
                  /\ size <= len /\ reply' = <<lo>>
                  /\ Regions' = Regions \cup {[lo |-> lo, len |-> len]}
                  /\ lo \notin Begins
BY Srv!MallocServed, SameHandleMalloc, ServerAssumptions DEF Sound, Regions, Begins

LEMMA FreeRun ==
  ASSUME Sound, NEW p, p = 0 \/ p \in Begins, Pc!HandleFree(p)
  PROVE  /\ Sound' /\ reply' = << >>
         /\ Regions' = {r \in Regions : r.lo # p}
<1>1. p \in Srv!ClientPtrs /\ Srv!HandleFree(p)
  BY Passable, SameHandleFree
<1> QED
  BY <1>1, Srv!FreeServed, ServerAssumptions DEF Sound, Regions

LEMMA ReallocRun ==
  ASSUME Sound, NEW p \in Begins, NEW size \in Nat \ {0}, Pc!HandleRealloc(p, size)
  PROVE  /\ Sound'
         /\ \/ /\ reply' = << 0 >> /\ Regions' = Regions
               /\ \A r \in Regions : r.lo = p => r.len < size
            \/ \E len \in Nat :
                  /\ size <= len /\ reply' = <<p>>
                  /\ Regions' = {r \in Regions : r.lo # p}
                                \cup {[lo |-> p, len |-> len]}
<1>1. p \in Srv!ClientPtrs /\ Srv!HandleRealloc(p, size)
  BY Passable, SameHandleRealloc
<1> QED
  BY <1>1, Srv!ReallocServed, ServerAssumptions DEF Sound, Regions

LEMMA SbrkRun ==
  ASSUME Sound, NEW incr \in Nat \ {0}, Pc!HandleSbrk(incr)
  PROVE  Sound' /\ reply' = << >> /\ Regions' = Regions
BY Srv!SbrkServed, SameHandleSbrk, ServerAssumptions DEF Sound, Regions

(* A server with a block has not ended.                                    *)
LEMMA RegionsServe ==
  ASSUME Sound', Regions' # {}
  PROVE  Pc!Serving'
<1>1. ~ Srv!Serving' => heap'.live = {}
  BY DEF Sound, Srv!IInv
<1>2. heap'.live = {} => Regions' = {}
  BY DEF Regions, Srv!Regions, Srv!Allocated
<1> QED
  BY <1>1, <1>2 DEF Srv!Serving, Pc!Serving

LEMMA EmptyRun ==
  ASSUME Sound, Pc!HandleReset \/ Pc!HandleEnd
  PROVE  /\ Sound' /\ reply' = << >> /\ Regions' = {}
         /\ Pc!HandleEnd => ~ Pc!Serving'
<1>1. Srv!HandleReset \/ Srv!HandleEnd
  BY SameHandleReset, SameHandleEnd
<1>2. /\ Sound' /\ reply' = << >> /\ Regions' = {}
      /\ Srv!HandleEnd => ~ Srv!Serving'
  BY <1>1, Srv!EmptyServed, ServerAssumptions DEF Sound, Regions
<1>3. Srv!Serving' <=> Pc!Serving'
  BY DEF Srv!Serving, Pc!Serving
<1> QED
  BY <1>2, <1>3, SameHandleEnd

LEMMA StartRun ==
  ASSUME heap' = Pc!EmptyHeap(Base), mem_start_brk' = Base, mem_brk' = Base,
         req_in' \in Pc!RequestType, reply' \in Seq(Nat), Len(reply') <= 1
  PROVE  Sound' /\ Pc!Serving' /\ Regions' = {}
<1>1. heap' = Srv!EmptyHeap(Base) /\ req_in' \in Srv!RequestType
  BY SameEmptyHeap DEF Srv!RequestType, Pc!RequestType
<1>2. Srv!Serving' <=> Pc!Serving'
  BY DEF Srv!Serving, Pc!Serving
<1> QED
  BY <1>1, <1>2, Srv!EmptyHeapBooks, ServerAssumptions DEF Sound, Regions
-----------------------------------------------------------------------------
(* The inductive invariant.                                                *)

ResetRequest == Request("SBRK", 0, Base)

Resetting == \E i \in 1 .. Len(toPC) : toPC[i] = ResetRequest

Waiting == call.at \in {"asked", "resent", "resizing"}

(* The request whose answer the call waits for.                            *)
Expected ==
  IF call.at = "resizing" THEN Request("REALLOC", call.size, call.old)
  ELSE Request("MALLOC", call.size, 0)

(* The server keeps the books of the heap the program has now.             *)
Present == server = "loop" /\ ~ Resetting /\ call.at # "done"

HeldPtrs == {r.ptr : r \in held}

Freeing(i) == toPC[i].request = "FREE" /\ toPC[i].ptr # 0

TypeInv ==
  /\ server \in {"start", "first", "loop", "exited"}
  /\ toPC \in Seq(Pc!RequestType) /\ toMCU \in Seq(Nat) /\ brk \in Nat
  /\ call \in [at   : {"boot", "idle", "asked", "resent", "resizing", "done"},
               size : Nat, old : Nat]
  /\ held \in SUBSET [ptr : Nat \ {0}, size : Nat]

(* Until the first request is served the server's heap is empty, and that  *)
(* request is a reset.                                                     *)
BootInv ==
  /\ server # "exited" => Pc!Serving
  /\ server \in {"start", "first"} => Regions = {}
  /\ call.at = "boot" =>
       /\ server \in {"start", "first"} /\ toPC = << >> /\ held = {}
       /\ toMCU = IF server = "start" THEN << >> ELSE <<1>>
  /\ call.at # "boot" =>
       /\ server # "start"
       /\ server = "first" => toPC # << >> /\ toPC[1] = ResetRequest

(* At most one word is under way, then no request is; a request that will  *)
(* be answered is the last one under way and the one the call waits for.   *)
ReplyInv ==
  call.at # "boot" =>
    /\ Len(toMCU) <= 1
    /\ toMCU # << >> => toPC = << >> /\ Waiting
    /\ \A i \in 1 .. Len(toPC) :
         Answered(toPC[i]) => i = Len(toPC) /\ Waiting /\ toPC[i] = Expected
    /\ Waiting /\ toMCU = << >> => toPC # << >> /\ Answered(toPC[Len(toPC)])

(* What is given back is not held, not given back twice, and still a       *)
(* block when its free is served: no reset comes before.                   *)
FreeInv ==
  \A i \in 1 .. Len(toPC) : Freeing(i) =>
    /\ toPC[i].ptr \notin HeldPtrs
    /\ \A j \in 1 .. i - 1 : toPC[j] # ResetRequest
    /\ \A j \in 1 .. Len(toPC) : Freeing(j) /\ toPC[j].ptr = toPC[i].ptr => j = i
    /\ server = "loop" => toPC[i].ptr \in Begins

(* The answer under way says that the old block has the new size.          *)
InPlace == call.at = "resizing" /\ toMCU # << >> /\ toMCU[1] # 0

(* Bytes of a piece that the server's block has for sure.                  *)
Kept(r) == IF InPlace /\ r.ptr = call.old THEN call.size ELSE r.size

(* Nothing is held across a reset, and what is held is backed.             *)
HeldInv ==
  /\ Resetting => held = {}
  /\ call.old # 0 => Waiting /\ call.old \in HeldPtrs
  /\ call.at = "resizing" => call.old # 0 /\ call.size # 0
  /\ Present => \A r \in held : \E g \in Regions :
                    g.lo = r.ptr /\ Kept(r) <= g.len

(* The session is over for the server, or it will be told so.              *)
EndInv ==
  call.at = "done" =>
    server = "exited" \/ \E i \in 1 .. Len(toPC) : toPC[i] = EndRequest

(* The word under way grants a region for the call, or is a refusal.       *)
WordInv ==
  call.at # "boot" /\ toMCU # << >> /\ toMCU[1] # 0 =>
    /\ server = "loop"
    /\ \E g \in Regions : g.lo = toMCU[1] /\ call.size <= g.len
    /\ IF call.at = "resizing" THEN toMCU[1] = call.old ELSE toMCU[1] \notin HeldPtrs

(* Every request with a size of 0 for the break is a reset or the end.     *)
ResetInv ==
  \A i \in 1 .. Len(toPC) :
    toPC[i].request = "SBRK" => toPC[i].ptr = 0 \/ toPC[i] = ResetRequest

LeakInv ==
  Present => \A q \in Begins :
    \/ q \in HeldPtrs
    \/ toMCU # << >> /\ toMCU[1] = q
    \/ \E i \in 1 .. Len(toPC) : Freeing(i) /\ toPC[i].ptr = q

Inv == /\ Sound /\ TypeInv /\ BootInv /\ ReplyInv
       /\ FreeInv /\ HeldInv /\ EndInv /\ WordInv /\ ResetInv /\ LeakInv

-----------------------------------------------------------------------------
(* Sequences of messages.                                                  *)

LEMMA Appended ==
  ASSUME NEW S, NEW s \in Seq(S), NEW e \in S
  PROVE  LET t == Append(s, e) IN
         /\ t \in Seq(S) /\ t # << >> /\ Len(t) = Len(s) + 1 /\ Len(s) \in Nat
         /\ t[Len(s) + 1] = e /\ \A i \in 1 .. Len(s) : t[i] = s[i]
OBVIOUS

LEMMA Shifted ==
  ASSUME NEW S, NEW s \in Seq(S), s # << >>
  PROVE  LET t == Tail(s) IN
         /\ t \in Seq(S) /\ Len(t) = Len(s) - 1 /\ Len(s) \in Nat \ {0}
         /\ Head(s) = s[1] /\ s[1] \in S /\ \A i \in 1 .. Len(t) : t[i] = s[i + 1]
OBVIOUS

LEMMA OnlyOne ==
  ASSUME NEW S, NEW s \in Seq(S), s # << >>, Len(s) <= 1
  PROVE  /\ Len(s) = 1 /\ s[1] \in S /\ Head(s) = s[1]
         /\ Tail(s) = << >> /\ s = <<s[1]>>
<1> DEFINE t == Tail(s)
<1>0. /\ t \in Seq(S) /\ Len(t) = Len(s) - 1 /\ Len(s) \in Nat \ {0}
      /\ Head(s) = s[1] /\ s[1] \in S
  BY Shifted
<1> HIDE DEF t
<1>1. Len(s) = 1 /\ s[1] \in S /\ Head(s) = s[1] /\ t \in Seq(S) /\ Len(t) = 0
  BY <1>0
<1>2. \A e \in Seq(S) : Len(e) = 0 => e = << >>
  OBVIOUS
<1>3. Tail(s) = << >>
  BY <1>1, <1>2 DEF t
<1>4. s = <<s[1]>>
  BY <1>1, <1>2
<1> QED
  BY <1>1, <1>2, <1>3, <1>4

LEMMA Requested ==
  ASSUME NEW name \in {"MALLOC", "FREE", "REALLOC", "SBRK"},
         NEW size \in Nat, NEW ptr \in Nat
  PROVE  /\ Request(name, size, ptr) \in Pc!RequestType
         /\ Request(name, size, ptr).request = name
         /\ Request(name, size, ptr).size = size /\ Request(name, size, ptr).ptr = ptr
BY DEF Request, Pc!Request, Pc!RequestType

-----------------------------------------------------------------------------
(* Steps that leave the server alone.                                      *)

LEMMA ServerKept ==
  ASSUME Sound, UNCHANGED pcVars
  PROVE  /\ Sound' /\ Regions' = Regions /\ Begins' = Begins
         /\ Pc!Serving' = Pc!Serving
<1>1. Srv!IInv'
  BY Srv!StutterIInv, ServerAssumptions DEF Sound, pcVars, Srv!vars
<1>2. Srv!Rounded(heap')
  BY DEF Sound, pcVars
<1>3. Regions' = Regions
  BY DEF Regions, Srv!Regions, Srv!Allocated, pcVars
<1>4. Begins' = Begins
  BY <1>3 DEF Begins
<1>5. Pc!Serving' = Pc!Serving
  BY DEF Pc!Serving, pcVars
<1> QED
  BY <1>1, <1>2, <1>3, <1>4, <1>5 DEF Sound

LEMMA StartSignalInv ==
  ASSUME Inv, StartSignal
  PROVE  Inv'
<1>1. /\ server = "start" /\ server' = "first" /\ toMCU' = Append(toMCU, 1)
      /\ UNCHANGED <<pcVars, toPC, mcuVars>> /\ UNCHANGED <<brk, call, held>>
  BY DEF StartSignal, mcuVars
<1>2. /\ Sound' /\ Regions' = Regions /\ Begins' = Begins
      /\ Pc!Serving' = Pc!Serving
  BY <1>1, ServerKept DEF Inv
<1>3. call.at = "boot" /\ toMCU = << >> /\ toPC = << >> /\ held = {}
  BY <1>1 DEF Inv, BootInv
<1>4. toMCU' = <<1>>
  BY <1>1, <1>3
<1>5. TypeInv'
  BY <1>1, <1>4 DEF Inv, TypeInv
<1>6. BootInv'
  BY <1>1, <1>2, <1>3, <1>4 DEF Inv, BootInv
<1>7. ReplyInv' /\ EndInv' /\ WordInv' /\ LeakInv'
  BY <1>1, <1>3 DEF ReplyInv, EndInv, WordInv, LeakInv, Present
<1>8. FreeInv' /\ HeldInv'
  BY <1>1, <1>2, <1>3
  DEF Inv, FreeInv, HeldInv, Freeing, Resetting, Waiting, HeldPtrs, Present
<1>9. ResetInv'
  BY <1>1, <1>3 DEF ResetInv
<1> QED
  BY <1>2, <1>5, <1>6, <1>7, <1>8, <1>9 DEF Inv

LEMMA CallFreeInv ==
  ASSUME Inv, NEW p \in HeldPtrs \cup {0}, CallFree(p)
  PROVE  Inv'
<1> DEFINE req == Request("FREE", 0, p)
           n   == Len(toPC) + 1
<1>1. /\ call.at = "idle" /\ toPC' = Append(toPC, req)
      /\ held' = {r \in held : r.ptr # p}
      /\ UNCHANGED <<pcVars, server, toMCU, brk, call>>
  BY DEF CallFree, Ready, Send
<1>2. /\ Sound' /\ Regions' = Regions /\ Begins' = Begins
      /\ Pc!Serving' = Pc!Serving
  BY <1>1, ServerKept DEF Inv
<1>3. p \in Nat /\ toPC \in Seq(Pc!RequestType)
  BY DEF Inv, TypeInv, HeldPtrs
<1>4. /\ req \in Pc!RequestType /\ req.request = "FREE" /\ req.ptr = p
      /\ ~ Answered(req) /\ req # ResetRequest
  BY <1>3, Requested DEF Answered, ResetRequest, Request, Pc!Request
<1> HIDE DEF req
<1>5. /\ toPC' \in Seq(Pc!RequestType) /\ toPC' # << >> /\ Len(toPC') = n
      /\ n \in Nat /\ Len(toPC) \in Nat
      /\ toPC'[n] = req /\ \A i \in 1 .. Len(toPC) : toPC'[i] = toPC[i]
  BY <1>1, <1>3, <1>4, Appended
<1>6. /\ HeldPtrs' = HeldPtrs \ {p} /\ call.old = 0 /\ ~ Waiting /\ ~ Waiting'
      /\ toMCU = << >>
  BY <1>1 DEF HeldPtrs, Inv, HeldInv, Waiting, ReplyInv
<1>7. TypeInv' /\ BootInv'
  BY <1>1, <1>2, <1>3, <1>5 DEF Inv, TypeInv, BootInv
<1>8. ReplyInv'
  BY <1>1, <1>4, <1>5, <1>6 DEF Inv, ReplyInv, Waiting, Expected
<1>9. Resetting' <=> Resetting
  BY <1>4, <1>5 DEF Resetting, ResetRequest
<1>10. /\ Present' <=> Present
       /\ p # 0 /\ server = "loop" => Present
  BY <1>1, <1>9 DEF Present, Inv, HeldInv, HeldPtrs
<1>11. \A i \in 1 .. n - 1 : /\ Freeing(i)' <=> Freeing(i)
                             /\ toPC'[i] = toPC[i] /\ i \in 1 .. Len(toPC)
  BY <1>5 DEF Freeing
<1>12. FreeInv'
  <2> SUFFICES ASSUME NEW i \in 1 .. n, Freeing(i)'
               PROVE  /\ toPC'[i].ptr \notin HeldPtrs'
                      /\ \A j \in 1 .. i - 1 : toPC'[j] # ResetRequest
                      /\ \A j \in 1 .. n : Freeing(j)' /\ toPC'[j].ptr = toPC'[i].ptr => j = i
                      /\ server' = "loop" => toPC'[i].ptr \in Begins'
    BY <1>5 DEF FreeInv, ResetRequest
  <2>1. \A k \in 1 .. n - 1 : Freeing(k) => toPC[k].ptr # p
    BY <1>4, <1>5 DEF Inv, FreeInv, Freeing
  <2>2. p # 0 /\ server = "loop" => p \in Begins
    BY <1>10 DEF Inv, HeldInv, HeldPtrs, Begins
  <2>3. CASE i = n
    <3>1. p # 0 /\ toPC'[i].ptr = p
      BY <1>4, <1>5, <2>3 DEF Freeing
    <3>2. \A k \in 1 .. n - 1 : toPC[k] # ResetRequest
      BY <3>1, <1>5 DEF Inv, HeldInv, HeldPtrs, Resetting
    <3> QED
      BY <1>1, <1>2, <1>5, <1>6, <1>11, <2>1, <2>2, <2>3, <3>1, <3>2
  <2>4. CASE i # n
    <3>1. i \in 1 .. n - 1 /\ i \in 1 .. Len(toPC) /\ Freeing(i) /\ toPC'[i] = toPC[i]
      BY <1>5, <1>11, <2>4
    <3>2. /\ toPC[i].ptr \notin HeldPtrs
          /\ \A j \in 1 .. i - 1 : toPC[j] # ResetRequest
          /\ \A j \in 1 .. Len(toPC) : Freeing(j) /\ toPC[j].ptr = toPC[i].ptr => j = i
          /\ server = "loop" => toPC[i].ptr \in Begins
      BY <3>1 DEF Inv, FreeInv
    <3> QED
      BY <1>1, <1>2, <1>4, <1>5, <1>6, <1>11, <2>1, <3>1, <3>2
  <2> QED
    BY <2>3, <2>4
<1>13. HeldInv' /\ EndInv'
  BY <1>1, <1>2, <1>6, <1>9, <1>10 DEF Inv, HeldInv, EndInv, Kept, InPlace
<1>14. WordInv' /\ LeakInv'
  <2>1. WordInv'
    BY <1>1, <1>6 DEF WordInv
  <2>2. ASSUME Present', NEW q \in Begins'
        PROVE  q \in HeldPtrs' \/ \E i \in 1 .. n : Freeing(i)' /\ toPC'[i].ptr = q
    <3>1. q \in HeldPtrs \/ \E i \in 1 .. Len(toPC) : Freeing(i) /\ toPC[i].ptr = q
      BY <1>2, <1>6, <1>10, <2>2 DEF Inv, LeakInv
    <3>2. CASE \E i \in 1 .. Len(toPC) : Freeing(i) /\ toPC[i].ptr = q
      BY <1>5, <1>11, <3>2
    <3>3. CASE q \in HeldPtrs /\ q # p
      BY <1>6, <3>3
    <3>4. CASE q = p
      <4>1. q # 0
        BY <1>10, <1>2, <2>2, RegionsTyped, SameServing DEF Inv, BootInv, Present, Begins
      <4> QED
        BY <1>4, <1>5, <3>4, <4>1 DEF Freeing
    <3> QED
      BY <3>1, <3>2, <3>3, <3>4
  <2> QED
    BY <1>5, <2>1, <2>2 DEF LeakInv
<1>15. ResetInv'
  BY <1>4, <1>5 DEF Inv, ResetInv, ResetRequest
<1> QED
  BY <1>2, <1>7, <1>8, <1>12, <1>13, <1>14, <1>15 DEF Inv

(* Requests other than frees disturb none of the frees under way.          *)
LEMMA FreesKept ==
  ASSUME FreeInv, Len(toPC) \in Nat, Len(toPC') \in Nat, Len(toPC) <= Len(toPC'),
         \A i \in 1 .. Len(toPC) : toPC'[i] = toPC[i],
         \A i \in Len(toPC) + 1 .. Len(toPC') : toPC'[i].request # "FREE",
         HeldPtrs' \subseteq HeldPtrs, Begins' = Begins, server' = server
  PROVE  FreeInv'
<1> SUFFICES ASSUME NEW i \in 1 .. Len(toPC'), Freeing(i)'
             PROVE  /\ toPC'[i].ptr \notin HeldPtrs'
                    /\ \A j \in 1 .. i - 1 : toPC'[j] # ResetRequest
                    /\ \A j \in 1 .. Len(toPC') :
                         Freeing(j)' /\ toPC'[j].ptr = toPC'[i].ptr => j = i
                    /\ server' = "loop" => toPC'[i].ptr \in Begins'
  BY DEF FreeInv, ResetRequest
<1>1. \A j \in 1 .. Len(toPC') : Freeing(j)' => j \in 1 .. Len(toPC) /\ Freeing(j)
  BY DEF Freeing
<1>2. i \in 1 .. Len(toPC) /\ Freeing(i)
  BY <1>1
<1>3. /\ toPC[i].ptr \notin HeldPtrs
      /\ \A j \in 1 .. i - 1 : toPC[j] # ResetRequest
      /\ \A j \in 1 .. Len(toPC) : Freeing(j) /\ toPC[j].ptr = toPC[i].ptr => j = i
      /\ server = "loop" => toPC[i].ptr \in Begins
  BY <1>2 DEF FreeInv
<1> QED
  BY <1>1, <1>2, <1>3

LEMMA CallMallocInv ==
  ASSUME Inv, NEW size \in Sizes, CallMalloc(size)
  PROVE  Inv'
<1> DEFINE req == Request("MALLOC", size, 0)
           n   == Len(toPC) + 1
<1>1. /\ call.at = "idle" /\ toPC' = Append(toPC, req)
      /\ call' = [at |-> "asked", size |-> size, old |-> 0]
      /\ UNCHANGED <<pcVars, server, toMCU, brk, held>>
  BY DEF CallMalloc, Ready, Send, Await
<1>2. /\ Sound' /\ Regions' = Regions /\ Begins' = Begins
      /\ Pc!Serving' = Pc!Serving
  BY <1>1, ServerKept DEF Inv
<1>3. size \in Nat /\ toPC \in Seq(Pc!RequestType)
  BY HeapAssumption DEF Inv, TypeInv
<1>4. /\ req \in Pc!RequestType /\ req.request = "MALLOC"
      /\ Answered(req) /\ req # ResetRequest /\ req = Expected'
  BY <1>1, <1>3, Requested DEF Answered, Expected, ResetRequest, Request, Pc!Request
<1> HIDE DEF req
<1>5. /\ toPC' \in Seq(Pc!RequestType) /\ toPC' # << >> /\ Len(toPC') = n
      /\ n \in Nat /\ Len(toPC) \in Nat
      /\ toPC'[n] = req /\ \A i \in 1 .. Len(toPC) : toPC'[i] = toPC[i]
  BY <1>1, <1>3, <1>4, Appended
<1>6. /\ HeldPtrs' = HeldPtrs /\ call.old = 0 /\ ~ Waiting /\ Waiting'
      /\ toMCU = << >>
  BY <1>1 DEF HeldPtrs, Inv, HeldInv, Waiting, ReplyInv
<1>7. TypeInv' /\ BootInv'
  BY <1>1, <1>2, <1>3, <1>5 DEF Inv, TypeInv, BootInv
<1>8. ReplyInv'
  <2>1. \A i \in 1 .. Len(toPC) : ~ Answered(toPC[i])
    BY <1>1, <1>6 DEF Inv, ReplyInv
  <2>2. \A i \in 1 .. n : Answered(toPC'[i]) => i = n
    BY <1>5, <2>1
  <2> QED
    BY <1>1, <1>4, <1>5, <1>6, <2>2 DEF ReplyInv
<1>9. Resetting' <=> Resetting
  BY <1>4, <1>5 DEF Resetting, ResetRequest
<1>10. Present' <=> Present
  BY <1>1, <1>9 DEF Present
<1>11. FreeInv'
  BY <1>1, <1>2, <1>4, <1>5, <1>6, FreesKept DEF Inv
<1>12. \A r \in held : Kept(r)' = r.size /\ Kept(r) = r.size
  BY <1>1, <1>6 DEF Kept, InPlace
<1>13. HeldInv' /\ EndInv'
  BY <1>1, <1>2, <1>6, <1>9, <1>10, <1>12 DEF Inv, HeldInv, EndInv
<1>14. WordInv'
  BY <1>1, <1>6 DEF WordInv
<1>15. LeakInv'
  <2>1. \A i \in 1 .. Len(toPC) : Freeing(i) => Freeing(i)'
    BY <1>5 DEF Freeing
  <2> QED
    BY <1>1, <1>2, <1>5, <1>6, <1>10, <2>1 DEF Inv, LeakInv
<1>16. ResetInv'
  BY <1>4, <1>5 DEF Inv, ResetInv, ResetRequest
<1> QED
  BY <1>2, <1>7, <1>8, <1>11, <1>13, <1>14, <1>15, <1>16 DEF Inv

LEMMA CallReallocInv ==
  ASSUME Inv, NEW p \in HeldPtrs, NEW size \in Sizes, CallRealloc(p, size)
  PROVE  Inv'
<1> DEFINE req == Request("REALLOC", size, p)
           n   == Len(toPC) + 1
<1>1. /\ call.at = "idle" /\ toPC' = Append(toPC, req) /\ p # 0 /\ size # 0
      /\ call' = [at |-> "resizing", size |-> size, old |-> p]
      /\ UNCHANGED <<pcVars, server, toMCU, brk, held>>
  BY DEF CallRealloc, Ready, Send, Await
<1>2. /\ Sound' /\ Regions' = Regions /\ Begins' = Begins
      /\ Pc!Serving' = Pc!Serving
  BY <1>1, ServerKept DEF Inv
<1>3. size \in Nat /\ p \in Nat /\ toPC \in Seq(Pc!RequestType)
  BY HeapAssumption DEF Inv, TypeInv, HeldPtrs
<1>4. /\ req \in Pc!RequestType /\ req.request = "REALLOC"
      /\ Answered(req) /\ req # ResetRequest /\ req = Expected'
  BY <1>1, <1>3, Requested DEF Answered, Expected, ResetRequest, Request, Pc!Request
<1> HIDE DEF req
<1>5. /\ toPC' \in Seq(Pc!RequestType) /\ toPC' # << >> /\ Len(toPC') = n
      /\ n \in Nat /\ Len(toPC) \in Nat
      /\ toPC'[n] = req /\ \A i \in 1 .. Len(toPC) : toPC'[i] = toPC[i]
  BY <1>1, <1>3, <1>4, Appended
<1>6. /\ HeldPtrs' = HeldPtrs /\ call.old = 0 /\ ~ Waiting /\ Waiting'
      /\ toMCU = << >>
  BY <1>1 DEF HeldPtrs, Inv, HeldInv, Waiting, ReplyInv
<1>7. TypeInv' /\ BootInv'
  BY <1>1, <1>2, <1>3, <1>5 DEF Inv, TypeInv, BootInv
<1>8. ReplyInv'
  <2>1. \A i \in 1 .. Len(toPC) : ~ Answered(toPC[i])
    BY <1>1, <1>6 DEF Inv, ReplyInv
  <2>2. \A i \in 1 .. n : Answered(toPC'[i]) => i = n
    BY <1>5, <2>1
  <2> QED
    BY <1>1, <1>4, <1>5, <1>6, <2>2 DEF ReplyInv
<1>9. Resetting' <=> Resetting
  BY <1>4, <1>5 DEF Resetting, ResetRequest
<1>10. Present' <=> Present
  BY <1>1, <1>9 DEF Present
<1>11. FreeInv'
  BY <1>1, <1>2, <1>4, <1>5, <1>6, FreesKept DEF Inv
<1>12. \A r \in held : Kept(r)' = r.size /\ Kept(r) = r.size
  BY <1>1, <1>6 DEF Kept, InPlace
<1>13. HeldInv'
  BY <1>1, <1>2, <1>6, <1>9, <1>10, <1>12 DEF Inv, HeldInv
<1>14. WordInv' /\ EndInv'
  BY <1>1, <1>6 DEF WordInv, EndInv
<1>15. LeakInv'
  <2>1. \A i \in 1 .. Len(toPC) : Freeing(i) => Freeing(i)'
    BY <1>5 DEF Freeing
  <2> QED
    BY <1>1, <1>2, <1>5, <1>6, <1>10, <2>1 DEF Inv, LeakInv
<1>16. ResetInv'
  BY <1>4, <1>5 DEF Inv, ResetInv, ResetRequest
<1> QED
  BY <1>2, <1>7, <1>8, <1>11, <1>13, <1>14, <1>15, <1>16 DEF Inv

LEMMA ResetRequested ==
  /\ ResetRequest \in Pc!RequestType /\ ResetRequest.request = "SBRK"
  /\ ~ Answered(ResetRequest)
  /\ EndRequest \in Pc!RequestType /\ EndRequest.request = "SBRK"
  /\ ~ Answered(EndRequest) /\ EndRequest # ResetRequest /\ EndRequest.ptr = 0
BY HeapAssumption, Requested DEF Answered, ResetRequest, EndRequest, Request, Pc!Request

LEMMA CallResetInv ==
  ASSUME Inv, CallReset
  PROVE  Inv'
<1> DEFINE n == Len(toPC) + 1
<1>1. /\ call.at = "idle" /\ toPC' = Append(toPC, ResetRequest) /\ brk' = Base
      /\ held' = {} /\ UNCHANGED <<pcVars, server, toMCU, call>>
  BY DEF CallReset, Ready, Send, ResetRequest
<1>2. /\ Sound' /\ Regions' = Regions /\ Begins' = Begins
      /\ Pc!Serving' = Pc!Serving
  BY <1>1, ServerKept DEF Inv
<1>3. toPC \in Seq(Pc!RequestType)
  BY DEF Inv, TypeInv
<1>4. /\ toPC' \in Seq(Pc!RequestType) /\ toPC' # << >> /\ Len(toPC') = n
      /\ n \in Nat /\ Len(toPC) \in Nat
      /\ toPC'[n] = ResetRequest /\ \A i \in 1 .. Len(toPC) : toPC'[i] = toPC[i]
  BY <1>1, <1>3, ResetRequested, Appended
<1>5. /\ HeldPtrs' = {} /\ call.old = 0 /\ ~ Waiting /\ ~ Waiting' /\ toMCU = << >>
  BY <1>1 DEF HeldPtrs, Inv, HeldInv, Waiting, ReplyInv
<1>6. TypeInv' /\ BootInv'
  BY <1>1, <1>2, <1>3, <1>4, HeapAssumption DEF Inv, TypeInv, BootInv, ResetRequest
<1>7. ReplyInv'
  BY <1>1, <1>4, <1>5, ResetRequested DEF Inv, ReplyInv, Waiting
<1>8. FreeInv'
  BY <1>1, <1>2, <1>4, <1>5, ResetRequested, FreesKept DEF Inv
<1>9. Resetting' /\ ~ Present'
  BY <1>4 DEF Resetting, Present, ResetRequest
<1>10. HeldInv' /\ EndInv' /\ WordInv' /\ LeakInv'
  BY <1>1, <1>5, <1>9 DEF HeldInv, EndInv, WordInv, LeakInv
<1>11. ResetInv'
  BY <1>4 DEF Inv, ResetInv, ResetRequest
<1> QED
  BY <1>2, <1>6, <1>7, <1>8, <1>10, <1>11 DEF Inv

LEMMA CallFinishInv ==
  ASSUME Inv, CallFinish
  PROVE  Inv'
<1> DEFINE n == Len(toPC) + 1
<1>1. /\ call.at = "idle" /\ toPC' = Append(toPC, EndRequest)
      /\ call' = [at |-> "done", size |-> 0, old |-> 0]
      /\ UNCHANGED <<pcVars, server, toMCU, brk, held>>
  BY DEF CallFinish, Ready, Send, Done
<1>2. /\ Sound' /\ Regions' = Regions /\ Begins' = Begins
      /\ Pc!Serving' = Pc!Serving
  BY <1>1, ServerKept DEF Inv
<1>3. toPC \in Seq(Pc!RequestType)
  BY DEF Inv, TypeInv
<1>4. /\ toPC' \in Seq(Pc!RequestType) /\ toPC' # << >> /\ Len(toPC') = n
      /\ n \in Nat /\ Len(toPC) \in Nat
      /\ toPC'[n] = EndRequest /\ \A i \in 1 .. Len(toPC) : toPC'[i] = toPC[i]
  BY <1>1, <1>3, ResetRequested, Appended
<1>5. /\ HeldPtrs' = HeldPtrs /\ ~ Waiting /\ ~ Waiting' /\ toMCU = << >>
  BY <1>1 DEF HeldPtrs, Inv, Waiting, ReplyInv
<1>6. TypeInv' /\ BootInv'
  BY <1>1, <1>2, <1>3, <1>4 DEF Inv, TypeInv, BootInv
<1>7. ReplyInv'
  BY <1>1, <1>4, <1>5, ResetRequested DEF Inv, ReplyInv, Waiting
<1>8. FreeInv'
  BY <1>1, <1>2, <1>4, <1>5, ResetRequested, FreesKept DEF Inv
<1>9. (Resetting' => Resetting) /\ ~ Present'
  BY <1>1, <1>4, ResetRequested DEF Resetting, Present, ResetRequest
<1>10. HeldInv' /\ WordInv' /\ LeakInv'
  BY <1>1, <1>5, <1>9 DEF Inv, HeldInv, WordInv, LeakInv
<1>11. EndInv'
  BY <1>4 DEF EndInv
<1>12. ResetInv'
  BY <1>4, ResetRequested DEF Inv, ResetInv, ResetRequest
<1> QED
  BY <1>2, <1>6, <1>7, <1>8, <1>10, <1>11, <1>12 DEF Inv

-----------------------------------------------------------------------------
(* Extensions of the heap.                                                 *)

LEMMA ExtensionTyped ==
  ASSUME NEW bytes \in Nat
  PROVE  Extension(bytes) \in Nat
<1> DEFINE words == bytes \div WSIZE
<1>1. WSIZE \in Nat \ {0}
  BY WordAssumption
<1>2. words \in Nat
  BY <1>1
<1> HIDE DEF words
<1>3. (words + 1) * WSIZE \in Nat /\ words * WSIZE \in Nat
  BY <1>1, <1>2
<1> QED
  BY <1>3 DEF Extension, words

LEMMA ExtendSizeTyped ==
  ASSUME NEW size \in Nat
  PROVE  ExtendSize(size) \in Nat
<1> DEFINE words == (size + WSIZE + (WSIZE - 1)) \div WSIZE
<1>1. WSIZE \in Nat \ {0} /\ CHUNKSIZE \in Nat
  BY WordAssumption
<1>2. words \in Nat
  BY <1>1
<1> HIDE DEF words
<1>3. WSIZE * words \in Nat
  BY <1>1, <1>2
<1>4. McuAsize(size) \in Nat
  BY <1>1, <1>3 DEF McuAsize, words
<1> QED
  BY <1>1, <1>4 DEF ExtendSize

LEMMA BootStepInv ==
  ASSUME Inv, Boot
  PROVE  Inv'
<1> DEFINE ext == Request("SBRK", Extension(CHUNKSIZE), 0)
<1>1. /\ call.at = "boot" /\ toMCU # << >> /\ toMCU' = Tail(toMCU)
      /\ UNCHANGED <<pcVars, server, held>>
  BY DEF Boot
<1>2. /\ Sound' /\ Regions' = Regions /\ Begins' = Begins
      /\ Pc!Serving' = Pc!Serving
  BY <1>1, ServerKept DEF Inv
<1>3. server = "first" /\ toMCU = <<1>> /\ toPC = << >> /\ held = {}
  BY <1>1 DEF Inv, BootInv
<1>4. /\ call' = [at |-> "idle", size |-> 0, old |-> 0]
      /\ \/ toPC' = <<ResetRequest>> /\ brk' = brk
         \/ toPC' = <<ResetRequest, ext>> /\ brk' = brk + Extension(CHUNKSIZE)
  BY <1>3 DEF Boot, Idle, ResetRequest
<1>5. brk \in Nat /\ Extension(CHUNKSIZE) \in Nat
  BY ExtensionTyped, WordAssumption DEF Inv, TypeInv
<1>6. ext \in Pc!RequestType /\ ext.request = "SBRK" /\ ~ Answered(ext)
      /\ ext.ptr = 0
  BY <1>5, Requested DEF Answered
<1> HIDE DEF ext
<1>7. /\ toPC' \in Seq(Pc!RequestType) /\ toPC' # << >> /\ toPC'[1] = ResetRequest
      /\ Len(toPC') \in 1 .. 2
      /\ \A i \in 1 .. Len(toPC') : toPC'[i] \in {ResetRequest, ext}
  <2>1. CASE toPC' = <<ResetRequest>>
    BY <2>1, ResetRequested
  <2>2. CASE toPC' = <<ResetRequest, ext>>
    BY <2>2, <1>6, ResetRequested
  <2> QED
    BY <1>4, <2>1, <2>2
<1>8. /\ toMCU' = << >> /\ HeldPtrs' = {} /\ ~ Waiting' /\ call'.at = "idle"
      /\ call'.old = 0 /\ held' = {} /\ server' = "first"
  BY <1>1, <1>3, <1>4 DEF HeldPtrs, Waiting
<1>9. TypeInv'
  <2>1. brk' \in Nat
    BY <1>4, <1>5
  <2> QED
    BY <1>1, <1>3, <1>4, <1>7, <1>8, <2>1 DEF Inv, TypeInv
<1>10. BootInv'
  BY <1>2, <1>3, <1>7, <1>8 DEF Inv, BootInv, ResetRequest
<1>11. ReplyInv'
  BY <1>6, <1>7, <1>8, ResetRequested DEF ReplyInv
<1>12. FreeInv'
  BY <1>6, <1>7, ResetRequested DEF FreeInv, Freeing
<1>13. HeldInv' /\ EndInv' /\ WordInv' /\ LeakInv'
  BY <1>8 DEF HeldInv, EndInv, WordInv, LeakInv, Present
<1>14. ResetInv'
  BY <1>6, <1>7 DEF ResetInv, ResetRequest
<1> QED
  BY <1>2, <1>9, <1>10, <1>11, <1>12, <1>13, <1>14 DEF Inv

-----------------------------------------------------------------------------
(* Answers.                                                                *)

(* While a word is under way nothing else is, and no heap is being reset.  *)
LEMMA OneWord ==
  ASSUME Inv, Waiting, toMCU # << >>
  PROVE  /\ toPC = << >> /\ toMCU = <<toMCU[1]>> /\ Head(toMCU) = toMCU[1]
         /\ toMCU[1] \in Nat /\ Tail(toMCU) = << >>
         /\ server \in {"loop", "exited"} /\ call.at \notin {"boot", "done"}
         /\ Present <=> server = "loop"
<1>1. call.at \notin {"boot", "done"}
  BY DEF Waiting
<1>2. toPC = << >> /\ Len(toMCU) <= 1 /\ toMCU \in Seq(Nat)
  BY <1>1 DEF Inv, ReplyInv, TypeInv
<1>3. /\ toMCU = <<toMCU[1]>> /\ Head(toMCU) = toMCU[1]
      /\ toMCU[1] \in Nat /\ Tail(toMCU) = << >>
  BY <1>2, OnlyOne
<1>4. server \in {"loop", "exited"}
  BY <1>1, <1>2 DEF Inv, BootInv, TypeInv
<1>5. ~ Resetting
  BY <1>2 DEF Resetting
<1> QED
  BY <1>1, <1>2, <1>3, <1>4, <1>5 DEF Present

LEMMA Taken ==
  ASSUME NEW new \in Nat, NEW size \in Nat
  PROVE  /\ Take(new, size) \in SUBSET [ptr : Nat \ {0}, size : Nat]
         /\ \A r \in Take(new, size) : r.ptr = new /\ r.size = size /\ new # 0
         /\ new # 0 => \E r \in Take(new, size) : r.ptr = new
<1>1. CASE new = 0
  BY <1>1 DEF Take
<1>2. CASE new # 0
  <2>1. Take(new, size) = {[ptr |-> new, size |-> size]}
    BY <1>2 DEF Take
  <2> QED
    BY <1>2, <2>1
<1> QED
  BY <1>1, <1>2

(* The call returns the word it got, or moves the old block to it.         *)
LEMMA ReturnInv ==
  ASSUME Inv, call.at \in {"asked", "resent"}, toMCU # << >>,
         toMCU' = Tail(toMCU), Return(Head(toMCU)),
         UNCHANGED <<pcVars, server, brk>>
  PROVE  Inv'
<1> DEFINE new  == Head(toMCU)
           old  == call.old
           size == call.size
           back == Request("FREE", 0, old)
<1>1. Waiting
  BY DEF Waiting
<1>2. /\ toPC = << >> /\ new = toMCU[1] /\ new \in Nat /\ toMCU' = << >>
      /\ server \in {"loop", "exited"} /\ server' = server
      /\ Present <=> server = "loop"
  BY <1>1, OneWord
<1>3. /\ Sound' /\ Regions' = Regions /\ Begins' = Begins
      /\ Pc!Serving' = Pc!Serving
  BY ServerKept DEF Inv
<1>4. old \in Nat /\ size \in Nat
  BY DEF Inv, TypeInv
<1>5. /\ new # 0 => server = "loop" /\ new \notin HeldPtrs
      /\ new # 0 => \E g \in Regions : g.lo = new /\ size <= g.len
  BY <1>2 DEF Inv, WordInv
<1>6. \A q \in Begins : server = "loop" => q # 0 /\ (q \in HeldPtrs \/ q = new)
  <2> SUFFICES ASSUME NEW q \in Begins, server = "loop"
               PROVE  q # 0 /\ (q \in HeldPtrs \/ q = new)
    OBVIOUS
  <2>1. q # 0
    BY RegionsTyped, SameServing DEF Begins, Inv, BootInv
  <2> QED
    BY <1>2, <2>1 DEF Inv, LeakInv
<1>7. \A r \in held : /\ r.ptr \in Nat \ {0} /\ r.size \in Nat /\ r.ptr \in HeldPtrs
                      /\ Kept(r) = r.size
                      /\ server = "loop" => \E g \in Regions : g.lo = r.ptr /\ Kept(r) <= g.len
  BY <1>2 DEF Inv, TypeInv, HeldInv, HeldPtrs, Kept, InPlace
<1>8. old # 0 => old \in HeldPtrs /\ old # new /\ (server = "loop" => old \in Begins)
  <2> SUFFICES ASSUME old # 0
               PROVE  old \in HeldPtrs /\ old # new /\ (server = "loop" => old \in Begins)
    OBVIOUS
  <2>1. old \in HeldPtrs
    BY DEF Inv, HeldInv
  <2> QED
    BY <1>5, <1>7, <2>1 DEF HeldPtrs, Begins
<1>9. /\ back \in Pc!RequestType /\ back.request = "FREE" /\ back.ptr = old
      /\ ~ Answered(back) /\ back # ResetRequest
  BY <1>4, Requested DEF Answered, ResetRequest, Request, Pc!Request
<1>10. /\ Take(new, size) \in SUBSET [ptr : Nat \ {0}, size : Nat]
       /\ \A r \in Take(new, size) : r.ptr = new /\ r.size = size /\ new # 0
       /\ new # 0 => \E r \in Take(new, size) : r.ptr = new
  BY <1>2, <1>4, Taken
<1>11. CASE /\ call.old = 0 /\ held' = held \cup Take(new, call.size)
            /\ call' = Idle /\ UNCHANGED toPC
  <2>1. /\ call'.at = "idle" /\ call'.old = 0 /\ call'.size = 0 /\ toPC' = << >>
        /\ call' = [at |-> "idle", size |-> 0, old |-> 0]
    BY <1>2, <1>11 DEF Idle
  <2>2. HeldPtrs \subseteq HeldPtrs' /\ (new # 0 => new \in HeldPtrs')
    BY <1>10, <1>11 DEF HeldPtrs
  <2> HIDE DEF new
  <2>3. TypeInv'
    BY <1>2, <1>10, <1>11, <2>1 DEF Inv, TypeInv
  <2>4. BootInv' /\ ReplyInv' /\ FreeInv' /\ EndInv' /\ ResetInv' /\ WordInv'
    BY <1>2, <1>3, <2>1
    DEF Inv, BootInv, ReplyInv, FreeInv, EndInv, ResetInv, WordInv, Waiting
  <2>5. HeldInv'
    <3>1. ~ Resetting' /\ ~ Waiting'
      BY <2>1 DEF Resetting, Waiting
    <3>2. \A r \in held' : server = "loop" => \E g \in Regions : g.lo = r.ptr /\ r.size <= g.len
      BY <1>2, <1>5, <1>7, <1>10, <1>11
    <3>3. \A r \in held' : Kept(r)' = r.size
      BY <1>7, <1>10, <1>11, <1>2, <2>1 DEF Kept, InPlace
    <3> QED
      BY <1>2, <1>3, <2>1, <3>1, <3>2, <3>3 DEF HeldInv, Present
  <2>6. LeakInv'
    BY <1>2, <1>3, <1>6, <2>2 DEF LeakInv, Present
  <2> QED
    BY <1>3, <2>3, <2>4, <2>5, <2>6 DEF Inv
<1>12. CASE /\ call.old # 0 /\ Send(Request("FREE", 0, call.old))
            /\ held' = {r \in held : r.ptr # call.old} \cup Take(new, call.size)
            /\ call' = Idle
  <2>1. /\ call'.at = "idle" /\ call'.old = 0 /\ call'.size = 0
        /\ call' = [at |-> "idle", size |-> 0, old |-> 0]
    BY <1>12 DEF Idle
  <2>2. toPC' = <<back>>
    BY <1>2, <1>12 DEF Send
  <2>3. /\ HeldPtrs \ {old} \subseteq HeldPtrs' /\ (new # 0 => new \in HeldPtrs')
        /\ old \notin HeldPtrs'
    BY <1>8, <1>10, <1>12 DEF HeldPtrs
  <2> HIDE DEF new, back
  <2>4. /\ Len(toPC') = 1 /\ toPC'[1] = back /\ toPC' # << >>
        /\ toPC' \in Seq(Pc!RequestType)
    BY <1>9, <2>2
  <2>5. TypeInv'
    BY <1>2, <1>10, <1>12, <2>1, <2>4 DEF Inv, TypeInv
  <2>6. BootInv' /\ ReplyInv' /\ EndInv' /\ WordInv'
    BY <1>2, <1>3, <1>9, <2>1, <2>4
    DEF Inv, BootInv, ReplyInv, EndInv, WordInv, Waiting
  <2>7. ~ Resetting' /\ ~ Waiting' /\ ResetInv'
    BY <1>9, <2>1, <2>4 DEF Resetting, Waiting, ResetInv, ResetRequest
  <2>8. FreeInv'
    BY <1>2, <1>3, <1>8, <1>9, <1>12, <2>3, <2>4 DEF FreeInv, Freeing
  <2>9. HeldInv'
    <3>1. \A r \in held' : server = "loop" => \E g \in Regions : g.lo = r.ptr /\ r.size <= g.len
      BY <1>2, <1>5, <1>7, <1>10, <1>12
    <3>2. \A r \in held' : Kept(r)' = r.size
      BY <1>7, <1>10, <1>12, <1>2, <2>1 DEF Kept, InPlace
    <3> QED
      BY <1>2, <1>3, <2>1, <2>7, <3>1, <3>2 DEF HeldInv, Present
  <2>10. LeakInv'
    BY <1>2, <1>3, <1>6, <1>9, <1>12, <2>3, <2>4 DEF LeakInv, Present, Freeing
  <2> QED
    BY <1>3, <2>5, <2>6, <2>7, <2>8, <2>9, <2>10 DEF Inv
<1>13. CASE call.old # 0 /\ Send(EndRequest) /\ call' = Done /\ UNCHANGED held
  <2>1. /\ call'.at = "done" /\ call'.old = 0 /\ call'.size = 0
        /\ call' = [at |-> "done", size |-> 0, old |-> 0]
    BY <1>13 DEF Done
  <2>2. toPC' = <<EndRequest>>
    BY <1>2, <1>13 DEF Send
  <2>3. /\ Len(toPC') = 1 /\ toPC'[1] = EndRequest /\ toPC' # << >>
        /\ toPC' \in Seq(Pc!RequestType)
    BY <2>2, ResetRequested
  <2>4. TypeInv'
    BY <1>2, <1>13, <2>1, <2>3 DEF Inv, TypeInv
  <2>5. ~ Resetting' /\ ~ Waiting' /\ ~ Present' /\ ResetInv'
    BY <2>1, <2>3, ResetRequested DEF Resetting, Waiting, Present, ResetInv, ResetRequest
  <2>6. BootInv' /\ ReplyInv' /\ EndInv' /\ WordInv' /\ FreeInv'
    BY <1>2, <1>3, <2>1, <2>3, <2>5, ResetRequested
    DEF Inv, BootInv, ReplyInv, EndInv, WordInv, FreeInv, Freeing
  <2>7. HeldInv' /\ LeakInv'
    BY <2>1, <2>5 DEF HeldInv, LeakInv
  <2> QED
    BY <1>3, <2>4, <2>5, <2>6, <2>7 DEF Inv
<1> QED
  BY <1>11, <1>12, <1>13 DEF Return

(* After a refusal the call asks for memory again.                         *)
LEMMA AskAgainInv ==
  ASSUME Inv, Waiting, toMCU # << >>, toMCU' = Tail(toMCU), toMCU[1] = 0,
         NEW at \in {"asked", "resent"},
         call' = [at |-> at, size |-> call.size, old |-> call.old],
         NEW ext \in Nat,
         \/ toPC' = <<Request("MALLOC", call.size, 0)>>
         \/ toPC' = <<Request("SBRK", ext, 0), Request("MALLOC", call.size, 0)>>,
         brk' \in Nat, UNCHANGED <<pcVars, server, held>>
  PROVE  Inv'
<1> DEFINE req  == Request("MALLOC", call.size, 0)
           more == Request("SBRK", ext, 0)
<1>1. /\ toPC = << >> /\ toMCU' = << >>
      /\ server \in {"loop", "exited"} /\ server' = server
      /\ Present <=> server = "loop"
  BY OneWord
<1>2. /\ Sound' /\ Regions' = Regions /\ Begins' = Begins
      /\ Pc!Serving' = Pc!Serving
  BY ServerKept DEF Inv
<1>3. call.size \in Nat /\ call.old \in Nat
  BY DEF Inv, TypeInv
<1>4. /\ req \in Pc!RequestType /\ req.request = "MALLOC" /\ req.ptr = 0
      /\ Answered(req) /\ req # ResetRequest /\ req = Expected'
  BY <1>3, Requested DEF Answered, Expected, ResetRequest, Request, Pc!Request
<1>5. /\ more \in Pc!RequestType /\ more.request = "SBRK" /\ more.ptr = 0
      /\ ~ Answered(more) /\ more # ResetRequest
  BY HeapAssumption, Requested DEF Answered, ResetRequest, Request, Pc!Request
<1> HIDE DEF req, more
<1>6. /\ toPC' \in Seq(Pc!RequestType) /\ toPC' # << >> /\ Len(toPC') \in {1, 2}
      /\ toPC'[Len(toPC')] = req
      /\ \A i \in 1 .. Len(toPC') : i # Len(toPC') => toPC'[i] = more
  <2>1. CASE toPC' = <<req>>
    BY <1>4, <2>1
  <2>2. CASE toPC' = <<more, req>>
    BY <1>4, <1>5, <2>2
  <2> QED
    BY <2>1, <2>2 DEF req, more
<1>7. \A i \in 1 .. Len(toPC') : /\ toPC'[i] # ResetRequest
                                 /\ toPC'[i].request # "FREE" /\ toPC'[i].ptr = 0
                                 /\ Answered(toPC'[i]) => i = Len(toPC')
  BY <1>4, <1>5, <1>6
<1>8. /\ Waiting' /\ call'.at \in {"asked", "resent"} /\ call'.size = call.size
      /\ call'.old = call.old /\ held' = held /\ HeldPtrs' = HeldPtrs
  BY DEF Waiting, HeldPtrs
<1>9. TypeInv'
  BY <1>1, <1>3, <1>6 DEF Inv, TypeInv
<1>10. BootInv' /\ EndInv' /\ WordInv'
  BY <1>1, <1>2, <1>8 DEF Inv, BootInv, EndInv, WordInv
<1>11. ReplyInv'
  <2>1. Answered(toPC'[Len(toPC')])
    BY <1>4, <1>6
  <2>2. \A i \in 1 .. Len(toPC') : Answered(toPC'[i]) => toPC'[i] = Expected'
    BY <1>4, <1>6, <1>7
  <2>3. toMCU' = << >> /\ Len(<< >>) <= 1
    BY <1>1, Len(<< >>) = 0
  <2>4. \A i \in 1 .. Len(toPC') :
          Answered(toPC'[i]) => i = Len(toPC') /\ Waiting' /\ toPC'[i] = Expected'
    BY <1>7, <1>8, <2>2
  <2>5. toPC' # << >>
    BY <1>6
  <2> QED
    BY <2>1, <2>3, <2>4, <2>5, Zenon DEF ReplyInv
<1>12. ~ Resetting' /\ FreeInv' /\ ResetInv'
  BY <1>7 DEF Resetting, FreeInv, Freeing, ResetInv, ResetRequest
<1>13. Present' => Present
  BY <1>1 DEF Present
<1>14. HeldInv'
  BY <1>2, <1>8, <1>12, <1>13 DEF Inv, HeldInv, Kept, InPlace
<1>15. LeakInv'
  <2> SUFFICES ASSUME Present', NEW q \in Begins'
               PROVE  q \in HeldPtrs'
    BY DEF LeakInv
  <2>1. q \in Begins /\ q # 0
    BY <1>1, <1>2, <1>13, RegionsTyped, SameServing DEF Begins, Inv, BootInv
  <2> QED
    BY <1>1, <1>8, <1>13, <2>1 DEF Inv, LeakInv
<1> QED
  BY <1>2, <1>9, <1>10, <1>11, <1>12, <1>14, <1>15 DEF Inv

LEMMA MallocAnswerInv ==
  ASSUME Inv, MallocAnswer
  PROVE  Inv'
<1> DEFINE ext == Extension(ExtendSize(call.size))
<1>1. /\ call.at = "asked" /\ toMCU # << >> /\ toMCU' = Tail(toMCU)
      /\ UNCHANGED <<pcVars, server>> /\ Waiting
  BY DEF MallocAnswer, Waiting
<1>2. Head(toMCU) = toMCU[1] /\ toPC = << >>
  BY <1>1, OneWord
<1>3. CASE Return(Head(toMCU)) /\ UNCHANGED brk
  BY <1>1, <1>3, ReturnInv
<1>4. CASE /\ Head(toMCU) = 0 /\ brk' = brk + ext /\ UNCHANGED held
           /\ toPC' = toPC \o <<Request("SBRK", ext, 0), Request("MALLOC", call.size, 0)>>
           /\ Await("resent", call.size, call.old)
  <2>1. ext \in Nat /\ brk \in Nat
    BY ExtendSizeTyped, ExtensionTyped DEF Inv, TypeInv
  <2> HIDE DEF ext
  <2>2. brk' \in Nat
    BY <1>4, <2>1
  <2>3. toPC' = <<Request("SBRK", ext, 0), Request("MALLOC", call.size, 0)>>
    BY <1>2, <1>4
  <2>4. call' = [at |-> "resent", size |-> call.size, old |-> call.old]
    BY <1>4 DEF Await
  <2> QED
    BY <1>1, <1>2, <1>4, <2>1, <2>2, <2>3, <2>4, AskAgainInv
<1> QED
  BY <1>3, <1>4 DEF MallocAnswer

LEMMA ResentAnswerInv ==
  ASSUME Inv, ResentAnswer
  PROVE  Inv'
BY ReturnInv DEF ResentAnswer

(* realloc was done in place, or the block has to be moved.                *)
LEMMA ReallocAnswerInv ==
  ASSUME Inv, ReallocAnswer
  PROVE  Inv'
<1> DEFINE old  == call.old
           size == call.size
<1>1. /\ call.at = "resizing" /\ toMCU # << >> /\ toMCU' = Tail(toMCU)
      /\ UNCHANGED <<pcVars, server, brk>> /\ Waiting
  BY DEF ReallocAnswer, Waiting
<1>2. /\ Head(toMCU) = toMCU[1] /\ toPC = << >> /\ toMCU' = << >>
      /\ server \in {"loop", "exited"} /\ server' = server
      /\ Present <=> server = "loop"
  BY <1>1, OneWord
<1>3. toMCU[1] # 0 => toMCU[1] = old
  BY <1>1 DEF Inv, WordInv
<1>4. old \in Nat \ {0} /\ size \in Nat /\ brk \in Nat /\ old \in HeldPtrs
  BY <1>1 DEF Inv, HeldInv, TypeInv
<1>5. CASE /\ Head(toMCU) = call.old
           /\ held' = {r \in held : r.ptr # call.old} \cup Take(call.old, call.size)
           /\ call' = Idle /\ UNCHANGED toPC
  <2>1. /\ Sound' /\ Regions' = Regions /\ Begins' = Begins
        /\ Pc!Serving' = Pc!Serving
    BY <1>1, ServerKept DEF Inv
  <2>2. /\ call'.at = "idle" /\ call'.old = 0 /\ toPC' = << >>
        /\ call' = [at |-> "idle", size |-> 0, old |-> 0]
    BY <1>2, <1>5 DEF Idle
  <2>3. /\ Take(old, size) \in SUBSET [ptr : Nat \ {0}, size : Nat]
        /\ \A r \in Take(old, size) : r.ptr = old /\ r.size = size
        /\ \E r \in Take(old, size) : r.ptr = old
    BY <1>4, Taken
  <2>4. HeldPtrs \subseteq HeldPtrs'
    BY <1>5, <2>3 DEF HeldPtrs
  <2>5. server = "loop" => \E g \in Regions : g.lo = old /\ size <= g.len
    BY <1>1, <1>2, <1>4, <1>5 DEF Inv, WordInv
  <2>6. \A r \in held : /\ r.ptr \in Nat \ {0} /\ r.size \in Nat
                        /\ r.ptr # old => Kept(r) = r.size
                        /\ server = "loop" => \E g \in Regions : g.lo = r.ptr /\ Kept(r) <= g.len
    BY <1>2 DEF Inv, TypeInv, HeldInv, Kept, InPlace
  <2>7. TypeInv'
    BY <1>1, <1>2, <1>5, <2>2, <2>3 DEF Inv, TypeInv
  <2>8. BootInv' /\ ReplyInv' /\ FreeInv' /\ EndInv' /\ ResetInv' /\ WordInv'
    BY <1>2, <2>1, <2>2
    DEF Inv, BootInv, ReplyInv, FreeInv, EndInv, ResetInv, WordInv, Waiting
  <2>9. HeldInv'
    <3>1. ~ Resetting' /\ ~ Waiting'
      BY <2>2 DEF Resetting, Waiting
    <3>2. \A r \in held' : server = "loop" => \E g \in Regions : g.lo = r.ptr /\ r.size <= g.len
      BY <1>5, <2>3, <2>5, <2>6
    <3>3. \A r \in held' : Kept(r)' = r.size
      BY <1>4, <1>5, <2>2, <2>3, <2>6 DEF Kept, InPlace
    <3> QED
      BY <1>2, <2>1, <2>2, <3>1, <3>2, <3>3 DEF HeldInv, Present
  <2>10. LeakInv'
    BY <1>2, <1>4, <1>5, <2>1, <2>4 DEF Inv, LeakInv, Present
  <2> QED
    BY <2>1, <2>7, <2>8, <2>9, <2>10 DEF Inv
<1>6. CASE /\ Head(toMCU) # call.old
           /\ Send(Request("MALLOC", call.size, 0))
           /\ Await("asked", call.size, call.old)
           /\ UNCHANGED held
  <2>1. toMCU[1] = 0
    BY <1>2, <1>3, <1>6
  <2>2. toPC' = <<Request("MALLOC", call.size, 0)>>
    BY <1>2, <1>6 DEF Send
  <2>3. call' = [at |-> "asked", size |-> call.size, old |-> call.old]
    BY <1>6 DEF Await
  <2> QED
    BY <1>1, <1>4, <1>6, <2>1, <2>2, <2>3, AskAgainInv
<1> QED
  BY <1>5, <1>6 DEF ReallocAnswer

-----------------------------------------------------------------------------
(* Requests that are not answered.                                         *)

(* The server has read a request that is not answered: it emptied the      *)
(* heap, or gave up the region that a free names, or it exited.            *)
LEMMA SilentInv ==
  ASSUME Inv, server # "exited", toPC # << >>, ~ Answered(toPC[1]), toPC' = Tail(toPC),
         UNCHANGED <<brk, call, held, toMCU>>, Sound',
         server' \in {"loop", "exited"}, server' = "loop" => Pc!Serving',
         toPC[1] = EndRequest => server' = "exited",
         server' = "loop" =>
           IF toPC[1] = ResetRequest THEN Regions' = {}
           ELSE /\ server = "loop"
                /\ Regions' = {r \in Regions :
                                 toPC[1].request = "FREE" => r.lo # toPC[1].ptr}
  PROVE  Inv'
<1> DEFINE n == Len(toPC')
<1>1. call.at # "boot" /\ toMCU = << >> /\ toMCU' = << >>
  BY DEF Inv, BootInv, ReplyInv
<1>2. /\ toPC' \in Seq(Pc!RequestType) /\ n = Len(toPC) - 1 /\ Len(toPC) \in Nat \ {0}
      /\ \A i \in 1 .. n : toPC'[i] = toPC[i + 1]
  BY Shifted DEF Inv, TypeInv
<1>3. \A i \in 1 .. n : i + 1 \in 1 .. Len(toPC) /\ i + 1 # 1
  BY <1>2
<1>4. /\ HeldPtrs' = HeldPtrs /\ (Waiting' <=> Waiting) /\ Expected' = Expected
      /\ \A r : Kept(r)' = Kept(r)
  BY DEF HeldPtrs, Waiting, Expected, Kept, InPlace
<1>5. TypeInv' /\ BootInv'
  BY <1>1, <1>2 DEF Inv, TypeInv, BootInv
<1> HIDE DEF n
<1>6. ReplyInv'
  <2>1. ASSUME NEW i \in 1 .. n, Answered(toPC'[i])
        PROVE  i = n /\ Waiting /\ toPC'[i] = Expected
    <3>1. Answered(toPC[i + 1]) /\ toPC'[i] = toPC[i + 1]
      BY <1>2, <2>1
    <3>2. i + 1 = Len(toPC) /\ Waiting /\ toPC[i + 1] = Expected
      BY <1>1, <1>3, <3>1 DEF Inv, ReplyInv
    <3> QED
      BY <1>2, <3>1, <3>2
  <2>2. ASSUME Waiting
        PROVE  toPC' # << >> /\ Answered(toPC'[n])
    <3>1. Answered(toPC[Len(toPC)])
      BY <1>1, <2>2 DEF Inv, ReplyInv
    <3>2. Len(toPC) # 1
      BY <3>1
    <3>3. n \in 1 .. n /\ n + 1 = Len(toPC)
      BY <1>2, <3>2
    <3>4. toPC'[n] = toPC[Len(toPC)]
      BY <1>2, <3>3
    <3>5. Len(toPC') # 0
      BY <3>3 DEF n
    <3> QED
      BY <3>1, <3>4, <3>5
  <2>3. toMCU' = << >> /\ Len(<< >>) <= 1
    BY <1>1, Len(<< >>) = 0
  <2>4. \A i \in 1 .. n : Answered(toPC'[i]) => i = n /\ Waiting' /\ toPC'[i] = Expected'
    BY <1>4, <2>1
  <2>5. Waiting' => toPC' # << >> /\ Answered(toPC'[n])
    BY <1>4, <2>2
  <2> QED
    BY <2>3, <2>4, <2>5, Zenon DEF ReplyInv, n
<1>7. \A i \in 1 .. n : Freeing(i)' <=> Freeing(i + 1)
  BY <1>2 DEF Freeing
<1>8. Resetting' => Resetting
  <2> SUFFICES ASSUME NEW i \in 1 .. n, toPC'[i] = ResetRequest
               PROVE  Resetting
    BY DEF Resetting, ResetRequest, n
  <2> QED
    BY <1>2, <1>3 DEF Resetting
<1>9. ASSUME server' = "loop", toPC[1] # ResetRequest
      PROVE  /\ server = "loop"
             /\ Regions' = {r \in Regions :
                              toPC[1].request = "FREE" => r.lo # toPC[1].ptr}
             /\ Begins' = {q \in Begins :
                              toPC[1].request = "FREE" => q # toPC[1].ptr}
  <2>1. /\ server = "loop"
        /\ Regions' = {r \in Regions :
                         toPC[1].request = "FREE" => r.lo # toPC[1].ptr}
    BY <1>9
  <2> QED
    BY <2>1 DEF Begins
<1>10. ASSUME server' = "loop", toPC[1] = ResetRequest
       PROVE  Begins' = {} /\ Resetting
  <2>1. Regions' = {}
    BY <1>10
  <2>2. Resetting
    BY <1>2, <1>10 DEF Resetting
  <2> QED
    BY <2>1, <2>2 DEF Begins
<1>11. Present' => (toPC[1] = ResetRequest /\ held = {}) \/ Present
  <2> SUFFICES ASSUME Present', toPC[1] # ResetRequest
               PROVE  Present
    BY <1>10 DEF Present, Inv, HeldInv
  <2>1. server = "loop" /\ call.at # "done"
    BY <1>9 DEF Present
  <2>2. \A i \in 1 .. Len(toPC) : i # 1 => i - 1 \in 1 .. n /\ toPC'[i - 1] = toPC[i]
    BY <1>2 DEF n
  <2>3. ~ Resetting
    <3>1. \A i \in 1 .. n : toPC'[i] # ResetRequest
      BY DEF Present, Resetting, ResetRequest, n
    <3> QED
      BY <2>2, <3>1 DEF Resetting
  <2> QED
    BY <2>1, <2>3 DEF Present
<1>12. \A i \in 1 .. n : Freeing(i)' =>
         /\ Freeing(i + 1) /\ toPC'[i] = toPC[i + 1] /\ i + 1 \in 1 .. Len(toPC)
         /\ toPC[i + 1].ptr \notin HeldPtrs
         /\ \A j \in 1 .. i : toPC[j] # ResetRequest
         /\ \A j \in 1 .. Len(toPC) :
              Freeing(j) /\ toPC[j].ptr = toPC[i + 1].ptr => j = i + 1
         /\ server = "loop" => toPC[i + 1].ptr \in Begins
  <2> SUFFICES ASSUME NEW i \in 1 .. n, Freeing(i)'
               PROVE  /\ Freeing(i + 1) /\ toPC'[i] = toPC[i + 1] /\ i + 1 \in 1 .. Len(toPC)
                      /\ toPC[i + 1].ptr \notin HeldPtrs
                      /\ \A j \in 1 .. i : toPC[j] # ResetRequest
                      /\ \A j \in 1 .. Len(toPC) :
                           Freeing(j) /\ toPC[j].ptr = toPC[i + 1].ptr => j = i + 1
                      /\ server = "loop" => toPC[i + 1].ptr \in Begins
    OBVIOUS
  <2>1. Freeing(i + 1) /\ toPC'[i] = toPC[i + 1] /\ i + 1 \in 1 .. Len(toPC)
    BY <1>2, <1>3, <1>7
  <2>2. (i + 1) - 1 = i
    BY <1>2 DEF n
  <2> QED
    BY <2>1, <2>2 DEF Inv, FreeInv
<1>13. FreeInv'
  <2> SUFFICES ASSUME NEW i \in 1 .. n, Freeing(i)'
               PROVE  /\ toPC'[i].ptr \notin HeldPtrs'
                      /\ \A j \in 1 .. i - 1 : toPC'[j] # ResetRequest
                      /\ \A j \in 1 .. n : Freeing(j)' /\ toPC'[j].ptr = toPC'[i].ptr => j = i
                      /\ server' = "loop" => toPC'[i].ptr \in Begins'
    BY DEF FreeInv, ResetRequest, n
  <2>1. toPC'[i].ptr \notin HeldPtrs'
    BY <1>4, <1>12
  <2>2. \A j \in 1 .. i - 1 : toPC'[j] # ResetRequest
    <3> SUFFICES ASSUME NEW j \in 1 .. i - 1 PROVE toPC'[j] # ResetRequest
      OBVIOUS
    <3>1. j \in 1 .. n /\ j + 1 \in 1 .. i
      BY <1>2 DEF n
    <3> QED
      BY <1>2, <1>12, <3>1
  <2>3. \A j \in 1 .. n : Freeing(j)' /\ toPC'[j].ptr = toPC'[i].ptr => j = i
    <3> SUFFICES ASSUME NEW j \in 1 .. n, Freeing(j)', toPC'[j].ptr = toPC'[i].ptr
                 PROVE  j = i
      OBVIOUS
    <3>1. Freeing(j + 1) /\ toPC'[j] = toPC[j + 1] /\ j + 1 \in 1 .. Len(toPC)
      BY <1>12
    <3>2. j + 1 = i + 1
      BY <1>12, <3>1
    <3> QED
      BY <1>2, <3>2 DEF n
  <2>4. ASSUME server' = "loop"
        PROVE  toPC'[i].ptr \in Begins'
    <3>1. 1 \in 1 .. i /\ 1 \in 1 .. Len(toPC) /\ i + 1 # 1
      BY <1>2 DEF n
    <3>2. toPC[1] # ResetRequest
      BY <1>12, <3>1
    <3>3. toPC[i + 1].ptr \in Begins
      BY <1>9, <1>12, <2>4, <3>2
    <3>4. toPC[1].request = "FREE" => toPC[i + 1].ptr # toPC[1].ptr
      BY <1>12, <3>1 DEF Freeing
    <3> QED
      BY <1>9, <1>12, <2>4, <3>2, <3>3, <3>4
  <2> QED
    BY <2>1, <2>2, <2>3, <2>4
<1>14. 1 \in 1 .. Len(toPC)
  BY <1>2
<1>15. HeldInv'
  <2>1. Resetting' => held' = {}
    BY <1>8 DEF Inv, HeldInv
  <2>2. ASSUME Present', NEW r \in held'
        PROVE  \E g \in Regions' : g.lo = r.ptr /\ Kept(r)' <= g.len
    <3>1. r \in held /\ Present /\ r.ptr \in HeldPtrs /\ r.ptr # 0
      BY <1>11, <2>2 DEF HeldPtrs, Inv, TypeInv
    <3>2. toPC[1] # ResetRequest /\ server' = "loop"
      BY <1>11, <1>14, <2>2, <3>1 DEF Present, Resetting
    <3>3. PICK g \in Regions : g.lo = r.ptr /\ Kept(r) <= g.len
      BY <3>1 DEF Inv, HeldInv
    <3>4. toPC[1].request = "FREE" => g.lo # toPC[1].ptr
      BY <1>14, <3>1, <3>3 DEF Inv, FreeInv, Freeing
    <3> QED
      BY <1>4, <1>9, <3>2, <3>3, <3>4
  <2> QED
    BY <1>4, <2>1, <2>2 DEF Inv, HeldInv
<1>16. EndInv'
  <2> SUFFICES ASSUME call.at = "done", server' # "exited"
               PROVE  \E i \in 1 .. n : toPC'[i] = EndRequest
    BY DEF EndInv, EndRequest, Request, Pc!Request, n
  <2>1. PICK i \in 1 .. Len(toPC) : toPC[i] = EndRequest
    BY DEF Inv, EndInv
  <2>2. i # 1
    BY <2>1
  <2>3. i - 1 \in 1 .. n /\ (i - 1) + 1 = i
    BY <1>2, <2>2 DEF n
  <2>4. toPC'[i - 1] = EndRequest
    BY <1>2, <2>1, <2>3
  <2> QED
    BY <2>3, <2>4
<1>17. WordInv' /\ ResetInv'
  <2>1. WordInv'
    BY <1>1 DEF WordInv
  <2>2. ResetInv'
    BY <1>2, <1>3 DEF Inv, ResetInv, ResetRequest, n
  <2> QED
    BY <2>1, <2>2
<1>18. LeakInv'
  <2> SUFFICES ASSUME Present', NEW q \in Begins'
               PROVE  q \in HeldPtrs' \/ \E i \in 1 .. n : Freeing(i)' /\ toPC'[i].ptr = q
    BY DEF LeakInv, n
  <2>1. server' = "loop" /\ toPC[1] # ResetRequest /\ Present
    BY <1>10, <1>11 DEF Present
  <2>2. q \in Begins /\ (toPC[1].request = "FREE" => q # toPC[1].ptr)
    BY <1>9, <2>1
  <2>3. q \in HeldPtrs \/ \E i \in 1 .. Len(toPC) : Freeing(i) /\ toPC[i].ptr = q
    BY <1>1, <2>1, <2>2 DEF Inv, LeakInv
  <2>4. CASE \E i \in 1 .. Len(toPC) : Freeing(i) /\ toPC[i].ptr = q
    <3>1. PICK i \in 1 .. Len(toPC) : Freeing(i) /\ toPC[i].ptr = q
      BY <2>4
    <3>2. i # 1
      BY <2>2, <3>1 DEF Freeing
    <3>3. i - 1 \in 1 .. n /\ (i - 1) + 1 = i
      BY <1>2, <3>2 DEF n
    <3>4. Freeing(i - 1)' /\ toPC'[i - 1] = toPC[i]
      BY <1>2, <1>7, <3>1, <3>3
    <3> QED
      BY <3>1, <3>3, <3>4
  <2> QED
    BY <1>4, <2>3, <2>4
<1> QED
  BY <1>5, <1>6, <1>13, <1>15, <1>16, <1>17, <1>18 DEF Inv

LEMMA FirstRequestInv ==
  ASSUME Inv, FirstRequest
  PROVE  Inv'
<1> DEFINE req == Head(toPC)
<1>1. /\ server = "first" /\ toPC # << >> /\ toPC' = Tail(toPC)
      /\ UNCHANGED <<reply, toMCU, mcuVars>> /\ UNCHANGED <<brk, call, held, toMCU>>
      /\ req_in' = req /\ mem_start_brk' = req.ptr /\ mem_brk' = req.ptr
  BY DEF FirstRequest, mcuVars
<1>2. req = ResetRequest /\ toPC[1] = req /\ req \in Pc!RequestType
  <2>1. call.at # "boot"
    BY <1>1 DEF Inv, BootInv
  <2>2. toPC[1] = ResetRequest
    BY <1>1, <2>1 DEF Inv, BootInv
  <2> QED
    BY <1>1, <2>2, Shifted DEF Inv, TypeInv
<1>3. req.request = "SBRK" /\ req.ptr = Base /\ Base # 0
  BY <1>2, HeapAssumption DEF ResetRequest, Request, Pc!Request
<1>4. server' = "loop" /\ heap' = Pc!EmptyHeap(Base)
  BY <1>3 DEF FirstRequest
<1>5. reply' \in Seq(Nat) /\ Len(reply') <= 1
  BY <1>1 DEF Inv, Sound, Srv!IInv, Srv!TypeOK
<1>6. Sound' /\ Pc!Serving' /\ Regions' = {}
  BY <1>1, <1>2, <1>3, <1>4, <1>5, StartRun
<1> QED
  BY <1>1, <1>2, <1>4, <1>6, ResetRequested, SilentInv

(* A request that is answered is the only one, and the answer goes back.   *)
LEMMA AnsweredFacts ==
  ASSUME Inv, server = "loop", toPC # << >>, Answered(toPC[1])
  PROVE  /\ toPC[1] = Expected /\ Waiting /\ Tail(toPC) = << >> /\ toMCU = << >>
         /\ Present /\ call.at # "boot"
         /\ call.size \in Nat /\ call.old \in Nat
         /\ \A q \in Begins : q # 0 /\ q \in HeldPtrs
         /\ HeldPtrs \subseteq Begins
<1>1. call.at # "boot" /\ toMCU = << >>
  BY DEF Inv, BootInv, ReplyInv
<1>2. toPC \in Seq(Pc!RequestType) /\ Len(toPC) \in Nat \ {0}
  BY Shifted DEF Inv, TypeInv
<1>3. Len(toPC) = 1 /\ Waiting /\ toPC[1] = Expected
  <2>1. 1 \in 1 .. Len(toPC)
    BY <1>2
  <2> QED
    BY <1>1, <2>1 DEF Inv, ReplyInv
<1>4. Tail(toPC) = << >>
  <2>1. Len(toPC) <= 1
    BY <1>3
  <2> QED
    BY <1>2, <2>1, OnlyOne
<1>5. toPC[1].request \in {"MALLOC", "REALLOC"}
  BY DEF Answered
<1>6. Present
  <2>1. toPC[1] # ResetRequest
    BY <1>5, ResetRequested
  <2> QED
    BY <1>3, <2>1 DEF Present, Resetting, Waiting
<1>7. HeldPtrs \subseteq Begins
  BY <1>6 DEF Inv, HeldInv, HeldPtrs, Begins
<1>8. \A q \in Begins : q # 0 /\ q \in HeldPtrs
  <2> SUFFICES ASSUME NEW q \in Begins PROVE q # 0 /\ q \in HeldPtrs
    OBVIOUS
  <2>1. q # 0
    BY RegionsTyped, SameServing DEF Begins, Inv, BootInv
  <2>2. ~ \E i \in 1 .. Len(toPC) : Freeing(i)
    BY <1>3, <1>5 DEF Freeing
  <2> QED
    BY <1>1, <1>6, <2>1, <2>2 DEF Inv, LeakInv
<1> QED
  BY <1>1, <1>3, <1>4, <1>6, <1>7, <1>8 DEF Inv, TypeInv

LEMMA AnsweredInv ==
  ASSUME Inv, server = "loop", toPC # << >>, Answered(toPC[1]), toPC' = Tail(toPC),
         UNCHANGED <<brk, call, held>>, Sound',
         server' \in {"loop", "exited"}, server' = "loop" => Pc!Serving',
         NEW word \in Nat, toMCU' = <<word>>, word # 0 => server' = "loop",
         \/ word = 0 /\ Regions' = Regions
         \/ \E len \in Nat :
              /\ call.at # "resizing" /\ call.size <= len
              /\ word # 0 /\ word \notin Begins
              /\ Regions' = Regions \cup {[lo |-> word, len |-> len]}
         \/ \E len \in Nat :
              /\ call.at = "resizing" /\ call.size <= len /\ word = call.old
              /\ Regions' = {r \in Regions : r.lo # word} \cup {[lo |-> word, len |-> len]}
  PROVE  Inv'
<1>1. /\ toPC' = << >> /\ toMCU' = <<word>> /\ Waiting /\ Present /\ call.at # "boot"
      /\ toMCU = << >> /\ call.size \in Nat /\ call.old \in Nat
      /\ \A q \in Begins : q # 0 /\ q \in HeldPtrs
      /\ HeldPtrs \subseteq Begins
  BY AnsweredFacts
<1>2. /\ HeldPtrs' = HeldPtrs /\ Waiting' /\ Expected' = Expected
      /\ \A r : Kept(r) = r.size
      /\ \A r : word = 0 \/ call.at # "resizing" \/ r.ptr # call.old => Kept(r)' = r.size
      /\ \A r : Kept(r)' \in {r.size, call.size}
      /\ \A r : call.at = "resizing" /\ word # 0 /\ r.ptr = call.old => Kept(r)' = call.size
  BY <1>1 DEF HeldPtrs, Waiting, Expected, Kept, InPlace
<1>3. Len(toMCU') = 1 /\ toMCU'[1] = word /\ toMCU' # << >> /\ toMCU' \in Seq(Nat)
  BY <1>1
<1>4. TypeInv' /\ BootInv'
  BY <1>1, <1>3 DEF Inv, TypeInv, BootInv
<1>5. ReplyInv'
  <2>1. Len(toMCU') <= 1 /\ 1 .. Len(toPC') = {} /\ toMCU' # << >>
    BY <1>1, <1>3
  <2> QED
    BY <1>1, <1>2, <2>1, Zenon DEF ReplyInv
<1>6. FreeInv' /\ ResetInv' /\ ~ Resetting' /\ EndInv'
  <2>1. 1 .. Len(toPC') = {} /\ call'.at # "done"
    BY <1>1 DEF Waiting
  <2>2. FreeInv' /\ ResetInv'
    BY <2>1 DEF FreeInv, ResetInv
  <2>3. ~ Resetting' /\ EndInv'
    BY <2>1 DEF Resetting, EndInv
  <2> QED
    BY <2>2, <2>3
<1>7. \A r \in held : \E g \in Regions' : g.lo = r.ptr /\ Kept(r)' <= g.len
  <2> SUFFICES ASSUME NEW r \in held
               PROVE  \E g \in Regions' : g.lo = r.ptr /\ Kept(r)' <= g.len
    OBVIOUS
  <2>1. PICK g \in Regions : g.lo = r.ptr /\ r.size <= g.len
    BY <1>1, <1>2 DEF Inv, HeldInv
  <2>2. CASE Regions \subseteq Regions' /\ (word = 0 \/ call.at # "resizing")
    BY <1>2, <2>1, <2>2
  <2>3. CASE \E len \in Nat :
              /\ call.at = "resizing" /\ call.size <= len /\ word = call.old
              /\ Regions' = {x \in Regions : x.lo # word} \cup {[lo |-> word, len |-> len]}
    <3>1. PICK len \in Nat :
              /\ call.at = "resizing" /\ call.size <= len /\ word = call.old
              /\ Regions' = {x \in Regions : x.lo # word} \cup {[lo |-> word, len |-> len]}
      BY <2>3
    <3>2. CASE r.ptr = word
      <4>1. [lo |-> word, len |-> len] \in Regions'
        BY <3>1
      <4>2. word # 0
        BY <3>2 DEF Inv, TypeInv
      <4>3. Kept(r)' <= len
        BY <1>2, <3>1, <3>2, <4>2
      <4> QED
        BY <3>2, <4>1, <4>3
    <3>3. CASE r.ptr # word
      BY <1>2, <2>1, <3>1, <3>3
    <3> QED
      BY <3>2, <3>3
  <2> QED
    BY <2>2, <2>3
<1>8. HeldInv'
  BY <1>1, <1>2, <1>6, <1>7 DEF Inv, HeldInv
<1>9. WordInv'
  <2> SUFFICES ASSUME word # 0
               PROVE  /\ server' = "loop"
                      /\ \E g \in Regions' : g.lo = word /\ call.size <= g.len
                      /\ IF call.at = "resizing" THEN word = call.old ELSE word \notin HeldPtrs
    BY <1>2, <1>3 DEF WordInv
  <2>1. PICK len \in Nat : call.size <= len /\ [lo |-> word, len |-> len] \in Regions'
    OBVIOUS
  <2>2. \E g \in Regions' : g.lo = word /\ call.size <= g.len
    BY <2>1
  <2> QED
    BY <1>1, <2>2
<1>10. LeakInv'
  <2> SUFFICES ASSUME NEW q \in Begins'
               PROVE  q \in HeldPtrs' \/ toMCU'[1] = q
    BY <1>3 DEF LeakInv
  <2>1. PICK g \in Regions' : g.lo = q
    BY DEF Begins
  <2>2. g \in Regions \/ g.lo = word
    BY <2>1
  <2> QED
    BY <1>1, <1>2, <1>3, <2>1, <2>2 DEF Begins
<1> QED
  BY <1>4, <1>5, <1>6, <1>8, <1>9, <1>10 DEF Inv

LEMMA ServeInv ==
  ASSUME Inv, Serve
  PROVE  Inv'
<1> DEFINE req == Head(toPC)
<1>1. /\ server = "loop" /\ toPC # << >> /\ toPC' = Tail(toPC)
      /\ UNCHANGED <<brk, call, held>> /\ toMCU' = toMCU \o reply'
      /\ server' = IF Pc!Serving' THEN "loop" ELSE "exited"
  BY DEF Serve, mcuVars
<1>2. /\ server' \in {"loop", "exited"} /\ (server' = "loop" => Pc!Serving')
      /\ ~ Pc!Serving' => server' = "exited"
  BY <1>1
<1>3. req = toPC[1] /\ req \in Pc!RequestType /\ 1 \in 1 .. Len(toPC) /\ toMCU \in Seq(Nat)
  <2>1. toPC \in Seq(Pc!RequestType) /\ toMCU \in Seq(Nat)
    BY DEF Inv, TypeInv
  <2>2. req = toPC[1] /\ req \in Pc!RequestType /\ Len(toPC) \in Nat \ {0}
    BY <1>1, <2>1, Shifted
  <2> QED
    BY <2>1, <2>2
<1>4. req.size \in Nat /\ req.ptr \in Nat
  BY <1>3 DEF Pc!RequestType
<1>5. Sound
  BY DEF Inv
<1>6. Answered(req) => req = Expected /\ toMCU = << >> /\ HeldPtrs \subseteq Begins
  BY <1>1, <1>3, AnsweredFacts
<1>7. call.at # "boot" /\ toMCU = << >>
  BY <1>1 DEF Inv, BootInv, ReplyInv
<1> HIDE DEF req
<1>8. reply' = << >> => toMCU' = toMCU
  BY <1>1, <1>7
<1>9. \A w : reply' = <<w>> => toMCU' = <<w>>
  BY <1>1, <1>7
<1>10. CASE req.request = "MALLOC" /\ Pc!HandleMalloc(req.size)
  <2>1. Answered(req) /\ req = Expected
    BY <1>6, <1>10 DEF Answered
  <2>2. call.at # "resizing" /\ req.size = call.size
    BY <1>10, <2>1 DEF Expected, Request, Pc!Request
  <2>3. /\ Sound'
        /\ \/ reply' = << 0 >> /\ Regions' = Regions
           \/ \E lo \in Nat \ {0}, len \in Nat :
                 /\ req.size <= len /\ reply' = <<lo>>
                 /\ Regions' = Regions \cup {[lo |-> lo, len |-> len]}
                 /\ lo \notin Begins
    BY <1>4, <1>5, <1>10, MallocRun
  <2>4. CASE reply' = << 0 >> /\ Regions' = Regions
    BY <1>1, <1>2, <1>3, <1>9, <2>1, <2>3, <2>4, AnsweredInv
  <2>5. CASE \E lo \in Nat \ {0}, len \in Nat :
                 /\ req.size <= len /\ reply' = <<lo>>
                 /\ Regions' = Regions \cup {[lo |-> lo, len |-> len]}
                 /\ lo \notin Begins
    <3>1. server' = "loop"
      BY <1>1, <2>3, <2>5, RegionsServe
    <3> QED
      BY <1>1, <1>2, <1>3, <1>9, <2>1, <2>2, <2>3, <2>5, <3>1, AnsweredInv
  <2> QED
    BY <2>3, <2>4, <2>5
<1>11. CASE req.request = "FREE" /\ Pc!HandleFree(req.ptr)
  <2>1. req.ptr = 0 \/ req.ptr \in Begins
    BY <1>1, <1>3, <1>11 DEF Inv, FreeInv, Freeing
  <2>2. /\ Sound' /\ reply' = << >>
        /\ Regions' = {r \in Regions : r.lo # req.ptr}
    BY <1>4, <1>5, <1>11, <2>1, FreeRun
  <2>3. ~ Answered(req) /\ req # EndRequest /\ req # ResetRequest
    BY <1>11, ResetRequested DEF Answered
  <2>4. Regions' = {r \in Regions : req.request = "FREE" => r.lo # req.ptr}
    BY <1>11, <2>2
  <2> QED
    BY <1>1, <1>2, <1>3, <1>8, <2>2, <2>3, <2>4, SilentInv
<1>12. CASE req.request = "REALLOC" /\ Pc!HandleRealloc(req.ptr, req.size)
  <2>1. Answered(req) /\ req = Expected
    BY <1>6, <1>12 DEF Answered
  <2>2. call.at = "resizing" /\ req.size = call.size /\ req.ptr = call.old
    BY <1>12, <2>1 DEF Expected, Request, Pc!Request
  <2>3. req.ptr \in Begins /\ req.size \in Nat \ {0}
    BY <1>4, <1>6, <2>1, <2>2 DEF Inv, HeldInv
  <2>4. /\ Sound'
        /\ \/ reply' = << 0 >> /\ Regions' = Regions
           \/ \E len \in Nat :
                 /\ req.size <= len /\ reply' = <<req.ptr>>
                 /\ Regions' = {r \in Regions : r.lo # req.ptr}
                               \cup {[lo |-> req.ptr, len |-> len]}
    BY <1>5, <1>12, <2>3, ReallocRun
  <2>5. CASE reply' = << 0 >> /\ Regions' = Regions
    BY <1>1, <1>2, <1>3, <1>9, <2>1, <2>4, <2>5, AnsweredInv
  <2>6. CASE \E len \in Nat :
                 /\ req.size <= len /\ reply' = <<req.ptr>>
                 /\ Regions' = {r \in Regions : r.lo # req.ptr}
                               \cup {[lo |-> req.ptr, len |-> len]}
    <3>1. toMCU' = <<req.ptr>>
      BY <1>9, <2>6
    <3>2. \E len \in Nat :
             /\ call.at = "resizing" /\ call.size <= len /\ req.ptr = call.old
             /\ Regions' = {r \in Regions : r.lo # req.ptr}
                           \cup {[lo |-> req.ptr, len |-> len]}
      BY <2>2, <2>6
    <3>3. server' = "loop"
      BY <1>1, <2>4, <2>6, RegionsServe
    <3> QED
      BY <1>1, <1>2, <1>3, <1>4, <2>1, <2>4, <3>1, <3>2, <3>3, AnsweredInv
  <2> QED
    BY <2>4, <2>5, <2>6
<1>13. CASE req.request = "SBRK" /\ req.size # 0 /\ Pc!HandleSbrk(req.size)
  <2>1. Sound' /\ reply' = << >> /\ Regions' = Regions
    BY <1>4, <1>5, <1>13, SbrkRun
  <2>2. ~ Answered(req) /\ req # EndRequest /\ req # ResetRequest
    BY <1>13 DEF Answered, EndRequest, ResetRequest, Request, Pc!Request
  <2>3. Regions' = {r \in Regions : req.request = "FREE" => r.lo # req.ptr}
    BY <1>13, <2>1
  <2> QED
    BY <1>1, <1>2, <1>3, <1>8, <2>1, <2>2, <2>3, SilentInv
<1>14. CASE req.request = "SBRK" /\ req.size = 0 /\ req.ptr # 0 /\ Pc!HandleReset
  <2>1. Sound' /\ reply' = << >> /\ Regions' = {}
    BY <1>5, <1>14, EmptyRun
  <2>2. req = ResetRequest
    BY <1>3, <1>14 DEF Inv, ResetInv
  <2> QED
    BY <1>1, <1>2, <1>3, <1>8, <2>1, <2>2, ResetRequested, SilentInv
<1>15. CASE req = EndRequest /\ Pc!HandleEnd
  <2>1. Sound' /\ reply' = << >> /\ ~ Pc!Serving'
    BY <1>5, <1>15, EmptyRun
  <2> QED
    BY <1>1, <1>2, <1>3, <1>8, <1>15, <2>1, ResetRequested, SilentInv
<1> QED
  BY <1>10, <1>11, <1>12, <1>13, <1>14, <1>15 DEF Serve, req

-----------------------------------------------------------------------------
(* The whole.                                                              *)

LEMMA InitInv == Init => Inv
<1> SUFFICES ASSUME Init PROVE Inv
  OBVIOUS
<1>1. /\ Pc!Init /\ server = "start" /\ toPC = << >> /\ toMCU = << >> /\ brk = Base
      /\ call = [at |-> "boot", size |-> 0, old |-> 0] /\ held = {}
  BY DEF Init
<1>2. Srv!Init
  BY <1>1, SameEmptyHeap, SameRequest DEF Srv!Init, Pc!Init
<1>3. Sound
  BY <1>2, Srv!InitIInv, Srv!InitStep, ServerAssumptions DEF Sound
<1>4. heap.live = {} /\ heap.status = "serving"
  BY <1>1 DEF Pc!Init, Pc!EmptyHeap
<1>5. Pc!Serving /\ Regions = {}
  BY <1>4 DEF Pc!Serving, Regions, Srv!Regions, Srv!Allocated
<1>6. call.at = "boot" /\ call.old = 0 /\ ~ Waiting
  BY <1>1 DEF Waiting
<1>7. TypeInv /\ BootInv
  BY <1>1, <1>5, <1>6, HeapAssumption DEF TypeInv, BootInv
<1>8. ReplyInv /\ FreeInv /\ EndInv /\ WordInv /\ ResetInv /\ LeakInv /\ HeldInv
  BY <1>1, <1>6
  DEF ReplyInv, FreeInv, EndInv, WordInv, ResetInv, LeakInv, HeldInv, Present
<1> QED
  BY <1>3, <1>7, <1>8 DEF Inv

LEMMA StutterInv ==
  ASSUME Inv, UNCHANGED vars
  PROVE  Inv'
<1>1. UNCHANGED pcVars /\ UNCHANGED <<server, toPC, toMCU, brk, call, held>>
  BY DEF vars, mcuVars
<1>2. /\ Sound' /\ Regions' = Regions /\ Begins' = Begins
      /\ Pc!Serving' = Pc!Serving
  BY <1>1, ServerKept DEF Inv
<1>3. /\ HeldPtrs' = HeldPtrs /\ (Waiting' <=> Waiting) /\ Expected' = Expected
      /\ (\A r : Kept(r)' = Kept(r)) /\ (Resetting' <=> Resetting)
      /\ \A i : Freeing(i)' <=> Freeing(i)
  BY <1>1 DEF HeldPtrs, Waiting, Expected, Kept, InPlace, Resetting, ResetRequest, Freeing
<1>4. Present' <=> Present
  BY <1>1, <1>3 DEF Present
<1>5. TypeInv' /\ BootInv'
  BY <1>1, <1>2 DEF Inv, TypeInv, BootInv, ResetRequest
<1>6. ReplyInv' /\ EndInv' /\ ResetInv'
  BY <1>1, <1>3 DEF Inv, ReplyInv, EndInv, ResetInv, ResetRequest, EndRequest, Waiting, Expected
<1>7. FreeInv'
  BY <1>1, <1>2, <1>3 DEF Inv, FreeInv, ResetRequest
<1>8. HeldInv' /\ WordInv' /\ LeakInv'
  BY <1>1, <1>2, <1>3, <1>4 DEF Inv, HeldInv, WordInv, LeakInv
<1> QED
  BY <1>2, <1>5, <1>6, <1>7, <1>8 DEF Inv

LEMMA StepInv == Inv /\ [Next]_vars => Inv'
<1> SUFFICES ASSUME Inv, [Next]_vars PROVE Inv'
  OBVIOUS
<1>1. CASE UNCHANGED vars
  BY <1>1, StutterInv
<1>2. CASE ServerStep
  BY <1>2, StartSignalInv, FirstRequestInv, ServeInv DEF ServerStep
<1>3. CASE McuStep
  BY <1>3, BootStepInv, MallocAnswerInv, ResentAnswerInv, ReallocAnswerInv DEF McuStep
<1>4. CASE ProgramStep
  <2>1. CASE \E size \in Sizes : CallMalloc(size)
    BY <2>1, CallMallocInv
  <2>2. CASE \E p \in {r.ptr : r \in held} \cup {0} : CallFree(p)
    BY <2>2, CallFreeInv DEF HeldPtrs
  <2>3. CASE \E r \in held, size \in Sizes : CallRealloc(r.ptr, size)
    BY <2>3, CallReallocInv DEF HeldPtrs
  <2> QED
    BY <1>4, <2>1, <2>2, <2>3, CallResetInv, CallFinishInv DEF ProgramStep
<1> QED
  BY <1>1, <1>2, <1>3, <1>4 DEF Next

LEMMA SystemInvariant == Spec => []Inv
<1>1. Inv /\ [Next]_vars => Inv'
  BY StepInv
<1> QED
  BY <1>1, InitInv, PTL DEF Spec

(* SameHeap is stated with the requests that could empty the heap.         *)
LEMMA SameIsPresent ==
  ASSUME Inv, SameHeap
  PROVE  Present
<1>1. server = "loop"
  BY DEF SameHeap
<1>2. \A i \in DOMAIN toPC : ~ (toPC[i].request = "SBRK" /\ toPC[i].size = 0)
  BY DEF SameHeap, Underway
<1>3. DOMAIN toPC = 1 .. Len(toPC)
  BY DEF Inv, TypeInv
<1>4. /\ ResetRequest.request = "SBRK" /\ ResetRequest.size = 0
      /\ EndRequest.request = "SBRK" /\ EndRequest.size = 0
  BY DEF ResetRequest, EndRequest, Request, Pc!Request
<1>5. ~ Resetting
  BY <1>2, <1>3, <1>4 DEF Resetting
<1>6. call.at # "done"
  BY <1>1, <1>2, <1>3, <1>4 DEF Inv, EndInv
<1> QED
  BY <1>1, <1>5, <1>6 DEF Present

(* Each piece the program holds is an allocated block of the server, large *)
(* enough, for every heap size, policy and order of the messages.          *)
THEOREM AlwaysBacked == Spec => []HeldBacked
<1>1. Inv => HeldBacked
  <2> SUFFICES ASSUME Inv, SameHeap, NEW r \in held
               PROVE  \E b \in Pc!Allocated(heap) : Backs(b, r)
    BY DEF HeldBacked
  <2>1. PICK g \in Regions : g.lo = r.ptr /\ Kept(r) <= g.len
    BY SameIsPresent DEF Inv, HeldInv
  <2>2. PICK b \in Srv!Allocated(heap) : g = [lo |-> heap.ptr[b], len |-> heap.size[b]]
    BY <2>1 DEF Regions, Srv!Regions
  <2>3. g.lo = heap.ptr[b] /\ g.len = heap.size[b]
    BY <2>2
  <2>4. heap.size[b] \in Nat /\ Kept(r) \in Nat /\ Claim(r) \in Nat /\ Claim(r) <= Kept(r)
    <3>1. g.len \in Nat
      BY <2>1, SameIsPresent, RegionsTyped, SameServing DEF Present, Inv, BootInv
    <3>2. r.size \in Nat /\ call.size \in Nat
      BY DEF Inv, TypeInv
    <3> QED
      BY <2>3, <3>1, <3>2 DEF Claim, Kept, InPlace
  <2> QED
    BY <2>1, <2>2, <2>3, <2>4, SameAllocated DEF Backs
<1> QED
  BY <1>1, SystemInvariant, PTL

(* No block is lost: the program holds it, its free is under way, or the   *)
(* answer that grants it is, for every heap size, policy and order of the  *)
(* messages.                                                               *)
THEOREM NeverLeaks == Spec => []NoLeak
<1>1. Inv => NoLeak
  <2> SUFFICES ASSUME Inv, SameHeap, NEW b \in Pc!Allocated(heap)
               PROVE  \/ \E r \in held : r.ptr = heap.ptr[b]
                      \/ heap.ptr[b] \in {toMCU[i] : i \in DOMAIN toMCU}
                      \/ Underway(LAMBDA req : req.request = "FREE" /\ req.ptr = heap.ptr[b])
    BY DEF NoLeak
  <2> DEFINE q == heap.ptr[b]
  <2>1. q \in Begins
    BY SameAllocated, BeginsAre
  <2>2. /\ DOMAIN toPC = 1 .. Len(toPC) /\ DOMAIN toMCU = 1 .. Len(toMCU)
        /\ toMCU # << >> => 1 \in DOMAIN toMCU
    BY DEF Inv, TypeInv
  <2>3. \/ q \in HeldPtrs
        \/ toMCU # << >> /\ toMCU[1] = q
        \/ \E i \in 1 .. Len(toPC) : Freeing(i) /\ toPC[i].ptr = q
    BY <2>1, SameIsPresent DEF Inv, LeakInv
  <2>4. CASE q \in HeldPtrs
    BY <2>4 DEF HeldPtrs
  <2>5. CASE toMCU # << >> /\ toMCU[1] = q
    BY <2>2, <2>5
  <2>6. CASE \E i \in 1 .. Len(toPC) : Freeing(i) /\ toPC[i].ptr = q
    BY <2>2, <2>6 DEF Freeing, Underway
  <2> QED
    BY <2>3, <2>4, <2>5, <2>6
<1> QED
  BY <1>1, SystemInvariant, PTL

(* The machines never take one answer for another's: the words and the     *)
(* requests under way always promise exactly the word the call waits for.  *)
THEOREM AnswersNeverMixed == Spec => []OneReply
<1>1. Inv => OneReply
  <2> SUFFICES ASSUME Inv, call.at # "boot"
               PROVE  Len(toMCU) + Cardinality({i \in DOMAIN toPC : Answered(toPC[i])})
                        = IF call.at \in {"idle", "done"} THEN 0 ELSE 1
    BY DEF OneReply
  <2> DEFINE A == {i \in DOMAIN toPC : Answered(toPC[i])}
  <2>1. /\ DOMAIN toPC = 1 .. Len(toPC) /\ Len(toPC) \in Nat /\ Len(toMCU) \in Nat
        /\ toPC # << >> => Len(toPC) \in DOMAIN toPC
        /\ toMCU # << >> => Len(toMCU) # 0
    BY DEF Inv, TypeInv
  <2>2. Waiting <=> call.at \notin {"idle", "done"}
    BY DEF Waiting, Inv, TypeInv
  <2>3. A \subseteq {Len(toPC)} /\ (A # {} => Waiting)
    BY <2>1 DEF Inv, ReplyInv
  <2>4. Cardinality({}) = 0 /\ Cardinality({Len(toPC)}) = 1
    BY FS_EmptySet, FS_Singleton
  <2>5. CASE toMCU # << >>
    <3>1. Len(toMCU) <= 1 /\ toPC = << >> /\ Waiting
      BY <2>5 DEF Inv, ReplyInv
    <3>2. Len(toMCU) = 1
      <4>1. toMCU \in Seq(Nat)
        BY DEF Inv, TypeInv
      <4> QED
        BY <2>5, <3>1, <4>1, OnlyOne
    <3>3. A = {}
      BY <3>1
    <3> HIDE DEF A
    <3>4. Cardinality(A) = 0
      BY <2>4, <3>3
    <3> QED
      BY <2>2, <3>1, <3>2, <3>4 DEF A
  <2>6. CASE toMCU = << >>
    <3>1. Len(toMCU) = 0
      BY <2>6
    <3>2. CASE Waiting
      <4>1. Len(toPC) \in A
        BY <2>1, <2>6, <3>2 DEF Inv, ReplyInv
      <4>2. A = {Len(toPC)}
        BY <2>3, <4>1
      <4> HIDE DEF A
      <4>3. Cardinality(A) = 1
        BY <2>4, <4>2
      <4> QED
        BY <2>2, <3>1, <3>2, <4>3 DEF A
    <3>3. CASE ~ Waiting
      <4>1. A = {}
        BY <2>3, <3>3
      <4> HIDE DEF A
      <4>2. Cardinality(A) = 0
        BY <2>4, <4>1
      <4> QED
        BY <2>2, <3>1, <3>3, <4>2 DEF A
    <3> QED
      BY <3>2, <3>3
  <2> QED
    BY <2>5, <2>6
<1> QED
  BY <1>1, SystemInvariant, PTL

-----------------------------------------------------------------------------
(* The two copies of the break.                                            *)

(* Read one after the other, the requests reqs take the break from a to b. *)
Takes(a, reqs, b) ==
  \E f \in [0 .. Len(reqs) -> Nat] :
    /\ f[0] = a /\ f[Len(reqs)] = b
    /\ \A i \in 1 .. Len(reqs) : f[i] = BreakAfter(f[i - 1], reqs[i])

LEMMA BreakAfterTyped ==
  ASSUME NEW b \in Nat, NEW req \in Pc!RequestType
  PROVE  BreakAfter(b, req) \in Nat
BY DEF BreakAfter, Pc!RequestType

LEMMA TakesNone ==
  ASSUME NEW a \in Nat
  PROVE  Takes(a, << >>, a)
<1> DEFINE f == [i \in {0} |-> a]
<1>1. Len(<< >>) = 0 /\ 0 .. 0 = {0} /\ 1 .. 0 = {}
  OBVIOUS
<1>2. f \in [0 .. 0 -> Nat] /\ f[0] = a
  BY <1>1
<1> QED
  BY <1>1, <1>2 DEF Takes

LEMMA TakesMore ==
  ASSUME NEW s \in Seq(Pc!RequestType), NEW a, NEW b, Takes(a, s, b),
         NEW req \in Pc!RequestType
  PROVE  Takes(a, Append(s, req), BreakAfter(b, req))
<1> DEFINE t == Append(s, req)
           n == Len(s)
<1>1. /\ t \in Seq(Pc!RequestType) /\ Len(t) = n + 1 /\ n \in Nat
      /\ t[n + 1] = req /\ \A i \in 1 .. n : t[i] = s[i]
  BY Appended
<1>2. PICK f \in [0 .. n -> Nat] :
        /\ f[0] = a /\ f[n] = b
        /\ \A i \in 1 .. n : f[i] = BreakAfter(f[i - 1], s[i])
  BY DEF Takes
<1>3. BreakAfter(b, req) \in Nat
  <2>1. b \in Nat
    BY <1>1, <1>2
  <2> QED
    BY <2>1, BreakAfterTyped
<1> DEFINE g == [i \in 0 .. n + 1 |-> IF i <= n THEN f[i] ELSE BreakAfter(b, req)]
<1> HIDE DEF t, n
<1>4. g \in [0 .. n + 1 -> Nat] /\ g[0] = a /\ g[n + 1] = BreakAfter(b, req)
  BY <1>1, <1>2, <1>3
<1>5. \A i \in 1 .. n + 1 : g[i] = BreakAfter(g[i - 1], t[i])
  <2> SUFFICES ASSUME NEW i \in 1 .. n + 1 PROVE g[i] = BreakAfter(g[i - 1], t[i])
    OBVIOUS
  <2>1. CASE i <= n
    BY <1>1, <1>2, <2>1
  <2>2. CASE i = n + 1
    BY <1>1, <1>2, <2>2
  <2> QED
    BY <1>1, <2>1, <2>2
<1> HIDE DEF g
<1> QED
  BY <1>1, <1>4, <1>5 DEF Takes, t

LEMMA TakesRest ==
  ASSUME NEW s \in Seq(Pc!RequestType), NEW a, NEW b, Takes(a, s, b), s # << >>
  PROVE  Takes(BreakAfter(a, s[1]), Tail(s), b)
<1> DEFINE t == Tail(s)
           n == Len(t)
<1>1. /\ Len(s) = n + 1 /\ n \in Nat /\ \A i \in 1 .. n : t[i] = s[i + 1]
  BY Shifted
<1>2. PICK f \in [0 .. Len(s) -> Nat] :
        /\ f[0] = a /\ f[Len(s)] = b
        /\ \A i \in 1 .. Len(s) : f[i] = BreakAfter(f[i - 1], s[i])
  BY DEF Takes
<1> DEFINE g == [i \in 0 .. n |-> f[i + 1]]
<1> HIDE DEF n, t
<1>3. g \in [0 .. n -> Nat] /\ g[0] = BreakAfter(a, s[1]) /\ g[n] = b
  BY <1>1, <1>2
<1>4. \A i \in 1 .. n : g[i] = BreakAfter(g[i - 1], t[i])
  <2> SUFFICES ASSUME NEW i \in 1 .. n PROVE g[i] = BreakAfter(g[i - 1], t[i])
    OBVIOUS
  <2>1. i + 1 \in 1 .. Len(s) /\ (i + 1) - 1 = i /\ i \in 0 .. n /\ i - 1 \in 0 .. n
        /\ (i - 1) + 1 = i
    BY <1>1
  <2> QED
    BY <1>1, <1>2, <2>1
<1> HIDE DEF g
<1> QED
  BY <1>3, <1>4 DEF Takes, n, t

(* There is one break only that the requests take it to.                   *)
LEMMA TakesThen ==
  ASSUME NEW s \in Seq(Pc!RequestType), NEW a, NEW b, Takes(a, s, b)
  PROVE  BreakThen(a, s) = b
<1> DEFINE n == Len(s)
           Step(h) == [i \in 0 .. n |-> IF i = 0 THEN a ELSE BreakAfter(h[i - 1], s[i])]
           after == CHOOSE h : h = Step(h)
<1>1. n \in Nat
  OBVIOUS
<1>2. PICK f \in [0 .. n -> Nat] :
        /\ f[0] = a /\ f[n] = b
        /\ \A i \in 1 .. n : f[i] = BreakAfter(f[i - 1], s[i])
  BY DEF Takes
<1>3. BreakThen(a, s) = after[n]
  BY DEF BreakThen
<1> HIDE DEF n
<1>4. f = Step(f)
  BY <1>1, <1>2
<1>5. after = Step(after)
  BY <1>4
<1> HIDE DEF after
<1> DEFINE T == {i \in 0 .. n : after[i] # f[i]}
<1>6. T = {}
  <2> SUFFICES ASSUME T # {} PROVE FALSE
    OBVIOUS
  <2>0. T \in SUBSET Nat
    BY <1>1
  <2>1. PICK i \in T : \A j \in T : i <= j
    <3> HIDE DEF T
    <3> QED
      BY <2>0, Srv!LeastNat, ServerAssumptions
  <2>2. i # 0
    BY <1>1, <1>2, <1>5, <2>1
  <2>3. i \in 1 .. n /\ i - 1 \in 0 .. n /\ i - 1 \notin T
    BY <1>1, <2>1, <2>2
  <2>4. after[i - 1] = f[i - 1]
    BY <2>3
  <2>5. after[i] = BreakAfter(after[i - 1], s[i])
    BY <1>5, <2>2, <2>3
  <2> QED
    BY <1>2, <2>1, <2>3, <2>4, <2>5
<1>7. after[n] = f[n]
  BY <1>1, <1>6
<1> QED
  BY <1>2, <1>3, <1>7

BreakInv ==
  /\ Takes(mem_brk, toPC, brk)
  /\ brk \in Base .. Highest
  /\ call.at = "boot" => brk = Base

LEMMA HighestBounds == \A sp \in StackTops : Base < sp /\ sp <= Highest
<1>1. PICK t \in StackTops : \A sp \in StackTops : sp <= t
  BY StackAssumption
<1>2. \A sp \in StackTops : sp <= Highest
  BY <1>1 DEF Highest
<1> QED
  BY <1>2, StackAssumption

LEMMA BreakInit == Init => BreakInv
<1> SUFFICES ASSUME Init PROVE BreakInv
  OBVIOUS
<1>1. mem_brk = Base /\ toPC = << >> /\ brk = Base /\ Base \in Nat
  BY HeapAssumption DEF Init, Pc!Init
<1>2. Takes(mem_brk, toPC, brk)
  BY <1>1, TakesNone
<1>3. Base \in Base .. Highest
  BY HighestBounds, HighestTyped, HeapAssumption, StackAssumption
<1> QED
  BY <1>1, <1>2, <1>3 DEF BreakInv

(* A request is sent and the MCU moves its break accordingly.              *)
LEMMA SentTakes ==
  ASSUME Inv, BreakInv, NEW req \in Pc!RequestType, toPC' = Append(toPC, req),
         brk' = BreakAfter(brk, req), mem_brk' = mem_brk
  PROVE  Takes(mem_brk', toPC', brk')
BY TakesMore DEF Inv, TypeInv, BreakInv

(* No request but those of sbrk moves the break.                           *)
LEMMA OthersStay ==
  ASSUME NEW b, NEW req, req.request # "SBRK" \/ req = EndRequest
  PROVE  BreakAfter(b, req) = b
BY DEF BreakAfter

LEMMA SbrkTakes ==
  ASSUME NEW b \in Nat, NEW ext \in Nat
  PROVE  BreakAfter(b, Request("SBRK", ext, 0)) = b + ext
<1> DEFINE req == Request("SBRK", ext, 0)
<1>1. req.request = "SBRK" /\ req.size = ext /\ req.ptr = 0
  BY DEF Request, Pc!Request
<1>2. CASE ext = 0
  BY <1>2 DEF BreakAfter, EndRequest
<1>3. CASE ext # 0
  <2>1. req # EndRequest
    BY <1>1, <1>3 DEF EndRequest, Request, Pc!Request
  <2> HIDE DEF req
  <2>2. BreakAfter(b, req) = b + ext
    BY <1>1, <1>3, <2>1 DEF BreakAfter
  <2> QED
    BY <2>2 DEF req
<1> QED
  BY <1>2, <1>3

LEMMA ResetTakes ==
  ASSUME NEW b
  PROVE  BreakAfter(b, ResetRequest) = Base
<1>1. ResetRequest.request = "SBRK" /\ ResetRequest.size = 0 /\ ResetRequest.ptr = Base
  BY DEF ResetRequest, Request, Pc!Request
<1> QED
  BY <1>1, ResetRequested DEF BreakAfter

LEMMA ServeBreak ==
  ASSUME Inv, BreakInv, Serve \/ FirstRequest
  PROVE  BreakInv'
<1> DEFINE req == Head(toPC)
<1>1. /\ toPC # << >> /\ toPC' = Tail(toPC) /\ UNCHANGED <<brk, call>>
  BY DEF Serve, FirstRequest, mcuVars
<1>2. req = toPC[1] /\ req \in Pc!RequestType /\ 1 \in 1 .. Len(toPC)
      /\ toPC \in Seq(Pc!RequestType)
  <2>1. toPC \in Seq(Pc!RequestType)
    BY DEF Inv, TypeInv
  <2>2. req = toPC[1] /\ req \in Pc!RequestType /\ Len(toPC) \in Nat \ {0}
    BY <1>1, <2>1, Shifted
  <2> QED
    BY <2>1, <2>2
<1>3. mem_start_brk = Base
  BY DEF Inv, Sound, Srv!IInv
<1> HIDE DEF req
<1>4. mem_brk' = BreakAfter(mem_brk, req)
  <2>1. CASE req.request = "MALLOC" /\ Pc!HandleMalloc(req.size)
    BY <2>1, OthersStay DEF Pc!HandleMalloc
  <2>2. CASE req.request = "FREE" /\ Pc!HandleFree(req.ptr)
    BY <2>2, OthersStay DEF Pc!HandleFree
  <2>3. CASE req.request = "REALLOC" /\ Pc!HandleRealloc(req.ptr, req.size)
    BY <2>3, OthersStay DEF Pc!HandleRealloc
  <2>4. CASE req.request = "SBRK" /\ req.size # 0 /\ Pc!HandleSbrk(req.size)
    <3>1. mem_brk' = mem_brk + req.size /\ req # EndRequest
      BY <2>4 DEF Pc!HandleSbrk, EndRequest, Request, Pc!Request
    <3> QED
      BY <2>4, <3>1 DEF BreakAfter
  <2>5. CASE req.request = "SBRK" /\ req.size = 0 /\ req.ptr # 0 /\ Pc!HandleReset
    <3>1. req = ResetRequest
      BY <1>2, <2>5 DEF Inv, ResetInv
    <3>2. mem_brk' = Base
      BY <1>3, <2>5 DEF Pc!HandleReset
    <3> QED
      BY <3>1, <3>2, ResetTakes
  <2>6. CASE req = EndRequest /\ Pc!HandleEnd
    BY <2>6, OthersStay DEF Pc!HandleEnd
  <2>7. CASE FirstRequest
    <3>1. req = ResetRequest
      BY <1>2, <2>7 DEF FirstRequest, Inv, BootInv
    <3>2. mem_brk' = req.ptr
      BY <2>7 DEF FirstRequest, req
    <3> QED
      BY <3>1, <3>2, ResetTakes DEF ResetRequest, Request, Pc!Request
  <2> QED
    BY <2>1, <2>2, <2>3, <2>4, <2>5, <2>6, <2>7 DEF Serve, req
<1>5. Takes(mem_brk', toPC', brk')
  BY <1>1, <1>2, <1>4, TakesRest DEF BreakInv
<1> QED
  BY <1>1, <1>5 DEF BreakInv

(* The MCU sends a request other than sbrk's, or nothing.                  *)
LEMMA StayBreak ==
  ASSUME Inv, BreakInv, mem_brk' = mem_brk, brk' = brk, call'.at = "boot" => call.at = "boot",
         \/ toPC' = toPC
         \/ \E req \in Pc!RequestType :
              toPC' = Append(toPC, req) /\ (req.request # "SBRK" \/ req = EndRequest)
  PROVE  BreakInv'
<1>1. CASE toPC' = toPC
  BY <1>1 DEF BreakInv
<1>2. CASE \E req \in Pc!RequestType :
             toPC' = Append(toPC, req) /\ (req.request # "SBRK" \/ req = EndRequest)
  <2>1. PICK req \in Pc!RequestType :
             toPC' = Append(toPC, req) /\ (req.request # "SBRK" \/ req = EndRequest)
    BY <1>2
  <2>2. brk' = BreakAfter(brk, req)
    BY <2>1, OthersStay
  <2>3. Takes(mem_brk', toPC', brk')
    BY <2>1, <2>2, SentTakes
  <2> QED
    BY <2>3 DEF BreakInv
<1> QED
  BY <1>1, <1>2

LEMMA CallBreak ==
  ASSUME Inv, BreakInv, ProgramStep
  PROVE  BreakInv'
<1>1. toPC \in Seq(Pc!RequestType) /\ \A r \in held : r.ptr \in Nat
  BY DEF Inv, TypeInv
<1>2. ASSUME NEW size \in Sizes, CallMalloc(size)
      PROVE  BreakInv'
  <2> DEFINE req == Request("MALLOC", size, 0)
  <2>1. req \in Pc!RequestType /\ req.request # "SBRK"
    BY HeapAssumption, Requested
  <2>2. /\ toPC' = Append(toPC, req) /\ mem_brk' = mem_brk /\ brk' = brk
        /\ call'.at # "boot"
    BY <1>2 DEF CallMalloc, Send, Await, pcVars
  <2> HIDE DEF req
  <2> QED
    BY <2>1, <2>2, StayBreak
<1>3. ASSUME NEW p \in {r.ptr : r \in held} \cup {0}, CallFree(p)
      PROVE  BreakInv'
  <2> DEFINE req == Request("FREE", 0, p)
  <2>1. req \in Pc!RequestType /\ req.request # "SBRK"
    BY <1>1, Requested
  <2>2. toPC' = Append(toPC, req) /\ mem_brk' = mem_brk /\ brk' = brk /\ call' = call
    BY <1>3 DEF CallFree, Send, pcVars
  <2> HIDE DEF req
  <2> QED
    BY <2>1, <2>2, StayBreak
<1>4. ASSUME NEW r \in held, NEW size \in Sizes, CallRealloc(r.ptr, size)
      PROVE  BreakInv'
  <2> DEFINE req == Request("REALLOC", size, r.ptr)
  <2>1. req \in Pc!RequestType /\ req.request # "SBRK"
    BY <1>1, HeapAssumption, Requested
  <2>2. /\ toPC' = Append(toPC, req) /\ mem_brk' = mem_brk /\ brk' = brk
        /\ call'.at # "boot"
    BY <1>4 DEF CallRealloc, Send, Await, pcVars
  <2> HIDE DEF req
  <2> QED
    BY <2>1, <2>2, StayBreak
<1>5. ASSUME CallReset
      PROVE  BreakInv'
  <2>1. /\ toPC' = Append(toPC, ResetRequest) /\ mem_brk' = mem_brk /\ brk' = Base
        /\ call' = call
    BY <1>5 DEF CallReset, Send, ResetRequest, pcVars
  <2>2. Takes(mem_brk', toPC', brk')
    BY <2>1, ResetRequested, ResetTakes, SentTakes
  <2>3. Base \in Base .. Highest
    BY HighestBounds, HighestTyped, HeapAssumption, StackAssumption
  <2> QED
    BY <2>1, <2>2, <2>3 DEF BreakInv
<1>6. ASSUME CallFinish
      PROVE  BreakInv'
  <2>1. /\ toPC' = Append(toPC, EndRequest) /\ mem_brk' = mem_brk /\ brk' = brk
        /\ call'.at # "boot"
    BY <1>6 DEF CallFinish, Send, Done, pcVars
  <2> QED
    BY <2>1, ResetRequested, StayBreak
<1> QED
  BY <1>2, <1>3, <1>4, <1>5, <1>6 DEF ProgramStep

LEMMA BootBreak ==
  ASSUME Inv, BreakInv, Boot
  PROVE  BreakInv'
<1> DEFINE ext == Extension(CHUNKSIZE)
<1>1. call.at = "boot" /\ toMCU # << >> /\ mem_brk' = mem_brk
  BY DEF Boot, pcVars
<1>2. toMCU = <<1>> /\ toPC = << >> /\ brk = Base /\ brk \in Nat
  BY <1>1, HeapAssumption DEF Inv, BootInv, BreakInv, TypeInv
<1>3. /\ call'.at = "idle"
      /\ \/ toPC' = <<ResetRequest>> /\ brk' = brk
         \/ /\ toPC' = <<ResetRequest>> \o <<Request("SBRK", ext, 0)>>
            /\ brk' = brk + ext
            /\ \E sp \in StackTops : brk + ext <= sp
  BY <1>2 DEF Boot, Idle, ResetRequest, CanExtend
<1>4. ext \in Nat
  BY ExtensionTyped, WordAssumption
<1>5. Request("SBRK", ext, 0) \in Pc!RequestType
  BY <1>4, Requested
<1> HIDE DEF ext
<1>6. <<ResetRequest>> = Append(toPC, ResetRequest) /\ <<ResetRequest>> \in Seq(Pc!RequestType)
  BY <1>2, ResetRequested
<1>7. Takes(mem_brk, <<ResetRequest>>, Base)
  <2>1. toPC \in Seq(Pc!RequestType) /\ Takes(mem_brk, toPC, brk)
    BY DEF Inv, TypeInv, BreakInv
  <2>2. Takes(mem_brk, Append(toPC, ResetRequest), BreakAfter(brk, ResetRequest))
    BY <2>1, ResetRequested, TakesMore
  <2> QED
    BY <1>6, <2>2, ResetTakes
<1>8. CASE toPC' = <<ResetRequest>> /\ brk' = brk
  BY <1>1, <1>2, <1>3, <1>7, <1>8 DEF BreakInv
<1>9. CASE /\ toPC' = <<ResetRequest>> \o <<Request("SBRK", ext, 0)>>
           /\ brk' = brk + ext
           /\ \E sp \in StackTops : brk + ext <= sp
  <2>1. toPC' = Append(<<ResetRequest>>, Request("SBRK", ext, 0))
    BY <1>9
  <2>2. Takes(mem_brk', toPC', Base + ext)
    <3> DEFINE more == Request("SBRK", ext, 0)
    <3>1. BreakAfter(Base, more) = Base + ext
      BY <1>4, SbrkTakes, HeapAssumption
    <3> HIDE DEF more
    <3>2. Takes(mem_brk, Append(<<ResetRequest>>, more), BreakAfter(Base, more))
      BY <1>5, <1>6, <1>7, TakesMore DEF more
    <3> QED
      BY <1>1, <2>1, <3>1, <3>2 DEF more
  <2>3. brk' \in Base .. Highest
    <3>1. PICK sp \in StackTops : brk + ext <= sp
      BY <1>9
    <3>2. sp <= Highest /\ sp \in Nat
      BY HighestBounds, StackAssumption
    <3> QED
      BY <1>2, <1>4, <1>9, <3>1, <3>2, HighestTyped, HeapAssumption
  <2> QED
    BY <1>2, <1>3, <1>9, <2>2, <2>3 DEF BreakInv
<1> QED
  BY <1>3, <1>8, <1>9

LEMMA ReturnBreak ==
  ASSUME Inv, BreakInv, Waiting, toMCU # << >>, NEW new, Return(new),
         UNCHANGED <<pcVars, brk>>
  PROVE  BreakInv'
<1> DEFINE req == Request("FREE", 0, call.old)
<1>1. req \in Pc!RequestType /\ req.request # "SBRK"
  BY Requested DEF Inv, TypeInv
<1>2. mem_brk' = mem_brk /\ call'.at # "boot"
  BY DEF Return, Idle, Done, pcVars
<1>3. toPC' = toPC \/ toPC' = Append(toPC, req) \/ toPC' = Append(toPC, EndRequest)
  BY DEF Return, Send
<1> HIDE DEF req
<1> QED
  BY <1>1, <1>2, <1>3, ResetRequested, StayBreak

LEMMA AnswerBreak ==
  ASSUME Inv, BreakInv, MallocAnswer \/ ResentAnswer \/ ReallocAnswer
  PROVE  BreakInv'
<1> DEFINE ext == Extension(ExtendSize(call.size))
           req == Request("MALLOC", call.size, 0)
           more == Request("SBRK", ext, 0)
<1>1. Waiting /\ toMCU # << >> /\ UNCHANGED pcVars /\ mem_brk' = mem_brk
  BY DEF MallocAnswer, ResentAnswer, ReallocAnswer, Waiting, pcVars
<1>2. call.size \in Nat /\ brk \in Nat /\ toPC = << >>
  BY <1>1, OneWord DEF Inv, TypeInv
<1>3. ext \in Nat
  BY <1>2, ExtendSizeTyped, ExtensionTyped
<1>4. /\ req \in Pc!RequestType /\ req.request # "SBRK"
      /\ more \in Pc!RequestType
  BY <1>2, <1>3, Requested
<1>5. ASSUME NEW new, Return(new), UNCHANGED brk
      PROVE  BreakInv'
  BY <1>1, <1>5, ReturnBreak
<1>6. CASE /\ held' = {r \in held : r.ptr # call.old} \cup Take(call.old, call.size)
           /\ call' = Idle /\ UNCHANGED <<toPC, brk>>
  BY <1>1, <1>6, StayBreak DEF Idle
<1>7. CASE Send(req) /\ Await("asked", call.size, call.old) /\ UNCHANGED <<held, brk>>
  <2>1. toPC' = Append(toPC, req) /\ call'.at = "asked" /\ brk' = brk
    BY <1>7 DEF Send, Await
  <2> HIDE DEF req
  <2> QED
    BY <1>1, <1>4, <2>1, StayBreak
<1>8. CASE /\ \E sp \in StackTops : CanExtend(ExtendSize(call.size), sp)
           /\ brk' = brk + ext /\ toPC' = toPC \o <<more, req>>
           /\ Await("resent", call.size, call.old)
  <2>1. \E sp \in StackTops : brk + ext <= sp
    BY <1>8 DEF CanExtend
  <2>2. call'.at = "resent"
    BY <1>8 DEF Await
  <2>3. brk' = brk + ext /\ toPC' = toPC \o <<more, req>>
    BY <1>8
  <2>4. BreakAfter(brk, more) = brk + ext
    BY <1>2, <1>3, SbrkTakes
  <2>5. \A b : BreakAfter(b, req) = b
    BY <1>4, OthersStay
  <2> HIDE DEF more, req, ext
  <2>6. /\ Append(toPC, more) \in Seq(Pc!RequestType)
        /\ toPC' = Append(Append(toPC, more), req)
    BY <1>2, <1>4, <2>3
  <2>7. Takes(mem_brk, Append(toPC, more), brk + ext)
    BY <1>4, <2>4, TakesMore DEF Inv, TypeInv, BreakInv
  <2>8. Takes(mem_brk, toPC', brk + ext)
    BY <1>4, <2>5, <2>6, <2>7, TakesMore
  <2>9. brk' \in Base .. Highest
    <3>1. PICK sp \in StackTops : brk + ext <= sp
      BY <2>1
    <3>2. sp <= Highest /\ sp \in Nat /\ Base <= brk
      BY HighestBounds, StackAssumption DEF BreakInv
    <3> QED
      BY <1>2, <1>3, <2>3, <3>1, <3>2, HighestTyped, HeapAssumption
  <2> QED
    BY <1>1, <2>2, <2>3, <2>8, <2>9 DEF BreakInv
<1>9. CASE MallocAnswer
  BY <1>5, <1>8, <1>9 DEF MallocAnswer
<1>10. CASE ResentAnswer
  BY <1>5, <1>10 DEF ResentAnswer
<1>11. CASE ReallocAnswer
  BY <1>6, <1>7, <1>11 DEF ReallocAnswer
<1> QED
  BY <1>9, <1>10, <1>11

LEMMA BreakInvariant == Spec => [](Inv /\ BreakInv)
<1>1. Inv /\ BreakInv /\ [Next]_vars => BreakInv'
  <2> SUFFICES ASSUME Inv, BreakInv, [Next]_vars PROVE BreakInv'
    OBVIOUS
  <2>1. CASE StartSignal \/ UNCHANGED vars
    <3>1. UNCHANGED <<mem_brk, toPC, brk, call>>
      BY <2>1 DEF StartSignal, vars, pcVars, mcuVars
    <3> QED
      BY <3>1 DEF BreakInv
  <2> QED
    BY <2>1, ServeBreak, CallBreak, BootBreak, AnswerBreak DEF Next, ServerStep, McuStep
<1> QED
  BY <1>1, BreakInit, SystemInvariant, PTL DEF Spec

(* The two copies of the break agree once the requests under way are read, *)
(* for every heap size and every order of the messages.                    *)
THEOREM BreaksAlwaysAgree == Spec => []BreaksAgree
<1>1. Inv /\ BreakInv => BreaksAgree
  BY TakesThen DEF Inv, TypeInv, BreakInv, BreaksAgree
<1> QED
  BY <1>1, BreakInvariant, PTL

-----------------------------------------------------------------------------
(* Types, and room for the blocks.                                         *)

SizeInv ==
  /\ call.size \in Sizes \cup {0} /\ (Waiting => call.size # 0)
  /\ \A r \in held : r.size \in Sizes \ {0}

WholeRequests(reqs) ==
  \A i \in 1 .. Len(reqs) : reqs[i].request = "SBRK" => Srv!Multiple(reqs[i].size)

(* Both breaks, the requests to move one and the regions keep to whole     *)
(* double words; the server's break stays below the highest stack too.     *)
WholeInv ==
  /\ mem_brk <= Highest
  /\ Srv!Multiple(mem_brk - Base) /\ Srv!Multiple(brk - Base)
  /\ WholeRequests(toPC)
  /\ \A r \in Regions : Srv!Multiple(r.lo - Base)

LEMMA NothingWhole == Srv!Multiple(0) /\ Srv!Multiple(Base - Base)
<1>1. Base - Base = 0
  BY HeapAssumption
<1> QED
  BY <1>1, Srv!MultipleNone, ServerAssumptions

LEMMA SumWhole ==
  ASSUME NEW b \in Nat, NEW ext \in Nat, Srv!Multiple(b - Base), Srv!Multiple(ext)
  PROVE  Srv!Multiple((b + ext) - Base)
<1>1. (b + ext) - Base = (b - Base) + ext
  BY HeapAssumption
<1> QED
  BY <1>1, Srv!MultipleSum, ServerAssumptions

(* extend_heap asks for an even number of words.                           *)
LEMMA ExtensionWhole ==
  ASSUME NEW bytes \in Nat
  PROVE  Srv!Multiple(Extension(bytes))
<1> DEFINE words == bytes \div WSIZE
<1>1. WSIZE \in Nat \ {0} /\ DSIZE = 2 * WSIZE
  BY WordAssumption, RoomAssumption
<1>2. words \in Nat
  BY <1>1
<1> HIDE DEF words
<1>3. CASE words % 2 = 1
  <2>1. PICK k \in Nat : words + 1 = 2 * k
    BY <1>2, <1>3
  <2>2. (words + 1) * WSIZE = DSIZE * k
    BY <1>1, <2>1
  <2> QED
    BY <1>3, <2>2 DEF Extension, words, Srv!Multiple
<1>4. CASE words % 2 # 1
  <2>1. PICK k \in Nat : words = 2 * k
    BY <1>2, <1>4
  <2>2. words * WSIZE = DSIZE * k
    BY <1>1, <2>1
  <2> QED
    BY <1>4, <2>2 DEF Extension, words, Srv!Multiple
<1> QED
  BY <1>3, <1>4

LEMMA WholeInit == Init => SizeInv /\ WholeInv
<1> SUFFICES ASSUME Init PROVE SizeInv /\ WholeInv
  OBVIOUS
<1>1. /\ Pc!Init /\ toPC = << >> /\ brk = Base /\ held = {} /\ mem_brk = Base
      /\ call = [at |-> "boot", size |-> 0, old |-> 0]
  BY DEF Init, Pc!Init
<1>2. SizeInv
  BY <1>1 DEF SizeInv, Waiting
<1>3. heap.live = {}
  BY <1>1 DEF Pc!Init, Pc!EmptyHeap
<1>4. Regions = {}
  BY <1>3 DEF Regions, Srv!Regions, Srv!Allocated
<1>5. Base <= Highest
  BY HighestBounds, HighestTyped, HeapAssumption, StackAssumption
<1>6. WholeRequests(toPC)
  BY <1>1 DEF WholeRequests
<1> QED
  BY <1>1, <1>2, <1>4, <1>5, <1>6, NothingWhole DEF WholeInv

(* A step of the MCU sends requests and moves its own break.               *)
LEMMA WholeSent ==
  ASSUME Inv, WholeInv, UNCHANGED pcVars, Srv!Multiple(brk' - Base), WholeRequests(toPC')
  PROVE  WholeInv'
<1>1. Regions' = Regions
  BY ServerKept DEF Inv
<1>2. mem_brk' = mem_brk
  BY DEF pcVars
<1> QED
  BY <1>1, <1>2 DEF WholeInv

LEMMA WholeAppended ==
  ASSUME NEW reqs \in Seq(Pc!RequestType), WholeRequests(reqs),
         NEW req \in Pc!RequestType, req.request = "SBRK" => Srv!Multiple(req.size)
  PROVE  WholeRequests(Append(reqs, req))
<1> DEFINE t == Append(reqs, req)
<1>1. /\ Len(t) = Len(reqs) + 1 /\ Len(reqs) \in Nat
      /\ t[Len(reqs) + 1] = req /\ \A i \in 1 .. Len(reqs) : t[i] = reqs[i]
  BY Appended
<1> HIDE DEF t
<1>2. \A i \in 1 .. Len(t) : i = Len(reqs) + 1 \/ i \in 1 .. Len(reqs)
  BY <1>1
<1>3. WholeRequests(t)
  BY <1>1, <1>2 DEF WholeRequests
<1> QED
  BY <1>3 DEF t

LEMMA ServeWhole ==
  ASSUME Inv, WholeInv, Serve \/ FirstRequest
  PROVE  WholeInv'
<1> DEFINE req == Head(toPC)
<1>1. /\ toPC # << >> /\ toPC' = Tail(toPC) /\ UNCHANGED <<brk, call, held>>
  BY DEF Serve, FirstRequest, mcuVars
<1>2. /\ req = toPC[1] /\ req \in Pc!RequestType /\ 1 \in 1 .. Len(toPC)
      /\ WholeRequests(toPC')
  <2>1. toPC \in Seq(Pc!RequestType)
    BY DEF Inv, TypeInv
  <2>2. /\ req = toPC[1] /\ req \in Pc!RequestType /\ Len(toPC) \in Nat \ {0}
        /\ Len(toPC') = Len(toPC) - 1
        /\ \A i \in 1 .. Len(toPC') : toPC'[i] = toPC[i + 1]
    BY <1>1, <2>1, Shifted
  <2>3. \A i \in 1 .. Len(toPC') : i + 1 \in 1 .. Len(toPC)
    BY <2>2
  <2>4. WholeRequests(toPC')
    BY <2>2, <2>3 DEF WholeInv, WholeRequests
  <2> QED
    BY <2>2, <2>4
<1>3. /\ Sound /\ mem_start_brk = Base /\ mem_brk \in Nat
      /\ req.size \in Nat /\ req.ptr \in Nat
  BY <1>2 DEF Inv, Sound, Srv!IInv, Srv!TypeOK, Pc!RequestType
<1>4. server = "loop" /\ Answered(req) => req = Expected /\ HeldPtrs \subseteq Begins
  BY <1>1, <1>2, AnsweredFacts
<1> HIDE DEF req
<1>5. ASSUME mem_brk' = mem_brk, \A r \in Regions' : Srv!Multiple(r.lo - Base)
      PROVE  WholeInv'
  BY <1>1, <1>2, <1>5 DEF WholeInv
<1>6. ASSUME mem_brk' = Base, Regions' = {}
      PROVE  WholeInv'
  <2>1. Base <= Highest
    BY HighestBounds, HighestTyped, HeapAssumption, StackAssumption
  <2> QED
    BY <1>1, <1>2, <1>6, <2>1, NothingWhole DEF WholeInv
<1>10. CASE req.request = "MALLOC" /\ Pc!HandleMalloc(req.size)
  <2>1. mem_brk' = mem_brk
    BY <1>10 DEF Pc!HandleMalloc
  <2>2. \/ Regions' = Regions
        \/ \E lo \in Nat \ {0}, len \in Nat :
              /\ reply' = <<lo>>
              /\ Regions' = Regions \cup {[lo |-> lo, len |-> len]}
    BY <1>3, <1>10, MallocRun
  <2>3. ASSUME NEW lo \in Nat \ {0}, reply' = <<lo>>
        PROVE  Srv!Multiple(lo - Base)
    <3>1. Srv!HandleMalloc(req.size)
      BY <1>10, SameHandleMalloc
    <3>2. \A r \in Srv!Regions : Srv!Multiple(r.lo - Base)
      BY DEF WholeInv, Regions
    <3> QED
      BY <1>3, <2>3, <3>1, <3>2, Srv!GivenPlaced, ServerAssumptions DEF Sound
  <2>4. \A r \in Regions' : Srv!Multiple(r.lo - Base)
    BY <2>2, <2>3 DEF WholeInv
  <2> QED
    BY <1>5, <2>1, <2>4
<1>11. CASE req.request = "FREE" /\ Pc!HandleFree(req.ptr) /\ server = "loop"
  <2>1. req.ptr = 0 \/ req.ptr \in Begins
    BY <1>1, <1>2, <1>11 DEF Inv, FreeInv, Freeing
  <2>2. Regions' = {r \in Regions : r.lo # req.ptr}
    BY <1>3, <1>11, <2>1, FreeRun
  <2>3. mem_brk' = mem_brk
    BY <1>11 DEF Pc!HandleFree
  <2> QED
    BY <1>5, <2>2, <2>3 DEF WholeInv
<1>12. CASE req.request = "REALLOC" /\ Pc!HandleRealloc(req.ptr, req.size) /\ server = "loop"
  <2>1. req = Expected /\ HeldPtrs \subseteq Begins
    BY <1>4, <1>12 DEF Answered
  <2>2. call.at = "resizing" /\ req.size = call.size /\ req.ptr = call.old
    BY <1>12, <2>1 DEF Expected, Request, Pc!Request
  <2>3. req.ptr \in Begins /\ req.size \in Nat \ {0}
    BY <1>3, <2>1, <2>2 DEF Inv, HeldInv
  <2>4. \/ Regions' = Regions
        \/ \E len \in Nat :
              Regions' = {r \in Regions : r.lo # req.ptr} \cup {[lo |-> req.ptr, len |-> len]}
    BY <1>3, <1>12, <2>3, ReallocRun
  <2>5. Srv!Multiple(req.ptr - Base)
    BY <2>3 DEF Begins, WholeInv
  <2>6. mem_brk' = mem_brk
    BY <1>12 DEF Pc!HandleRealloc
  <2> QED
    BY <1>5, <2>4, <2>5, <2>6 DEF WholeInv
<1>13. CASE req.request = "SBRK" /\ req.size # 0 /\ Pc!HandleSbrk(req.size)
  <2>1. Regions' = Regions
    BY <1>3, <1>13, SbrkRun
  <2>2. mem_brk' = mem_brk + req.size /\ mem_brk + req.size - mem_start_brk <= Highest - Base
    BY <1>13 DEF Pc!HandleSbrk
  <2>3. mem_brk' <= Highest
    BY <1>3, <2>2, HighestTyped, HeapAssumption
  <2>4. Srv!Multiple(req.size)
    BY <1>2, <1>13 DEF WholeInv, WholeRequests
  <2>5. Srv!Multiple(mem_brk' - Base)
    BY <1>3, <2>2, <2>4, SumWhole DEF WholeInv
  <2> QED
    BY <1>1, <1>2, <2>1, <2>3, <2>5 DEF WholeInv
<1>14. CASE Pc!HandleReset
  <2>1. Regions' = {} /\ mem_brk' = Base
    BY <1>3, <1>14, EmptyRun DEF Pc!HandleReset
  <2> QED
    BY <1>6, <2>1
<1>15. CASE Pc!HandleEnd
  <2>1. Regions' = {} /\ mem_brk' = mem_brk
    BY <1>3, <1>15, EmptyRun DEF Pc!HandleEnd
  <2> QED
    BY <1>5, <2>1
<1>16. CASE FirstRequest
  <2>1. req = ResetRequest
    BY <1>2, <1>16 DEF FirstRequest, Inv, BootInv
  <2>2. req.ptr = Base /\ req.request = "SBRK" /\ Base # 0
    BY <2>1, HeapAssumption DEF ResetRequest, Request, Pc!Request
  <2>3. mem_brk' = Base /\ heap' = Pc!EmptyHeap(Base)
    BY <1>16, <2>2 DEF FirstRequest, req
  <2>4. heap'.live = {}
    BY <2>3 DEF Pc!EmptyHeap
  <2>5. Regions' = {}
    BY <2>4 DEF Regions, Srv!Regions, Srv!Allocated
  <2> QED
    BY <1>6, <2>3, <2>5
<1>17. CASE Serve
  BY <1>10, <1>11, <1>12, <1>13, <1>14, <1>15, <1>17 DEF Serve, req
<1> QED
  BY <1>16, <1>17

(* Nothing is sent, or one request that does not ask for an odd size.      *)
LEMMA QuietWhole ==
  ASSUME Inv, WholeInv, UNCHANGED pcVars, brk' = brk \/ brk' = Base,
         \/ toPC' = toPC
         \/ \E req \in Pc!RequestType :
              /\ toPC' = Append(toPC, req)
              /\ req.request = "SBRK" => Srv!Multiple(req.size)
  PROVE  WholeInv'
<1>1. WholeRequests(toPC) /\ toPC \in Seq(Pc!RequestType)
  BY DEF WholeInv, Inv, TypeInv
<1>2. WholeRequests(toPC')
  <2>1. CASE toPC' = toPC
    BY <1>1, <2>1
  <2>2. CASE \E req \in Pc!RequestType :
               /\ toPC' = Append(toPC, req)
               /\ req.request = "SBRK" => Srv!Multiple(req.size)
    BY <1>1, <2>2, WholeAppended
  <2> QED
    BY <2>1, <2>2
<1>3. Srv!Multiple(brk' - Base)
  BY NothingWhole DEF WholeInv
<1> QED
  BY <1>2, <1>3, WholeSent

LEMMA EmptyRequestsWhole ==
  /\ EndRequest \in Pc!RequestType /\ Srv!Multiple(EndRequest.size)
  /\ ResetRequest \in Pc!RequestType /\ Srv!Multiple(ResetRequest.size)
<1>1. EndRequest.size = 0 /\ ResetRequest.size = 0
  BY DEF EndRequest, ResetRequest, Request, Pc!Request
<1> QED
  BY <1>1, ResetRequested, NothingWhole

LEMMA CallWhole ==
  ASSUME Inv, WholeInv, ProgramStep
  PROVE  WholeInv'
<1>1. \A r \in held : r.ptr \in Nat
  BY DEF Inv, TypeInv
<1>2. ASSUME NEW size \in Sizes, CallMalloc(size)
      PROVE  WholeInv'
  <2> DEFINE req == Request("MALLOC", size, 0)
  <2>1. req \in Pc!RequestType /\ req.request # "SBRK"
    BY HeapAssumption, Requested
  <2>2. toPC' = Append(toPC, req) /\ UNCHANGED pcVars /\ brk' = brk
    BY <1>2 DEF CallMalloc, Send
  <2> HIDE DEF req
  <2> QED
    BY <2>1, <2>2, QuietWhole
<1>3. ASSUME NEW p \in {r.ptr : r \in held} \cup {0}, CallFree(p)
      PROVE  WholeInv'
  <2> DEFINE req == Request("FREE", 0, p)
  <2>1. req \in Pc!RequestType /\ req.request # "SBRK"
    BY <1>1, Requested
  <2>2. toPC' = Append(toPC, req) /\ UNCHANGED pcVars /\ brk' = brk
    BY <1>3 DEF CallFree, Send
  <2> HIDE DEF req
  <2> QED
    BY <2>1, <2>2, QuietWhole
<1>4. ASSUME NEW r \in held, NEW size \in Sizes, CallRealloc(r.ptr, size)
      PROVE  WholeInv'
  <2> DEFINE req == Request("REALLOC", size, r.ptr)
  <2>1. req \in Pc!RequestType /\ req.request # "SBRK"
    BY <1>1, HeapAssumption, Requested
  <2>2. toPC' = Append(toPC, req) /\ UNCHANGED pcVars /\ brk' = brk
    BY <1>4 DEF CallRealloc, Send
  <2> HIDE DEF req
  <2> QED
    BY <2>1, <2>2, QuietWhole
<1>5. ASSUME CallReset
      PROVE  WholeInv'
  <2>1. toPC' = Append(toPC, ResetRequest) /\ UNCHANGED pcVars /\ brk' = Base
    BY <1>5 DEF CallReset, Send, ResetRequest
  <2> QED
    BY <2>1, EmptyRequestsWhole, QuietWhole
<1>6. ASSUME CallFinish
      PROVE  WholeInv'
  <2>1. toPC' = Append(toPC, EndRequest) /\ UNCHANGED pcVars /\ brk' = brk
    BY <1>6 DEF CallFinish, Send
  <2> QED
    BY <2>1, EmptyRequestsWhole, QuietWhole
<1> QED
  BY <1>2, <1>3, <1>4, <1>5, <1>6 DEF ProgramStep

LEMMA BootWhole ==
  ASSUME Inv, WholeInv, Boot
  PROVE  WholeInv'
<1> DEFINE ext  == Extension(CHUNKSIZE)
           more == Request("SBRK", ext, 0)
<1>1. call.at = "boot" /\ toMCU # << >> /\ UNCHANGED pcVars
  BY DEF Boot
<1>2. toMCU = <<1>> /\ toPC = << >> /\ brk \in Nat
  BY <1>1 DEF Inv, BootInv, TypeInv
<1>3. \/ toPC' = <<ResetRequest>> /\ brk' = brk
      \/ toPC' = <<ResetRequest>> \o <<more>> /\ brk' = brk + ext
  BY <1>2 DEF Boot, ResetRequest
<1>4. ext \in Nat /\ Srv!Multiple(ext)
  BY ExtensionTyped, ExtensionWhole, WordAssumption
<1>5. more \in Pc!RequestType /\ more.size = ext
  BY <1>4, Requested
<1> HIDE DEF ext, more
<1>6. <<ResetRequest>> \in Seq(Pc!RequestType) /\ <<ResetRequest>> = Append(toPC, ResetRequest)
  BY <1>2, ResetRequested
<1>7. WholeRequests(<<ResetRequest>>)
  <2>1. WholeRequests(toPC) /\ toPC \in Seq(Pc!RequestType)
    BY DEF WholeInv, Inv, TypeInv
  <2>2. WholeRequests(Append(toPC, ResetRequest))
    BY <2>1, EmptyRequestsWhole, WholeAppended
  <2> QED
    BY <1>6, <2>2
<1>8. CASE toPC' = <<ResetRequest>> /\ brk' = brk
  BY <1>1, <1>7, <1>8, WholeSent DEF WholeInv
<1>9. CASE toPC' = <<ResetRequest>> \o <<more>> /\ brk' = brk + ext
  <2>1. toPC' = Append(<<ResetRequest>>, more)
    BY <1>9
  <2>2. WholeRequests(Append(<<ResetRequest>>, more))
    BY <1>4, <1>5, <1>6, <1>7, WholeAppended
  <2>3. Srv!Multiple(brk' - Base)
    BY <1>2, <1>4, <1>9, SumWhole DEF WholeInv
  <2> QED
    BY <1>1, <2>1, <2>2, <2>3, WholeSent
<1> QED
  BY <1>3, <1>8, <1>9

LEMMA AnswerWhole ==
  ASSUME Inv, WholeInv, MallocAnswer \/ ResentAnswer \/ ReallocAnswer
  PROVE  WholeInv'
<1> DEFINE ext  == Extension(ExtendSize(call.size))
           req  == Request("MALLOC", call.size, 0)
           more == Request("SBRK", ext, 0)
<1>1. UNCHANGED pcVars
  BY DEF MallocAnswer, ResentAnswer, ReallocAnswer
<1>2. call.size \in Nat /\ call.old \in Nat /\ brk \in Nat /\ toPC \in Seq(Pc!RequestType)
  BY DEF Inv, TypeInv
<1>3. ext \in Nat /\ Srv!Multiple(ext)
  BY <1>2, ExtendSizeTyped, ExtensionTyped, ExtensionWhole
<1>4. /\ req \in Pc!RequestType /\ req.request # "SBRK"
      /\ more \in Pc!RequestType /\ more.size = ext
  BY <1>2, <1>3, Requested
<1>5. ASSUME NEW new, Return(new), UNCHANGED brk
      PROVE  WholeInv'
  <2> DEFINE free == Request("FREE", 0, call.old)
  <2>1. free \in Pc!RequestType /\ free.request # "SBRK"
    BY <1>2, Requested
  <2>2. toPC' = toPC \/ toPC' = Append(toPC, free) \/ toPC' = Append(toPC, EndRequest)
    BY <1>5 DEF Return, Send
  <2> HIDE DEF free
  <2> QED
    BY <1>1, <1>5, <2>1, <2>2, EmptyRequestsWhole, QuietWhole
<1>6. CASE UNCHANGED <<toPC, brk>>
  BY <1>1, <1>6, QuietWhole
<1>7. CASE Send(req) /\ UNCHANGED brk
  <2>1. toPC' = Append(toPC, req) /\ brk' = brk
    BY <1>7 DEF Send
  <2> HIDE DEF req
  <2> QED
    BY <1>1, <1>4, <2>1, QuietWhole
<1>8. CASE brk' = brk + ext /\ toPC' = toPC \o <<more, req>>
  <2> HIDE DEF more, req, ext
  <2>1. /\ Append(toPC, more) \in Seq(Pc!RequestType)
        /\ toPC' = Append(Append(toPC, more), req)
    BY <1>2, <1>4, <1>8
  <2>2. WholeRequests(Append(toPC, more))
    BY <1>2, <1>3, <1>4, WholeAppended DEF WholeInv
  <2>3. WholeRequests(toPC')
    BY <1>4, <2>1, <2>2, WholeAppended
  <2>4. Srv!Multiple(brk' - Base)
    BY <1>2, <1>3, <1>8, SumWhole DEF WholeInv
  <2> QED
    BY <1>1, <2>3, <2>4, WholeSent
<1>9. CASE MallocAnswer
  BY <1>5, <1>8, <1>9 DEF MallocAnswer
<1>10. CASE ResentAnswer
  BY <1>5, <1>10 DEF ResentAnswer
<1>11. CASE ReallocAnswer
  BY <1>6, <1>7, <1>11 DEF ReallocAnswer
<1> QED
  BY <1>9, <1>10, <1>11

(* A piece has the size of a call in progress.                             *)
LEMMA StepSizes ==
  ASSUME Inv, SizeInv, [Next]_vars
  PROVE  SizeInv'
<1>1. ASSUME UNCHANGED <<call, held>>
      PROVE  SizeInv'
  BY <1>1 DEF SizeInv, Waiting
<1>2. ASSUME call' \in {Idle, Done}, \A r \in held' : r.size \in Sizes \ {0}
      PROVE  SizeInv'
  BY <1>2 DEF SizeInv, Waiting, Idle, Done
<1>3. ASSUME NEW at, NEW size \in Sizes \ {0}, NEW old, Await(at, size, old), held' = held
      PROVE  SizeInv'
  BY <1>3 DEF SizeInv, Await
<1>4. ASSUME Waiting PROVE call.size \in Sizes \ {0}
  BY <1>4 DEF SizeInv
<1>5. ASSUME Waiting, NEW new, NEW r \in Take(new, call.size)
      PROVE  r.size \in Sizes \ {0}
  BY <1>4, <1>5 DEF Take
<1>6. \A r \in held : r.size \in Sizes \ {0}
  BY DEF SizeInv
<1>7. ASSUME Waiting, NEW new, Return(new)
      PROVE  SizeInv'
  <2>1. call' \in {Idle, Done}
    BY <1>7 DEF Return
  <2>2. held' \subseteq held \cup Take(new, call.size)
    BY <1>7 DEF Return
  <2> QED
    BY <1>2, <1>5, <1>6, <1>7, <2>1, <2>2
<1>8. CASE ServerStep \/ UNCHANGED vars
  BY <1>1, <1>8 DEF ServerStep, StartSignal, FirstRequest, Serve, vars, mcuVars
<1>9. CASE Boot
  BY <1>2, <1>6, <1>9 DEF Boot
<1>10. CASE MallocAnswer
  <2>1. Waiting
    BY <1>10 DEF MallocAnswer, Waiting
  <2>2. \/ \E new : Return(new)
        \/ Await("resent", call.size, call.old) /\ held' = held
    BY <1>10 DEF MallocAnswer
  <2> QED
    BY <1>3, <1>4, <1>7, <2>1, <2>2
<1>11. CASE ResentAnswer
  <2>1. Waiting
    BY <1>11 DEF ResentAnswer, Waiting
  <2> QED
    BY <1>7, <1>11, <2>1 DEF ResentAnswer
<1>12. CASE ReallocAnswer
  <2>1. Waiting
    BY <1>12 DEF ReallocAnswer, Waiting
  <2>2. \/ Await("asked", call.size, call.old) /\ held' = held
        \/ call' = Idle /\ held' \subseteq held \cup Take(call.old, call.size)
    BY <1>12 DEF ReallocAnswer
  <2> QED
    BY <1>2, <1>3, <1>4, <1>5, <1>6, <2>1, <2>2
<1>13. CASE ProgramStep
  <2>1. \/ \E size \in Sizes \ {0} : Await("asked", size, 0) /\ held' = held
        \/ call' = call /\ held' \subseteq held
        \/ \E old : \E size \in Sizes \ {0} : Await("resizing", size, old) /\ held' = held
        \/ call' = Done /\ held' = held
    <3>1. CASE \E size \in Sizes : CallMalloc(size)
      BY <3>1 DEF CallMalloc
    <3>2. CASE \E p \in {r.ptr : r \in held} \cup {0} : CallFree(p)
      BY <3>2 DEF CallFree
    <3>3. CASE \E r \in held, size \in Sizes : CallRealloc(r.ptr, size)
      BY <3>3 DEF CallRealloc
    <3>4. CASE CallReset \/ CallFinish
      BY <3>4 DEF CallReset, CallFinish
    <3> QED
      BY <1>13, <3>1, <3>2, <3>3, <3>4 DEF ProgramStep
  <2>2. ASSUME call' = call, held' \subseteq held
        PROVE  SizeInv'
    BY <2>2 DEF SizeInv, Waiting
  <2> QED
    BY <1>2, <1>3, <1>6, <2>1, <2>2
<1> QED
  BY <1>8, <1>9, <1>10, <1>11, <1>12, <1>13 DEF Next, McuStep

LEMMA StepWhole ==
  ASSUME Inv, WholeInv, [Next]_vars
  PROVE  WholeInv'
<1>1. CASE StartSignal \/ UNCHANGED vars
  <2>1. UNCHANGED <<pcVars, toPC, brk>>
    BY <1>1 DEF StartSignal, vars, mcuVars
  <2> QED
    BY <2>1, QuietWhole
<1> QED
  BY <1>1, ServeWhole, CallWhole, BootWhole, AnswerWhole DEF Next, ServerStep, McuStep

(* The blocks of the server take at most the double words of its heap.     *)
LEMMA NodesLeft ==
  ASSUME Inv, WholeInv
  PROVE  heap.live # Node
<1> DEFINE n == (Highest - Base) \div DSIZE
<1>1. /\ Highest - Base \in Nat /\ DSIZE \in Nat \ {0} /\ n \in Nat
      /\ IsFiniteSet(Node) => Cardinality(Node) > n
  BY HighestTyped, HeapAssumption, RoomAssumption
<1> HIDE DEF n
<1>2. CASE Srv!Serving
  <2>1. mem_brk - Base <= Highest - Base
    BY HighestTyped, HeapAssumption DEF WholeInv, Inv, Sound, Srv!IInv, Srv!TypeOK
  <2>2. \A r \in Srv!Regions : Srv!Multiple(r.lo - Base)
    BY DEF WholeInv, Regions
  <2>3. PICK f \in [heap.live -> 1 .. n] : \A a, b \in heap.live : f[a] = f[b] => a = b
    <3>1. /\ Srv!IInv /\ Srv!Serving /\ Srv!Rounded(heap)
          /\ Srv!Multiple(mem_brk - Base)
          /\ \A r \in Srv!Regions : Srv!Multiple(r.lo - Base)
          /\ Highest - Base \in Nat /\ mem_brk - Base <= Highest - Base
      BY <1>1, <1>2, <2>1, <2>2 DEF Inv, Sound, WholeInv
    <3> QED
      BY ONLY <3>1, Srv!FewBlocks, ServerAssumptions DEF n
  <2>4. IsFiniteSet(heap.live) /\ Cardinality(heap.live) <= n /\ Cardinality(heap.live) \in Nat
    <3>1. f \in Injection(heap.live, 1 .. n)
      BY <2>3 DEF Injection, IsInjective
    <3>2. IsFiniteSet(1 .. n) /\ Cardinality(1 .. n) = n
      BY <1>1, FS_Interval
    <3> QED
      BY <3>1, <3>2, FS_Injection, FS_CardinalityType
  <2>5. ASSUME heap.live = Node PROVE FALSE
    BY <1>1, <2>4, <2>5
  <2> QED
    BY <2>5
<1>3. CASE ~ Srv!Serving
  <2>1. heap.live = {}
    BY <1>3 DEF Inv, Sound, Srv!IInv
  <2>2. IsFiniteSet({}) /\ Cardinality({}) = 0
    BY FS_EmptySet
  <2> QED
    BY <1>1, <2>1, <2>2
<1> QED
  BY <1>2, <1>3

(* Types hold, both breaks keep to whole double words below the highest    *)
(* stack, and the server never runs out of blk_elts, whatever is sent and  *)
(* in whatever order it is served.                                         *)
THEOREM AlwaysTyped == Spec => []TypeOK
<1>1. Inv /\ BreakInv /\ SizeInv /\ WholeInv => TypeOK
  <2> SUFFICES ASSUME Inv, BreakInv, SizeInv, WholeInv PROVE TypeOK
    OBVIOUS
  <2>1. Srv!TypeOK
    BY DEF Inv, Sound, Srv!IInv
  <2>2. heap \in Srv!HeapType <=> heap \in Pc!HeapType
    BY DEF Srv!HeapType, Pc!HeapType, Srv!Elt, Pc!Elt, Srv!Class, Pc!Class,
           Srv!Status, Pc!Status
  <2>3. Pc!TypeOK
    BY <2>1, <2>2 DEF Srv!TypeOK, Pc!TypeOK, Srv!RequestType, Pc!RequestType
  <2>4. brk \in Base .. Highest /\ (brk - Base) % DSIZE = 0
    BY Srv!MultipleSize, ServerAssumptions DEF BreakInv, WholeInv
  <2>5. call \in Calls /\ held \in SUBSET Pieces
    <3>1. call \in [at : {"boot", "idle", "asked", "resent", "resizing", "done"},
                    size : Sizes \cup {0}, old : Nat]
      BY DEF Inv, TypeInv, SizeInv
    <3>2. \A r \in held : r \in [ptr : Nat \ {0}, size : Sizes \ {0}]
      BY DEF Inv, TypeInv, SizeInv
    <3> QED
      BY <3>1, <3>2 DEF Calls, Pieces
  <2> QED
    BY <2>3, <2>4, <2>5, NodesLeft DEF TypeOK, Inv, TypeInv
<1>2. Inv /\ SizeInv /\ WholeInv /\ [Next]_vars => SizeInv' /\ WholeInv'
  BY StepSizes, StepWhole
<1> QED
  BY <1>1, <1>2, WholeInit, BreakInvariant, PTL DEF Spec

-----------------------------------------------------------------------------
(* Shrinking.                                                              *)

(* The server refuses to resize a block only when it is to grow.           *)
RefuseInv ==
  call.at = "resizing" /\ toMCU # << >> /\ toMCU[1] = 0 =>
    \A r \in held : r.ptr = call.old => r.size < call.size

LEMMA ServeRefuses ==
  ASSUME Inv, RefuseInv, Serve
  PROVE  RefuseInv'
<1> DEFINE req == Head(toPC)
<1>1. /\ server = "loop" /\ toPC # << >> /\ UNCHANGED <<brk, call, held>>
      /\ toMCU' = toMCU \o reply'
  BY DEF Serve, mcuVars
<1>2. req = toPC[1] /\ toMCU \in Seq(Nat) /\ toMCU = << >> /\ Sound
  <2>1. toPC \in Seq(Pc!RequestType) /\ toMCU \in Seq(Nat) /\ Sound
    BY DEF Inv, TypeInv
  <2>2. toMCU = << >>
    BY <1>1 DEF Inv, BootInv, ReplyInv
  <2> QED
    BY <1>1, <2>1, <2>2, Shifted
<1> HIDE DEF req
<1>3. CASE reply' = << >>
  <2>1. toMCU' = toMCU
    BY <1>1, <1>2, <1>3
  <2> QED
    BY <1>1, <2>1 DEF RefuseInv
<1>4. CASE req.request = "MALLOC"
  <2>1. call.at # "resizing"
    BY <1>1, <1>2, <1>4, AnsweredFacts DEF Answered, Expected, Request, Pc!Request
  <2> QED
    BY <1>1, <2>1 DEF RefuseInv
<1>5. CASE req.request = "REALLOC" /\ Pc!HandleRealloc(req.ptr, req.size)
  <2>1. req = Expected /\ HeldPtrs \subseteq Begins /\ Present
    BY <1>1, <1>2, <1>5, AnsweredFacts DEF Answered
  <2>2. call.at = "resizing" /\ req.size = call.size /\ req.ptr = call.old
    BY <1>5, <2>1 DEF Expected, Request, Pc!Request
  <2>3. /\ req.ptr \in Begins /\ req.size \in Nat \ {0} /\ req.ptr # 0
        /\ \A r \in held : r.ptr \in Nat \ {0} /\ r.size \in Nat
    BY <2>1, <2>2 DEF Inv, HeldInv, TypeInv
  <2>4. \/ reply' = << 0 >> /\ \A g \in Regions : g.lo = req.ptr => g.len < req.size
        \/ reply' = <<req.ptr>>
    BY <1>2, <1>5, <2>3, ReallocRun
  <2>5. CASE reply' = << 0 >> /\ \A g \in Regions : g.lo = req.ptr => g.len < req.size
    <3>1. ASSUME NEW r \in held, r.ptr = call.old
          PROVE  r.size < call.size
      <4>1. PICK g \in Regions : g.lo = r.ptr /\ r.size <= g.len
        BY <1>2, <2>1 DEF Inv, HeldInv, Kept, InPlace
      <4>2. g.len < call.size
        BY <2>2, <2>5, <3>1, <4>1
      <4>3. g.len \in Nat
        BY <1>1, <1>2, <4>1, RegionsTyped, SameServing DEF Inv, BootInv
      <4> QED
        BY <2>2, <2>3, <3>1, <4>1, <4>2, <4>3
    <3> QED
      BY <1>1, <3>1 DEF RefuseInv
  <2>6. CASE reply' = <<req.ptr>>
    <3>1. toMCU' = <<req.ptr>>
      BY <1>1, <1>2, <2>6
    <3> QED
      BY <2>3, <3>1 DEF RefuseInv
  <2> QED
    BY <2>4, <2>5, <2>6
<1> QED
  BY <1>3, <1>4, <1>5
  DEF Serve, req, Pc!HandleFree, Pc!HandleSbrk, Pc!HandleReset, Pc!HandleEnd

LEMMA StepRefuses ==
  ASSUME Inv, RefuseInv, [Next]_vars
  PROVE  RefuseInv'
<1>1. CASE Serve
  BY <1>1, ServeRefuses
<1>2. CASE call'.at # "resizing"
  BY <1>2 DEF RefuseInv
<1>3. CASE \E r \in held, size \in Sizes : CallRealloc(r.ptr, size)
  <2>1. call.at = "idle" /\ toMCU' = toMCU
    BY <1>3 DEF CallRealloc, Ready
  <2>2. toMCU = << >>
    BY <2>1 DEF Inv, ReplyInv, Waiting
  <2> QED
    BY <2>1, <2>2 DEF RefuseInv
<1>4. CASE UNCHANGED <<call, held, toMCU>>
  BY <1>4 DEF RefuseInv
<1>5. CASE StartSignal
  <2>1. call.at \in {"boot"} /\ call' = call
    BY <1>5 DEF StartSignal, Inv, BootInv, mcuVars
  <2> QED
    BY <1>2, <2>1
<1>6. CASE FirstRequest \/ UNCHANGED vars
  BY <1>4, <1>6 DEF FirstRequest, vars, mcuVars
<1>7. CASE McuStep
  <2>1. call'.at # "resizing"
    BY <1>7 DEF McuStep, Boot, MallocAnswer, ResentAnswer, ReallocAnswer, Return,
                Await, Idle, Done
  <2> QED
    BY <1>2, <2>1
<1>8. CASE ProgramStep
  <2>1. ASSUME NEW size \in Sizes, CallMalloc(size)
        PROVE  call'.at # "resizing"
    BY <2>1 DEF CallMalloc, Await
  <2>2. ASSUME NEW p, CallFree(p)
        PROVE  call'.at # "resizing"
    BY <2>2 DEF CallFree, Ready
  <2>3. CallReset \/ CallFinish => call'.at # "resizing"
    BY DEF CallReset, CallFinish, Ready, Done
  <2> QED
    BY <1>2, <1>3, <1>8, <2>1, <2>2, <2>3 DEF ProgramStep
<1> QED
  BY <1>1, <1>5, <1>6, <1>7, <1>8 DEF Next, ServerStep

(* A piece that shrinks or keeps its size is never moved: realloc to no    *)
(* more than the program had is answered in place, whatever the padding.   *)
THEOREM ShrinkingStays == Spec => ShrinksInPlace
<1>1. Init => RefuseInv
  BY DEF Init, RefuseInv
<1>2. Inv /\ RefuseInv /\ [Next]_vars =>
        (/\ call.at = "resizing" /\ call'.at # "resizing"
         /\ \E r \in held : r.ptr = call.old /\ call.size <= r.size
         => call'.at = "idle")
  <2> SUFFICES ASSUME Inv, RefuseInv, [Next]_vars, call.at = "resizing",
                      call'.at # "resizing",
                      NEW r \in held, r.ptr = call.old, call.size <= r.size
               PROVE  call'.at = "idle"
    OBVIOUS
  <2>1. ReallocAnswer
    <3>1. call' # call
      OBVIOUS
    <3>2. ~ ProgramStep
      BY DEF ProgramStep, CallMalloc, CallFree, CallRealloc, CallReset, CallFinish, Ready
    <3>3. ~ ServerStep /\ ~ UNCHANGED vars
      BY <3>1 DEF ServerStep, StartSignal, FirstRequest, Serve, mcuVars, vars
    <3> QED
      BY <3>2, <3>3 DEF Next, McuStep, Boot, MallocAnswer, ResentAnswer
  <2>2. toMCU # << >> /\ Head(toMCU) = toMCU[1] /\ call.at # "boot"
    BY <2>1, OneWord DEF ReallocAnswer, Waiting
  <2>3. r.size \in Nat /\ call.size \in Nat
    BY DEF Inv, TypeInv
  <2>4. toMCU[1] # 0
    BY <2>2, <2>3 DEF RefuseInv
  <2>5. toMCU[1] = call.old
    BY <2>2, <2>4 DEF Inv, WordInv
  <2> QED
    BY <2>1, <2>2, <2>5 DEF ReallocAnswer, Idle
<1>3. Inv /\ RefuseInv /\ [Next]_vars => RefuseInv'
  BY StepRefuses
<1> QED
  BY <1>1, <1>2, <1>3, SystemInvariant, PTL DEF Spec, ShrinksInPlace
-----------------------------------------------------------------------------
(* To the program, the two machines are a malloc library: Offload         *)
(* implements MallocAbs.  First: blocks of the server are apart, and below *)
(* the stack.                                                              *)

LEMMA RegionsApart ==
  ASSUME Sound, Pc!Serving, NEW g \in Regions, NEW h \in Regions, g.lo # h.lo
  PROVE  g.lo + g.len <= h.lo \/ h.lo + h.len <= g.lo
<1>1. PICK a \in Srv!Allocated(heap) : g = [lo |-> heap.ptr[a], len |-> heap.size[a]]
  BY DEF Regions, Srv!Regions
<1>2. PICK b \in Srv!Allocated(heap) : h = [lo |-> heap.ptr[b], len |-> heap.size[b]]
  BY DEF Regions, Srv!Regions
<1>3. /\ g.lo = heap.ptr[a] /\ g.len = heap.size[a]
      /\ h.lo = heap.ptr[b] /\ h.len = heap.size[b]
  BY <1>1, <1>2
<1>4. a \in heap.live /\ b \in heap.live /\ a # b
  BY <1>3 DEF Srv!Allocated
<1>5. Srv!Apart(heap)
  BY SameServing DEF Sound, Srv!IInv, Srv!Shape
<1> QED
  BY <1>3, <1>4, <1>5 DEF Srv!Apart

LEMMA RegionsWithin ==
  ASSUME Sound, Pc!Serving, NEW g \in Regions
  PROVE  Base <= g.lo /\ g.lo + g.len <= mem_brk
<1>1. PICK a \in Srv!Allocated(heap) : g = [lo |-> heap.ptr[a], len |-> heap.size[a]]
  BY DEF Regions, Srv!Regions
<1>2. g.lo = heap.ptr[a] /\ g.len = heap.size[a] /\ a \in heap.live
  BY <1>1 DEF Srv!Allocated
<1>3. Srv!Within(heap, mem_brk) /\ heap.ptr[Start] = Base
  BY SameServing DEF Sound, Srv!IInv, Srv!Shape
<1> QED
  BY <1>2, <1>3 DEF Srv!Within

-----------------------------------------------------------------------------
(* The program's pieces.                                                   *)

PieceInv ==
  /\ \A r \in held : r.size \in Sizes
  /\ \A r, s \in held : r.ptr = s.ptr => r = s
  /\ Waiting => call.size \in Sizes

(* A word that grants memory: the piece is free of those that stay.        *)
LEMMA FreshPiece ==
  ASSUME Inv, BreakInv, PieceInv, Waiting, toMCU # << >>, toMCU[1] # 0,
         NEW others \in SUBSET held, \A s \in others : s.ptr # toMCU[1]
  PROVE  [ptr |-> toMCU[1], size |-> call.size] \in Lib!Fresh(others)
<1> DEFINE w    == toMCU[1]
           size == call.size
           new  == [ptr |-> w, size |-> size]
<1>1. /\ toPC = << >> /\ w \in Nat \ {0} /\ call.at # "boot" /\ server = "loop" /\ Present
      /\ (call.at = "resizing" => w = call.old)
  BY OneWord DEF Inv, WordInv
<1>2. PICK g \in Regions : g.lo = w /\ size <= g.len
  BY <1>1 DEF Inv, WordInv
<1>3. Pc!Serving /\ Sound
  BY <1>1 DEF Inv, BootInv
<1>4. g.lo \in Nat \ {0} /\ g.len \in Nat \ {0} /\ size \in Nat /\ size \in Sizes
  BY <1>3, RegionsTyped, SameServing DEF Inv, TypeInv, PieceInv
<1>5. mem_brk = brk /\ brk \in Nat /\ brk <= Highest
  <2>1. Takes(mem_brk, << >>, brk) /\ brk \in Base .. Highest /\ brk \in Nat
    BY <1>1 DEF BreakInv, Inv, TypeInv
  <2>2. Len(<< >>) = 0
    OBVIOUS
  <2>3. mem_brk = brk
    BY <2>1, <2>2 DEF Takes
  <2> QED
    BY <2>1, <2>3, HighestTyped, HeapAssumption
<1>6. Base <= w /\ w + size <= Highest /\ w \in Base .. Highest - 1
  BY <1>2, <1>3, <1>4, <1>5, RegionsWithin, HighestTyped, HeapAssumption
<1>7. ASSUME NEW s \in others
      PROVE  w + size <= s.ptr \/ s.ptr + s.size <= w
  <2>1. Kept(s) = s.size
    BY <1>1, <1>7 DEF Kept, InPlace
  <2>2. PICK h \in Regions : h.lo = s.ptr /\ s.size <= h.len
    BY <1>1, <1>7, <2>1 DEF Inv, HeldInv
  <2>3. h.lo \in Nat /\ h.len \in Nat /\ s.size \in Nat
    BY <1>3, <1>7, <2>2, RegionsTyped, SameServing DEF Inv, TypeInv
  <2>4. g.lo + g.len <= h.lo \/ h.lo + h.len <= g.lo
    BY <1>2, <1>3, <1>7, <2>2, RegionsApart
  <2> QED
    BY <1>2, <1>4, <2>2, <2>3, <2>4
<1>8. new.ptr = w /\ new.size = size /\ new \in [ptr : Base .. Highest - 1, size : Sizes]
  BY <1>4, <1>6
<1> HIDE DEF new
<1>9. new \in Lib!Fresh(others)
  BY <1>6, <1>7, <1>8 DEF Lib!Fresh, Lib!Disjoint
<1> QED
  BY <1>9 DEF new

(* The piece of a pointer is one.                                          *)
LEMMA Without ==
  ASSUME PieceInv, NEW o \in held
  PROVE  {r \in held : r.ptr # o.ptr} = held \ {o}
BY DEF PieceInv

(* The pieces that a call may leave.                                       *)
LEMMA PiecesStay ==
  ASSUME PieceInv, held' \in SUBSET held, call'.at \notin {"asked", "resent", "resizing"}
  PROVE  PieceInv'
BY DEF PieceInv, Waiting

LEMMA PiecesTaken ==
  ASSUME PieceInv, NEW others \in SUBSET held, NEW new,
         new.size \in Sizes, \A s \in others : s.ptr # new.ptr,
         held' = others \cup {new}, call'.at \notin {"asked", "resent", "resizing"}
  PROVE  PieceInv'
<1>1. \A r \in held' : r.size \in Sizes
  BY DEF PieceInv
<1>2. ASSUME NEW r \in held', NEW s \in held', r.ptr = s.ptr
      PROVE  r = s
  BY <1>2 DEF PieceInv
<1> QED
  BY <1>1, <1>2 DEF PieceInv, Waiting

(* The old piece of the call.                                              *)
LEMMA OldPiece ==
  ASSUME Inv, PieceInv, call.old # 0
  PROVE  \E o \in held : o.ptr = call.old /\ {r \in held : r.ptr # call.old} = held \ {o}
<1>1. PICK o \in held : o.ptr = call.old
  BY DEF Inv, HeldInv, HeldPtrs
<1> QED
  BY <1>1, Without

(* What mm_malloc returns, taken by malloc or by realloc, which moves.     *)
LEMMA ReturnRefines ==
  ASSUME Inv, BreakInv, PieceInv, call.at \in {"asked", "resent"}, toMCU # << >>,
         Return(Head(toMCU))
  PROVE  [Lib!Next]_held /\ PieceInv'
<1> DEFINE w    == toMCU[1]
           size == call.size
           new  == [ptr |-> w, size |-> size]
<1>1. Waiting /\ Head(toMCU) = w /\ w \in Nat /\ new.ptr = w /\ new.size = size
  BY OneWord DEF Waiting
<1>2. w # 0 => \A s \in held : s.ptr # w
  BY <1>1 DEF Inv, WordInv, Waiting, HeldPtrs
<1>3. w # 0 => new \in Lib!Fresh(held)
  BY <1>1, <1>2, FreshPiece
<1>4. new.size \in Sizes
  BY <1>1 DEF PieceInv
<1>5. Take(w, size) = IF w = 0 THEN {} ELSE {new}
  BY DEF Take
<1>6. \/ call.old = 0 /\ held' = held \cup Take(w, size) /\ call'.at = "idle"
      \/ /\ call.old # 0 /\ call'.at = "idle"
         /\ held' = {r \in held : r.ptr # call.old} \cup Take(w, size)
      \/ held' = held /\ call'.at = "done"
  BY <1>1 DEF Return, Idle, Done
<1> HIDE DEF new, w
<1>7. CASE held' = held /\ call'.at = "done"
  BY <1>7, PiecesStay
<1>8. CASE call.old = 0 /\ held' = held \cup Take(w, size) /\ call'.at = "idle"
  <2>1. CASE w = 0
    <3>1. held' = held
      BY <1>5, <1>8, <2>1
    <3> QED
      BY <1>8, <3>1, PiecesStay
  <2>2. CASE w # 0
    <3>1. held' = held \cup {new}
      BY <1>5, <1>8, <2>2
    <3>2. Lib!Next
      BY <1>3, <2>2, <3>1 DEF Lib!Next, Lib!Malloc
    <3>3. \A s \in held : s.ptr # new.ptr
      BY <1>1, <1>2, <2>2
    <3>4. PieceInv'
      BY <1>4, <1>8, <3>1, <3>3, PiecesTaken
    <3> QED
      BY <3>2, <3>4
  <2> QED
    BY <2>1, <2>2
<1>9. CASE /\ call.old # 0 /\ call'.at = "idle"
           /\ held' = {r \in held : r.ptr # call.old} \cup Take(w, size)
  <2>1. PICK o \in held : {r \in held : r.ptr # call.old} = held \ {o}
    BY <1>9, OldPiece
  <2>2. CASE w = 0
    <3>1. held' = held \ {o}
      BY <1>5, <1>9, <2>1, <2>2
    <3> QED
      BY <1>9, <3>1, PiecesStay DEF Lib!Next, Lib!Free
  <2>3. CASE w # 0
    <3>1. held' = (held \ {o}) \cup {new}
      BY <1>5, <1>9, <2>1, <2>3
    <3>2. new \in Lib!Fresh(held \ {o}) /\ Lib!Disjoint(new, o)
      BY <1>3, <2>3 DEF Lib!Fresh
    <3>3. Lib!Next
      BY <3>1, <3>2 DEF Lib!Next, Lib!Realloc
    <3>4. \A s \in held \ {o} : s.ptr # new.ptr
      BY <1>1, <1>2, <2>3
    <3>5. PieceInv'
      BY <1>4, <1>9, <3>1, <3>4, PiecesTaken
    <3> QED
      BY <3>3, <3>5
  <2> QED
    BY <2>2, <2>3
<1> QED
  BY <1>6, <1>7, <1>8, <1>9

(* The same pieces, and the size of the call is the program's.             *)
LEMMA PiecesAsk ==
  ASSUME PieceInv, held' = held,
         call'.at \in {"asked", "resent", "resizing"} => call'.size \in Sizes
  PROVE  PieceInv'
BY DEF PieceInv, Waiting

(* The old block has the new size, or a new one is asked for.              *)
LEMMA ReallocAnswerRefines ==
  ASSUME Inv, BreakInv, PieceInv, ReallocAnswer
  PROVE  [Lib!Next]_held /\ PieceInv'
<1> DEFINE w    == toMCU[1]
           size == call.size
           new  == [ptr |-> w, size |-> size]
<1>1. /\ Waiting /\ call.at = "resizing" /\ toMCU # << >> /\ Head(toMCU) = w
      /\ new.ptr = w /\ new.size = size /\ call.old # 0 /\ size \in Sizes
  BY OneWord DEF ReallocAnswer, Waiting, Inv, HeldInv, PieceInv
<1>2. CASE w # call.old
  <2>1. held' = held /\ call'.at = "asked" /\ call'.size = size
    BY <1>1, <1>2 DEF ReallocAnswer, Await
  <2> QED
    BY <1>1, <2>1, PiecesAsk
<1>3. CASE w = call.old
  <2>1. PICK o \in held : o.ptr = w /\ {r \in held : r.ptr # call.old} = held \ {o}
    BY <1>1, <1>3, OldPiece
  <2>2. Take(w, size) = {new}
    BY <1>1, <1>3 DEF Take
  <2>3. held' = (held \ {o}) \cup {new} /\ call'.at = "idle"
    BY <1>1, <1>3, <2>1, <2>2 DEF ReallocAnswer, Idle
  <2>4. \A s \in held \ {o} : s.ptr # w
    BY <2>1 DEF PieceInv
  <2>5. new \in Lib!Fresh(held \ {o})
    BY <1>1, <1>3, <2>4, FreshPiece
  <2> HIDE DEF new, w
  <2>6. Lib!Next
    BY <1>1, <2>1, <2>3, <2>5 DEF Lib!Next, Lib!Realloc
  <2> QED
    BY <1>1, <2>3, <2>4, <2>6, PiecesTaken
<1> QED
  BY <1>2, <1>3

LEMMA AnswerRefines ==
  ASSUME Inv, BreakInv, PieceInv, MallocAnswer \/ ResentAnswer
  PROVE  [Lib!Next]_held /\ PieceInv'
<1>1. call.at \in {"asked", "resent"} /\ toMCU # << >>
  BY DEF MallocAnswer, ResentAnswer
<1>2. CASE Return(Head(toMCU))
  BY <1>1, <1>2, ReturnRefines
<1>3. CASE held' = held /\ Await("resent", call.size, call.old)
  <2>1. call'.size = call.size /\ call.size \in Sizes
    BY <1>1, <1>3 DEF Await, PieceInv, Waiting
  <2> QED
    BY <1>3, <2>1, PiecesAsk
<1> QED
  BY <1>2, <1>3 DEF MallocAnswer, ResentAnswer

LEMMA ProgramRefines ==
  ASSUME Inv, PieceInv, ProgramStep
  PROVE  [Lib!Next]_held /\ PieceInv'
<1>1. ASSUME NEW size \in Sizes, CallMalloc(size)
      PROVE  held' = held /\ PieceInv'
  <2>1. held' = held /\ call'.size = size
    BY <1>1 DEF CallMalloc, Await
  <2> QED
    BY <2>1, PiecesAsk
<1>2. ASSUME NEW p \in {r.ptr : r \in held} \cup {0}, CallFree(p)
      PROVE  [Lib!Next]_held /\ PieceInv'
  <2>1. held' = {r \in held : r.ptr # p} /\ call' = call /\ call.at = "idle"
    BY <1>2 DEF CallFree, Ready
  <2>2. PieceInv'
    BY <2>1, PiecesStay
  <2>3. CASE \A r \in held : r.ptr # p
    BY <2>1, <2>2, <2>3
  <2>4. CASE \E r \in held : r.ptr = p
    <3>1. PICK o \in held : o.ptr = p
      BY <2>4
    <3>2. held' = held \ {o}
      BY <2>1, <3>1, Without
    <3> QED
      BY <2>2, <3>2 DEF Lib!Next, Lib!Free
  <2> QED
    BY <2>3, <2>4
<1>3. ASSUME NEW r \in held, NEW size \in Sizes, CallRealloc(r.ptr, size)
      PROVE  held' = held /\ PieceInv'
  <2>1. held' = held /\ call'.size = size
    BY <1>3 DEF CallRealloc, Await
  <2> QED
    BY <2>1, PiecesAsk
<1>4. CASE CallReset
  <2>1. held' = {} /\ call'.at = "idle"
    BY <1>4 DEF CallReset, Ready
  <2> QED
    BY <2>1, PiecesStay DEF Lib!Next, Lib!Reset
<1>5. CASE CallFinish
  <2>1. held' = held /\ call'.at = "done"
    BY <1>5 DEF CallFinish, Done
  <2> QED
    BY <2>1, PiecesStay
<1> QED
  BY <1>1, <1>2, <1>3, <1>4, <1>5 DEF ProgramStep

LEMMA QuietRefines ==
  ASSUME PieceInv, ServerStep \/ Boot \/ UNCHANGED vars
  PROVE  held' = held /\ PieceInv'
<1>1. /\ held' = held
      /\ call' = call \/ call'.at \in {"idle", "done"}
  BY DEF ServerStep, StartSignal, FirstRequest, Serve, Boot, Idle, Done, mcuVars, vars
<1>2. CASE call' = call
  BY <1>1, <1>2 DEF PieceInv, Waiting
<1>3. CASE call'.at \in {"idle", "done"}
  BY <1>1, <1>3, PiecesStay
<1> QED
  BY <1>1, <1>2, <1>3

(* Whatever the program calls, the pieces of memory it has are disjoint    *)
(* and below the highest stack; a piece it resizes stays where it was or   *)
(* moves clear of its old place, and keeps the others as they were.        *)
THEOREM ProgramHasMalloc == Spec => ImplementsMalloc
<1>1. Init => PieceInv /\ Lib!Init
  BY DEF Init, PieceInv, Waiting, Lib!Init
<1>2. Inv /\ BreakInv /\ PieceInv /\ [Next]_vars => [Lib!Next]_held /\ PieceInv'
  <2> SUFFICES ASSUME Inv, BreakInv, PieceInv, [Next]_vars
               PROVE  [Lib!Next]_held /\ PieceInv'
    OBVIOUS
  <2> QED
    BY QuietRefines, ProgramRefines, AnswerRefines, ReallocAnswerRefines
       DEF Next, ServerStep, McuStep
<1>3. Spec => Lib!Init /\ [][Lib!Next]_held
  BY <1>1, <1>2, BreakInvariant, PTL DEF Spec
<1> QED
  BY <1>3 DEF ImplementsMalloc, Lib!Spec
=============================================================================
