------------------------------- MODULE Offload -------------------------------
(***************************************************************************)
(* The offloaded heap as a whole: a program on the microcontroller calls   *)
(* malloc, free and realloc (mcu_mm.c, mcu_mlib.c); each call is a request *)
(* to the PC server (pc_server.c over PcHeap) and, for malloc and realloc, *)
(* one untagged word back.  free and sbrk are not answered, so the two     *)
(* machines run ahead of each other.                                       *)
(*                                                                         *)
(* The UART is a FIFO in each direction (UartDma has what is below that).  *)
(* Supervisor calls do not nest: one call at a time.                       *)
(***************************************************************************)
EXTENDS Integers, FiniteSets, Sequences

CONSTANTS
  Node, Start, Base, DSIZE, SIZE_CLASSES, LINEAR, SEARCH_OPT,  (* of PcHeap *)
  WSIZE,         (* Bytes of a word of the MCU: the unit of extend_heap.     *)
  CHUNKSIZE,     (* Least extension of the heap.                             *)
  Sizes,         (* Sizes the program asks for (0 among them or not).        *)
  StackTops,     (* Values the stack pointer may have when sbrk is called.   *)
  GuardGap,      (* proc_update: distance of the guard from the break...     *)
  GuardSize,     (* ... its alignment and length.                            *)
  MaxInFlight    (* Bound: requests not yet read when a call begins.         *)

ASSUME HeapAssumption == /\ Start \notin Node
                         /\ Base \in Nat \ {0}
                         /\ DSIZE \in Nat \ {0}
                         /\ LINEAR \in Nat \ {0, 1}
                         /\ SIZE_CLASSES \in Nat /\ LINEAR < SIZE_CLASSES
                         /\ SEARCH_OPT \in {"FIRST_FIT", "BEST_FIT", "SEG_FIT"}
                         /\ Sizes \subseteq Nat
ASSUME WordAssumption  == WSIZE \in Nat \ {0} /\ CHUNKSIZE \in Nat \ {0}
ASSUME GuardAssumption == GuardGap \in Nat /\ GuardSize \in Nat \ {0}
ASSUME StackAssumption == /\ StackTops \subseteq Nat /\ StackTops # {}
                          /\ \A sp \in StackTops : sp > Base
                          /\ \E top \in StackTops : \A sp \in StackTops : sp <= top

VARIABLES
  heap, mem_start_brk, mem_brk, req_in, reply,   (* of the server: PcHeap    *)
  server,   (* Where pc_server is: "start", "first" request, "loop", "exited" *)
  toPC,     (* Requests sent by the MCU and not yet handled.                 *)
  toMCU,    (* Words sent by the PC and not yet received.                    *)
  brk,      (* mcu_mlib.c: mem_brk of the MCU.                               *)
  call,     (* The call in progress: where it waits, its size, the old block *)
  held      (* Pieces of memory the program has.                             *)

pcVars  == <<heap, mem_start_brk, mem_brk, req_in, reply>>
mcuVars == <<brk, call, held>>
vars    == <<pcVars, server, toPC, toMCU, mcuVars>>

Highest == CHOOSE t \in StackTops : \A sp \in StackTops : sp <= t

(* Heaps consist of double words; there are more blk_elts than fit.        *)
ASSUME RoomAssumption ==
  /\ DSIZE = 2 * WSIZE
  /\ IsFiniteSet(Node) => Cardinality(Node) > (Highest - Base) \div DSIZE

Pc == INSTANCE PcHeap WITH MallocSizes <- Sizes, ReallocSizes <- Sizes \ {0},
                           SbrkSizes <- {}, StrayPtrs <- {0},
                           MaxHeap <- Highest - Base

Request(request, size, ptr) == Pc!Request(request, size, ptr)

EndRequest == Request("SBRK", 0, 0)

Idle == [at |-> "idle", size |-> 0, old |-> 0]
Done == [at |-> "done", size |-> 0, old |-> 0]

Init ==
  /\ Pc!Init
  /\ server = "start"
  /\ toPC = << >> /\ toMCU = << >>
  /\ brk = Base
  /\ call = [at |-> "boot", size |-> 0, old |-> 0]
  /\ held = {}

-----------------------------------------------------------------------------
(* The server.                                                             *)

StartSignal ==
  /\ server = "start"
  /\ server' = "first"
  /\ toMCU' = Append(toMCU, 1)
  /\ UNCHANGED <<pcVars, toPC, mcuVars>>

(* The first request has to be an sbrk reset: the server asserts it.       *)
FirstRequest ==
  LET req == Head(toPC)
      ok  == req.request = "SBRK" /\ req.ptr # 0
  IN  /\ server = "first" /\ toPC # << >>
      /\ server' = IF ok THEN "loop" ELSE "exited"
      /\ heap' = IF ok THEN Pc!EmptyHeap(req.ptr) ELSE Pc!Crash(heap)
      /\ mem_start_brk' = req.ptr /\ mem_brk' = req.ptr
      /\ req_in' = req
      /\ toPC' = Tail(toPC)
      /\ UNCHANGED <<reply, toMCU, mcuVars>>

(* Mutant: the word sent is repeated when the request is a free.           *)
ServeFreeAnswered ==
  LET req == Head(toPC) IN
  /\ server = "loop" /\ toPC # << >>
  /\ toPC' = Tail(toPC)
  /\ \/ req.request = "MALLOC"  /\ Pc!HandleMalloc(req.size)
     \/ req.request = "FREE"    /\ Pc!HandleFree(req.ptr)
     \/ req.request = "REALLOC" /\ Pc!HandleRealloc(req.ptr, req.size)
     \/ req.request = "SBRK" /\ req.size # 0 /\ Pc!HandleSbrk(req.size)
     \/ req.request = "SBRK" /\ req.size = 0 /\ req.ptr # 0 /\ Pc!HandleReset
     \/ req = EndRequest /\ Pc!HandleEnd
  /\ server' = IF Pc!Serving' THEN "loop" ELSE "exited"
  /\ toMCU' = toMCU \o (IF req.request = "FREE" THEN <<0>> ELSE reply')
  /\ UNCHANGED mcuVars

Serve ==
  LET req == Head(toPC) IN
  /\ server = "loop" /\ toPC # << >>
  /\ toPC' = Tail(toPC)
  /\ \/ req.request = "MALLOC"  /\ Pc!HandleMalloc(req.size)
     \/ req.request = "FREE"    /\ Pc!HandleFree(req.ptr)
     \/ req.request = "REALLOC" /\ Pc!HandleRealloc(req.ptr, req.size)
     \/ req.request = "SBRK" /\ req.size # 0 /\ Pc!HandleSbrk(req.size)
     \/ req.request = "SBRK" /\ req.size = 0 /\ req.ptr # 0 /\ Pc!HandleReset
     \/ req = EndRequest /\ Pc!HandleEnd
  /\ server' = IF Pc!Serving' THEN "loop" ELSE "exited"
  /\ toMCU' = toMCU \o reply'
  /\ UNCHANGED mcuVars

-----------------------------------------------------------------------------
(* Extending the heap.                                                     *)

(* Mutant: an odd number of words is not rounded.                          *)
ExtensionUnrounded(bytes) == bytes

(* extend_heap takes words and asks for an even number of them.            *)
Extension(bytes) ==
  LET words == bytes \div WSIZE IN
  IF words % 2 = 1 THEN (words + 1) * WSIZE ELSE words * WSIZE

McuAsize(size) ==
  IF size <= WSIZE THEN WSIZE
  ELSE WSIZE * ((size + WSIZE + (WSIZE - 1)) \div WSIZE)

ExtendSize(size) ==
  LET asize == McuAsize(size) IN IF asize > CHUNKSIZE THEN asize ELSE CHUNKSIZE

(* mem_sbrk: refused when the new break would be above the stack pointer.  *)
CanExtend(bytes, sp) == brk + Extension(bytes) <= sp

(* The start word arrives: mem_init, then the first chunk.                 *)
Boot ==
  /\ call.at = "boot" /\ toMCU # << >>
  /\ toMCU' = Tail(toMCU)
  /\ IF Head(toMCU) = 1
     THEN LET reset == <<Request("SBRK", 0, Base)>> IN
          /\ call' = Idle
          /\ \E sp \in StackTops :
               IF CanExtend(CHUNKSIZE, sp)
               THEN /\ brk' = brk + Extension(CHUNKSIZE)
                    /\ toPC' = reset \o <<Request("SBRK", Extension(CHUNKSIZE), 0)>>
               ELSE toPC' = reset /\ UNCHANGED brk
     ELSE call' = Done /\ UNCHANGED <<brk, toPC>>
  /\ UNCHANGED <<pcVars, server, held>>

-----------------------------------------------------------------------------
(* Calls of the program.                                                   *)

Ready == call.at = "idle" /\ Len(toPC) < MaxInFlight

Send(req) == toPC' = Append(toPC, req)

Await(at, size, old) == call' = [at |-> at, size |-> size, old |-> old]

(* mm_malloc of a size other than 0, which returns NULL at once.  A size   *)
(* of 0 changes nothing; a realloc of NULL is a malloc.                    *)
CallMalloc(size) ==
  /\ Ready /\ size # 0
  /\ Send(Request("MALLOC", size, 0))
  /\ Await("asked", size, 0)
  /\ UNCHANGED <<pcVars, server, toMCU, brk, held>>

(* mm_free, and mm_realloc with size 0: NULL is sent like any pointer.     *)
CallFree(p) ==
  /\ Ready
  /\ Send(Request("FREE", 0, p))
  /\ held' = {r \in held : r.ptr # p}
  /\ UNCHANGED <<pcVars, server, toMCU, brk, call>>

CallRealloc(p, size) ==
  /\ Ready /\ p # 0 /\ size # 0
  /\ Send(Request("REALLOC", size, p))
  /\ Await("resizing", size, p)
  /\ UNCHANGED <<pcVars, server, toMCU, brk, held>>

(* Mutant: the MCU does not move its own break.                            *)
CallResetKept ==
  /\ Ready
  /\ Send(Request("SBRK", 0, Base))
  /\ held' = {}
  /\ UNCHANGED <<pcVars, server, toMCU, brk, call>>

(* mem_reset_brk: an empty heap again.                                     *)
CallReset ==
  /\ Ready
  /\ Send(Request("SBRK", 0, Base))
  /\ brk' = Base
  /\ held' = {}
  /\ UNCHANGED <<pcVars, server, toMCU, call>>

CallFinish ==
  /\ Ready
  /\ Send(EndRequest)
  /\ call' = Done
  /\ UNCHANGED <<pcVars, server, toMCU, brk, held>>

-----------------------------------------------------------------------------
(* Answers.                                                                *)

Guard ==
  LET lo == GuardSize * ((brk + GuardGap + GuardSize - 1) \div GuardSize)
  IN  lo .. lo + GuardSize - 1

(* memcpy(newptr, oldptr, size) reads size bytes, whatever the old size,   *)
(* and faults when it reads the guard.  A write through a NULL newptr goes *)
(* to the flash, which ignores it or raises a fault.                       *)
CopyOutcomes(new, old, size) ==
  IF Guard \cap old .. old + size - 1 # {} THEN {"fault"}
  ELSE IF new = 0 THEN {"fault", "copied"} ELSE {"copied"}

Take(new, size) == IF new = 0 THEN {} ELSE {[ptr |-> new, size |-> size]}

(* Mutant: the old block is not freed after the copy.                      *)
ReturnLeaking(new) ==
  \/ /\ call.old = 0
     /\ held' = held \cup Take(new, call.size)
     /\ call' = Idle
     /\ UNCHANGED toPC
  \/ /\ call.old # 0
     /\ "copied" \in CopyOutcomes(new, call.old, call.size)
     /\ held' = {r \in held : r.ptr # call.old} \cup Take(new, call.size)
     /\ call' = Idle
     /\ UNCHANGED toPC

(* mm_malloc returns new: to the program, or to mm_realloc, which copies   *)
(* and frees the old block.  A fault handler ends the session.             *)
Return(new) ==
  \/ /\ call.old = 0
     /\ held' = held \cup Take(new, call.size)
     /\ call' = Idle
     /\ UNCHANGED toPC
  \/ /\ call.old # 0
     /\ "copied" \in CopyOutcomes(new, call.old, call.size)
     /\ Send(Request("FREE", 0, call.old))
     /\ held' = {r \in held : r.ptr # call.old} \cup Take(new, call.size)
     /\ call' = Idle
  \/ /\ call.old # 0
     /\ "fault" \in CopyOutcomes(new, call.old, call.size)
     /\ Send(EndRequest)
     /\ call' = Done
     /\ UNCHANGED held

(* Mutant: after the extension nothing is asked again.                     *)
MallocAnswerNotResent ==
  LET new == Head(toMCU) IN
  /\ call.at = "asked" /\ toMCU # << >>
  /\ toMCU' = Tail(toMCU)
  /\ \/ new # 0 /\ Return(new) /\ UNCHANGED brk
     \/ /\ new = 0
        /\ \E sp \in StackTops : CanExtend(ExtendSize(call.size), sp)
        /\ brk' = brk + Extension(ExtendSize(call.size))
        /\ Send(Request("SBRK", Extension(ExtendSize(call.size)), 0))
        /\ Await("resent", call.size, call.old)
        /\ UNCHANGED held
  /\ UNCHANGED <<pcVars, server>>

(* The first answer to a malloc: 0 makes the MCU extend the heap and ask   *)
(* again, unless there is no memory.                                       *)
MallocAnswer ==
  LET new == Head(toMCU) IN
  /\ call.at = "asked" /\ toMCU # << >>
  /\ toMCU' = Tail(toMCU)
  /\ \/ new # 0 /\ Return(new) /\ UNCHANGED brk
     \/ /\ new = 0
        /\ \E sp \in StackTops : ~ CanExtend(ExtendSize(call.size), sp)
        /\ Return(0) /\ UNCHANGED brk
     \/ /\ new = 0
        /\ \E sp \in StackTops : CanExtend(ExtendSize(call.size), sp)
        /\ brk' = brk + Extension(ExtendSize(call.size))
        /\ toPC' = toPC \o <<Request("SBRK", Extension(ExtendSize(call.size)), 0),
                             Request("MALLOC", call.size, 0)>>
        /\ Await("resent", call.size, call.old)
        /\ UNCHANGED held
  /\ UNCHANGED <<pcVars, server>>

ResentAnswer ==
  /\ call.at = "resent" /\ toMCU # << >>
  /\ toMCU' = Tail(toMCU)
  /\ Return(Head(toMCU))
  /\ UNCHANGED <<pcVars, server, brk>>

(* Mutant: any answer counts as success in place.                          *)
ReallocAnswerTrusted ==
  /\ call.at = "resizing" /\ toMCU # << >>
  /\ toMCU' = Tail(toMCU)
  /\ held' = {r \in held : r.ptr # call.old} \cup Take(call.old, call.size)
  /\ call' = Idle
  /\ UNCHANGED <<pcVars, server, toPC, brk>>

ReallocAnswer ==
  /\ call.at = "resizing" /\ toMCU # << >>
  /\ toMCU' = Tail(toMCU)
  /\ \/ /\ Head(toMCU) = call.old
        /\ held' = {r \in held : r.ptr # call.old} \cup Take(call.old, call.size)
        /\ call' = Idle
        /\ UNCHANGED toPC
     \/ /\ Head(toMCU) # call.old
        /\ Send(Request("MALLOC", call.size, 0))
        /\ Await("asked", call.size, call.old)
        /\ UNCHANGED held
  /\ UNCHANGED <<pcVars, server, brk>>
-----------------------------------------------------------------------------
(* The system.                                                             *)

ServerStep == StartSignal \/ FirstRequest \/ Serve

McuStep == Boot \/ MallocAnswer \/ ResentAnswer \/ ReallocAnswer

(* What the program asks for.  It frees and resizes what it holds.         *)
ProgramStep ==
  \/ \E size \in Sizes : CallMalloc(size)
  \/ \E p \in {r.ptr : r \in held} \cup {0} : CallFree(p)
  \/ \E r \in held, size \in Sizes : CallRealloc(r.ptr, size)
  \/ CallReset
  \/ CallFinish

Next == ServerStep \/ McuStep \/ ProgramStep

(* The server polls the UART and the MCU waits for the answer: neither     *)
(* stops while it has a word to read.  The program may stop calling.  The  *)
(* server can handle any request it reads (TypeOK: the bounds Node and     *)
(* MaxHeap never block it), so fairness of reading is fairness of Serve.   *)
ServerReads ==
  server \in {"first", "loop"} /\ toPC # << >> /\ toPC' = Tail(toPC)

Fairness ==
  WF_vars(StartSignal) /\ WF_toPC(ServerReads) /\ WF_vars(McuStep)

Spec == Init /\ [][Next]_vars /\ Fairness

-----------------------------------------------------------------------------
(* Properties.                                                             *)

Calls ==
  [at   : {"boot", "idle", "asked", "resent", "resizing", "done"},
   size : Sizes \cup {0},
   old  : Nat]

Pieces == [ptr : Nat \ {0}, size : Sizes \ {0}]

(* Types; the heap is a whole number of double words, which the blocks of  *)
(* the server rely on; and there is always a blk_elt for the server to     *)
(* take, and room below the highest stack for the break.                   *)
TypeOK ==
  /\ Pc!TypeOK
  /\ server \in {"start", "first", "loop", "exited"}
  /\ toPC \in Seq(Pc!RequestType)
  /\ toMCU \in Seq(Nat)
  /\ brk \in Base .. Highest /\ (brk - Base) % DSIZE = 0
  /\ heap.live # Node
  /\ call \in Calls
  /\ held \in SUBSET Pieces

(* What the server will make of its break when it reads a request.         *)
BreakAfter(b, req) ==
  IF req.request # "SBRK" \/ req = EndRequest THEN b
  ELSE IF req.size = 0 THEN req.ptr ELSE b + req.size

(* Its break when it has read a sequence of them.                          *)
BreakThen(b, reqs) ==
  LET after[i \in 0 .. Len(reqs)] ==
        IF i = 0 THEN b ELSE BreakAfter(after[i - 1], reqs[i])
  IN  after[Len(reqs)]

(* The two copies of the break agree once the requests under way are read. *)
(* sbrk is not answered, so no message ever compares them.                 *)
BreaksAgree == call.at # "boot" => BreakThen(mem_brk, toPC) = brk

Underway(P(_)) == \E i \in DOMAIN toPC : P(toPC[i])

(* The server still keeps the books of the program's present heap.         *)
SameHeap ==
  /\ server = "loop"
  /\ ~ Underway(LAMBDA req : req.request = "SBRK" /\ req.size = 0)

(* Of a piece that is being resized no more than the smaller size counts.  *)
Claim(r) ==
  IF r.ptr = call.old /\ call.size < r.size THEN call.size ELSE r.size

Backs(b, r) == heap.ptr[b] = r.ptr /\ heap.size[b] >= Claim(r)

(* Each piece the program holds is an allocated block of the server, large *)
(* enough, whatever frees, resizes and extensions are still under way.     *)
HeldBacked ==
  SameHeap => \A r \in held : \E b \in Pc!Allocated(heap) : Backs(b, r)

(* No block is lost: each allocated block is held by the program, or its   *)
(* free or the answer that grants it is under way.                         *)
NoLeak ==
  SameHeap =>
    \A b \in Pc!Allocated(heap) :
      \/ \E r \in held : r.ptr = heap.ptr[b]
      \/ heap.ptr[b] \in {toMCU[i] : i \in DOMAIN toMCU}
      \/ Underway(LAMBDA req : req.request = "FREE" /\ req.ptr = heap.ptr[b])

Answered(req) == req.request \in {"MALLOC", "REALLOC"}

(* Answers carry no tag: at any time the words and the requests under way  *)
(* promise the MCU exactly the one word it waits for, so it never takes an *)
(* answer for another's.                                                   *)
OneReply ==
  call.at # "boot" =>
    Len(toMCU) + Cardinality({i \in DOMAIN toPC : Answered(toPC[i])})
      = IF call.at \in {"idle", "done"} THEN 0 ELSE 1

(* The smaller a piece gets, the less reason to move it: realloc to the    *)
(* same or a smaller size is always done in place by the server.           *)
ShrinksInPlace ==
  [][ /\ call.at = "resizing" /\ call'.at # "resizing"
      /\ \E r \in held : r.ptr = call.old /\ call.size <= r.size
      => call'.at = "idle" ]_vars

(* Every call of the program returns, or ends the session.                 *)
CallReturns ==
  call.at \notin {"idle", "done"} ~> call.at \in {"idle", "done"}

(* After mm_finish the server exits.                                       *)
FinishEnds == call.at = "done" ~> server = "exited"

(* To the program this is a malloc library.                                *)
Lib == INSTANCE MallocAbs WITH Lowest <- Base

(* The pieces the program holds are disjoint, in the memory below the      *)
(* stack, and a resized piece stays or moves clear of its old place.       *)
ImplementsMalloc == Lib!Spec

(* mcu_mm.c:91, :99: after a successful sbrk the malloc is resent and NULL *)
(* means there is not enough memory.  The MCU extends by words with one    *)
(* word of overhead, the server needs double words.                        *)
NullMeansNoMemory ==
  call.at = "resent" /\ toMCU # << >> => Head(toMCU) # 0

(* README.txt:13, a standard realloc: when it returns NULL the old piece   *)
(* is left as it was.                                                      *)
FailedReallocKeeps ==
  [][ call.at \in {"asked", "resent"} /\ call.old # 0
        /\ call' = Idle /\ Head(toMCU) = 0
      => held' = held ]_vars

(* README.txt:13: moving a block the program holds ends in no fault.       *)
MoveIsSafe ==
  [][ call.at \in {"asked", "resent"} /\ toMCU # << >> /\ Head(toMCU) # 0
      => call'.at # "done" ]_vars
=============================================================================
