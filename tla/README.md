# stm32_offload_heap in TLA+

The repository puts the bookkeeping of a microcontroller's heap on a PC. A
program on an STM32F4 calls `malloc`, `free` and `realloc`; the MCU sends each
call over a UART to a server, which keeps the list of blocks and answers with an
address in the MCU's own memory. The memory is on one machine, the books are on
the other, and half of the messages are never answered. This directory holds a
model of that system, the runs that check it with TLC, and proofs about its core
that hold for every value of the parameters.

Paths below are relative to `src/projects/offload_heap/` unless they say otherwise.

## 1. The system

| Component | Files | State | Operations |
|---|---|---|---|
| PC allocator | `pc_side/pc_mm.c`, `pc_mlib.c` | doubly linked block list with sentinel `list_start`; twelve circular lists of free blocks by size class; `mem_start_brk`, `mem_brk` | `mm_init`, `mm_malloc`, `mm_free`, `mm_realloc`, `mm_sbrk`; inside them `place`, `shrink_blk`, `extend_blk`, `coalesce`, three fit policies |
| PC request loop | `pc_side/pc_server.c` | none of its own | start signal, first request (asserted to be a reset), dispatch, end |
| Pointer dictionary | `pc_side/dict.c` | chained hash table that doubles | create, insert, delete, search, destroy |
| MCU malloc library | `mcu_side/mcu_mm.c`, `mcu_mlib.c` | its own copy of the break | `mm_init`, `mm_malloc`, `mm_free`, `mm_realloc`, `mm_finish`, `mem_sbrk`, `mem_reset_brk` |
| Request transport | `mcu_side/mcu_request.c`, `pc_side/pc_request.c`, `uart_comms.h` | one 16-byte `tx_buffer` | send an 8-byte request, receive a 4-byte word |
| UART DMA driver | `mcu_side/uart_dma.c`, `uart.c` | `transmitting`, `receiving`, DMA registers | start, wait, completion interrupts |
| Memory protection | `mcu_side/mcu_mpu.c` | MPU region 3: a no-access region behind the break | `proc_update` at each change of the break |
| Timers and stack check | `mcu_side/mcu_timer.c` | milliseconds | TIM3 compares break and stack pointer, ends the session |
| Fault handlers, board | `mcu_side/mcu_init.c`, `mcu.c` | none | on a fault: `mm_finish`, then stop |
| Supervisor calls | `mcu_side/mcu_syscalls.c` | privilege | the program's entry to the library |
| Trace driver | `mcu_side/mcu_mdriver.c`, `../heap/mcu_mdriver.c` | the trace, a list of payload ranges, totals | replays a trace twice: once checking the answers, once measuring; two test lines |
| In-place allocator | `../heap/mm.c`, `mcu_mlib.c` | boundary tags in MCU memory | the earlier project, without a server: `mm_init`, `mm_malloc`, `mm_free`, `mm_realloc` |
| Echo | `../echo/` | buffers | a demonstration of the UART |

Everything under `src/libs`, `src/include` and `src/flash` is vendored (CMSIS,
device headers, linker scripts).

**How they interact.** A supervisor call runs one operation of the MCU library at
a time. `malloc` and `realloc` send a request and wait, without a timeout, for one
word. `free` and `sbrk` send a request and go on: the two machines run ahead of
each other, each with its own copy of the break, and no message ever compares
them. Answers carry no tag. The end of a session is an sbrk of size 0 with
pointer 0, a reset is one of size 0 with the heap start. Interrupt and fault
handlers may send an end signal in the middle of everything.

**What is hard, and what correct means**

- *PC allocator.* A long mix of splits, merges, moves of a free block and growth.
  Correct: the list tiles the heap exactly, the dictionary and class lists are
  functions of the list, neighbours are coalesced, no link is followed to NULL,
  every policy finds a block when there is one, and what the client sees is an
  allocator: no overlap, nothing outside the heap, no refusal with room.
- *Dictionary.* The hash of a key changes when the table doubles; an entry lying
  in the table needs another treatment from those behind it. Correct: it is the
  partial function that the allocator takes it for.
- *MCU library.* Decisions made on answers that are older than the last requests.
  Correct: breaks agree once the channel is drained, the program's pieces are the
  server's allocated blocks, nothing leaks, an answer is taken for the right
  question, every call ends.
- *Transport and DMA.* Interrupts between the enabling of a transfer and the flag
  that says so; one buffer for everybody; a fault handler waiting for an interrupt
  that cannot reach it. Correct: no byte of a request is overwritten before it is
  sent, no wait lasts for ever.
- *Memory protection.* A guard that moves with the break, under a stack that moves
  by itself. Correct: an accepted sbrk never forbids memory in use, and a stack that
  gets past the guard is noticed.
- *In-place allocator.* Its books lie between the program's data, and every
  operation reads tags while it overwrites others. Correct: headers and footers
  tell the same story after any mix of operations, and the program's data stays.
- *Trace driver.* It judges allocators by its own records. Correct: a good allocator
  is never reported, and it is known what a bad one can get past.

`PROJECT.json` lists the hazards of the code one by one, each at its line, with the
properties that catch it or the reason there is none yet.

## 2. The modules

| Module | Models | Role |
|---|---|---|
| `PcHeap` | `pc_mm.c`, `pc_mlib.c`, the loop of `pc_server.c` | detailed specification of the server |
| `HeapAbs` | what a server promises a client | abstract specification of `PcHeap` |
| `PcHeapProofs` | | lemmas and theorems about `PcHeap` |
| `PcHeapRefinement` | | the fit policies find what they promise, and `PcHeap` implements `HeapAbs` |
| `Dict` / `DictAbs` | `dict.c` / a partial function | detailed and abstract dictionary |
| `DictProofs` | | `Dict` implements `DictAbs` |
| `Offload` | `mcu_mm.c`, `mcu_mlib.c`, `mcu_request.c`, the whole of `pc_server.c` over an instance of `PcHeap` | the composed system |
| `UartDma` | `uart_dma.c`, `mcu_request.c`, the handlers that send an end signal, `uart_read` | the MCU's end of the UART, below the messages of `Offload` |
| `OffloadProofs` | | lemmas and theorems about `Offload`; it implements `MallocAbs` |
| `MallocAbs` | what a program expects of a malloc library | abstract specification of `Offload` |
| `StackGuard` | `mem_sbrk`, `proc_update`, TIM3's check, `stack_test`, `heap_test` | the stack above the heap |
| `StackGuardProofs` | | lemmas and a theorem about `StackGuard` |
| `UartDmaProofs` | | lemmas and theorems about `UartDma` |
| `TraceDriverProofs` | | lemmas and theorems about `TraceDriver` |
| `BoundaryTag` | `../heap/mm.c`, `mem_sbrk` of `../heap/mcu_mlib.c` | the in-place allocator, a second implementation of `MallocAbs` |
| `BoundaryTagProofs` | | lemmas and theorems about `BoundaryTag`; it implements `MallocAbs` |
| `TraceDriver` | `mcu_mdriver.c` | the test program over an arbitrary allocator |
| `MCPcHeap`, `MCOffload`, `MCDict`, `MCUartDma`, `MCStackGuard`, `MCBoundaryTag`, `MCTraceDriver` | | instances for TLC |

### PcHeap

A `blk_elt` is an element of `Node`; its fields are the functions `next`, `prev`,
`ptr`, `size`, `alloc` in the record `heap`. `heap.live` is the set of structures
that are `malloc`ed; an operation that allocates one picks any unused node, as the
host's `malloc` may. `heap.class` holds the circular lists as sequences from their
head, `heap.dict` the dictionary as pairs (the module `Dict` justifies that), and
`heap.status` says if the process serves, has ended or has crashed.

Each operator of the middle part is one C function and bears its name (`Place`,
`ShrinkBlk`, `ExtendBlk`, `MergeNext`, `Coalesce`, `FreeBlkAdd`, ...): a function
from a heap to a heap, in the order of the C statements. Where the C code would
follow a NULL link or fail an assertion the result is `Crash`. Each handler is an
action: `HandleMalloc` is one turn of the loop with a MALLOC request, and so on.
The words it sends are `reply`, the request it was `req_in`.

Two simplifications: the dead fields of a freed `blk_elt` get fixed values, and
`dict_delete` removes the key (it has one entry, `DictExact`). The C code tests
`if (SEG_FIT)` where `SEG_FIT` is an enumeration constant other than 0, so the
class lists are kept under every policy; so they are here.

### Offload

The MCU is in one of the states of `call.at`: `boot` (waiting for the start word),
`idle`, `asked` and `resent` (first and second MALLOC under way), `resizing`
(REALLOC under way), `done`. A call is an action that sends (`CallMalloc`, ...);
the answer is an action that receives and carries on to the next wait or the
return (`MallocAnswer`, ...). `toPC` and `toMCU` are FIFO queues of whole messages.
`Serve` takes one request and does the handler of `PcHeap` for it.

`held` is what the program has: pieces with the size it asked for. The program
frees NULL or what it holds, and resizes what it holds; it may also reset or end.
The stack pointer at the moment of an sbrk is any of `StackTops`. The copy in
`mm_realloc` reads as many bytes as the new size, as the code does, and meets the
guard region when it crosses it.

### UartDma

Where `Offload` has queues of messages, `UartDma` has what makes them: the steps of
`send` and `receive` (`at`), the flags `transmitting` and `receiving`, the two DMA
streams with the bytes they have left, their pending interrupts, and one
`tx_buffer` that the DMA reads while it sends. The stack check and the fault
handlers strike at any instruction and never return, so `level` (the priority the
processor runs at) and one `at` say all about the processor. An interrupt runs when
its priority number is below `level`. The PC cuts the stream of bytes into
requests; one with bytes of two messages is `garbled`.

Two assumptions on time are guards with names. `SlowWire`: the last byte of a
request does not leave between the enable of the stream and the flag behind it (20
microseconds against a few instructions). `SlowPeer`: the PC's answer, which
crosses a USB bridge, comes when the receiver is armed.

### Dict

Buckets have an entry in place and a chain behind it, as in the C table. The FNV
value that `hash_func` computes is dropped by its last line, which reduces the key
itself; `Hash` does that.

### StackGuard

`Offload` lets the stack pointer be anything; `StackGuard` moves it. `sp` is the
program's. Supervisor calls and interrupts run on the program's stack, so a call of
`mm_malloc` or `mm_init` has stack below it: `depth` down to the frame of `mem_sbrk` or
`mem_init`, and `below` what that frame has called in turn. `Push` and `Pop` are calls and
returns of the program, and stand for the library calls that leave the break alone as well.
A frame that is written meets the guard and faults; one that leaves locals unwritten
(`read_trace` has 2 KB of them) may lie across it, and `skipped` remembers that.

A call that moves the break has stages, because stack, break and guard change in that order
and not together. `Sbrk` goes down to `mem_sbrk`, compares the break with the stack pointer
*there*, and moves the break (`Accept`) or refuses (`Refuse`, whose message `ReportRefusal`
prints). `SendRequest` is `req_send`, run with the old guard below a break that has moved;
`UpdateGuard` is `proc_update`, which moves the guard while its own frame is live.
`SendAgain` is the request that `mm_malloc` then repeats, at another depth and under the
new guard, and `SvcReturn` pops everything. `Tick` is TIM3 and can strike between any two
of these. `StackTest`, `HeapTest` and `GiveUp` are the two test lines of a trace.

### BoundaryTag

Memory is a function from word addresses to words, and a tag is the number
`PACK(size, alloc)`. The operators are the C macros and functions by name
(`HDRP`, `FTRP`, `NEXT_BLKP`, `Coalesce`, `Place`, `ShrinkBlk`, `ExtendBlk`), with
the order of the `PUT`s, since a footer's place is computed from a header that may
have just changed. The program fills each piece it gets with words of `Marks`, one
of which reads as the tag of a free block and one as an end mark; before its first use
memory holds any word of `Garbage`. A realloc that moves copies the new size, as
the code does: what comes after the old data is not the program's (`kept`).

### TraceDriver

The allocator answers whatever it likes, NULL included; `wrong` remembers that some
answer was not what an allocator must give (`Legal`). The trace is chosen as it is
read, one request at a time, and stays for the second pass. `ranges` is the linked
list, newest first; `room` says if the allocator had memory for a range record,
`kept` if a realloc kept the data. Errors end in `"stuck"`, the endless loop of
`malloc_error`, `app_error` and `unix_error`.

## 3. Runs

| Run | Configuration | Shows |
|---|---|---|
| `pc_heap` | `MCPcHeap.cfg` | all properties of the server's books, the three fit policies, and `ImplementsHeapAbs` |
| `offload` | `MCOffload.cfg` | safety of the composed system and `ImplementsMalloc` |
| `offload_live` | `MCOffload_live.cfg` | every call returns; `mm_finish` ends the server |
| `offload_null` | `MCOffload_null.cfg` | violated: NULL although there is memory |
| `offload_realloc` | `MCOffload_realloc.cfg` | violated: a failed realloc frees the old block |
| `offload_move` | `MCOffload_move.cfg` | violated: moving a block can end in a memory fault |
| `uart_dma` | `MCUartDma.cfg` | requests arrive whole and in order, waits end, end signals arrive when they can be sent |
| `uart_fault` | `MCUartDma_fault.cfg` | violated: a fault during a transmission sends nothing |
| `dict` | `MCDict.cfg` | the hash table is the partial function |
| `boundary_tag` | `MCBoundaryTag.cfg` | tags, data and pieces of the in-place allocator, and `ImplementsMalloc` |
| `stack_guard` | `MCStackGuard.cfg` | the stack stays above the guard and out of the heap in use, an overrun is seen, the test lines end |
| `trace_driver` | `MCTraceDriver.cfg` | no false alarm; exactly what the driver can miss; its books |

Each passing property has a mutant of the code in the module it is about (an
operator marked `Mutant`) under which TLC finds it violated: a key not deleted, a
`prev` link not set, a list not changed after a merge, a count not kept, a break
not reset, an answer too many. `PROJECT.json` pairs them.

**Properties worth reading first.** `ClassExact` and the parts of `IInv` (books after
any mix of requests), `SegFitComplete` (seg_fit looks only at classes from the
request's own on, and misses nothing), `BreaksAgree` (the server's break after the
requests under way is the MCU's), `HeldBacked` and `NoLeak` (the two sides of who
owns a block, with frees and extensions in flight), `OneReply` (an untagged answer
is always the right one), and the three refinements. In `HeapAbs` each step is tied
to the request it serves, so `ImplementsHeapAbs` says that a malloc of *n* bytes is
answered with *n* vacant bytes or refused only when no vacant run of `n + 15` bytes
exists (with the real `DSIZE` 8), and that only growth of a region is ever refused.

### Bounds

- `PcHeap`: up to nine double words of heap in four size classes, two of them
  with one size and two doubling, grown in steps of two and five double words.
  That is enough for a free block with free neighbours on both sides, an
  `extend_blk` with and without remainder, and blocks in every class; the request
  sizes sit at both sides of each rounding. `Node` has ten elements, one more than
  the heap has double words: a node is always free when the code allocates one.
- `Offload`: a heap of up to three chunks below a stack pointer that is 40 or 56;
  three requests in flight besides the one or two a call adds; sizes for which the
  roundings of the two machines differ (4, 13 and 17 with words of 4 and double
  words of 8). `TypeOK` includes that a node is always free, so the bound never
  stops the server. The liveness run has a smaller heap (`StackTops` 24 and 40),
  two sizes, and no view.
- `Dict`: keys that collide in tables of 2, 4 and 8 buckets; two doublings.
- `UartDma`: six requests (the two of `mm_init`, four of the program), three
  bytes each, two in an answer: a buffer can be overwritten at the first, a middle
  and the last byte, and a stack check or a fault can come at every step of every
  request. `InOrder`, `FlagGuardsTransfer` and `EndDelivered` leave out one gap, between
  `uart_dma.c:62` and `:64`, where the stack check does garble the stream; `split`
  remembers it.
- `BoundaryTag`: from a heap that cannot hold the first chunk (stack pointer 16) to
  one of eleven double words (96), in chunks of three; pieces of one, three and six
  words, so that remainders of one and two double words occur, and every one of the
  four cases of `coalesce`.
- `StackGuard`: units of 16 bytes, in which the guard is 2 long and 4 away as on the board
  (32 and 64 bytes), with a stack of 40 units, frames smaller and larger than the
  guard, and two sizes of extensions. The path to `mem_sbrk` takes 7 or 20
  units: 7 is the least that `StackAssumption` allows, 20 what `Debug/mcu_mdriver.lst`
  shows (312 bytes through `mm_init`, 352 through `mm_malloc`); that to `mem_init` takes 12
  (192 bytes). The callees take 4 units, as `req_send` with `uart_tx_start` does (56
  bytes), or 8, so that they reach past the gap between break and guard. A repeated request
  takes 3 or 7, never more than the way to `mem_sbrk` (264 bytes against 352, or 312 through
  `mm_realloc`, where the way to `mem_sbrk` is longer as well).
- `TraceDriver`: five requests on three ids, two sizes, four addresses of which one is
  below the heap, one unaligned and one where the larger size ends past the heap: a
  payload can overlap another at either end, contain it or lie in it.
- `MaxHeap`, `MaxInFlight`, `MaxCalls`, `MaxSize` and `MaxOps` are the only bounds in
  guards; in `BoundaryTag` and `StackGuard` the memory is the bound.

Some configurations use a `VIEW` (and `trace_driver` a symmetry: ids are only names). `BlockView` names each block by its pointer
instead of its node and leaves out the last request and answer, which no action
reads: states that differ only in those have the same future. `LiveView` of
`MCBoundaryTag` keeps the words that are tags or the program's data. Runs with
temporal formulas beyond step properties do not use a view.

All configurations set `CHECK_DEADLOCK FALSE`: a session ends, and a program
may stop calling.

### Fairness

`Spec` of `Offload` assumes that the server sends its start word, that the server
keeps reading while a request is there (it polls the descriptor in `uart_read`),
and that the MCU takes the word it waits for (it spins in `uart_rx_wait`). Nothing
is assumed of the program: it may stop calling at any time. Fairness of the server
is put on `ServerReads`, the part of `Serve` that takes a request off the queue:
the handlers are defined for every request the MCU sends, so a read is always a
whole step of `Serve`, and the action is simple enough for TLC to evaluate when it
is enabled.

`Spec` of `UartDma` assumes that the processor goes on (`Run`: what it waits for is
a guard), that a pending interrupt runs once its priority allows it, and that the wire
and the PC move. Calls, overflows and faults need not happen.

`Spec` of `StackGuard` assumes that the timer keeps striking, that a supervisor call
goes on and returns (`SvcStep`), and that each of the two tests goes on once begun (it does nothing else).
The program's own calls and returns need not happen.

## 4. What is proved

`PcHeapProofs`, for all values of the constants that satisfy the assumptions named
in `PcHeap` (`NodeAssumption`, `BaseAssumption`, `SizeAssumption`,
`PolicyAssumption`, `InputAssumption`) and for clients that send no pointer but
NULL and those of allocated blocks (`LegalClient`, a hypothesis of each theorem):

- `InductiveInvariant`: `Spec => []IInv`.
- `AlwaysTyped`: `Spec => []TypeOK`.
- `AlwaysWellTiled`: `Spec => []WellTiled`.
- `AlwaysBooked`: `Spec => [](DictExact /\ ClassExact /\ Coalesced)`.
- `NeverCrashes`: `Spec => []NoCrash`.
- `CoalesceEffect`: what `coalesce` does to any list it is called on.

*Why an inductive invariant.* None of the properties is inductive by itself. That
`mm_free` keeps the lists coalesced depends on the class lists being exact (else a
merge follows a NULL link), these on the tiling (sizes are positive), and that
deleting one key deletes one entry depends on blocks being disjoint, `Apart`,
which does not follow from the local `Tiled` without an induction along the list.
So `IInv` carries `Apart` and `Within` beside what the runs check, and each
operation is shown to restore them directly.

*The argument.* `Shape` is what holds between any two C functions; `Settled`
(lists exact, coalesced) is broken inside an operation and restored at its end.
`ListsExactly(h, S)` is parametric in the set of listed blocks, which is how the
state in the middle of a handler is described: after `place`'s unlinking, or with a
new block that is not coalesced yet. One lemma for each C function says what it
does (`RemoveEffect`, `AddEffect`, `MergeNextShape`, `LinkShape`, `ReclassEffect`,
`CoalesceEffect`, `PlaceEffect`, `ShrinkEffect`, `ExtendEffect`, `FreeEffect`,
`SbrkEffect`), one for each handler that it restores `IInv`, and the theorem puts
the six handlers together. The policies enter by `FindFitEffect` only: whatever
they find is free and large enough.

`PcHeapRefinement`, from the same assumptions:

- `FirstFitFinds`: `Spec => []FirstFitLowest`.
- `BestFitFinds`: `Spec => []BestFitSmallest`.
- `SegFitFinds`: `Spec => []SegFitComplete`.
- `ServerImplementsHeapAbs`: `Spec => ImplementsHeapAbs`.

*The argument for the policies.* First fit and best fit walk the block list, and what a walk meets is an
induction along it. The installed provers cannot instantiate the library's induction
theorems, but they can use that a non-empty set of numbers has a least element
(`LeastNat`, from the well-foundedness of `<`): `WalkEquation` builds `Walk` from its finite
prefixes, `ByteCovered` finds the block of each byte of the heap as the walk's last one
that begins at or below it, so `BlockWalked` (the walk meets every block), `WalkOrdered`
(upwards) and, by `LiveFinite` and `Numbered`, before it has made more steps than there
are blocks. For `seg_fit` the point is `ClassMonotone`: a block that fits is in no lower
class than the request, and the least class with one that fits decides.

*The argument for the refinement.* The effect lemmas say that no operation touches another allocated block
(`Others`), so grants, resizes and frees change one region (`RegionsWithout`,
`OthersRegions`). The refusals are the hard half: `HeapAbs` allows one only when no vacant
run of bytes would do. `ClearRunFits` shows that a run of bytes no allocated block uses
lies in one free block, because free blocks are coalesced; then the policy would have
found it (`FoundWhenFits`). A refused `realloc` needs one invariant more, `Rounded`: were
a block's size not a multiple of `DSIZE`, it could be refused growth to a size it
already has (`BelowRounded`).

`OffloadProofs`, for all values of the constants under the five assumptions of `Offload`:

- `SystemInvariant`: `Spec => []Inv`.
- `AlwaysBacked`: `Spec => []HeldBacked`.
- `NeverLeaks`: `Spec => []NoLeak`.
- `AnswersNeverMixed`: `Spec => []OneReply`.
- `BreaksAlwaysAgree`: `Spec => []BreaksAgree`.
- `AlwaysTyped`: `Spec => []TypeOK`.
- `ShrinkingStays`: `Spec => ShrinksInPlace`.
- `ProgramHasMalloc`: `Spec => ImplementsMalloc`.

The program may ask for any sizes, have any number of requests under way, and the server
may use any policy.

*The argument.* `Offload` instantiates `PcHeap` with the requests that its configuration
makes, `PcHeapRefinement` is instantiated here with all of them (`Srv`); the lemmas
`SameX` say that the two instances have the same operators. Of the server's books the
proof needs no more than what a handler does to the *regions*, the allocated runs of
bytes (`MallocServed`, `FreeServed`, `ReallocServed`, `SbrkServed`, `EmptyServed` in
`PcHeapRefinement`). The rest is about messages. `ReplyInv` says that a request that will be
answered is the last one under way and the one the call waits for, and that a word is
never under way beside a request; so when a word arrives the queues are empty, and when the
server answers it has read everything. `FreeInv`: what is under way to be freed is not
held, not freed twice, and not behind a reset that would make the pointer stale. With these
`HeldInv` (held pieces lie on regions), `WordInv` (a word names a region nobody holds) and
`LeakInv` (the converse) are inductive. After a reset or the end is sent they hold of
nothing (`Present`) until the server has read it: until then its heap is that of the past.

For the break, `Takes(b, reqs, c)` says that some run of breaks leads from `b` to `c` through
`reqs`; a request more at the end or one less at the front is easy to follow in that form
(`TakesMore`, `TakesRest`), and `TakesThen` shows that no other break than `BreakThen`'s is
reached. `BreakInv` says that what is under way takes the server's break to the MCU's.
For `ShrinksInPlace`, `RefuseInv` keeps what the server knew when it refused: the block has
to grow, because all sizes in its books are multiples of `DSIZE` (`ReallocServed`).

`TypeOK` also says that the model's two bounds are enough: the MCU's break stays below
`Highest`, and `heap.live` is never all of `Node`, so a server's handler never finds the
pool of `blk_elt`s empty (the code takes them from the PC's own `malloc`). The first is
part of `BreakInv`. For the second, `WholeInv` says that both breaks, the requests under
way to move them and the beginnings of the regions are whole double words from `Base`.
Free blocks never touch, so each begins at `Base` or where a region ends (`AllPlaced`);
hence there is at most one block per double word (`FewBlocks`), and `RoomAssumption` asks
that `Node` has more elements than that, or is infinite. It also asks `DSIZE = 2 * WSIZE`,
as `pc_mm.c:12-13` and `mcu_mm.c:14-15` define them.

The refinement (`ProgramHasMalloc`) needs little more. By `WordInv` a word that grants memory names a region nobody holds, by
`HeldInv` each held piece lies on a region, and regions are apart (`RegionsApart`): the new
piece is free of the others (`FreshPiece`). When the word is taken nothing is under way, so
by `BreakInv` the two breaks are equal and the region ends below the highest stack. The
invariant `PieceInv` adds that no pointer is held twice, so that freeing or moving a piece
takes one piece away (`Without`).

`DictProofs`, for all values of the constants under `KeyAssumption`, `BlkAssumption` and
`CountAssumption`, so for tables of any size, however often they have doubled:

- `TableTyped`: `Spec => []TypeOK`.
- `TableSound`: `Spec => []WellHashed`.
- `CountAlwaysExact`: `Spec => []CountExact`.
- `DictIsFunction`: `Spec => ImplementsDictAbs`.

*The argument.* `Good(t, n)` says that each bucket holds entries with different keys that
hash to it; `PresentAt` turns that into: an entry is in the table exactly when it is in the
one bucket that is searched. Each change of one bucket keeps it (`ReplaceGood`, with
`PushedFacts` for an insertion in place or behind, `RemovedFacts` for the three ways
`dict_delete` takes an entry out). A doubling is two nested loops; `LoopRuns` and `UpTo`
give the run of a loop and the induction along it, and `InsertAllGood` and `DoubledGood`
say that it loses and repeats no entry though every hash changes. Insertions are of
new keys, the guard of `DictInsert`; that `pc_mm.c` makes no others is `DictExact`, proved
in `PcHeapProofs`.

`StackGuardProofs`, for all values of the constants under `StackAssumption`:

- `StackStaysSafe`: `Spec => []StackSafe`. As long as no frame was laid across the
  guard untouched, wherever sbrks have moved it: the program's stack is above the guard;
  `mem_sbrk`'s frame is above the break it has accepted; and the frames of what it calls
  are above the break as it was before the call.

The last part is weaker than the second on purpose. `mem_sbrk` leaves no room for
`req_send` and `proc_update`, which it calls after the comparison (`mcu_mlib.c:95-96`): when
the new break is close to the stack pointer their frames lie below it, in memory that is
already the heap but that no block has yet. They destroy nothing, and are gone when the
call returns; but a TIM3 that strikes meanwhile ends the session with "Stack overflow
detected" although the sbrk was accepted (`Tick`), and the next frames, those of the
repeated request among them, may meet the new guard (`SendAgain`, `SvcReturn`).

*The argument.* That an accepted sbrk does not put the guard over the live stack
is not checked anywhere in the code: `mem_sbrk` compares with the break, and the guard
reaches up to 127 bytes further. It holds because the comparison reads the stack
pointer deep in the supervisor call: `StackAssumption` asks that the way down takes at
least `GuardGap + 2 * GuardSize - 1` bytes, which is the bound of `GuardAtBounds`
(`Debug/mcu_mdriver.lst` shows 312 and more). The callees stay out of the old heap because
the guard moves last: their frames are laid while the old guard, above the old break, is
still in force. `CallInv` says which break the guard belongs to at each stage and which
depth a call that has extended the heap was made at; `AboveInv` says that `mem_sbrk`'s
frame is above the guard until that moves; and each action has a lemma.

`UartDmaProofs`, for all values of the constants under `ByteAssumption` and
`CallAssumption`, whatever the lengths of requests and answers and the number of calls:

- `TransferTyped`: `Spec => []TypeOK`.
- `FlagAlwaysGuards`: `Spec => []FlagGuardsTransfer`, for the transmitter's flag and, while a
  library call runs, the receiver's.
- `AlwaysInOrder`: `Spec => []InOrder`.
- `AnswerAlwaysTaken`: `Spec => []AnswerTaken`.

They rest on the two assumptions on time that are guards of the model, `SlowWire` and
`SlowPeer` (see `UartDma` above), and hold only as far as those do.

*The argument.* Four layers, each inductive given the ones before it. `TypeInv` is the
types. `TxInv` relates the C flag to the hardware: outside `tx_start` a clear flag means
an idle stream and no completion pending. `ByteInv` says which bytes are under way:
those of the requests started and not handled, in order, less those the stream still
has; byte `j * ReqBytes + i` of the PC's buffer is byte `i` of the `j`-th of them.
`TxInv` is what makes it inductive: the transmit buffer is rewritten only when no
byte of it is left to send. That a frame of `ReqBytes` bytes is then one whole request is
arithmetic (`RequestOfByte`, `NextByte`, `FrameIsRequest`). `AnswerInv` says where the
answer to the last call is at each place of the driver: not asked for, still in the
request on its way (`Due`), or coming with so many bytes left (`Coming`); it needs
`ByteInv` to know that what the PC handles next is that request and not another. It is also
what the receiver's half of `FlagGuardsTransfer` follows from.

`TraceDriverProofs`, for all values of the constants under `DriverAssumption`, so for every
trace and for an allocator that answers anything:

- `AlarmsAreReal`: `Spec => []NoFalseAlarm`.
- `MissesAreContainments`: `Spec => []MissesOnlyContainment`.
- `BooksAlwaysExact`: `Spec => []BooksExact`.

*The argument.* The list of ranges is searched by address, and it is not obvious that
the range found is that of the block meant. The invariant `Listed` says that in the first
pass no two ranges of the list start at one address, and each is the piece of a
live block. Then `RemoveRange` takes the right one and leaves only pieces of other blocks
(`RemoveRangeEffect`, `RemovedListed`), which a correct answer does not meet
(`LegalPasses`), and a new range that passes the checks starts where no other does,
because it would overlap it (`AddRangeKeeps`). `LiveAfter` says what a request does to
the ids that are live. `Listed` also says that the list leaves no live block out and that
two live blocks start at different addresses, so places of the list and live blocks
correspond one to one (`ListedExact`). For the total, `LegalTrace` says that what the first
pass accepted allocates only ids without a block and resizes or frees only ids with one;
`Summed`, that the total is the sum over the blocks live at that place of the trace, by the
sizes of the second pass; the sizes the first has left for other ids do not count. The sum is
a fold that chooses its elements in some order: `SumsExist` builds the sums of all subsets,
`SumIs` says that the fold is the one of the whole set, and `SumAdd` that an element can be
added in any place. These inductions use `Counting`, a rule on sets of numbers, since the
library's has an operator parameter.

`BoundaryTagProofs`, for all values of the constants under `TagAssumption` (every size
asked for is a whole number of words, as for the run; what memory holds at the start and
what the program writes are any numbers):

- `TagsTyped`: `Spec => []TypeOK`.
- `TagsRight`: `Spec => []WellTagged`.
- `NoFreeNeighbours`: `Spec => []Coalesced`.
- `BlocksAreHeld`: `Spec => []HeldExact`.
- `PayloadKept`: `Spec => []DataKept`.
- `InPlaceIsMalloc`: `Spec => ImplementsMalloc`.

*Why an inductive invariant.* The tags, the data and the free memory are words of one
function `mem`, and each operation computes from words it is about to overwrite. None of
the five invariants is inductive alone: the walk of `WellTagged` goes through tags that
only `DataKept` says the program has not written, and a free may merge only what
`WellTagged` says is a block. `TagInv` therefore speaks of a *layout* `L`, a set of blocks
`[at, size, alloc]` that tile the heap from the prologue to the break (`Layout`), of which
the words are the tags (`Books`), which has no two free neighbours (`Tidy`), and whose
allocated blocks are those of the pieces with the words the program wrote (`Owned`). `Sound`
says that there is such an `L`; it is a variable of the proof only.

*The argument.* On layouts everything is geometry: joining two neighbours, splitting one
block, changing a mark or adding a block at the end gives a layout (`JoinLayout`,
`SplitLayout`, `MarkLayout`, `GrowLayout`). `Relaid` is the one lemma that goes back to
words: if only words inside a stretch changed and the new blocks of it are tagged, the books
are right and the blocks outside it are untouched. Each C function then has a lemma that says
which layout it leaves (`CoalesceEffect` with its four cases, `PlaceEffect`, `FreeEffect`,
`ShrinkEffect`, `ExtendEffect`, `GrowEffect` for `extend_heap`), and two for the operations
(`MallocEffect`, `ReallocEffect`) in terms of the blocks given, moved or freed. `PayloadBooks`
says that what the program writes into a piece, and what `memcpy` writes, is no tag.
`FirstFit` and `Blocks` are recursive functions along the headers; `WalkRuns` gives the
run of such a walk over a layout by its finite prefixes, from the last block backwards, and
so `FirstFitIs` (a free block that is large enough, or none) and `BlocksAre` (the walk
meets exactly `L` and the epilogue). The refinement needs the primed state of the same
invariant only: pieces lie in allocated blocks, and those are apart (`SoundFacts`).

**Only model-checked**: the liveness properties, `OverrunReported` of `StackGuard` among
them: the prover does not handle fairness. Every invariant and every action property
of the passing runs is a theorem.

## 5. Where code and documents disagree

1. `mcu_mm.c:86` extends by words with one word of overhead; the server needs
   double words with one double word of overhead. The resent malloc can be answered
   with NULL while a larger extension would fit (`NullMeansNoMemory`).
2. `mcu_mm.c:140-142` does not look at the NULL of the inner malloc and frees the
   old block (`FailedReallocKeeps`); `src/README.txt:13` promises the standard
   counterpart.
3. `mcu_mm.c:141` copies the new size from the old block; near the break the read
   crosses the guard region and the session ends (`MoveIsSafe`).
4. `uart_dma.c:69` spins in a handler of priority 0 or 3 for a flag that an
   interrupt of priority 4 clears: a fault while a request is being sent ends in
   silence, where `mcu_init.c:5` and `:31` say that the exit signal is sent
   (`FaultEndsSession`).

Seen while modelling, without a run of their own: `pc_mm.c:453` reads through the NULL
that `blk_search` returns for an unknown pointer, in the branch that is to answer NULL
(`HandleRealloc` crashes there; no legal client gets so far). `mem_heap_hi` is said to be
the last heap byte (`mcu_mlib.c:109`) and is the one after it, and `mcu_mdriver.c:303`
says that payloads must not overlap while its test misses a payload around an older
one; `MissesOnlyContainment` says that these two are all the driver misses.

## 6. What is not modelled

- The *loss of a start word*: the operator is to start the server when the LED says
  so (`src/README.txt:7`). An MCU reset in the middle of a session waits for ever.
- *Pointers the program does not own*: `LegalClient`. A second free of a pointer
  corrupts the circular lists, and C gives such a program no promise to check.
- *The 30-bit size field* of a request: no request of that size can be served on the
  board, and none is made.
- `Offload` has no interrupts: what they do to messages is in `UartDma`, and what the
  stack does to the heap in `StackGuard`.
- *Interrupts other than TIM3* take stack as well (a frame of the exception and a few
  words); `StackGuard` has only TIM3's, the deepest.
- *`eval_mm_speed`*, `best_fit` of the in-place allocator and the polled `uart.c` are
  compiled out or never called.
- *Utilisation as printed*: `test_mem_use` counts a range record for every request and
  never takes one away; only a number in a report depends on it. Parsing and printing
  of traces, debug output (`list_print`, LEDs, `VERBOSE`) are left out; what `list_print`
  asserts is `WellTiled` and the part `DictExact` of `IInv`.
- *Trace files shorter than their header says*: both passes then run over records that
  nothing has written, and any behaviour may follow.
- *Privilege and the static regions of the MPU*: set up once, read by no code here.
- *Echo*: a demonstration of the serial line; its driver is an earlier state of the one
  in `UartDma`. *Trace tools*: scripts that convert files on the host.
- Vendored code (CMSIS, device headers, startup code, linker scripts) is most of the
  repository by size, and none of its logic.
