------------------------------ MODULE MCPcHeap ------------------------------
(* Instance of PcHeap for TLC: a heap of up to MaxHeap bytes, two linear   *)
(* classes so that a few double words reach the doubling classes too.      *)
EXTENDS PcHeap

(* States that differ only in which blk_elt stands for a block are one     *)
(* state: the view names each block by its pointer, and leaves out the     *)
(* last request and its answer, which no step reads.                       *)
BlockView ==
  LET h == heap IN
  <<{<<h.ptr[b], h.size[b], h.alloc[b], h.ptr[h.next[b]], h.ptr[h.prev[b]]>> :
       b \in h.live \cup {Start}},
    [i \in Class |-> [j \in DOMAIN h.class[i] |-> h.ptr[h.class[i][j]]]],
    {<<e[1], h.ptr[e[2]]>> : e \in h.dict},
    h.status, mem_start_brk, mem_brk>>
=============================================================================
