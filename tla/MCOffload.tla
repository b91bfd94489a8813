----------------------------- MODULE MCOffload -----------------------------
(* Instance of Offload for TLC: a heap of at most three chunks of two      *)
(* double words below the stack.                                           *)
EXTENDS Offload

(* States that differ only in which blk_elt stands for a block, or in the  *)
(* request and the answer last handled, are one.                           *)
BlockView ==
  LET h == heap IN
  <<{<<h.ptr[b], h.size[b], h.alloc[b], h.ptr[h.next[b]], h.ptr[h.prev[b]]>> :
       b \in h.live \cup {Start}},
    [i \in Pc!Class |-> [j \in DOMAIN h.class[i] |-> h.ptr[h.class[i][j]]]],
    h.status, mem_brk, server, toPC, toMCU, brk, call, held>>
=============================================================================
