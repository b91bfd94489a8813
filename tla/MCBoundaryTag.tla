--------------------------- MODULE MCBoundaryTag ---------------------------
(* Instance of BoundaryTag for TLC.                                        *)
EXTENDS BoundaryTag

(* The words that count: tags, and what the program has written.           *)
LiveWords ==
  {HDRP(bp) : bp \in Blocks} \cup {FTRP(mem, bp) : bp \in Blocks}
    \cup UNION {{p \in Words : r.ptr <= p /\ p < r.ptr + r.kept} : r \in held}

(* States that differ only in words nobody will read are one.              *)
LiveView == <<{<<p, GET(mem, p)>> : p \in LiveWords}, mem_brk, heap_listp, held>>
=============================================================================
