------------------------------- MODULE HeapAbs -------------------------------
(***************************************************************************)
(* What the PC's allocator promises its client: the heap is the interval   *)
(* from base to brk, and the client holds disjoint regions of it.  Each    *)
(* step serves one request; what it may do depends on that request.        *)
(***************************************************************************)
EXTENDS Integers

CONSTANTS
  Base,          (* Where the heap begins.                                  *)
  MallocSizes,   (* Sizes the client asks malloc for.                       *)
  ReallocSizes,  (* Sizes the client asks realloc for.                      *)
  SbrkSizes,     (* Increments of the heap.                                 *)
  MallocSlack,   (* Bytes a region may have beyond a request of malloc...   *)
  ReallocSlack   (* ... and of realloc.                                     *)

VARIABLES
  base, brk,
  regions,       (* Regions held by the client: first byte and length.      *)
  request,       (* The last request.                                       *)
  reply          (* Answer to it: none or one pointer.                      *)

absVars == <<base, brk, regions, request, reply>>

Region(lo, len) == [lo |-> lo, len |-> len]

Apart(r, s) == r.lo + r.len <= s.lo \/ s.lo + s.len <= r.lo

(* The bytes of r lie in the heap and no region of held uses any of them.  *)
Vacant(r, held) ==
  /\ base <= r.lo /\ r.lo + r.len <= brk
  /\ \A s \in held : Apart(r, s)

Requested(name, size, ptr) ==
  request' = [request |-> name, size |-> size, ptr |-> ptr]

Init ==
  /\ base = Base /\ brk = Base
  /\ regions = {}
  /\ request = [request |-> "SBRK", size |-> 0, ptr |-> Base]
  /\ reply = << >>

Grant(size) ==
  /\ Requested("MALLOC", size, 0)
  /\ size > 0
  /\ \E lo \in base .. brk - 1, len \in size .. size + MallocSlack :
       /\ Vacant(Region(lo, len), regions)
       /\ regions' = regions \cup {Region(lo, len)}
       /\ reply' = <<lo>>
  /\ UNCHANGED <<base, brk>>

(* A refusal: no vacant run of bytes would do.                             *)
Refuse(size) ==
  /\ Requested("MALLOC", size, 0)
  /\ size > 0 => \A lo \in base .. brk - 1 :
                    ~ Vacant(Region(lo, size + MallocSlack), regions)
  /\ reply' = <<0>>
  /\ UNCHANGED <<base, brk, regions>>

(* The region at p is given back; nothing happens when there is none.      *)
Free(p) ==
  /\ Requested("FREE", 0, p)
  /\ reply' = << >>
  /\ regions' = {r \in regions : r.lo # p}
  /\ UNCHANGED <<base, brk>>

(* The region stays where it is and gets a new length.                     *)
Resize(r, size) ==
  /\ Requested("REALLOC", size, r.lo)
  /\ \E len \in size .. size + ReallocSlack :
       LET s == Region(r.lo, len) IN
       /\ Vacant(s, regions \ {r})
       /\ regions' = (regions \ {r}) \cup {s}
       /\ reply' = <<r.lo>>
  /\ UNCHANGED <<base, brk>>

(* Only growth is refused, and only when the bytes behind are not vacant.  *)
RefuseResize(r, size) ==
  /\ Requested("REALLOC", size, r.lo)
  /\ size > r.len
  /\ ~ Vacant(Region(r.lo, size + ReallocSlack), regions \ {r})
  /\ reply' = <<0>>
  /\ UNCHANGED <<base, brk, regions>>

Grow(incr) ==
  /\ Requested("SBRK", incr, 0)
  /\ brk' = brk + incr
  /\ reply' = << >>
  /\ UNCHANGED <<base, regions>>

Reset ==
  /\ Requested("SBRK", 0, base)
  /\ regions' = {}
  /\ brk' = base
  /\ reply' = << >>
  /\ UNCHANGED base

End ==
  /\ Requested("SBRK", 0, 0)
  /\ regions' = {}
  /\ reply' = << >>
  /\ UNCHANGED <<base, brk>>

Next ==
  \/ \E size \in MallocSizes : Grant(size) \/ Refuse(size)
  \/ \E p \in {r.lo : r \in regions} \cup {0} : Free(p)
  \/ \E r \in regions, size \in ReallocSizes :
        Resize(r, size) \/ RefuseResize(r, size)
  \/ \E incr \in SbrkSizes : Grow(incr)
  \/ Reset
  \/ End

Spec == Init /\ [][Next]_absVars
=============================================================================
