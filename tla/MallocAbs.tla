------------------------------ MODULE MallocAbs ------------------------------
(***************************************************************************)
(* The malloc library as a program on the microcontroller sees it: calls   *)
(* that give it disjoint pieces of memory and take them back.              *)
(***************************************************************************)
EXTENDS Integers

CONSTANTS
  Lowest, Highest,   (* The memory the heap may ever use: [Lowest, Highest). *)
  Sizes              (* Sizes the program asks for.                          *)

VARIABLE held        (* Pieces the program has: [ptr, size] records.         *)

Disjoint(r, s) == r.ptr + r.size <= s.ptr \/ s.ptr + s.size <= r.ptr

(* A piece of memory that no piece of others uses.                          *)
Fresh(others) ==
  {r \in [ptr : Lowest .. Highest - 1, size : Sizes] :
     /\ r.ptr + r.size <= Highest
     /\ \A s \in others : Disjoint(r, s)}

Init == held = {}

Malloc == \E r \in Fresh(held) : held' = held \cup {r}

Free == \E r \in held : held' = held \ {r}

(* In place, or elsewhere: the new piece may use the bytes of the old one   *)
(* only when it begins where that one does.                                 *)
Realloc ==
  \E old \in held : \E new \in Fresh(held \ {old}) :
    /\ new.ptr = old.ptr \/ Disjoint(new, old)
    /\ held' = (held \ {old}) \cup {new}

Reset == held' = {}

Next == Malloc \/ Free \/ Realloc \/ Reset

Spec == Init /\ [][Next]_held
=============================================================================
