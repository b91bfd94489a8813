------------------------------ MODULE DictAbs -------------------------------
(***************************************************************************)
(* What dict.c promises pc_mm.c: a partial function from pointers of the   *)
(* MCU to blocks, without the hash table.                                  *)
(***************************************************************************)
CONSTANTS Keys, Blks, NULL

VARIABLES
  pairs,    (* <<key, block>>: a key has at most one block.                 *)
  answer    (* The last search: its key, and the block or NULL.             *)

Used == {e[1] : e \in pairs}

Init == pairs = {} /\ answer = <<0, NULL>>

Insert(k, b) ==
  /\ k \notin Used
  /\ pairs' = pairs \cup {<<k, b>>}
  /\ UNCHANGED answer

Delete(k) ==
  /\ pairs' = {e \in pairs : e[1] # k}
  /\ UNCHANGED answer

(* 0, the pointer of free(NULL), is never a key.                          *)
Search(k) ==
  /\ \/ answer' \in pairs /\ answer'[1] = k
     \/ k \notin Used /\ answer' = <<k, NULL>>
  /\ UNCHANGED pairs

Empty == pairs' = {} /\ UNCHANGED answer

Next ==
  \/ \E k \in Keys, b \in Blks : Insert(k, b)
  \/ \E k \in Keys : Delete(k)
  \/ \E k \in Keys \cup {0} : Search(k)
  \/ Empty

Spec == Init /\ [][Next]_<<pairs, answer>>
=============================================================================
