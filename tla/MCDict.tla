------------------------------- MODULE MCDict -------------------------------
(* Instance of Dict for TLC: keys that collide in tables of 2, 4 and 8     *)
(* buckets.                                                                *)
EXTENDS Dict
=============================================================================
