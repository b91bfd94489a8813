--------------------------- MODULE MCTraceDriver ---------------------------
(* Instance of TraceDriver for TLC.                                        *)
EXTENDS TraceDriver

IdPermutations == Permutations(Ids)

(* What the blocks are in the second pass does not matter any more.        *)
Ahead ==
  <<pass, ops, i, ranges, total_size, max_total_size, wrong,
    IF pass = "valid" THEN blocks ELSE <<>>,
    IF pass # "stuck" THEN block_sizes ELSE <<>>>>
=============================================================================
