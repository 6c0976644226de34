----------------------------- MODULE MCShimClient -----------------------------
(* ShimClient for TLC: puts are interchangeable with puts, gets with gets.    *)
(* Only the safety runs use the symmetry; it would be unsound for liveness.   *)
EXTENDS ShimClient, TLC

Symmetry == Permutations(Putters) \cup Permutations(Caller \ Putters)
===============================================================================
