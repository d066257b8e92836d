--------------------------- MODULE MCSimpleTimer ----------------------------
(* Instances of SimpleTimer for TLC; the constants are in the cfg files. *)
EXTENDS SimpleTimer, TLC

(* Loops and nodes are interchangeable; used where no liveness is checked. *)
LoopSymmetry == Permutations(Loops) \cup Permutations(Nodes)
=============================================================================
