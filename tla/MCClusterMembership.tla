------------------------ MODULE MCClusterMembership -------------------------
(* Instances of ClusterMembership for TLC; the constants are in the cfgs. *)
EXTENDS ClusterMembership, TLC

(* Slots are interchangeable; used where no liveness is checked. *)
ConnSymmetry == Permutations(Conns)
=============================================================================
