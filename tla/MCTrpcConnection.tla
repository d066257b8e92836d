-------------------------- MODULE MCTrpcConnection --------------------------
(* Instances of TrpcConnection for TLC; the constants are in the cfg files. *)
EXTENDS TrpcConnection, TLC

CallerSymmetry == Permutations(Callers)
=============================================================================
