---------------------------- MODULE MCAdminConsole ----------------------------
(* AdminConsole for TLC: two requests at a time, three tokens in all. *)
EXTENDS AdminConsole, TLC

CONSTANTS q1, q2

MCReqs == {q1, q2}
Symmetry == Permutations(MCReqs)
=============================================================================
