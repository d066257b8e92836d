---------------------------- MODULE ShutdownToken ----------------------------
(***************************************************************************)
(* The CancellationToken of create_shutdown_token in rinfra-plugins/src/   *)
(* runtime/mod.rs, which every listener and connection looks at.           *)
(***************************************************************************)
VARIABLE token     \* the token is cancelled

TokenInit == token = FALSE

(* SIGINT or SIGTERM; there is no way back, and a second signal does nothing. *)
Signal == ~ token /\ token' = TRUE
=============================================================================
