------------------------------- MODULE MCLock -------------------------------
(* The two lock backends for TLC; the constants are in the cfg file. *)
EXTENDS RedisLock, FiniteSets

(* A client that needs a fresh token always finds one: no more of them are  *)
(* mentioned than there are entries, handles and commands of others.        *)
ASSUME EnoughTokens == Cardinality(Tokens) >= 2 * Cardinality(Clients) + Cardinality(Keys)
=============================================================================
