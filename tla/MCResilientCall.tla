--------------------------- MODULE MCResilientCall ---------------------------
(* Tasks of ResilientCall and of HttpClient that share a breaker, for TLC.   *)
EXTENDS HttpClient
=============================================================================
