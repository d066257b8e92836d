---------------------------- MODULE MCHttpPipeline ----------------------------
(* HttpPipeline for TLC: a task that reads the cache beside the requests;    *)
(* queries nested both ways over conditions of one, two and three values.    *)
EXTENDS HttpPipeline

CONSTANTS q1, q2, q3, poller

MCReqs == {q1, q2, q3}
MCUsers == MCReqs \cup {poller}
MCLoad == [memory |-> MCReqs, redis |-> {q1, q2}, cache |-> {q1, q2}, store |-> {q1, q2},
           query |-> {q1}, script |-> MCReqs]
MCEnabled ==
  LET Plain == {"i18n_error", "metrics", "otel", "request_id", "timeout", "cors"}
  IN  [memory |-> Plain \cup {"rate_limit", "audit"}, redis |-> {"rate_limit", "timeout"},
       cache |-> {"timeout"}, store |-> Plain \cup {"auth", "audit"},
       query |-> Plain \cup {"auth", "audit"}, script |-> {"timeout"}]
MCAllowOrigins ==
  [w \in WorkKinds |-> IF w \in {"query", "store"} THEN {"shop"} ELSE {"*"}]
MCOrigins == [w \in WorkKinds |-> IF w = "query" THEN {"shop", "other"} ELSE {"shop"}]

MCLevels ==
  LET Leaves == {LikeSpec("a"), BetweenSpec("b", "c"), InSpec(<<"d", "e", "f">>)}
      Pairs == {AndSpec(x, y) : x \in Leaves, y \in Leaves}
  IN  <<Leaves \cup {EqSpec("a")}, Pairs,
        {OrSpec(p, x) : p \in Pairs, x \in Leaves} \cup {AndSpec(x, p) : p \in Pairs, x \in Leaves}>>
=============================================================================
