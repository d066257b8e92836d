----------------------------- MODULE WhereClause -----------------------------
(***************************************************************************)
(* The query specifications of rinfra-core/src/store/spec.rs: a tree of    *)
(* AND and OR over conditions, rendered into a clause with $n placeholders *)
(* and the parameters to bind.  A condition is <<kind, values>>; a         *)
(* rendered clause is the sequence of <<placeholder, value it stands for>> *)
(* in the order of the text, and the parameters.                           *)
(***************************************************************************)
EXTENDS Integers, Sequences

CONSTANT Levels  \* the query specifications handlers use, in levels: one is made of
                 \*   specifications of the levels before its own

UpTo(n) == UNION {Levels[i] : i \in 1 .. n}
Specs == UpTo(Len(Levels))

Condition(kind, values) == <<kind, values>>
AndSpec(l, r) == <<"and", l, r>>
OrSpec(l, r) == <<"or", l, r>>

EqSpec(v) == Condition("eq", <<v>>)
LikeSpec(v) == Condition("like", <<v>>)
InSpec(vs) == Condition("in", vs)
BetweenSpec(lo, hi) == Condition("between", <<lo, hi>>)

Combined(s) == s[1] \in {"and", "or"}

(* The boxes of a specification nest, and a value is known by its text. *)
ASSUME LevelsAssumption ==
  /\ Len(Levels) \in Nat
  /\ \A n \in 1 .. Len(Levels) : \A s \in Levels[n] :
       IF Combined(s) THEN s[2] \in UpTo(n - 1) /\ s[3] \in UpTo(n - 1)
                      ELSE s[2] \in Seq(STRING)

(* Defect: the right side is numbered after the left side's conditions, not  *)
(* its parameters.                                                           *)
RightOffsetByOne(offset, lparams) == offset + 1

RightOffset(offset, lparams) == offset + Len(lparams)

(* to_where_clause, of the trait's implementations for AND and OR, which ask  *)
(* their sides, and for the conditions: s at every offset.                    *)
Render(s, to) ==
  [o \in Nat |->
     IF Combined(s)
       THEN LET l == to[s[2]][o]
                r == to[s[3]][RightOffset(o, l.params)]
            IN  [clause |-> l.clause \o r.clause, params |-> l.params \o r.params]
       ELSE [clause |-> [i \in DOMAIN s[2] |-> <<o + i - 1, s[2][i]>>], params |-> s[2]]]

ToWhereClause(spec, offset) ==
  LET To[s \in Specs] == Render(s, To)
  IN  To[spec][offset]

(* What the database makes of it: every placeholder takes its parameter. *)
Bound(query) == [i \in DOMAIN query.clause |-> query.params[query.clause[i][1]]]
=============================================================================
