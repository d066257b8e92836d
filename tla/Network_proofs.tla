--------------------------- MODULE Network_proofs ---------------------------
(***************************************************************************)
(* Proofs about the connections of the process: the tRPC connection, whose *)
(* answers reach the asks that wait for them and no other, and, in one     *)
(* application, the WebSocket and the TCP connections: their counts, the   *)
(* order of the TCP middlewares and the pipeline of transforms, for any    *)
(* number of callers, connections, middlewares and transforms.             *)
(***************************************************************************)
EXTENDS Application, TrpcConnection, FiniteSetTheorems, SequenceTheorems,
        WellFoundedInduction, TLAPS

-----------------------------------------------------------------------------
(* One tRPC connection *)

(* The frames in a queue. *)
Carried(q) == {q[i] : i \in DOMAIN q}

(* An ask that is under way has an id that was given out, and a value or an  *)
(* entry in the map.                                                         *)
Asks == [at : {"idle", "sending", "awaiting"}, id : 0 .. MaxId, n : 0 .. MaxAsks,
         got : Requests \cup {<< >>, <<"closed">>}]
Served(c) ==
  ask[c].at # "idle" =>
    /\ ask[c].id \in 1 .. (next_id - 1) /\ ask[c].n >= 1
    /\ ask[c].got # << >> \/ ask[c].id \in pending
AllServed == \A c \in Callers : Served(c)

(* Two asks that are under way have different ids. *)
IdsDiffer ==
  \A c, d \in Callers :
    c # d /\ ask[c].at # "idle" /\ ask[d].at # "idle" => ask[c].id # ask[d].id

(* A frame that has the id of an ask is for that ask. *)
Fits(f) ==
  \A d \in Callers : ask[d].at # "idle" /\ ask[d].id = f.id => f.of = <<d, ask[d].n>>
Numbered(f) == f.id \in 1 .. (next_id - 1) /\ f.of \in Requests
Asking(f) ==
  /\ f \in Frames /\ Fits(f)
  /\ \/ f.kind = "Tell" /\ f.id = 0
     \/ f.kind = "Request" /\ Numbered(f)
Answering(f) == f \in Frames /\ Fits(f) /\ f.kind = "Response" /\ Numbered(f)
FramesFit ==
  /\ \A f \in Carried(channel) \cup Carried(up) : Asking(f)
  /\ \A f \in Carried(down) : Answering(f)

(* While the connection is up, the request or the answer of an ask that      *)
(* awaits a value is on its way.                                             *)
UnderWay(c) ==
  \E f \in Carried(channel) \cup Carried(up) \cup Carried(down) :
    f.id = ask[c].id /\ f.of = <<c, ask[c].n>>
Awaited(c) ==
  ask[c].at = "awaiting" /\ ask[c].got = << >> /\ link /\ reader = "reading" => UnderWay(c)
AllAwaited == \A c \in Callers : Awaited(c)

TrpcInv ==
  /\ TypeOK /\ AllServed /\ IdsDiffer /\ FramesFit /\ AllAwaited /\ AnswerIsMine

-----------------------------------------------------------------------------
(* Queues *)

LEMMA CarriedEmpty == Carried(<< >>) = {}
BY DEF Carried

(* What append adds. *)
LEMMA CarriedAppend ==
  ASSUME NEW S, NEW q \in Seq(S), NEW x \in S
  PROVE  Append(q, x) \in Seq(S) /\ Carried(Append(q, x)) = Carried(q) \cup {x}
<1>1. /\ Append(q, x) \in Seq(S) /\ DOMAIN Append(q, x) = 1 .. (Len(q) + 1)
      /\ DOMAIN q = 1 .. Len(q) /\ Len(q) \in Nat
      /\ Append(q, x)[Len(q) + 1] = x
      /\ \A i \in 1 .. Len(q) : Append(q, x)[i] = q[i]
  OBVIOUS
<1>2. \A i \in 1 .. (Len(q) + 1) : i \in 1 .. Len(q) \/ i = Len(q) + 1 BY <1>1
<1>3. ASSUME NEW y PROVE y \in Carried(Append(q, x)) <=> y \in Carried(q) \cup {x}
  <2>1. ASSUME y \in Carried(Append(q, x)) PROVE y \in Carried(q) \cup {x}
    <3>1. PICK i \in 1 .. (Len(q) + 1) : y = Append(q, x)[i] BY <1>1, <2>1 DEF Carried
    <3> QED BY <1>1, <1>2, <3>1 DEF Carried
  <2>2. ASSUME y \in Carried(q) PROVE y \in Carried(Append(q, x))
    <3>1. PICK i \in 1 .. Len(q) : y = q[i] BY <1>1, <2>2 DEF Carried
    <3>2. i \in DOMAIN Append(q, x) /\ y = Append(q, x)[i] BY <1>1, <3>1
    <3> QED BY <3>2 DEF Carried
  <2>3. x \in Carried(Append(q, x))
    <3>1. Len(q) + 1 \in DOMAIN Append(q, x) BY <1>1
    <3> QED BY <1>1, <3>1 DEF Carried
  <2> QED BY <2>1, <2>2, <2>3
<1> QED BY <1>1, <1>3

(* What taking the first leaves. *)
LEMMA CarriedTail ==
  ASSUME NEW S, NEW q \in Seq(S), q # << >>
  PROVE  /\ Head(q) \in S /\ Tail(q) \in Seq(S)
         /\ Carried(q) = {Head(q)} \cup Carried(Tail(q))
<1>1. /\ Head(q) \in S /\ Head(q) = q[1] /\ Tail(q) \in Seq(S)
      /\ Len(q) \in Nat \ {0} /\ DOMAIN q = 1 .. Len(q)
      /\ DOMAIN Tail(q) = 1 .. (Len(q) - 1)
      /\ \A i \in 1 .. (Len(q) - 1) : Tail(q)[i] = q[i + 1]
  OBVIOUS
<1>2. ASSUME NEW y PROVE y \in Carried(q) <=> y \in {Head(q)} \cup Carried(Tail(q))
  <2>1. ASSUME y \in Carried(q) PROVE y \in {Head(q)} \cup Carried(Tail(q))
    <3>1. PICK i \in 1 .. Len(q) : y = q[i] BY <1>1, <2>1 DEF Carried
    <3>2. CASE i = 1 BY <1>1, <3>1, <3>2
    <3>3. CASE i # 1
      <4>1. i - 1 \in 1 .. (Len(q) - 1) /\ (i - 1) + 1 = i BY <1>1, <3>1, <3>3
      <4>2. i - 1 \in DOMAIN Tail(q) /\ Tail(q)[i - 1] = y BY <1>1, <3>1, <4>1
      <4> QED BY <4>2 DEF Carried
    <3> QED BY <3>2, <3>3
  <2>2. ASSUME y \in Carried(Tail(q)) PROVE y \in Carried(q)
    <3>1. PICK i \in 1 .. (Len(q) - 1) : y = Tail(q)[i] BY <1>1, <2>2 DEF Carried
    <3>2. i + 1 \in DOMAIN q /\ y = q[i + 1] BY <1>1, <3>1
    <3> QED BY <3>2 DEF Carried
  <2>3. Head(q) \in Carried(q)
    <3>1. 1 \in DOMAIN q BY <1>1
    <3> QED BY <1>1, <3>1 DEF Carried
  <2> QED BY <2>1, <2>2, <2>3
<1> QED BY <1>1, <1>2

(* The values of an answer and of an error are values. *)
LEMMA Values ==
  /\ <<"closed">> # << >>
  /\ \A v \in Requests : v # << >>
  /\ \A v \in Requests : \E c \in Callers, n \in 1 .. MaxAsks : v = <<c, n>>
BY DEF Requests

-----------------------------------------------------------------------------
(* Asks that go on or end *)

(* No ask begins, and the ones under way are the same. *)
AsksGoOn ==
  /\ next_id' = next_id
  /\ \A d \in Callers : ask'[d].at # "idle" =>
       ask[d].at # "idle" /\ ask'[d].id = ask[d].id /\ ask'[d].n = ask[d].n

LEMMA FrameGoesOn ==
  ASSUME AsksGoOn, NEW f
  PROVE  (Asking(f) => Asking(f)') /\ (Answering(f) => Answering(f)')
<1>1. Fits(f) => Fits(f)' BY DEF AsksGoOn, Fits
<1>2. Numbered(f) => Numbered(f)' BY DEF AsksGoOn, Numbered, Requests
<1> QED BY <1>1, <1>2 DEF Asking, Answering, Frames, Requests

LEMMA IdsStay == ASSUME TrpcInv, AsksGoOn PROVE IdsDiffer'
BY DEF TrpcInv, AsksGoOn, IdsDiffer

(* A step that leaves the queues and the connection alone, and lets one ask  *)
(* become r.                                                                 *)
Quiet == UNCHANGED <<channel, up, down, writer, reader, link>>

LEMMA TypeGoesOn ==
  ASSUME TypeOK, Quiet, NEW c \in Callers, NEW r \in Asks,
         ask' = [ask EXCEPT ![c] = r],
         next_id' \in 1 .. (MaxId + 1), pending' \subseteq 1 .. MaxId
  PROVE  TypeOK'
BY DEF TypeOK, Quiet, Asks

LEMMA IdleIsAsk == ASSUME NEW n \in 0 .. MaxAsks PROVE Idle(n) \in Asks /\ Idle(n).at = "idle"
                                                        /\ Idle(n).got = << >>
BY TrpcAssumption DEF Idle, Asks

LEMMA CallerIsAsk == ASSUME TypeOK, NEW c \in Callers PROVE ask[c] \in Asks
BY DEF TypeOK, Asks

(* An ask ends, with an answer or without one. *)
LEMMA EndsKeep ==
  ASSUME TrpcInv, Quiet, NEW c \in Callers, UNCHANGED next_id,
         ask' = [ask EXCEPT ![c] = Idle(@.n)],
         pending' = pending \/ (ask[c].at # "idle" /\ pending' = pending \ {ask[c].id})
  PROVE  TrpcInv'
<1> DEFINE r == Idle(ask[c].n)
<1>1. TypeOK /\ ask[c] \in Asks BY CallerIsAsk DEF TrpcInv
<1>2. r \in Asks /\ r.at = "idle" /\ r.got = << >> BY <1>1, IdleIsAsk DEF Asks
<1>3. ask' = [ask EXCEPT ![c] = r] OBVIOUS
<1> HIDE DEF r
<1>4. ask'[c] = r /\ \A d \in Callers \ {c} : ask'[d] = ask[d]
  BY <1>1, <1>3 DEF TypeOK
<1>5. AsksGoOn BY <1>2, <1>4 DEF AsksGoOn
<1>6. TypeOK'
  <2>1. next_id' \in 1 .. (MaxId + 1) /\ pending' \subseteq 1 .. MaxId BY <1>1 DEF TypeOK
  <2> QED BY <1>1, <1>2, <1>3, <2>1, TypeGoesOn
<1>7. AllServed'
  <2>1. \A d \in Callers \ {c} : Served(d)'
    BY <1>4 DEF TrpcInv, AllServed, Served, IdsDiffer
  <2>2. Served(c)' BY <1>2, <1>4 DEF Served
  <2> QED BY <2>1, <2>2 DEF AllServed
<1>8. FramesFit' BY <1>5, FrameGoesOn DEF TrpcInv, FramesFit, Quiet
<1>9. AllAwaited'
  <2>1. \A d \in Callers \ {c} : Awaited(d)'
    BY <1>4 DEF TrpcInv, AllAwaited, Awaited, UnderWay, Quiet
  <2>2. Awaited(c)' BY <1>2, <1>4 DEF Awaited
  <2> QED BY <2>1, <2>2 DEF AllAwaited
<1>10. AnswerIsMine' BY <1>2, <1>4 DEF TrpcInv, AnswerIsMine
<1> QED BY <1>5, <1>6, <1>7, <1>8, <1>9, <1>10, IdsStay DEF TrpcInv

LEMMA AskKeeps == ASSUME TrpcInv, NEW c \in Callers, Ask(c) PROVE TrpcInv'
<1> DEFINE r == [at |-> "sending", id |-> next_id, n |-> ask[c].n + 1, got |-> << >>]
<1>1. TypeOK /\ ask[c] \in Asks BY CallerIsAsk DEF TrpcInv
<1>2. /\ ask[c].at = "idle" /\ ask[c].n < MaxAsks /\ next_id =< MaxId
      /\ ask' = [ask EXCEPT ![c] = r] /\ pending' = pending \cup {next_id}
      /\ next_id' = next_id + 1 /\ Quiet
  BY DEF Ask, Quiet
<1>3. next_id \in 1 .. MaxId BY <1>1, <1>2, TrpcAssumption DEF TypeOK
<1>4. /\ r \in Asks /\ r.at = "sending" /\ r.id = next_id /\ r.got = << >>
      /\ r.n >= 1
  BY <1>1, <1>2, <1>3, TrpcAssumption DEF Asks
<1> HIDE DEF r
<1>5. ask'[c] = r /\ \A d \in Callers \ {c} : ask'[d] = ask[d]
  BY <1>1, <1>2 DEF TypeOK
<1>6. TypeOK'
  <2>1. next_id' \in 1 .. (MaxId + 1) /\ pending' \subseteq 1 .. MaxId
    BY <1>1, <1>2, <1>3, TrpcAssumption DEF TypeOK
  <2> QED BY <1>1, <1>2, <1>4, <2>1, TypeGoesOn
<1>7. \A d \in Callers \ {c} : ask[d].at # "idle" => ask[d].id \in 1 .. (next_id - 1)
  BY DEF TrpcInv, AllServed, Served
<1>8. AllServed'
  <2>1. \A d \in Callers \ {c} : Served(d)'
    BY <1>2, <1>3, <1>5, <1>7 DEF TrpcInv, AllServed, Served
  <2>2. Served(c)' BY <1>2, <1>3, <1>4, <1>5 DEF Served
  <2> QED BY <2>1, <2>2 DEF AllServed
<1>9. IdsDiffer'
  <2>1. \A d \in Callers \ {c} : ask'[d].at # "idle" => ask'[d].id # ask'[c].id
    BY <1>3, <1>4, <1>5, <1>7
  <2> QED BY <1>5, <2>1 DEF TrpcInv, IdsDiffer
<1>10. FramesFit'
  <2>1. ASSUME NEW f, Numbered(f) PROVE Numbered(f)' /\ f.id # next_id
    BY <1>2, <1>3, <2>1 DEF Numbered, Requests
  <2>2. ASSUME NEW f, Fits(f), f.id # next_id PROVE Fits(f)'
    BY <1>4, <1>5, <2>2 DEF Fits
  <2>3. ASSUME NEW f, Asking(f) PROVE Asking(f)'
    BY <1>3, <2>1, <2>2, <2>3 DEF Asking, Frames, Requests
  <2>4. ASSUME NEW f, Answering(f) PROVE Answering(f)'
    BY <2>1, <2>2, <2>4 DEF Answering, Frames, Requests
  <2> QED BY <1>2, <2>3, <2>4 DEF TrpcInv, FramesFit, Quiet
<1>11. AllAwaited'
  <2>1. \A d \in Callers \ {c} : Awaited(d)'
    BY <1>2, <1>5 DEF TrpcInv, AllAwaited, Awaited, UnderWay, Quiet
  <2>2. Awaited(c)' BY <1>4, <1>5 DEF Awaited
  <2> QED BY <2>1, <2>2 DEF AllAwaited
<1>12. AnswerIsMine' BY <1>4, <1>5 DEF TrpcInv, AnswerIsMine
<1> QED BY <1>6, <1>8, <1>9, <1>10, <1>11, <1>12 DEF TrpcInv

(* A frame is put in the channel. *)
LEMMA TellKeeps == ASSUME TrpcInv, NEW c \in Callers, Tell(c) PROVE TrpcInv'
<1> DEFINE f == [kind |-> "Tell", id |-> 0, of |-> << >>]
<1>1. /\ channel' = Append(channel, f) /\ Len(channel) < Capacity
      /\ UNCHANGED <<ask, pending, next_id, writer, reader, up, down, link>>
  BY DEF Tell
<1>2. TypeOK BY DEF TrpcInv
<1>3. f \in Frames /\ f.kind = "Tell" /\ f.id = 0 BY TrpcAssumption DEF Frames
<1> HIDE DEF f
<1>4. Append(channel, f) \in Seq(Frames) /\ Carried(Append(channel, f)) = Carried(channel) \cup {f}
  BY <1>2, <1>3, CarriedAppend DEF TypeOK
<1>5. TypeOK'
  <2>1. Len(Append(channel, f)) = Len(channel) + 1 /\ Len(channel) \in Nat BY <1>2 DEF TypeOK
  <2>2. Len(channel') =< Capacity BY <1>1, <2>1, TrpcAssumption
  <2> QED BY <1>1, <1>2, <1>4, <2>2 DEF TypeOK
<1>6. AsksGoOn BY <1>1 DEF AsksGoOn
<1>7. Asking(f)'
  <2>1. Fits(f)' BY <1>1, <1>3 DEF TrpcInv, AllServed, Served, Fits
  <2> QED BY <1>3, <2>1 DEF Asking, Frames, Requests
<1>8. FramesFit' BY <1>1, <1>4, <1>6, <1>7, FrameGoesOn DEF TrpcInv, FramesFit
<1>9. AllAwaited' BY <1>1, <1>4 DEF TrpcInv, AllAwaited, Awaited, UnderWay
<1>10. AllServed' /\ AnswerIsMine' BY <1>1 DEF TrpcInv, AllServed, Served, AnswerIsMine
<1> QED BY <1>5, <1>6, <1>8, <1>9, <1>10, IdsStay DEF TrpcInv

LEMMA SentKeeps == ASSUME TrpcInv, NEW c \in Callers, AskSent(c) PROVE TrpcInv'
<1> DEFINE f == [kind |-> "Request", id |-> ask[c].id, of |-> <<c, ask[c].n>>]
           r == [ask[c] EXCEPT !.at = "awaiting"]
<1>1. /\ ask[c].at = "sending" /\ Len(channel) < Capacity
      /\ channel' = Append(channel, f) /\ ask' = [ask EXCEPT ![c] = r]
      /\ UNCHANGED <<pending, next_id, writer, reader, up, down, link>>
  BY DEF AskSent
<1>2. TypeOK /\ ask[c] \in Asks BY CallerIsAsk DEF TrpcInv
<1>3. /\ r \in Asks /\ r.at = "awaiting" /\ r.id = ask[c].id /\ r.n = ask[c].n
      /\ r.got = ask[c].got
  BY <1>2 DEF Asks
<1>4. ask[c].id \in 1 .. (next_id - 1) /\ ask[c].n \in 1 .. MaxAsks
  BY <1>1, <1>2 DEF TrpcInv, AllServed, Served, Asks
<1>5. <<c, ask[c].n>> \in Requests BY <1>4 DEF Requests
<1>6. /\ f \in Frames /\ f.kind = "Request" /\ f.id = ask[c].id /\ f.of = <<c, ask[c].n>>
      /\ Numbered(f)
  BY <1>2, <1>4, <1>5 DEF Frames, Asks, Numbered
<1> HIDE DEF f, r
<1>7. ask'[c] = r /\ \A d \in Callers \ {c} : ask'[d] = ask[d]
  BY <1>1, <1>2 DEF TypeOK
<1>8. Append(channel, f) \in Seq(Frames) /\ Carried(Append(channel, f)) = Carried(channel) \cup {f}
  BY <1>2, <1>6, CarriedAppend DEF TypeOK
<1>9. AsksGoOn BY <1>1, <1>3, <1>7 DEF AsksGoOn
<1>10. TypeOK'
  <2>1. Len(Append(channel, f)) = Len(channel) + 1 /\ Len(channel) \in Nat
    BY <1>2, <1>6 DEF TypeOK
  <2>2. Len(channel') =< Capacity BY <1>1, <2>1, TrpcAssumption
  <2>3. ask' \in [Callers -> Asks] BY <1>1, <1>2, <1>3 DEF TypeOK, Asks
  <2> QED BY <1>1, <1>2, <1>8, <2>2, <2>3 DEF TypeOK, Asks
<1>11. AllServed'
  <2>1. \A d \in Callers \ {c} : Served(d)'
    BY <1>1, <1>7 DEF TrpcInv, AllServed, Served
  <2>2. Served(c)' BY <1>1, <1>3, <1>7 DEF TrpcInv, AllServed, Served
  <2> QED BY <2>1, <2>2 DEF AllServed
<1>12. Asking(f)
  <2>1. Fits(f)
    <3>1. \A d \in Callers \ {c} : ask[d].at # "idle" => ask[d].id # ask[c].id
      BY <1>1 DEF TrpcInv, IdsDiffer
    <3> QED BY <1>6, <3>1 DEF Fits
  <2> QED BY <1>6, <2>1 DEF Asking
<1>13. FramesFit'
  <2>1. \A x \in Carried(channel') \cup Carried(up') : Asking(x)
    BY <1>1, <1>8, <1>12 DEF TrpcInv, FramesFit
  <2> QED BY <1>1, <1>9, <2>1, FrameGoesOn DEF TrpcInv, FramesFit
<1>14. AllAwaited'
  <2>1. \A d \in Callers \ {c} : Awaited(d)'
    BY <1>1, <1>7, <1>8 DEF TrpcInv, AllAwaited, Awaited, UnderWay
  <2>2. UnderWay(c)' BY <1>1, <1>3, <1>6, <1>7, <1>8 DEF UnderWay
  <2> QED BY <2>1, <2>2 DEF AllAwaited, Awaited
<1>15. AnswerIsMine' BY <1>3, <1>7 DEF TrpcInv, AnswerIsMine
<1> QED BY <1>9, <1>10, <1>11, <1>13, <1>14, <1>15, IdsStay DEF TrpcInv

-----------------------------------------------------------------------------
(* The loops and the server *)

(* A step that changes no ask: the frames that stay are among those there    *)
(* were, and those that are awaited are still under way.                     *)
LEMMA FramesMove ==
  ASSUME TrpcInv, TypeOK', UNCHANGED <<ask, pending, next_id>>,
         FramesFit', AllAwaited'
  PROVE  TrpcInv'
<1>1. AsksGoOn BY DEF AsksGoOn
<1>2. AllServed' /\ AnswerIsMine' BY DEF TrpcInv, AllServed, Served, AnswerIsMine
<1> QED BY <1>1, <1>2, IdsStay DEF TrpcInv

LEMMA WriteKeeps == ASSUME TrpcInv, WriteFrame PROVE TrpcInv'
<1> DEFINE f == Head(channel)
<1>1. /\ channel # << >> /\ channel' = Tail(channel)
      /\ up' = IF link THEN Append(up, f) ELSE up
      /\ UNCHANGED <<ask, pending, next_id, writer, reader, down, link>>
  BY DEF WriteFrame
<1>2. TypeOK BY DEF TrpcInv
<1>3. /\ f \in Frames /\ Tail(channel) \in Seq(Frames)
      /\ Carried(channel) = {f} \cup Carried(Tail(channel))
  BY <1>1, <1>2, CarriedTail DEF TypeOK
<1>4. Len(Tail(channel)) =< Capacity
  <2>1. Len(Tail(channel)) = Len(channel) - 1 /\ Len(channel) \in Nat BY <1>1, <1>2 DEF TypeOK
  <2> QED BY <1>2, <2>1, TrpcAssumption DEF TypeOK
<1> HIDE DEF f
<1>5. Append(up, f) \in Seq(Frames) /\ Carried(Append(up, f)) = Carried(up) \cup {f}
  BY <1>2, <1>3, CarriedAppend DEF TypeOK
<1>6. TypeOK' BY <1>1, <1>2, <1>3, <1>4, <1>5 DEF TypeOK
<1>7. AsksGoOn BY <1>1 DEF AsksGoOn
<1>8. Carried(up') \subseteq Carried(up) \cup {f} BY <1>1, <1>5
<1>9. FramesFit'
  BY <1>1, <1>3, <1>7, <1>8, FrameGoesOn DEF TrpcInv, FramesFit
<1>10. AllAwaited'
  <2>1. link => Carried(up') = Carried(up) \cup {f} BY <1>1, <1>5
  <2> QED BY <1>1, <1>3, <2>1 DEF TrpcInv, AllAwaited, Awaited, UnderWay
<1> QED BY <1>1, <1>6, <1>9, <1>10, FramesMove

LEMMA WriteErrorKeeps == ASSUME TrpcInv, WriteError PROVE TrpcInv'
<1>1. /\ ~ link /\ channel' = << >> /\ writer' = FALSE
      /\ UNCHANGED <<ask, pending, next_id, reader, up, down, link>>
  BY DEF WriteError
<1>2. << >> \in Seq(Frames) /\ Len(<< >>) = 0 OBVIOUS
<1>3. TypeOK'
  <2>1. 0 =< Capacity BY TrpcAssumption
  <2>2. channel' \in Seq(Frames) /\ Len(channel') =< Capacity BY <1>1, <1>2, <2>1
  <2> QED BY <1>1, <2>2 DEF TrpcInv, TypeOK
<1>4. AsksGoOn BY <1>1 DEF AsksGoOn
<1>5. FramesFit' BY <1>1, <1>4, CarriedEmpty, FrameGoesOn DEF TrpcInv, FramesFit
<1>6. AllAwaited' BY <1>1 DEF AllAwaited, Awaited
<1> QED BY <1>1, <1>3, <1>5, <1>6, FramesMove

LEMMA ReadFailsKeeps == ASSUME TrpcInv, ReadFails PROVE TrpcInv'
<1>1. /\ down # << >> /\ down' = Tail(down) /\ reader' = "draining"
      /\ UNCHANGED <<ask, pending, next_id, channel, writer, up, link>>
  BY DEF ReadFails
<1>2. Tail(down) \in Seq(Frames) /\ Carried(Tail(down)) \subseteq Carried(down)
  BY <1>1, CarriedTail DEF TrpcInv, TypeOK
<1>3. TypeOK' BY <1>1, <1>2 DEF TrpcInv, TypeOK
<1>4. AsksGoOn BY <1>1 DEF AsksGoOn
<1>5. FramesFit' BY <1>1, <1>2, <1>4, FrameGoesOn DEF TrpcInv, FramesFit
<1>6. AllAwaited' BY <1>1 DEF AllAwaited, Awaited
<1> QED BY <1>1, <1>3, <1>5, <1>6, FramesMove

LEMMA ReadEndsKeeps == ASSUME TrpcInv, ReadEnds PROVE TrpcInv'
<1>1. /\ reader' = "draining"
      /\ UNCHANGED <<ask, pending, next_id, channel, writer, up, down, link>>
  BY DEF ReadEnds
<1>2. TypeOK' BY <1>1 DEF TrpcInv, TypeOK
<1>3. AsksGoOn BY <1>1 DEF AsksGoOn
<1>4. FramesFit' BY <1>1, <1>3, FrameGoesOn DEF TrpcInv, FramesFit
<1>5. AllAwaited' BY <1>1 DEF AllAwaited, Awaited
<1> QED BY <1>1, <1>2, <1>4, <1>5, FramesMove

LEMMA ClosesKeeps == ASSUME TrpcInv, ServerCloses PROVE TrpcInv'
<1>1. /\ link' = FALSE /\ up' = << >> /\ down' \in {down, << >>}
      /\ UNCHANGED <<ask, pending, next_id, channel, writer, reader>>
  BY DEF ServerCloses
<1>2. << >> \in Seq(Frames) OBVIOUS
<1>3. TypeOK' BY <1>1, <1>2 DEF TrpcInv, TypeOK
<1>4. AsksGoOn BY <1>1 DEF AsksGoOn
<1>5. Carried(down') \subseteq Carried(down) /\ Carried(up') = {} BY <1>1, CarriedEmpty
<1>6. FramesFit' BY <1>1, <1>4, <1>5, FrameGoesOn DEF TrpcInv, FramesFit
<1>7. AllAwaited' BY <1>1 DEF AllAwaited, Awaited
<1> QED BY <1>1, <1>3, <1>6, <1>7, FramesMove

LEMMA AnswersKeep == ASSUME TrpcInv, ServerAnswers PROVE TrpcInv'
<1> DEFINE f == Head(up)
           g == [f EXCEPT !.kind = "Response"]
<1>1. /\ up # << >> /\ up' = Tail(up)
      /\ down' = IF f.kind = "Request" THEN Append(down, g) ELSE down
      /\ UNCHANGED <<ask, pending, next_id, channel, writer, reader, link>>
  BY DEF ServerAnswers
<1>2. TypeOK BY DEF TrpcInv
<1>3. /\ f \in Frames /\ Tail(up) \in Seq(Frames)
      /\ Carried(up) = {f} \cup Carried(Tail(up))
  BY <1>1, <1>2, CarriedTail DEF TypeOK
<1>4. Asking(f) BY <1>3 DEF TrpcInv, FramesFit
<1> HIDE DEF f
<1>5. g \in Frames /\ g.kind = "Response" /\ g.id = f.id /\ g.of = f.of
  BY <1>3 DEF Frames
<1> HIDE DEF g
<1>6. Append(down, g) \in Seq(Frames) /\ Carried(Append(down, g)) = Carried(down) \cup {g}
  BY <1>2, <1>5, CarriedAppend DEF TypeOK
<1>7. TypeOK' BY <1>1, <1>2, <1>3, <1>6 DEF TypeOK
<1>8. AsksGoOn BY <1>1 DEF AsksGoOn
<1>9. FramesFit'
  <2>1. f.kind = "Request" => Answering(g)
    BY <1>4, <1>5 DEF Asking, Answering, Fits, Numbered
  <2>2. \A x \in Carried(down') : Answering(x)
    BY <1>1, <1>6, <2>1 DEF TrpcInv, FramesFit
  <2> QED BY <1>1, <1>3, <1>8, <2>2, FrameGoesOn DEF TrpcInv, FramesFit
<1>10. AllAwaited'
  <2>1. SUFFICES ASSUME NEW c \in Callers, Awaited(c),
                        ask[c].at = "awaiting", UnderWay(c)
                 PROVE  UnderWay(c)'
    BY <1>1 DEF TrpcInv, AllAwaited, Awaited
  <2>2. PICK x \in Carried(channel) \cup Carried(up) \cup Carried(down) :
          x.id = ask[c].id /\ x.of = <<c, ask[c].n>>
    BY <2>1 DEF UnderWay
  <2>3. CASE x = f
    <3>1. ask[c].id # 0 BY <2>1 DEF TrpcInv, AllServed, Served
    <3>2. f.kind = "Request" BY <1>4, <2>2, <2>3, <3>1 DEF Asking
    <3>3. g \in Carried(down') BY <1>1, <1>6, <3>2
    <3> QED BY <1>1, <1>5, <2>2, <2>3, <3>3 DEF UnderWay
  <2>4. CASE x # f
    <3>1. Carried(down) \subseteq Carried(down') BY <1>1, <1>6
    <3> QED BY <1>1, <1>3, <2>2, <2>4, <3>1 DEF UnderWay
  <2> QED BY <2>3, <2>4
<1> QED BY <1>1, <1>7, <1>9, <1>10, FramesMove

(* The callers whose entries are taken from the map get a value of theirs;   *)
(* the others keep what they have.                                           *)
LEMMA DeliverKeeps ==
  ASSUME TrpcInv, NEW ids, NEW v \in Requests \cup {<<"closed">>}, Deliver(ids, v),
         \A c \in Callers : ask[c].at # "idle" /\ ask[c].id \in ids =>
           v \in {<<"closed">>, <<c, ask[c].n>>},
         UNCHANGED next_id
  PROVE  /\ ask' \in [Callers -> Asks] /\ pending' \subseteq 1 .. MaxId
         /\ AllServed' /\ AnswerIsMine' /\ AsksGoOn
         /\ \A c \in Callers : ask'[c].at = ask[c].at
         /\ \A c \in Callers :
              ask'[c].at # "idle" /\ ask'[c].got = << >> =>
                ask[c].got = << >> /\ ask[c].id \notin ids
<1>1. ask \in [Callers -> Asks] BY DEF TrpcInv, TypeOK, Asks
<1>2. ASSUME NEW c \in Callers
      PROVE  /\ ask'[c] \in Asks
             /\ ask'[c].at = ask[c].at /\ ask'[c].id = ask[c].id /\ ask'[c].n = ask[c].n
             /\ ask'[c].got = IF ask[c].id \in ids \cap pending /\ ask[c].at # "idle"
                                THEN v ELSE ask[c].got
  <2>1. ask[c] \in Asks BY <1>1
  <2>2. CASE ask[c].id \in ids \cap pending /\ ask[c].at # "idle"
    <3>1. ask[c].at \in {"sending", "awaiting"} BY <2>1, <2>2 DEF Asks
    <3>2. ask'[c] = [ask[c] EXCEPT !.got = v] BY <2>2, <3>1 DEF Deliver
    <3> QED BY <2>1, <2>2, <3>2 DEF Asks
  <2>3. CASE ~ (ask[c].id \in ids \cap pending /\ ask[c].at # "idle")
    <3>1. ask'[c] = ask[c] BY <2>3 DEF Deliver
    <3> QED BY <2>1, <2>3, <3>1
  <2> QED BY <2>2, <2>3
<1>3. ask' \in [Callers -> Asks] /\ pending' \subseteq 1 .. MaxId
  <2>1. ask' = [c \in Callers |-> ask'[c]] BY DEF Deliver
  <2> QED BY <1>2, <2>1 DEF Deliver, TrpcInv, TypeOK
<1>4. AsksGoOn BY <1>2 DEF AsksGoOn
<1>5. v # << >> BY Values
<1>6. AllServed'
  <2>1. ASSUME NEW c \in Callers PROVE Served(c)'
    <3>1. Served(c) BY DEF TrpcInv, AllServed
    <3> QED BY <1>2, <1>5, <3>1 DEF Served, Deliver
  <2> QED BY <2>1 DEF AllServed
<1>7. AnswerIsMine'
  <2>1. ASSUME NEW c \in Callers PROVE ask'[c].got \in {<< >>, <<"closed">>, <<c, ask'[c].n>>}
    <3>1. ask[c].got \in {<< >>, <<"closed">>, <<c, ask[c].n>>} BY DEF TrpcInv, AnswerIsMine
    <3> QED BY <1>2, <3>1
  <2> QED BY <2>1 DEF AnswerIsMine
<1>8. ASSUME NEW c \in Callers, ask'[c].at # "idle", ask'[c].got = << >>
      PROVE  ask[c].got = << >> /\ ask[c].id \notin ids
  <2>1. ask[c].got # << >> \/ ask[c].id \in pending
    BY <1>2, <1>8 DEF TrpcInv, AllServed, Served
  <2> QED BY <1>2, <1>5, <1>8, <2>1
<1> QED BY <1>2, <1>3, <1>4, <1>6, <1>7, <1>8

LEMMA ReadKeeps == ASSUME TrpcInv, ReadAnswer PROVE TrpcInv'
<1>0. /\ down # << >> /\ Deliver({Head(down).id}, Head(down).of) /\ down' = Tail(down)
      /\ UNCHANGED <<next_id, channel, writer, reader, up, link>>
  BY DEF ReadAnswer
<1>1. PICK f : f = Head(down) OBVIOUS
<1>2. /\ f \in Frames /\ Tail(down) \in Seq(Frames)
      /\ Carried(down) = {f} \cup Carried(Tail(down))
  BY <1>0, <1>1, CarriedTail DEF TrpcInv, TypeOK
<1>3. Answering(f) BY <1>2 DEF TrpcInv, FramesFit
<1>4. f.of \in Requests \cup {<<"closed">>} BY <1>3 DEF Answering, Numbered
<1>5. \A c \in Callers : ask[c].at # "idle" /\ ask[c].id \in {f.id} =>
        f.of \in {<<"closed">>, <<c, ask[c].n>>}
  BY <1>3 DEF Answering, Fits
<1>6. /\ ask' \in [Callers -> Asks] /\ pending' \subseteq 1 .. MaxId
      /\ AllServed' /\ AnswerIsMine' /\ AsksGoOn
      /\ \A c \in Callers : ask'[c].at = ask[c].at
      /\ \A c \in Callers :
           ask'[c].at # "idle" /\ ask'[c].got = << >> =>
             ask[c].got = << >> /\ ask[c].id \notin {f.id}
  <2>1. Deliver({f.id}, f.of) /\ UNCHANGED next_id BY <1>0, <1>1
  <2> QED BY <2>1, <1>4, <1>5, DeliverKeeps
<1>7. TypeOK' BY <1>0, <1>2, <1>6 DEF TrpcInv, TypeOK, Asks
<1>8. FramesFit' BY <1>0, <1>2, <1>6, FrameGoesOn DEF TrpcInv, FramesFit
<1>9. AllAwaited'
  <2>1. SUFFICES ASSUME NEW c \in Callers, ask'[c].at = "awaiting", ask'[c].got = << >>,
                        link', reader' = "reading"
                 PROVE  UnderWay(c)'
    BY DEF AllAwaited, Awaited
  <2>2. ask[c].at = "awaiting" /\ ask[c].got = << >> /\ ask[c].id # f.id BY <1>6, <2>1
  <2>3. UnderWay(c) BY <1>0, <2>1, <2>2 DEF TrpcInv, AllAwaited, Awaited
  <2>4. ask'[c].id = ask[c].id /\ ask'[c].n = ask[c].n BY <1>6, <2>1 DEF AsksGoOn
  <2> QED BY <1>0, <1>2, <2>2, <2>3, <2>4 DEF UnderWay
<1> QED BY <1>6, <1>7, <1>8, <1>9, IdsStay DEF TrpcInv

(* The drain looks at the count and changes none. *)
LEMMA DrainKeeps == ASSUME TrpcInv, Drain PROVE TrpcInv'
<1>0. /\ Deliver(pending, <<"closed">>) /\ reader' = "ended"
      /\ UNCHANGED <<next_id, channel, writer, up, down, link>>
  BY DEF Drain
<1>1. <<"closed">> \in Requests \cup {<<"closed">>} OBVIOUS
<1>2. PICK ids : ids = pending OBVIOUS
<1>3. /\ ask' \in [Callers -> Asks] /\ pending' \subseteq 1 .. MaxId
      /\ AllServed' /\ AnswerIsMine' /\ AsksGoOn
  <2>1. Deliver(ids, <<"closed">>) /\ UNCHANGED next_id BY <1>0, <1>2
  <2>2. PICK v : v = <<"closed">> OBVIOUS
  <2>3. \A c \in Callers : ask[c].at # "idle" /\ ask[c].id \in ids =>
          v \in {<<"closed">>, <<c, ask[c].n>>}
    BY <2>2
  <2>4. Deliver(ids, v) /\ v \in Requests \cup {<<"closed">>} BY <1>1, <2>1, <2>2
  <2> QED BY <2>1, <2>3, <2>4, DeliverKeeps
<1>4. TypeOK' BY <1>0, <1>3 DEF TrpcInv, TypeOK, Asks
<1>5. FramesFit' BY <1>0, <1>3, FrameGoesOn DEF TrpcInv, FramesFit
<1>6. AllAwaited' BY <1>0 DEF AllAwaited, Awaited
<1> QED BY <1>3, <1>4, <1>5, <1>6, IdsStay DEF TrpcInv

-----------------------------------------------------------------------------
(* Theorems *)

LEMMA TrpcInitially == Init => TrpcInv
<1> SUFFICES ASSUME Init PROVE TrpcInv
  OBVIOUS
<1>1. /\ ask = [c \in Callers |-> Idle(0)] /\ pending = {} /\ next_id = 1
      /\ channel = << >> /\ up = << >> /\ down = << >>
      /\ writer = TRUE /\ reader = "reading" /\ link = TRUE
  BY DEF Init
<1>2. Idle(0) \in Asks /\ Idle(0).at = "idle" /\ Idle(0).got = << >>
  BY IdleIsAsk, TrpcAssumption
<1>3. \A c \in Callers : ask[c].at = "idle" /\ ask[c].got = << >> BY <1>1, <1>2
<1>4. << >> \in Seq(Frames) /\ Len(<< >>) = 0 OBVIOUS
<1>5. TypeOK
  <2>1. ask \in [Callers -> Asks] BY <1>1, <1>2
  <2>2. 0 =< Capacity /\ 1 \in 1 .. (MaxId + 1) BY TrpcAssumption
  <2>3. channel \in Seq(Frames) /\ Len(channel) =< Capacity BY <1>1, <1>4, <2>2
  <2> QED BY <1>1, <1>4, <2>1, <2>2, <2>3 DEF TypeOK, Asks
<1>6. AllServed /\ IdsDiffer BY <1>3 DEF AllServed, Served, IdsDiffer
<1>7. FramesFit BY <1>1, CarriedEmpty DEF FramesFit
<1>8. AllAwaited /\ AnswerIsMine BY <1>3 DEF AllAwaited, Awaited, AnswerIsMine
<1> QED BY <1>5, <1>6, <1>7, <1>8 DEF TrpcInv

LEMMA TrpcPreserved == TrpcInv /\ [Next]_vars => TrpcInv'
<1> SUFFICES ASSUME TrpcInv, [Next]_vars PROVE TrpcInv'
  OBVIOUS
<1>1. ASSUME NEW c \in Callers, CallerStep(c) PROVE TrpcInv'
  <2>1. CASE AskRefused(c) BY <2>1, EndsKeep DEF AskRefused, Quiet
  <2>2. CASE AskAnswered(c) BY <2>2, EndsKeep DEF AskAnswered, Quiet
  <2>3. CASE AskTimedOut(c) BY <2>3, EndsKeep DEF AskTimedOut, Quiet
  <2> QED BY <1>1, <2>1, <2>2, <2>3, TellKeeps, AskKeeps, SentKeeps DEF CallerStep
<1>2. CASE UNCHANGED vars
  <2>1. UNCHANGED <<ask, pending, next_id, channel, writer, reader, up, down, link>>
    BY <1>2 DEF vars
  <2>2. AsksGoOn BY <2>1 DEF AsksGoOn
  <2>3. TypeOK' BY <2>1 DEF TrpcInv, TypeOK
  <2>4. FramesFit' BY <2>1, <2>2, FrameGoesOn DEF TrpcInv, FramesFit
  <2>5. AllAwaited' BY <2>1 DEF TrpcInv, AllAwaited, Awaited, UnderWay
  <2> QED BY <2>1, <2>3, <2>4, <2>5, FramesMove
<1> QED BY <1>1, <1>2, WriteKeeps, WriteErrorKeeps, ReadKeeps, ReadFailsKeeps, ReadEndsKeeps,
           DrainKeeps, AnswersKeep, ClosesKeeps DEF Next

(* TrpcInv is an invariant of the connection. *)
THEOREM Invariance == Spec => []TrpcInv
BY TrpcInitially, TrpcPreserved, PTL DEF Spec

(* Every variable keeps its type: the channel stays within its capacity. *)
THEOREM TypeCorrectness == Spec => []TypeOK
<1>1. TrpcInv => TypeOK BY DEF TrpcInv
<1> QED BY <1>1, Invariance, PTL

(* For any number of callers: an ask gets the answer to its own request or an *)
(* error, never the late answer of one that timed out, and what it awaits on  *)
(* a connection that is up has an entry in the map and a frame on the way.    *)
THEOREM AnswersReachCorrect == Spec => []AnswersReach
<1>1. TrpcInv => AnswersReach
  <2> SUFFICES ASSUME TrpcInv PROVE AnswersReach
    OBVIOUS
  <2>1. ASSUME NEW c \in Callers, ask[c].at = "awaiting", ask[c].got = << >>
        PROVE  /\ ask[c].id \in pending
               /\ link /\ reader = "reading" => \E q \in {channel, up, down} :
                    \E i \in DOMAIN q : q[i].id = ask[c].id /\ q[i].of = <<c, ask[c].n>>
    <3>1. ask[c].id \in pending BY <2>1 DEF TrpcInv, AllServed, Served
    <3>2. link /\ reader = "reading" => UnderWay(c)
      BY <2>1 DEF TrpcInv, AllAwaited, Awaited
    <3> QED BY <3>1, <3>2 DEF UnderWay, Carried
  <2> QED BY <2>1 DEF AnswersReach, AwaitedIsUnderWay, TrpcInv
<1> QED BY <1>1, Invariance, PTL

-----------------------------------------------------------------------------
(* Lemmas about numbers and finite sets *)

(* The library's induction rules are about operators, which the provers do    *)
(* not instantiate; a least counterexample takes their place.                 *)
LEMMA LeastElement ==
  ASSUME NEW T, T \subseteq Nat, T # {}
  PROVE  \E x \in T : \A y \in T : x =< y
  <1> DEFINE R == {e \in Nat \X Nat : e[1] < e[2]}
  <1>1. IsWellFoundedOn(R, Nat)
    BY NatLessThanWellFounded DEF OpToRel, IsWellFoundedOn
  <1>2. PICK x \in T : \A y \in T : ~ (<<y, x>> \in R)
    BY <1>1, WFMin
  <1>3. \A y \in T : x =< y
    <2> TAKE y \in T
    <2>1. x \in Nat /\ y \in Nat
      OBVIOUS
    <2>2. ~ (y < x)
      BY <2>1, <1>2
    <2>3. QED BY <2>1, <2>2
  <1>4. QED BY <1>3

(* One element joins a finite set, leaves it, or does neither. *)
LEMMA CountMoves ==
  ASSUME NEW S, IsFiniteSet(S), NEW T \in SUBSET S, NEW U \in SUBSET S, NEW x \in S,
         U \ {x} = T \ {x}
  PROVE  /\ Cardinality(T) \in Nat /\ Cardinality(U) \in Nat
         /\ x \in U /\ x \notin T => Cardinality(U) = Cardinality(T) + 1
         /\ x \notin U /\ x \in T => Cardinality(U) = Cardinality(T) - 1
         /\ (x \in U <=> x \in T) => Cardinality(U) = Cardinality(T)
  <1>1. IsFiniteSet(T) /\ IsFiniteSet(U)
    BY FS_Subset
  <1>2. Cardinality(T) \in Nat /\ Cardinality(U) \in Nat
    BY <1>1, FS_CardinalityType
  <1>3. ASSUME x \in U, x \notin T
        PROVE  Cardinality(U) = Cardinality(T) + 1
    <2>1. U = T \cup {x}
      BY <1>3
    <2>2. QED BY <1>1, <1>3, <2>1, FS_AddElement
  <1>4. ASSUME x \notin U, x \in T
        PROVE  Cardinality(U) = Cardinality(T) - 1
    <2>1. U = T \ {x}
      BY <1>4
    <2>2. QED BY <1>1, <1>4, <2>1, FS_RemoveElement
  <1>5. ASSUME x \in U <=> x \in T
        PROVE  Cardinality(U) = Cardinality(T)
    <2>1. U = T
      BY <1>5
    <2>2. QED BY <1>4, <2>1
  <1>6. QED BY <1>2, <1>3, <1>4, <1>5

-----------------------------------------------------------------------------
(* The WebSocket connections *)

SocketState ==
  [at : Tracked \cup {"none", "upgrading", "notifying", "closed"},
   waiting : BOOLEAN, silent : BOOLEAN, pong : BOOLEAN,
   age : 0 .. (PingTimeout + 1), until : 1 .. Interval, due : 0 .. MaxDue]

(* The types, and the tracker's count of the sockets it tracks. *)
SocketInv == WsTypeOK /\ ActiveCounted

(* The count moves as a socket goes to state k. *)
Counted(s, k) ==
  \/ (k.at \in Tracked <=> sock[s].at \in Tracked) /\ active' = active
  \/ k.at \in Tracked /\ sock[s].at \notin Tracked /\ active' = active + 1
  \/ k.at \notin Tracked /\ sock[s].at \in Tracked /\ active' = active - 1

(* A step of one socket that moves the tracker's count with the socket. *)
LEMMA SocketMoves ==
  ASSUME SocketInv, NEW s \in Socks, NEW k \in SocketState,
         sock' = [sock EXCEPT ![s] = k],
         Counted(s, k),
         token' \in BOOLEAN, woken' \in BOOLEAN,
         drain' \in {"no", "counted", "recounted", "waiting", "done", "timedout"}
  PROVE  SocketInv'
  <1> DEFINE T == {q \in Socks : sock[q].at \in Tracked}
             U == {q \in Socks : sock'[q].at \in Tracked}
  <1>1. IsFiniteSet(Socks)
    BY WsAssumption
  <1>2. sock \in [Socks -> SocketState] /\ active = Cardinality(T)
    BY DEF SocketInv, WsTypeOK, SocketState, ActiveCounted
  <1>3. sock' \in [Socks -> SocketState] /\ sock'[s] = k
    BY <1>2
  <1>4. U \ {s} = T \ {s}
    BY <1>2
  <1>5. /\ s \in T <=> sock[s].at \in Tracked
        /\ s \in U <=> k.at \in Tracked
    BY <1>3
  <1> T \in SUBSET Socks /\ U \in SUBSET Socks
    OBVIOUS
  <1> HIDE DEF T, U
  <1>6. Cardinality(U) = active'
    BY <1>1, <1>2, <1>4, <1>5, CountMoves DEF Counted
  <1>7. Cardinality(U) \in 0 .. Cardinality(Socks)
    BY <1>1, FS_Subset, FS_CardinalityType
  <1>8. QED
    BY <1>3, <1>6, <1>7 DEF SocketInv, WsTypeOK, SocketState, ActiveCounted, U

(* Every step of a socket or of its peer is one. *)
LEMMA SocketStepKeeps ==
  ASSUME SocketInv, NEW s \in Socks, SocketStep(s) \/ PeerStep(s), token' = token
  PROVE  SocketInv'
  <1>1. /\ sock \in [Socks -> SocketState] /\ active \in Nat
        /\ token' \in BOOLEAN /\ woken \in BOOLEAN
        /\ drain \in {"no", "counted", "recounted", "waiting", "done", "timedout"}
    BY WsAssumption, FS_CardinalityType DEF SocketInv, WsTypeOK, SocketState
  <1>2. \A a \in {"closing", "notifying", "closed"} : [Fresh EXCEPT !.at = a] \in SocketState
    <2>1. Fresh \in SocketState
      BY WsAssumption DEF Fresh, SocketState
    <2>2. {"closing", "notifying", "closed"}
            \subseteq Tracked \cup {"none", "upgrading", "notifying", "closed"}
      BY DEF Tracked
    <2>3. \A k \in SocketState : \A a \in Tracked \cup {"none", "upgrading", "notifying", "closed"} :
            [k EXCEPT !.at = a] \in SocketState
      BY DEF SocketState
    <2>4. QED BY <2>1, <2>2, <2>3
  <1>3. \A a \in Tracked \cup {"none", "upgrading", "notifying", "closed"} :
          [sock[s] EXCEPT !.at = a] \in SocketState
    BY <1>1 DEF SocketState
  <1>18. \A a \in Tracked :
           [Fresh EXCEPT !.at = a, !.silent = sock[s].silent] \in SocketState
    <2>1. Fresh \in SocketState /\ sock[s].silent \in BOOLEAN
      BY <1>1, WsAssumption DEF Fresh, SocketState
    <2>2. QED BY <2>1 DEF SocketState
  <1> DEFINE Moves(k) == /\ k \in SocketState /\ sock' = [sock EXCEPT ![s] = k]
                         /\ Counted(s, k)
                         /\ woken' \in BOOLEAN /\ drain' = drain
  <1>4. ASSUME NEW k, Moves(k)
        PROVE  SocketInv'
    BY <1>1, <1>4, SocketMoves
  <1>5. CASE Upgrade(s)
    <2>1. Moves([sock[s] EXCEPT !.at = "upgrading"])
      BY <1>1, <1>3, <1>5 DEF Upgrade, Goto, Counted, Tracked, Serving, SocketState
    <2>2. QED BY <1>4, <2>1
  <1>6. CASE OnConnect(s)
    <2>1. Moves([sock[s] EXCEPT !.at = "opening"])
      BY <1>1, <1>3, <1>6 DEF OnConnect, Goto, Counted, Tracked, Serving, SocketState
    <2>2. QED BY <1>4, <2>1
  <1>7. CASE OpenSucceeds(s)
    <2>1. Moves([sock[s] EXCEPT !.at = "loop"])
      BY <1>1, <1>3, <1>7 DEF OpenSucceeds, Goto, Counted, Tracked, Serving, SocketState
    <2>2. QED BY <1>4, <2>1
  <1>8. CASE OpenFails(s) \/ OnClose(s)
    <2>1. Moves([Fresh EXCEPT !.at = IF active = 1 THEN "notifying" ELSE "closed"])
      BY <1>1, <1>2, <1>8 DEF OpenFails, OnClose, OnDisconnect, Counted, Tracked, Serving, Fresh
    <2>2. QED BY <1>4, <2>1
  <1>9. CASE NotifyWaiters(s)
    <2>1. Moves([sock[s] EXCEPT !.at = "closed"])
      BY <1>1, <1>3, <1>9 DEF NotifyWaiters, Goto, Counted, Tracked, Serving, SocketState
    <2>2. QED BY <1>4, <2>1
  (* A socket that is tracked stays so. *)
  <1>19. ASSUME sock[s].at \in Tracked, UNCHANGED <<active, drain, woken>>,
                NEW k \in SocketState, k.at \in Tracked, sock' = [sock EXCEPT ![s] = k]
         PROVE  Moves(k)
    BY <1>1, <1>19 DEF Counted, SocketInv, WsTypeOK
  <1>20. ASSUME sock[s].at \in Tracked, UNCHANGED <<active, drain, woken>>, Leave(s)
         PROVE  SocketInv'
    <2>1. [Fresh EXCEPT !.at = "closing"] \in SocketState
      BY <1>2
    <2>2. [Fresh EXCEPT !.at = "closing"].at = "closing" /\ "closing" \in Tracked
      BY DEF Fresh, Tracked
    <2>3. Moves([Fresh EXCEPT !.at = "closing"])
      BY <1>19, <1>20, <2>1, <2>2 DEF Leave
    <2> HIDE DEF Moves
    <2>4. QED BY <1>4, <2>3
  <1>21. ASSUME NEW at \in Tracked, sock[s].at \in Tracked,
                UNCHANGED <<active, drain, woken>>, LastSend(s, at)
         PROVE  SocketInv'
    <2> DEFINE k == [Fresh EXCEPT !.at = at, !.silent = sock[s].silent]
    <2>1. k \in SocketState /\ k.at = at
      BY <1>18 DEF Fresh
    <2>2. sock' = [sock EXCEPT ![s] = k]
      BY <1>21 DEF LastSend
    <2> HIDE DEF k
    <2>3. Moves(k)
      BY <1>19, <1>21, <2>1, <2>2
    <2> HIDE DEF Moves
    <2>4. QED BY <1>4, <2>3
  <1>22. ASSUME NEW at \in Tracked, sock[s].at \in Tracked,
                UNCHANGED <<active, drain, woken>>, Goto(s, at)
         PROVE  SocketInv'
    <2> DEFINE k == [sock[s] EXCEPT !.at = at]
    <2>1. k \in SocketState /\ k.at = at
      BY <1>1, <1>3 DEF SocketState
    <2>2. sock' = [sock EXCEPT ![s] = k]
      BY <1>1, <1>22 DEF Goto
    <2> HIDE DEF k
    <2>3. Moves(k)
      BY <1>19, <1>22, <2>1, <2>2
    <2> HIDE DEF Moves
    <2>4. QED BY <1>4, <2>3
  <1> HIDE DEF Moves
  <1>10. CASE \/ SeesShutdown(s) \/ PongTimeout(s) \/ PeerStops(s) \/ ReadEnd(s)
              \/ HandlerReturns(s) /\ Leave(s)
    <2>1. sock[s].at \in Tracked /\ UNCHANGED <<active, drain, woken>>
      BY <1>10
      DEF SeesShutdown, PongTimeout, PeerStops, ReadEnd, HandlerReturns, Tracked, Serving,
          Sending
    <2>2. LastSend(s, "farewell") \/ LastSend(s, "stuck") \/ Leave(s)
      BY <1>10 DEF SeesShutdown, PongTimeout, PeerStops, ReadEnd
    <2>3. "farewell" \in Tracked /\ "stuck" \in Tracked
      BY DEF Tracked
    <2>4. QED BY <1>20, <1>21, <2>1, <2>2, <2>3
  <1>11. CASE ReadMessage(s) \/ (HandlerReturns(s) /\ Goto(s, "loop"))
    <2>1. sock[s].at \in Tracked /\ UNCHANGED <<active, drain, woken>>
      BY <1>11 DEF ReadMessage, HandlerReturns, Tracked, Serving
    <2>2. Goto(s, "handling") \/ Goto(s, "loop")
      BY <1>11 DEF ReadMessage
    <2>3. "handling" \in Tracked /\ "loop" \in Tracked
      BY DEF Tracked, Serving
    <2>4. QED BY <1>22, <2>1, <2>2, <2>3
  <1>12. CASE SendPing(s)
    <2> DEFINE k == [sock[s] EXCEPT !.due = @ - 1, !.at = "pinging"]
    <2>3. sock[s].due \in 0 .. MaxDue /\ sock[s].due > 0 /\ MaxDue \in Nat
      BY <1>1, <1>12, WsAssumption DEF SendPing, SocketState
    <2>4. sock[s].due - 1 \in 0 .. MaxDue
      BY <2>3
    <2>5. k \in SocketState /\ k.at = "pinging" /\ "pinging" \in Tracked
      BY <1>1, <2>4 DEF SocketState, Tracked, Serving
    <2>6. sock' = [sock EXCEPT ![s] = k]
      BY <1>1, <1>12 DEF SendPing, SocketState
    <2>7. sock[s].at \in Tracked /\ UNCHANGED <<active, drain, woken>>
      BY <1>12 DEF SendPing, Tracked, Serving
    <2> HIDE DEF k
    <2>8. QED BY <1>4, <1>19, <2>5, <2>6, <2>7
  <1>23. CASE SendEnds(s)
    <2>1. UNCHANGED <<active, drain, woken>>
      BY <1>23 DEF SendEnds
    <2>2. CASE PingSent(s)
      <3> DEFINE k == [sock[s] EXCEPT !.at = "loop", !.waiting = TRUE]
      <3>1. k \in SocketState /\ k.at = "loop" /\ "loop" \in Tracked
        BY <1>1 DEF SocketState, Tracked, Serving
      <3>2. sock' = [sock EXCEPT ![s] = k]
        BY <1>1, <2>2 DEF PingSent, SocketState
      <3>3. sock[s].at \in Tracked
        BY <2>2 DEF PingSent, Tracked, Serving
      <3> HIDE DEF k
      <3>4. QED BY <1>4, <1>19, <2>1, <3>1, <3>2, <3>3
    <2>3. CASE /\ sock[s].at \in {"pinging", "farewell", "stuck"}
               /\ Leave(s)
      <3>1. sock[s].at \in Tracked
        BY <2>3 DEF Tracked, Serving
      <3>2. QED BY <1>20, <2>1, <2>3, <3>1
    <2>4. QED BY <1>23, <2>2, <2>3 DEF SendEnds
  <1>13. CASE ReadPong(s)
    <2> USE DEF Moves
    <2> DEFINE k == [sock[s] EXCEPT !.pong = FALSE, !.waiting = FALSE, !.age = 0]
    <2>3. 0 \in 0 .. (PingTimeout + 1)
      BY WsAssumption
    <2>4. k \in SocketState /\ k.at = sock[s].at
      BY <1>1, <2>3 DEF SocketState
    <2>5. sock' = [sock EXCEPT ![s] = k]
      BY <1>1, <1>13 DEF ReadPong, SocketState
    <2>1. Moves(k)
      BY <1>1, <1>13, <2>4, <2>5 DEF ReadPong, Counted
    <2>2. QED BY <1>4, <2>1
  <1>14. CASE PeerPongs(s)
    <2> USE DEF Moves
    <2>1. Moves([sock[s] EXCEPT !.pong = TRUE])
      BY <1>1, <1>14 DEF PeerPongs, Counted, SocketState
    <2>2. QED BY <1>4, <2>1
  <1>15. CASE PeerVanishes(s)
    <2> USE DEF Moves
    <2>1. Moves([sock[s] EXCEPT !.silent = TRUE])
      BY <1>1, <1>15 DEF PeerVanishes, Counted, SocketState
    <2>2. QED BY <1>4, <2>1
  <1>16. HandlerReturns(s) => \/ HandlerReturns(s) /\ Leave(s)
                              \/ HandlerReturns(s) /\ Goto(s, "loop")
    BY DEF HandlerReturns
  <1>17. QED
    BY <1>16, <1>5, <1>6, <1>7, <1>8, <1>9, <1>10, <1>11, <1>12, <1>13, <1>14, <1>15, <1>23
    DEF SocketStep, PeerStep

(* Neither time nor the drain closes or opens a socket. *)
LEMMA ClockKeeps == SocketInv /\ ClockTicks /\ token' = token => SocketInv'
  <1> SUFFICES ASSUME SocketInv, ClockTicks, token' = token
               PROVE  SocketInv'
    OBVIOUS
  <1>1. sock \in [Socks -> SocketState]
    BY DEF SocketInv, WsTypeOK, SocketState
  <1>2. \A k \in SocketState : Aged(k) \in SocketState /\ Aged(k).at = k.at
    <2> TAKE k \in SocketState
    <2>1. CASE k.at \notin Serving
      BY <2>1 DEF Aged
    <2>2. CASE k.at \in Serving
      <3> DEFINE age == UpTo(k.age, PingTimeout + 1)
                 until == IF k.until = 1 THEN Interval ELSE k.until - 1
                 due == IF k.until = 1 THEN UpTo(k.due, MaxDue) ELSE k.due
      <3>1. Aged(k) = [k EXCEPT !.age = age, !.until = until, !.due = due]
        BY <2>2 DEF Aged
      <3>2. /\ k.age \in 0 .. (PingTimeout + 1) /\ k.until \in 1 .. Interval
            /\ k.due \in 0 .. MaxDue
        BY DEF SocketState
      <3>3. /\ age \in 0 .. (PingTimeout + 1) /\ until \in 1 .. Interval
            /\ due \in 0 .. MaxDue
        BY <3>2, WsAssumption DEF UpTo
      <3> HIDE DEF age, until, due
      <3>4. QED BY <3>1, <3>3 DEF SocketState
    <2>3. QED BY <2>1, <2>2
  <1>3. sock' = [s \in Socks |-> Aged(sock[s])]
    BY DEF ClockTicks
  <1>4. sock' \in [Socks -> SocketState] /\ \A s \in Socks : sock'[s].at = sock[s].at
    BY <1>1, <1>2, <1>3
  <1>5. QED
    BY <1>4 DEF SocketInv, WsTypeOK, SocketState, ActiveCounted, ClockTicks

(* The drain looks at the count and changes none. *)
LEMMA WsDrainKeeps == SocketInv /\ DrainStep /\ token' = token => SocketInv'
  <1> SUFFICES ASSUME SocketInv, DrainStep, token' = token
               PROVE  SocketInv'
    OBVIOUS
  <1>1. /\ UNCHANGED <<sock, active, woken>>
        /\ drain' \in {"counted", "recounted", "waiting", "done", "timedout"}
    BY DEF DrainStep, DrainCount, DrainRecount, DrainWait, DrainWoken, DrainTimeout
  <1>2. WsTypeOK'
    BY <1>1 DEF SocketInv, WsTypeOK
  <1>3. ActiveCounted'
    BY <1>1 DEF SocketInv, ActiveCounted
  <1>4. QED BY <1>2, <1>3 DEF SocketInv

-----------------------------------------------------------------------------
(* The order of the middlewares *)

Indices == DOMAIN Registered

(* The typed facts about the registration. *)
LEMMA IndexFacts ==
  /\ Len(Registered) \in Nat /\ Indices = 1 .. Len(Registered) /\ Indices \subseteq Nat
  /\ IsFiniteSet(Indices) /\ Cardinality(Indices) = Len(Registered)
  /\ \A i \in Indices : Registered[i] \in DOMAIN Order /\ Order[Registered[i]] \in Int
  <1>1. Registered \in Seq(DOMAIN Order) /\ Order \in [DOMAIN Order -> Int]
    BY TcpAssumption
  <1>2. Len(Registered) \in Nat /\ Indices = 1 .. Len(Registered)
    BY <1>1, LenProperties DEF Indices
  <1>3. IsFiniteSet(Indices) /\ Cardinality(Indices) = Len(Registered)
    <2>1. \A n \in Nat : IsFiniteSet(1 .. n) /\ Cardinality(1 .. n) = n
      BY FS_Interval
    <2>2. QED BY <1>2, <2>1
  <1>4. QED BY <1>1, <1>2, <1>3

(* What j is not ahead of: its number is the place of j. *)
Ahead(j) == {i \in Indices : NotBehind(i, j)}

(* A place is an index. *)
LEMMA PlaceFacts ==
  ASSUME NEW j \in Indices
  PROVE  /\ IsFiniteSet(Ahead(j)) /\ Place(j) = Cardinality(Ahead(j))
         /\ Place(j) \in Indices
  <1>1. Ahead(j) \in SUBSET Indices /\ j \in Ahead(j)
    BY IndexFacts DEF Ahead, NotBehind
  <1>2. IsFiniteSet(Ahead(j)) /\ Cardinality(Ahead(j)) =< Len(Registered)
    BY <1>1, IndexFacts, FS_Subset
  <1>3. Cardinality(Ahead(j)) \in Nat /\ Cardinality(Ahead(j)) # 0
    BY <1>1, <1>2, FS_CardinalityType, FS_EmptySet
  <1>4. Place(j) = Cardinality(Ahead(j))
    BY DEF Place, Ahead, Indices
  <1>5. QED BY <1>2, <1>3, <1>4, IndexFacts

(* Places are ordered as the middlewares are. *)
LEMMA PlaceGrows ==
  ASSUME NEW i \in Indices, NEW j \in Indices, NotBehind(i, j), i # j
  PROVE  Place(i) < Place(j)
  <1> DEFINE order(k) == Order[Registered[k]]
  <1>a. i \in Nat /\ j \in Nat /\ order(i) \in Int /\ order(j) \in Int
    BY IndexFacts
  <1>b. \A k \in Indices : k \in Nat /\ order(k) \in Int
    BY IndexFacts
  <1>c. /\ order(i) < order(j) \/ (order(i) = order(j) /\ i < j)
    BY <1>a DEF NotBehind
  <1>d. \A k \in Indices : NotBehind(k, i) => NotBehind(k, j)
    <2> TAKE k \in Indices
    <2>1. k \in Nat /\ order(k) \in Int
      BY <1>b
    <2> HIDE DEF order
    <2>2. QED BY <2>1, <1>a, <1>c DEF NotBehind, order
  <1>e. NotBehind(j, j) /\ ~ NotBehind(j, i)
    BY <1>a, <1>c DEF NotBehind
  <1>1. Ahead(i) \in SUBSET Ahead(j) /\ j \in Ahead(j) /\ j \notin Ahead(i)
    BY <1>d, <1>e DEF Ahead
  <1>2. Cardinality(Ahead(i)) =< Cardinality(Ahead(j))
        /\ Cardinality(Ahead(i)) # Cardinality(Ahead(j))
    BY <1>1, PlaceFacts, FS_Subset
  <1>3. Place(i) \in Indices /\ Place(j) \in Indices /\ Indices \subseteq Nat
    BY PlaceFacts, IndexFacts
  <1>4. Place(i) = Cardinality(Ahead(i)) /\ Place(j) = Cardinality(Ahead(j))
    BY PlaceFacts
  <1> HIDE DEF order
  <1>5. \A m, n \in Nat : m =< n /\ m # n => m < n
    OBVIOUS
  <1>6. QED BY <1>2, <1>3, <1>4, <1>5

(* Of two middlewares one is not behind the other. *)
LEMMA NotBehindTotal ==
  ASSUME NEW i \in Indices, NEW j \in Indices
  PROVE  /\ NotBehind(i, j) \/ NotBehind(j, i)
         /\ NotBehind(i, j) => Order[Registered[i]] =< Order[Registered[j]]
  BY IndexFacts DEF NotBehind

(* Each place is one middleware's. *)
LEMMA PlaceTaken ==
  ASSUME NEW k \in Indices
  PROVE  \E j \in Indices : Place(j) = k
  <1> DEFINE f == [j \in Indices |-> Place(j)]
  <1>1. f \in [Indices -> Indices]
    BY PlaceFacts
  <1>2. ASSUME NEW i \in Indices, NEW j \in Indices, f[i] = f[j]
        PROVE  i = j
    <2>1. Place(i) = Place(j) /\ Place(i) \in Nat
      BY <1>2, PlaceFacts, IndexFacts
    <2>2. ~ (Place(i) < Place(j)) /\ ~ (Place(j) < Place(i))
      BY <2>1
    <2>3. QED BY <2>2, PlaceGrows, NotBehindTotal
  <1>3. f \in Injection(Indices, Indices)
    BY <1>1, <1>2 DEF Injection, IsInjective
  <1>4. f \in Surjection(Indices, Indices)
    BY <1>3, IndexFacts, FS_Injection
  <1>5. QED BY <1>4 DEF Surjection

(* with_middlewares sorts: the same middlewares, in ascending order. *)
LEMMA MiddlewaresSorted ==
  /\ Middlewares \in Seq(DOMAIN Order) /\ Len(Middlewares) = Len(Registered)
  /\ DOMAIN Middlewares = Indices
  /\ ToSet(Middlewares) = ToSet(Registered)
  /\ Ascending(Middlewares)
  <1> DEFINE Src(k) == CHOOSE j \in Indices : Place(j) = k
  <1>1. \A k \in Indices : Src(k) \in Indices /\ Place(Src(k)) = k
    BY PlaceTaken
  <1>2. Middlewares = [k \in Indices |-> Registered[Src(k)]]
    BY DEF Middlewares, Indices
  <1> HIDE DEF Src
  <1>3. /\ Middlewares \in [1 .. Len(Registered) -> DOMAIN Order]
        /\ DOMAIN Middlewares = Indices
    BY <1>1, <1>2, IndexFacts
  <1>4. Middlewares \in Seq(DOMAIN Order) /\ Len(Middlewares) = Len(Registered)
    BY <1>3, IndexFacts
  <1>5. ASSUME NEW i \in Indices
        PROVE  Registered[i] \in ToSet(Middlewares)
    <2>1. Place(i) \in Indices
      BY PlaceFacts
    <2>2. Src(Place(i)) = i
      <3> DEFINE j == Src(Place(i))
      <3>1. j \in Indices /\ Place(j) = Place(i) /\ Place(i) \in Nat
        BY <1>1, <2>1, IndexFacts
      <3> HIDE DEF j
      <3>2. j = i
        BY <3>1, PlaceGrows, NotBehindTotal
      <3>3. QED BY <3>2 DEF j
    <2>3. Middlewares[Place(i)] = Registered[i]
      BY <1>2, <2>1, <2>2
    <2>4. Middlewares[Place(i)] \in ToSet(Middlewares)
      BY <1>3, <2>1 DEF ToSet
    <2>5. QED BY <2>3, <2>4
  <1>6. ToSet(Middlewares) = ToSet(Registered)
    BY <1>1, <1>2, <1>3, <1>5 DEF ToSet, Indices
  <1>7. ASSUME NEW i \in Indices, NEW j \in Indices, i < j
        PROVE  Order[Middlewares[i]] =< Order[Middlewares[j]]
    <2>1. Place(Src(i)) < Place(Src(j)) /\ Src(i) \in Indices /\ Src(j) \in Indices
      BY <1>1, <1>7
    <2> DEFINE p == Place(Src(i))
               q == Place(Src(j))
    <2>2. p \in Nat /\ q \in Nat /\ p < q
      BY <1>1, <1>7, IndexFacts
    <2> HIDE DEF p, q
    <2>5. ~ (q < p) /\ p # q
      BY <2>2
    <2>6. Src(i) # Src(j) /\ ~ NotBehind(Src(j), Src(i))
      BY <2>1, <2>5, PlaceGrows DEF p, q
    <2>3. NotBehind(Src(i), Src(j))
      BY <2>1, <2>6, NotBehindTotal
    <2>4. QED BY <1>2, <2>1, <2>3, NotBehindTotal
  <1>8. QED BY <1>3, <1>4, <1>6, <1>7 DEF Ascending

-----------------------------------------------------------------------------
(* The pipeline of transforms *)

(* A fold over indices is defined: the function that its definition chooses  *)
(* exists, whatever the step and the element that is taken out first.        *)
HasFold(S, V, base, G, choice) ==
  \E h \in [SUBSET S -> V] :
    \A s \in SUBSET S :
      h[s] = IF s = {} THEN base ELSE G[<<choice[s], h[s \ {choice[s]}]>>]

LEMMA FoldExists ==
  ASSUME NEW S, IsFiniteSet(S), NEW V, NEW base \in V, NEW G \in [S \X V -> V],
         NEW choice, \A s \in SUBSET S : s # {} => choice[s] \in s
  PROVE  HasFold(S, V, base, G, choice)
  <1> DEFINE Small(k) == {s \in SUBSET S : Cardinality(s) =< k}
             Folds(h, D) == \A s \in D :
               h[s] = IF s = {} THEN base ELSE G[<<choice[s], h[s \ {choice[s]}]>>]
             Good(k) == \E h \in [Small(k) -> V] : Folds(h, Small(k))
             Bad == {k \in Nat : ~ Good(k)}
  <1>1. \A s \in SUBSET S : IsFiniteSet(s) /\ Cardinality(s) \in Nat
    BY FS_Subset, FS_CardinalityType
  <1>2. ASSUME NEW k \in Nat, NEW s \in Small(k), s # {}
        PROVE  k # 0 /\ s \ {choice[s]} \in Small(k - 1) /\ choice[s] \in S
    <2>1. s \in SUBSET S /\ Cardinality(s) =< k /\ choice[s] \in s
      BY <1>2
    <2>2. Cardinality(s \ {choice[s]}) = Cardinality(s) - 1 /\ Cardinality(s) # 0
      BY <1>1, <1>2, <2>1, FS_RemoveElement, FS_EmptySet
    <2>3. QED BY <1>1, <2>1, <2>2
  <1>3. Good(0)
    <2> DEFINE h == [s \in Small(0) |-> base]
    <2>1. h \in [Small(0) -> V]
      OBVIOUS
    <2>2. Folds(h, Small(0))
      BY <1>2
    <2>3. QED BY <2>1, <2>2
  <1>4. ASSUME NEW k \in Nat, k # 0, Good(k - 1)
        PROVE  Good(k)
    <2>1. PICK h \in [Small(k - 1) -> V] : Folds(h, Small(k - 1))
      BY <1>4
    <2> DEFINE next == [s \in Small(k) |->
                          IF s = {} THEN base ELSE G[<<choice[s], h[s \ {choice[s]}]>>]]
    <2>2. next \in [Small(k) -> V]
      <3> SUFFICES ASSUME NEW s \in Small(k), s # {}
                   PROVE  G[<<choice[s], h[s \ {choice[s]}]>>] \in V
        OBVIOUS
      <3>1. s \ {choice[s]} \in Small(k - 1) /\ choice[s] \in S
        BY <1>2
      <3>2. h[s \ {choice[s]}] \in V
        BY <3>1
      <3>3. QED BY <3>1, <3>2
    <2>3. \A s \in Small(k - 1) : s \in Small(k) /\ next[s] = h[s]
      BY <1>1, <2>1
    <2>4. Folds(next, Small(k))
      <3> SUFFICES ASSUME NEW s \in Small(k), s # {}
                   PROVE  next[s] = G[<<choice[s], next[s \ {choice[s]}]>>]
        OBVIOUS
      <3>1. next[s \ {choice[s]}] = h[s \ {choice[s]}]
        BY <1>2, <2>3
      <3>2. QED BY <3>1
    <2>5. QED BY <2>2, <2>4
  <1> HIDE DEF Good
  <1>5. \A k \in Nat : Good(k)
    <2>1. CASE Bad = {}
      BY <2>1
    <2>2. CASE Bad # {}
      <3>1. PICK k \in Bad : \A y \in Bad : k =< y
        BY <2>2, LeastElement
      <3>2. k \in Nat /\ k # 0 /\ k - 1 \in Nat
        BY <1>3, <3>1
      <3>3. k - 1 \notin Bad
        BY <3>1, <3>2
      <3>4. QED BY <1>4, <3>1, <3>2, <3>3
    <2>3. QED BY <2>1, <2>2
  <1>6. Cardinality(S) \in Nat /\ Small(Cardinality(S)) = SUBSET S
    BY FS_CardinalityType, FS_Subset
  <1>7. \E h \in [Small(Cardinality(S)) -> V] : Folds(h, Small(Cardinality(S)))
    BY <1>5, <1>6 DEF Good
  <1>8. QED BY <1>6, <1>7 DEF HasFold

(* The steps of the pipeline, which work from the ends of its indices. *)
Lengths == DOMAIN Pipeline
Names == {Pipeline[i] : i \in Lengths} \cup {"failed"}
Data == Seq(Names)

(* The typed facts about the pipeline. *)
LEMMA PipelineFacts ==
  /\ Pipeline \in Data /\ Len(Pipeline) \in Nat /\ Lengths = 1 .. Len(Pipeline)
  /\ IsFiniteSet(Lengths) /\ Lengths \subseteq Nat
  /\ \A i \in Lengths : Pipeline[i] \in Names /\ Pipeline[i] # "failed"
  <1>1. Pipeline \in Seq(STRING \ {"failed"})
    BY TcpAssumption
  <1>2. /\ Len(Pipeline) \in Nat /\ Lengths = 1 .. Len(Pipeline)
        /\ Pipeline \in [1 .. Len(Pipeline) -> STRING \ {"failed"}]
    BY <1>1, LenProperties DEF Lengths
  <1>3. \A n \in Nat : IsFiniteSet(1 .. n)
    BY FS_Interval
  <1>4. Pipeline \in Data
    BY <1>2 DEF Data, Names, Lengths
  <1>5. \A i \in Lengths : Pipeline[i] \in Names
    BY DEF Names
  <1>6. QED BY <1>2, <1>3, <1>4, <1>5

(* The ends of a set of indices. *)
LEMMA MinFacts ==
  ASSUME NEW s \in SUBSET Nat, s # {}
  PROVE  Min(s) \in s /\ \A y \in s : Min(s) =< y
  <1>1. \E x \in s : \A y \in s : x =< y
    BY LeastElement
  <1>2. QED BY <1>1 DEF Min

LEMMA MaxFacts ==
  ASSUME NEW n \in Nat, NEW s \in SUBSET (1 .. n), s # {}
  PROVE  Max(s) \in s /\ \A y \in s : Max(s) >= y
  <1> DEFINE T == {n - x : x \in s}
  <1>1. T \subseteq Nat /\ T # {}
    <2>1. \A x \in s : n - x \in Nat
      OBVIOUS
    <2>2. PICK x \in s : TRUE
      OBVIOUS
    <2>3. n - x \in T
      OBVIOUS
    <2>4. QED BY <2>1, <2>3
  <1>2. PICK t \in T : \A y \in T : t =< y
    BY <1>1, LeastElement
  <1>3. PICK x \in s : t = n - x
    BY <1>2
  <1>4. \A y \in s : x >= y
    <2> TAKE y \in s
    <2>1. n - x =< n - y
      BY <1>2, <1>3
    <2>2. x \in Nat /\ y \in Nat
      OBVIOUS
    <2>3. QED BY <2>1, <2>2
  <1>5. QED BY <1>4 DEF Max

(* Encoding wraps the payload in all of the transforms. *)
LEMMA Encoded == EncodePipeline(<< >>) = Pipeline
  <1> DEFINE n == Len(Pipeline)
             step(h, s) == IF s = {} THEN << >>
                           ELSE Encode(Pipeline[Min(s)], h[s \ {Min(s)}])
             IsFold(h) == h = [s \in SUBSET Lengths |-> step(h, s)]
             fold == CHOOSE h : IsFold(h)
             G == [p \in Lengths \X Data |-> <<Pipeline[p[1]]>> \o p[2]]
             choice == [s \in SUBSET Lengths |-> Min(s)]
  <1>1. EncodePipeline(<< >>) = fold[Lengths]
    BY DEF EncodePipeline, FoldRight, MapThenFoldSet, Lengths
  <1>2. \E h : IsFold(h)
    <2>1. \A s \in SUBSET Lengths : s # {} => choice[s] \in s
      BY MinFacts, PipelineFacts
    <2>2. G \in [Lengths \X Data -> Data]
      <3> SUFFICES ASSUME NEW i \in Lengths, NEW d \in Data
                   PROVE  <<Pipeline[i]>> \o d \in Data
        OBVIOUS
      <3>1. Pipeline[i] \in Names
        BY PipelineFacts
      <3>2. QED BY <3>1, ConcatProperties DEF Data
    <2>3. << >> \in Data
      BY DEF Data
    <2> HIDE DEF G, choice
    <2>4. PICK h \in [SUBSET Lengths -> Data] :
            \A s \in SUBSET Lengths :
              h[s] = IF s = {} THEN << >> ELSE G[<<choice[s], h[s \ {choice[s]}]>>]
      <3>1. IsFiniteSet(Lengths)
        BY PipelineFacts
      <3>2. HasFold(Lengths, Data, << >>, G, choice)
        BY <2>1, <2>2, <2>3, <3>1, FoldExists
      <3>3. QED BY <3>2 DEF HasFold
    <2>5. \A s \in SUBSET Lengths : h[s] = step(h, s)
      <3> TAKE s \in SUBSET Lengths
      <3>1. CASE s = {}
        BY <2>4, <3>1
      <3>2. CASE s # {}
        <4>1. choice[s] = Min(s) /\ Min(s) \in Lengths
          BY <2>1, <3>2 DEF choice
        <4>2. h[s \ {Min(s)}] \in Data
          BY <2>4
        <4>3. h[s] = G[<<Min(s), h[s \ {Min(s)}]>>]
          BY <2>4, <3>2, <4>1
        <4>4. G[<<Min(s), h[s \ {Min(s)}]>>] = Encode(Pipeline[Min(s)], h[s \ {Min(s)}])
          BY <4>1, <4>2 DEF G, Encode
        <4>5. QED BY <3>2, <4>3, <4>4
      <3>3. QED BY <3>1, <3>2
    <2>6. IsFold(h)
      BY <2>4, <2>5
    <2>7. QED BY <2>6
  <1>3. IsFold(fold)
    BY <1>2
  <1> HIDE DEF fold, G, choice
  <1>4. \A s \in SUBSET Lengths : fold[s] = step(fold, s)
    BY <1>3
  <1> DEFINE Bad == {k \in 0 .. n : fold[(n - k + 1) .. n] # SubSeq(Pipeline, n - k + 1, n)}
  <1>5. CASE Bad = {}
    <2>0. n \in Nat /\ Lengths = 1 .. n /\ Pipeline \in Data
      BY PipelineFacts
    <2>1. fold[(n - n + 1) .. n] = SubSeq(Pipeline, n - n + 1, n)
      <3>1. n \in 0 .. n
        BY <2>0
      <3>2. n \notin Bad
        <4> HIDE DEF Bad
        <4>1. QED BY <1>5
      <3> HIDE DEF n
      <3>3. QED BY <3>1, <3>2
    <2>2. n - n + 1 = 1
      BY <2>0
    <2>3. SubSeq(Pipeline, 1, n) = Pipeline
      BY <2>0 DEF Data
    <2>4. QED BY <1>1, <2>0, <2>1, <2>2, <2>3
  <1>6. CASE Bad # {}
    <2>0. n \in Nat /\ Lengths = 1 .. n /\ Pipeline \in Data
      BY PipelineFacts
    <2>1. PICK k \in Bad : \A y \in Bad : k =< y
      <3>1. Bad \subseteq Nat
        BY <2>0
      <3> HIDE DEF Bad
      <3>2. QED BY <1>6, <3>1, LeastElement
    <2>2. k \in 0 .. n /\ fold[(n - k + 1) .. n] # SubSeq(Pipeline, n - k + 1, n)
      BY <2>1
    <2> DEFINE s == (n - k + 1) .. n
               i == n - k + 1
    <2>3. CASE k = 0
      <3>1. s = {} /\ SubSeq(Pipeline, i, n) = << >>
        BY <2>0, <2>3
      <3>2. QED BY <1>4, <2>2, <3>1
    <2>4. CASE k # 0
      <3>1. i \in Lengths /\ i \in Nat /\ s \in SUBSET Lengths /\ s # {} /\ i \in s
        <4> HIDE DEF n
        <4>1. k \in 1 .. n /\ n \in Nat
          BY <2>0, <2>2, <2>4
        <4>2. i \in 1 .. n /\ i \in Nat /\ i \in s /\ s \subseteq 1 .. n
          BY <4>1
        <4>3. QED BY <2>0, <4>2
      <3>2. Min(s) = i
        <4>1. Min(s) \in s /\ \A y \in s : Min(s) =< y
          BY <3>1, MinFacts, PipelineFacts
        <4>2. Min(s) =< i /\ Min(s) >= i
          BY <3>1, <4>1, <2>0, <2>2
        <4>3. Min(s) \in Nat
          BY <3>1, <4>1, <2>0
        <4>4. QED BY <3>1, <4>2, <4>3
      <3>3. s \ {i} = (n - (k - 1) + 1) .. n /\ n - (k - 1) + 1 = i + 1
        BY <2>0, <2>2, <2>4
      <3>4. k - 1 \in 0 .. n /\ k - 1 \notin Bad
        <4>1. k \in 1 .. n /\ n \in Nat
          BY <2>0, <2>2, <2>4
        <4>2. k - 1 \in 0 .. n /\ ~ (k =< k - 1)
          BY <4>1
        <4> HIDE DEF Bad
        <4>3. QED BY <2>1, <4>2
      <3>5. fold[s \ {i}] = SubSeq(Pipeline, i + 1, n)
        BY <3>3, <3>4
      <3>6. fold[s] = <<Pipeline[i]>> \o SubSeq(Pipeline, i + 1, n)
        BY <1>4, <3>1, <3>2, <3>5 DEF Encode
      <3>7. <<Pipeline[i]>> \o SubSeq(Pipeline, i + 1, n) = SubSeq(Pipeline, i, n)
        <4> HIDE DEF n, i
        <4>1. n = Len(Pipeline) /\ i \in 1 .. n /\ n \in Nat /\ Pipeline \in Seq(Names)
          BY <2>0, <3>1 DEF n, Data
        <4>2. n \in i .. Len(Pipeline)
          BY <4>1
        <4>3. QED BY <4>1, <4>2, SubSeqRecursiveFirst
      <3>8. QED BY <2>2, <3>6, <3>7
    <2>5. QED BY <2>3, <2>4
  <1>7. QED BY <1>5, <1>6

(* Decoding goes through the same transforms, from the outermost. *)
Peel(t, d) == IF Unwraps(t, d) THEN Tail(d) ELSE Failed

(* A payload stays a payload. *)
LEMMA PeelType == ASSUME NEW t, NEW d \in Data PROVE Peel(t, d) \in Data /\ Failed \in Data
  <1>1. Failed \in Data
    <2>1. "failed" \in Names
      BY DEF Names
    <2>2. QED BY <2>1 DEF Failed, Data
  <1>2. ASSUME d # << >> PROVE Tail(d) \in Data
    BY <1>2 DEF Data
  <1>3. QED BY <1>1, <1>2 DEF Peel, Unwraps

(* Where the payload is after each transform says what decoding returns. *)
LEMMA Decoding ==
  ASSUME NEW data \in Data, NEW want \in [0 .. Len(Pipeline) -> Data], want[0] = data,
         \A k \in Lengths : want[k] = Peel(Pipeline[k], want[k - 1])
  PROVE  DecodePipeline(data) = want[Len(Pipeline)]
  <1> DEFINE n == Len(Pipeline)
             step(h, s) == IF s = {} THEN data
                           ELSE Peel(Pipeline[Max(s)], h[s \ {Max(s)}])
             IsFold(h) == h = [s \in SUBSET Lengths |-> step(h, s)]
             fold == CHOOSE h : IsFold(h)
             G == [p \in Lengths \X Data |-> Peel(Pipeline[p[1]], p[2])]
             choice == [s \in SUBSET Lengths |-> Max(s)]
  <1>0. n \in Nat /\ Lengths = 1 .. n /\ \A s \in SUBSET Lengths : s # {} => Max(s) \in s
    BY PipelineFacts, MaxFacts
  <1>1. DecodePipeline(data) = fold[Lengths]
    BY DEF DecodePipeline, FoldLeft, MapThenFoldSet, Lengths, Peel
  <1>2. \E h : IsFold(h)
    <2>1. \A s \in SUBSET Lengths : s # {} => choice[s] \in s
      BY <1>0
    <2>2. G \in [Lengths \X Data -> Data]
      BY PeelType
    <2> HIDE DEF G, choice
    <2>4. PICK h \in [SUBSET Lengths -> Data] :
            \A s \in SUBSET Lengths :
              h[s] = IF s = {} THEN data ELSE G[<<choice[s], h[s \ {choice[s]}]>>]
      <3>1. IsFiniteSet(Lengths)
        BY PipelineFacts
      <3>2. HasFold(Lengths, Data, data, G, choice)
        BY <2>1, <2>2, <3>1, FoldExists
      <3>3. QED BY <3>2 DEF HasFold
    <2>5. \A s \in SUBSET Lengths : h[s] = step(h, s)
      <3> TAKE s \in SUBSET Lengths
      <3>1. CASE s = {}
        BY <2>4, <3>1
      <3>2. CASE s # {}
        <4>1. choice[s] = Max(s) /\ Max(s) \in Lengths
          BY <2>1, <3>2 DEF choice
        <4>2. h[s \ {Max(s)}] \in Data
          BY <2>4
        <4>3. h[s] = G[<<Max(s), h[s \ {Max(s)}]>>]
          BY <2>4, <3>2, <4>1
        <4>4. G[<<Max(s), h[s \ {Max(s)}]>>] = Peel(Pipeline[Max(s)], h[s \ {Max(s)}])
          BY <4>1, <4>2 DEF G
        <4>5. QED BY <3>2, <4>3, <4>4
      <3>3. QED BY <3>1, <3>2
    <2>6. IsFold(h)
      BY <2>4, <2>5
    <2>7. QED BY <2>6
  <1>3. IsFold(fold)
    BY <1>2
  <1> HIDE DEF fold, G, choice
  <1>4. \A s \in SUBSET Lengths : fold[s] = step(fold, s)
    BY <1>3
  <1> DEFINE Bad == {k \in 0 .. n : fold[1 .. k] # want[k]}
  <1>5. Bad = {}
    <2>1. SUFFICES ASSUME Bad # {}
                   PROVE  FALSE
      OBVIOUS
    <2>2. PICK k \in Bad : \A y \in Bad : k =< y
      <3>1. Bad \subseteq Nat
        BY <1>0
      <3> HIDE DEF Bad
      <3>2. QED BY <2>1, <3>1, LeastElement
    <2> HIDE DEF n
    <2>3. k \in 0 .. n /\ fold[1 .. k] # want[k]
      BY <2>2
    <2>4. CASE k = 0
      <3>1. 1 .. k = {}
        BY <2>4
      <3>2. fold[1 .. k] = data
        BY <1>4, <3>1
      <3>3. QED BY <2>3, <2>4, <3>2
    <2>5. CASE k # 0
      <3>1. /\ k \in Lengths /\ 1 .. k \in SUBSET Lengths /\ 1 .. k # {}
            /\ k - 1 \in 0 .. n /\ (1 .. k) \ {k} = 1 .. (k - 1) /\ k \in 1 .. k /\ k \in Nat
        <4>1. n \in Nat /\ k \in 1 .. n
          BY <1>0, <2>3, <2>5
        <4>2. 1 .. k \subseteq 1 .. n /\ k - 1 \in 0 .. n /\ k \in 1 .. k
          BY <4>1
        <4>3. (1 .. k) \ {k} = 1 .. (k - 1)
          BY <4>1
        <4> HIDE DEF n
        <4>4. k \in Lengths /\ 1 .. k \in SUBSET Lengths
          BY <1>0, <4>1, <4>2
        <4>5. k \in Nat /\ 1 .. k # {}
          BY <4>1, <4>2
        <4>6. QED BY <4>2, <4>3, <4>4, <4>5
      <3>2. Max(1 .. k) = k
        <4>1. Max(1 .. k) \in 1 .. k /\ \A y \in 1 .. k : Max(1 .. k) >= y
          BY <3>1, MaxFacts
        <4>2. Max(1 .. k) >= k
          BY <3>1, <4>1
        <4>3. QED BY <3>1, <4>1, <4>2
      <3>3. k - 1 \notin Bad
        <4>1. ~ (k =< k - 1)
          BY <3>1
        <4>2. QED BY <2>2, <4>1
      <3>4. fold[1 .. (k - 1)] = want[k - 1]
        BY <3>1, <3>3
      <3>5. fold[1 .. k] = Peel(Pipeline[k], want[k - 1])
        BY <1>4, <3>1, <3>2, <3>4
      <3>6. QED BY <2>3, <3>1, <3>5
    <2>6. QED BY <2>4, <2>5
  <1>6. fold[1 .. n] = want[n]
    <2>1. n \in 0 .. n
      BY <1>0
    <2> HIDE DEF n
    <2>2. QED BY <1>5, <2>1
  <1>7. QED BY <1>0, <1>1, <1>6

(* Decoding undoes the encoding, and what is undecodable stays so. *)
LEMMA Decoded ==
  /\ DecodePipeline(Pipeline) = << >>
  /\ DecodePipeline(Failed) = Failed
  <1> DEFINE n == Len(Pipeline)
  <1>0. /\ n \in Nat /\ Lengths = 1 .. n /\ Pipeline \in Seq(Names)
        /\ \A i \in Lengths : Pipeline[i] \in Names /\ Pipeline[i] # "failed"
    BY PipelineFacts DEF Data
  <1>1. DecodePipeline(Pipeline) = << >>
    <2> DEFINE want == [k \in 0 .. n |-> SubSeq(Pipeline, k + 1, n)]
    <2>1. want \in [0 .. n -> Data]
      BY <1>0 DEF Data
    <2>2. want[0] = Pipeline /\ want[n] = << >>
      <3>1. 0 \in 0 .. n /\ n \in 0 .. n
        BY <1>0
      <3>2. want[0] = SubSeq(Pipeline, 1, n) /\ want[n] = SubSeq(Pipeline, n + 1, n)
        <4> HIDE DEF n
        <4>1. QED BY <3>1
      <3>3. SubSeq(Pipeline, 1, n) = Pipeline /\ SubSeq(Pipeline, n + 1, n) = << >>
        BY <1>0
      <3>4. QED BY <3>2, <3>3
    <2>3. ASSUME NEW k \in Lengths
          PROVE  want[k] = Peel(Pipeline[k], want[k - 1])
      <3> DEFINE v == SubSeq(Pipeline, k, n)
      <3>1. k \in 1 .. n
        BY <1>0
      <3>2. want[k] = SubSeq(Pipeline, k + 1, n) /\ want[k - 1] = v
        <4> HIDE DEF n
        <4>1. k \in 0 .. n /\ k - 1 \in 0 .. n /\ k - 1 + 1 = k
          BY <1>0, <3>1
        <4>2. QED BY <4>1
      <3>3. v # << >>
        <4>1. Len(v) = n - k + 1 /\ n - k + 1 # 0
          BY <1>0, <3>1
        <4>2. QED BY <4>1
      <3>4. Head(v) = Pipeline[k] /\ Tail(v) = SubSeq(Pipeline, k + 1, n)
        <4>1. k \in 1 .. Len(Pipeline) /\ n \in k .. Len(Pipeline)
          BY <1>0, <3>1
        <4>2. QED BY <1>0, <4>1, HeadTailOfSubSeq
      <3>5. QED BY <3>2, <3>3, <3>4 DEF Peel, Unwraps
    <2> HIDE DEF want
    <2>4. Pipeline \in Data
      BY PipelineFacts
    <2>5. QED BY <2>1, <2>2, <2>3, <2>4, Decoding
  <1>2. DecodePipeline(Failed) = Failed
    <2> DEFINE want == [k \in 0 .. n |-> Failed]
    <2>1. want \in [0 .. n -> Data] /\ Failed \in Data
      <3>1. << >> \in Data
        BY DEF Data
      <3>2. Failed \in Data
        BY <3>1, PeelType
      <3>3. QED BY <3>2
    <2>2. want[0] = Failed /\ want[n] = Failed
      BY <1>0
    <2>3. ASSUME NEW k \in Lengths
          PROVE  want[k] = Peel(Pipeline[k], want[k - 1])
      <3>1. want[k] = Failed /\ want[k - 1] = Failed
        BY <1>0
      <3>2. ~ Unwraps(Pipeline[k], Failed)
        BY <1>0 DEF Unwraps, Failed
      <3>3. QED BY <3>1, <3>2 DEF Peel
    <2> HIDE DEF want
    <2>4. QED BY <2>1, <2>2, <2>3, Decoding
  <1>3. QED BY <1>1, <1>2

-----------------------------------------------------------------------------
(* The payloads on their way through the middlewares *)

(* What has passed a payload when the middleware m is next: inwards those    *)
(* before it, outwards those behind it, which come first.                    *)
Inwards(m) == [i \in 1 .. (m - 1) |-> Middlewares[i]]
Outwards(m) == [i \in 1 .. (Innermost - m) |-> Middlewares[Innermost + 1 - i]]
Before(m) == 1 .. (m - 1)

(* The typed facts about the sorted middlewares. *)
LEMMA InnermostFacts ==
  /\ Innermost \in Nat /\ Middlewares \in Seq(DOMAIN Order)
  /\ DOMAIN Middlewares = 1 .. Innermost
  /\ \A m \in 1 .. Innermost : Middlewares[m] \in DOMAIN Order
  <1>1. Middlewares \in Seq(DOMAIN Order)
    BY MiddlewaresSorted
  <1>2. /\ Innermost \in Nat /\ DOMAIN Middlewares = 1 .. Innermost
        /\ Middlewares \in [1 .. Innermost -> DOMAIN Order]
    BY <1>1, LenProperties DEF Innermost
  <1>3. QED BY <1>1, <1>2

(* Inwards, each middleware adds itself at the end. *)
LEMMA InwardsMoves ==
  /\ Inwards(1) = << >> /\ Before(1) = {}
  /\ \A m \in 1 .. (Innermost + 1) :
       Inwards(m) \in Seq(DOMAIN Order) /\ Before(m) \subseteq 1 .. Innermost
  /\ \A m \in 1 .. Innermost :
       /\ Append(Inwards(m), Middlewares[m]) = Inwards(m + 1)
       /\ Before(m) \cup {m} = Before(m + 1)
  /\ Inwards(Innermost + 1) = Middlewares /\ Before(Innermost + 1) = 1 .. Innermost
  <1>0. /\ Innermost \in Nat /\ Middlewares \in Seq(DOMAIN Order)
        /\ \A m \in 1 .. Innermost : Middlewares[m] \in DOMAIN Order
        /\ DOMAIN Middlewares = 1 .. Innermost /\ Len(Middlewares) = Innermost
    BY InnermostFacts DEF Innermost
  <1>1. Inwards(1) = << >> /\ Before(1) = {}
    BY DEF Inwards, Before
  <1>2. ASSUME NEW m \in 1 .. (Innermost + 1)
        PROVE  /\ Inwards(m) \in Seq(DOMAIN Order) /\ Len(Inwards(m)) = m - 1
               /\ Before(m) \subseteq 1 .. Innermost
    <2>1. m - 1 \in Nat /\ \A i \in 1 .. (m - 1) : i \in 1 .. Innermost
      BY <1>0
    <2>2. Inwards(m) \in [1 .. (m - 1) -> DOMAIN Order]
      BY <1>0, <2>1 DEF Inwards
    <2>3. Before(m) \subseteq 1 .. Innermost
      BY <1>0, <2>1 DEF Before
    <2>4. QED BY <2>1, <2>2, <2>3
  <1>3. ASSUME NEW m \in 1 .. Innermost
        PROVE  /\ Append(Inwards(m), Middlewares[m]) = Inwards(m + 1)
               /\ Before(m) \cup {m} = Before(m + 1)
    <2>1. m \in 1 .. (Innermost + 1) /\ m + 1 \in 1 .. (Innermost + 1) /\ m \in Nat
          /\ m + 1 - 1 = m
      BY <1>0
    <2>2. /\ Inwards(m) \in Seq(DOMAIN Order) /\ Len(Inwards(m)) = m - 1
          /\ Inwards(m + 1) \in Seq(DOMAIN Order) /\ Len(Inwards(m + 1)) = m
      BY <1>2, <2>1
    <2> DEFINE u == Append(Inwards(m), Middlewares[m])
    <2>3. u \in Seq(DOMAIN Order) /\ Len(u) = m
      BY <1>0, <2>1, <2>2
    <2>4. ASSUME NEW i \in 1 .. m
          PROVE  u[i] = Inwards(m + 1)[i]
      <3>1. Inwards(m + 1)[i] = Middlewares[i]
        BY <2>1 DEF Inwards
      <3>2. CASE i = m
        BY <1>0, <2>1, <2>2, <3>1, <3>2
      <3>3. CASE i # m
        <4>1. i \in 1 .. (m - 1)
          BY <2>1, <3>3
        <4>2. u[i] = Inwards(m)[i]
          BY <1>0, <2>1, <2>2, <4>1
        <4>3. QED BY <3>1, <4>1, <4>2 DEF Inwards
      <3>4. QED BY <3>2, <3>3
    <2>5. u = Inwards(m + 1)
      <3> HIDE DEF u
      <3>1. QED BY <2>2, <2>3, <2>4, SeqEqual
    <2>6. 1 .. m = (1 .. (m - 1)) \cup {m}
      BY <2>1
    <2>7. QED BY <2>1, <2>5, <2>6 DEF Before
  <1>4. Inwards(Innermost + 1) = Middlewares /\ Before(Innermost + 1) = 1 .. Innermost
    <2>1. Innermost + 1 - 1 = Innermost
      BY <1>0
    <2>2. Before(Innermost + 1) = 1 .. Innermost
      BY <1>0, <2>1 DEF Before
    <2>3. Inwards(Innermost + 1) = [i \in 1 .. Innermost |-> Middlewares[i]]
      <3>1. \A m, n \in Int : m - 1 = n => Inwards(m) = [i \in 1 .. n |-> Middlewares[i]]
        BY DEF Inwards
      <3>2. QED BY <1>0, <2>1, <3>1
    <2>4. QED BY <1>0, <2>2, <2>3
  <1>5. QED BY <1>1, <1>2, <1>3, <1>4

(* Outwards too, from the innermost. *)
LEMMA OutwardsMoves ==
  /\ Outwards(Innermost) = << >>
  /\ \A m \in 0 .. Innermost : Outwards(m) \in Seq(DOMAIN Order)
  /\ \A m \in 1 .. Innermost : Append(Outwards(m), Middlewares[m]) = Outwards(m - 1)
  /\ Outwards(0) = Reverse(Middlewares)
  <1>0. /\ Innermost \in Nat /\ Middlewares \in Seq(DOMAIN Order)
        /\ \A m \in 1 .. Innermost : Middlewares[m] \in DOMAIN Order
        /\ DOMAIN Middlewares = 1 .. Innermost /\ Len(Middlewares) = Innermost
    BY InnermostFacts DEF Innermost
  <1>1. Outwards(Innermost) = << >>
    <2>1. Innermost - Innermost = 0
      BY <1>0
    <2>2. QED BY <2>1 DEF Outwards
  <1>2. ASSUME NEW m \in 0 .. Innermost
        PROVE  Outwards(m) \in Seq(DOMAIN Order) /\ Len(Outwards(m)) = Innermost - m
    <2>1. /\ Innermost - m \in Nat
          /\ \A i \in 1 .. (Innermost - m) : Innermost + 1 - i \in 1 .. Innermost
      BY <1>0
    <2>2. Outwards(m) \in [1 .. (Innermost - m) -> DOMAIN Order]
      BY <1>0, <2>1 DEF Outwards
    <2>3. QED BY <2>1, <2>2
  <1>3. ASSUME NEW m \in 1 .. Innermost
        PROVE  Append(Outwards(m), Middlewares[m]) = Outwards(m - 1)
    <2> DEFINE n == Innermost - m
               u == Append(Outwards(m), Middlewares[m])
    <2>1. /\ m \in 0 .. Innermost /\ m - 1 \in 0 .. Innermost /\ n \in Nat
          /\ Innermost - (m - 1) = n + 1 /\ Innermost + 1 - (n + 1) = m
      BY <1>0
    <2>2. /\ Outwards(m) \in Seq(DOMAIN Order) /\ Len(Outwards(m)) = n
          /\ Outwards(m - 1) \in Seq(DOMAIN Order) /\ Len(Outwards(m - 1)) = n + 1
      BY <1>2, <2>1
    <2>3. /\ Outwards(m) = [i \in 1 .. n |-> Middlewares[Innermost + 1 - i]]
          /\ Outwards(m - 1) = [i \in 1 .. (n + 1) |-> Middlewares[Innermost + 1 - i]]
      BY <2>1 DEF Outwards
    <2> HIDE DEF n
    <2>4. u \in Seq(DOMAIN Order) /\ Len(u) = n + 1
      BY <1>0, <2>1, <2>2
    <2>5. ASSUME NEW i \in 1 .. (n + 1)
          PROVE  u[i] = Outwards(m - 1)[i]
      <3>1. CASE i = n + 1
        BY <1>0, <2>1, <2>2, <2>3, <3>1
      <3>2. CASE i # n + 1
        <4>1. i \in 1 .. n
          BY <2>1, <3>2
        <4>2. u[i] = Outwards(m)[i]
          BY <1>0, <2>1, <2>2, <4>1
        <4>3. QED BY <2>3, <4>1, <4>2
      <3>3. QED BY <3>1, <3>2
    <2>6. QED
      <3> HIDE DEF u
      <3>1. u = Outwards(m - 1)
        BY <2>2, <2>4, <2>5, SeqEqual
      <3>2. QED BY <3>1 DEF u
  <1>4. Outwards(0) = Reverse(Middlewares)
    <2>1. Innermost - 0 = Innermost
      BY <1>0
    <2>2. \A i \in 1 .. Innermost : Innermost + 1 - i = (Innermost - i) + 1
      BY <1>0
    <2>3. QED BY <1>0, <2>1, <2>2 DEF Outwards, Reverse
  <1>5. QED BY <1>1, <1>2, <1>3, <1>4

(* The way out is the way in, reversed. *)
LEMMA ReverseFacts ==
  /\ Len(Reverse(Middlewares)) = Len(Registered)
  /\ ToSet(Reverse(Middlewares)) = ToSet(Middlewares)
  /\ Reverse(Reverse(Middlewares)) = Middlewares
  <1> DEFINE R == Reverse(Middlewares)
  <1>0. /\ Innermost \in Nat /\ Middlewares \in Seq(DOMAIN Order)
        /\ DOMAIN Middlewares = 1 .. Innermost /\ Len(Middlewares) = Innermost
        /\ Innermost = Len(Registered)
    BY InnermostFacts, MiddlewaresSorted DEF Innermost
  <1>1. R \in Seq(DOMAIN Order) /\ Len(R) = Innermost
    <2>1. R \in [1 .. Innermost -> DOMAIN Order]
      <3>1. \A i \in 1 .. Innermost : (Innermost - i) + 1 \in 1 .. Innermost
        BY <1>0
      <3>2. QED BY <1>0, <3>1 DEF Reverse
    <2>2. QED BY <1>0, <2>1
  <1>2. R = [i \in 1 .. Innermost |-> Middlewares[(Innermost - i) + 1]]
    BY <1>0 DEF Reverse
  <1>3. \A i \in 1 .. Innermost :
          /\ (Innermost - i) + 1 \in 1 .. Innermost
          /\ (Innermost - ((Innermost - i) + 1)) + 1 = i
    BY <1>0
  <1>4. ToSet(R) = ToSet(Middlewares)
    <2>1. \A i \in 1 .. Innermost : R[i] \in ToSet(Middlewares)
      BY <1>0, <1>2, <1>3 DEF ToSet
    <2>2. \A i \in 1 .. Innermost : R[(Innermost - i) + 1] = Middlewares[i]
      BY <1>2, <1>3
    <2>3. DOMAIN R = 1 .. Innermost
      BY <1>2
    <2> HIDE DEF R
    <2>4. QED BY <1>0, <1>3, <2>1, <2>2, <2>3 DEF ToSet
  <1>5. Reverse(R) = Middlewares
    <2> HIDE DEF R
    <2>1. Reverse(R) = [i \in 1 .. Innermost |-> R[(Innermost - i) + 1]]
      BY <1>1 DEF Reverse
    <2>2. \A i \in 1 .. Innermost : R[(Innermost - i) + 1] = Middlewares[i]
      BY <1>2, <1>3
    <2>3. QED BY <1>0, <2>1, <2>2
  <1>6. QED BY <1>0, <1>1, <1>4, <1>5

-----------------------------------------------------------------------------
(* The TCP connections *)

(* A connection in state k, whose set in accepted is let: what has passed    *)
(* its payload, and the middlewares that let it in, by where it is.          *)
ConnOK(k, let) ==
  /\ k \in [at : Connected \cup {"none", "spawned", "rejected", "closed"},
            mw : 0 .. (Innermost + 1), data : Data, passed : Seq(DOMAIN Order)]
  /\ let \subseteq 1 .. Innermost
  /\ k.at \in {"none", "spawned", "closed"} => let = {}
  /\ k.at = "connecting" => k.mw >= 1 /\ let = Before(k.mw)
  /\ k.at \in InLoop => let = 1 .. Innermost
  /\ k.at = "disconnecting" => let = 1 .. k.mw
  /\ k.at = "inbound" => k.data = << >> /\ k.mw >= 1 /\ k.passed = Inwards(k.mw)
  /\ k.at = "handling" => k.data = << >> /\ k.passed = Middlewares
  /\ k.at = "outbound" =>
       k.data = << >> /\ k.mw =< Innermost /\ k.passed = Outwards(k.mw)
  /\ k.at \in {"sending", "stuck"} => k.data = Pipeline /\ k.passed = Reverse(Middlewares)

TcpInv ==
  /\ DOMAIN tcp = TcpConns /\ tcp = [c \in TcpConns |-> tcp[c]]
  /\ DOMAIN accepted = TcpConns /\ accepted = [c \in TcpConns |-> accepted[c]]
  /\ \A c \in TcpConns : ConnOK(tcp[c], accepted[c])
  /\ tcpActive = Cardinality({c \in TcpConns : tcp[c].at \in Connected})

(* The gauge moves as a connection goes to state k. *)
Gauged(c, k) ==
  \/ (k.at \in Connected <=> tcp[c].at \in Connected) /\ tcpActive' = tcpActive
  \/ k.at \in Connected /\ tcp[c].at \notin Connected /\ tcpActive' = tcpActive + 1
  \/ k.at \notin Connected /\ tcp[c].at \in Connected /\ tcpActive' = tcpActive - 1

(* A connection goes to a state that is right for where it is. *)
LEMMA ConnMoves ==
  ASSUME TcpInv, NEW c \in TcpConns, NEW k, NEW let,
         tcp' = [tcp EXCEPT ![c] = k], accepted' = [accepted EXCEPT ![c] = let],
         ConnOK(k, let), Gauged(c, k)
  PROVE  TcpInv'
  <1> DEFINE T == {q \in TcpConns : tcp[q].at \in Connected}
             U == {q \in TcpConns : tcp'[q].at \in Connected}
  <1>1. IsFiniteSet(TcpConns)
    BY TcpAssumption
  <1>2. /\ DOMAIN tcp = TcpConns /\ DOMAIN accepted = TcpConns
        /\ \A q \in TcpConns : ConnOK(tcp[q], accepted[q])
        /\ tcpActive = Cardinality(T)
    BY DEF TcpInv
  <1>3. /\ tcp' = [q \in TcpConns |-> IF q = c THEN k ELSE tcp[q]]
        /\ accepted' = [q \in TcpConns |-> IF q = c THEN let ELSE accepted[q]]
    BY <1>2
  <1>4. \A q \in TcpConns : ConnOK(tcp'[q], accepted'[q])
    BY <1>2, <1>3
  <1>5. U \ {c} = T \ {c}
    BY <1>3
  <1>6. (c \in T <=> tcp[c].at \in Connected) /\ (c \in U <=> k.at \in Connected)
    BY <1>3
  <1> T \in SUBSET TcpConns /\ U \in SUBSET TcpConns
    OBVIOUS
  <1> HIDE DEF T, U
  <1>7. Cardinality(U) = tcpActive'
    BY <1>1, <1>2, <1>5, <1>6, CountMoves DEF Gauged
  <1>8. QED
    BY <1>3, <1>4, <1>7 DEF TcpInv, U

(* The state of a connection, and the steps that change two parts of it. *)
State(at, mw, data, passed) == [at |-> at, mw |-> mw, data |-> data, passed |-> passed]

Placed(k, at, mw) == [k EXCEPT !.at = at, !.mw = mw]
Handed(k, mw, passed) == [k EXCEPT !.mw = mw, !.passed = passed]
Filled(k, at, data) == [k EXCEPT !.at = at, !.data = data]

(* Such a step in terms of the whole state. *)
LEMMA StateMoves ==
  ASSUME NEW at, NEW mw, NEW data, NEW passed, NEW k, k = State(at, mw, data, passed),
         NEW x, NEW y
  PROVE  /\ Placed(k, x, y) = State(x, y, data, passed)
         /\ Handed(k, x, y) = State(at, x, data, y)
         /\ Filled(k, x, y) = State(x, mw, y, passed)
  <1>1. /\ [k EXCEPT !.at = x] = State(x, mw, data, passed)
        /\ [k EXCEPT !.mw = x] = State(at, x, data, passed)
    BY DEF State
  <1> DEFINE r == [k EXCEPT !.at = x]
             q == [k EXCEPT !.mw = x]
  <1>2. /\ Placed(k, x, y) = [r EXCEPT !.mw = y]
        /\ Handed(k, x, y) = [q EXCEPT !.passed = y]
        /\ Filled(k, x, y) = [r EXCEPT !.data = y]
    BY DEF Placed, Handed, Filled
  <1>3. r = State(x, mw, data, passed) /\ q = State(at, x, data, passed)
    BY <1>1
  <1> HIDE DEF r, q
  <1>4. /\ [r EXCEPT !.mw = y] = State(x, y, data, passed)
        /\ [q EXCEPT !.passed = y] = State(at, x, data, y)
        /\ [r EXCEPT !.data = y] = State(x, mw, y, passed)
    BY <1>3 DEF State
  <1>5. QED BY <1>2, <1>4

(* Every step of a connection. *)
LEMMA TcpStepKeeps ==
  ASSUME TcpInv, NEW c \in TcpConns, TcpStep(c)
  PROVE  TcpInv'
  <1> DEFINE k == tcp[c]
             let == accepted[c]
             Places == Connected \cup {"none", "spawned", "rejected", "closed"}
             Numbers == 0 .. (Innermost + 1)
             Goes(at, mw, data, passed) ==
               tcp' = [tcp EXCEPT ![c] = State(at, mw, data, passed)]
  <1>1. /\ ConnOK(k, let) /\ DOMAIN tcp = TcpConns /\ DOMAIN accepted = TcpConns
        /\ accepted = [q \in TcpConns |-> accepted[q]]
        /\ tcp = [q \in TcpConns |-> tcp[q]]
    BY DEF TcpInv
  <1>2. /\ k.at \in Places /\ k.mw \in Numbers /\ k.data \in Data
        /\ k.passed \in Seq(DOMAIN Order)
        /\ k = State(k.at, k.mw, k.data, k.passed)
    BY <1>1 DEF ConnOK, State
  <1>3. Innermost \in Nat /\ 0 \in Numbers /\ 1 \in Numbers /\ Innermost \in Numbers
    BY InnermostFacts
  <1>4. << >> \in Data /\ << >> \in Seq(DOMAIN Order)
    BY DEF Data
  <1>5. ASSUME UNCHANGED accepted
        PROVE  accepted' = [accepted EXCEPT ![c] = let]
    BY <1>1, <1>5
  <1>6. ASSUME NEW at, NEW mw, Move(c, at, mw)
        PROVE  Goes(at, mw, k.data, k.passed)
    <2>1. Placed(k, at, mw) = State(at, mw, k.data, k.passed)
      <3> HIDE DEF k
      <3>1. QED BY <1>2, StateMoves
    <2>2. tcp' = [tcp EXCEPT ![c] = Placed(k, at, mw)]
      BY <1>1, <1>6 DEF Move, Placed
    <2>3. QED BY <2>1, <2>2 DEF Goes
  <1>25. ASSUME ToLoop(c)
         PROVE  Goes("loop", 0, << >>, << >>)
    <2>1. [NoConn EXCEPT !.at = "loop"] = State("loop", 0, << >>, << >>)
      BY DEF NoConn, State
    <2>2. QED BY <1>25, <2>1 DEF ToLoop, Goes
  <1>26. ASSUME ToDisconnect(c)
         PROVE  Goes("disconnecting", Innermost, << >>, << >>)
    <2>1. [NoConn EXCEPT !.at = "disconnecting", !.mw = Innermost]
            = State("disconnecting", Innermost, << >>, << >>)
      <3>1. NoConn = State("none", 0, << >>, << >>)
        BY DEF NoConn, State
      <3>2. Placed(NoConn, "disconnecting", Innermost)
              = State("disconnecting", Innermost, << >>, << >>)
        BY <3>1, StateMoves
      <3>3. QED BY <3>2 DEF Placed
    <2>2. QED BY <1>26, <2>1 DEF ToDisconnect, Goes
  <1> HIDE DEF Goes
  <1> DEFINE Keeps(at, mw, data, passed, l) ==
               /\ Goes(at, mw, data, passed)
               /\ accepted' = [accepted EXCEPT ![c] = l]
               /\ ConnOK(State(at, mw, data, passed), l)
               /\ Gauged(c, State(at, mw, data, passed))
  <1>7. ASSUME NEW at, NEW mw, NEW data, NEW passed, NEW l, Keeps(at, mw, data, passed, l)
        PROVE  TcpInv'
    BY <1>7, ConnMoves DEF Goes
  <1>8. CASE TcpAccept(c)
    <2>1. Goes("spawned", 0, k.data, k.passed) /\ k.at = "none" /\ tcpActive' = tcpActive
      BY <1>6, <1>8 DEF TcpAccept
    <2>2. ConnOK(State("spawned", 0, k.data, k.passed), let)
      BY <1>1, <1>2, <1>3, <2>1 DEF ConnOK, State, InLoop, Working
    <2>3. Gauged(c, State("spawned", 0, k.data, k.passed))
      BY <2>1 DEF Gauged, State, Connected, InLoop, Working
    <2>4. Keeps("spawned", 0, k.data, k.passed, let)
      BY <1>5, <1>8, <2>1, <2>2, <2>3 DEF TcpAccept
    <2> HIDE DEF Keeps
    <2>5. QED BY <1>7, <2>4
  <1>9. CASE TcpCount(c)
    <2>1. /\ Goes("connecting", 1, k.data, k.passed) /\ k.at = "spawned"
          /\ tcpActive' = tcpActive + 1
      BY <1>6, <1>9 DEF TcpCount
    <2>2. ConnOK(State("connecting", 1, k.data, k.passed), let)
      <3>1. let = {} /\ let = Before(1)
        BY <1>1, <2>1, InwardsMoves DEF ConnOK
      <3>2. 1 >= 1
        OBVIOUS
      <3> HIDE DEF k, let, Numbers
      <3>3. QED BY <1>2, <1>3, <3>1, <3>2 DEF ConnOK, State, InLoop, Working, Connected, Numbers
    <2>3. Gauged(c, State("connecting", 1, k.data, k.passed))
      BY <2>1 DEF Gauged, State, Connected, InLoop, Working
    <2>4. Keeps("connecting", 1, k.data, k.passed, let)
      BY <1>5, <1>9, <2>1, <2>2, <2>3 DEF TcpCount
    <2> HIDE DEF Keeps
    <2>5. QED BY <1>7, <2>4
  <1>10. CASE MiddlewareAccepts(c)
    <2> DEFINE next == Before(k.mw + 1)
    <2>1. /\ Goes("connecting", k.mw + 1, k.data, k.passed) /\ k.at = "connecting"
          /\ k.mw =< Innermost /\ tcpActive' = tcpActive
          /\ accepted' = [accepted EXCEPT ![c] = let \cup {k.mw}]
      BY <1>1, <1>6, <1>10 DEF MiddlewareAccepts
    <2>2. k.mw >= 1 /\ let = Before(k.mw)
      BY <1>1, <2>1 DEF ConnOK
    <2>3. k.mw \in 1 .. Innermost /\ k.mw + 1 \in 1 .. (Innermost + 1) /\ k.mw + 1 \in Numbers
          /\ k.mw + 1 >= 1
      BY <1>2, <1>3, <2>1, <2>2
    <2>4. let \cup {k.mw} = next /\ next \subseteq 1 .. Innermost
      BY <2>2, <2>3, InwardsMoves
    <2> HIDE DEF next
    <2>5. ConnOK(State("connecting", k.mw + 1, k.data, k.passed), next)
      <3> HIDE DEF Numbers
      <3>1. QED BY <1>2, <2>2, <2>3, <2>4 DEF ConnOK, State, InLoop, Working, Connected, next, Numbers
    <2>6. Gauged(c, State("connecting", k.mw + 1, k.data, k.passed))
      BY <2>1 DEF Gauged, State, Connected, InLoop, Working
    <2>7. Keeps("connecting", k.mw + 1, k.data, k.passed, next)
      BY <2>1, <2>4, <2>5, <2>6
    <2> HIDE DEF Keeps
    <2>8. QED BY <1>7, <2>7
  <1>11. CASE HandlerAccepts(c)
    <2>1. /\ Goes("loop", 0, << >>, << >>) /\ k.at = "connecting"
          /\ k.mw = Innermost + 1 /\ tcpActive' = tcpActive
      BY <1>11, <1>25 DEF HandlerAccepts
    <2>2. let = 1 .. Innermost
      BY <1>1, <2>1, InwardsMoves DEF ConnOK
    <2>3. ConnOK(State("loop", 0, << >>, << >>), let)
      BY <1>3, <1>4, <2>2 DEF ConnOK, State, InLoop, Working, Connected
    <2>4. Gauged(c, State("loop", 0, << >>, << >>))
      BY <2>1 DEF Gauged, State, Connected, InLoop, Working
    <2>5. Keeps("loop", 0, << >>, << >>, let)
      BY <1>5, <1>11, <2>1, <2>3, <2>4 DEF HandlerAccepts
    <2> HIDE DEF Keeps
    <2>6. QED BY <1>7, <2>5
  <1>12. ASSUME NEW at \in {"rejected", "closed"}, Move(c, at, 0), k.at \in Connected,
                tcpActive' = tcpActive - 1, UNCHANGED accepted, at = "closed" => let = {}
         PROVE  TcpInv'
    <2>1. Goes(at, 0, k.data, k.passed)
      BY <1>6, <1>12
    <2>2. ConnOK(State(at, 0, k.data, k.passed), let)
      <3>1. let \subseteq 1 .. Innermost
        BY <1>1 DEF ConnOK
      <3>2. QED BY <3>1, <1>2, <1>3, <1>12 DEF ConnOK, State, InLoop, Working
    <2>3. Gauged(c, State(at, 0, k.data, k.passed))
      BY <1>12 DEF Gauged, State, Connected, InLoop, Working
    <2>4. Keeps(at, 0, k.data, k.passed, let)
      BY <1>5, <1>12, <2>1, <2>2, <2>3
    <2> HIDE DEF Keeps
    <2>5. QED BY <1>7, <2>4
  <1>27. CASE Rejects(c)
    BY <1>12, <1>27 DEF Rejects, Connected
  <1>28. CASE HandlerDisconnects(c)
    <2>1. k.at = "disconnecting" /\ let = 1 .. 0
      BY <1>1, <1>28 DEF HandlerDisconnects, ConnOK
    <2>2. let = {}
      BY <2>1
    <2>3. Move(c, "closed", 0) /\ tcpActive' = tcpActive - 1 /\ UNCHANGED accepted
      BY <1>28 DEF HandlerDisconnects
    <2>4. k.at \in Connected
      BY <2>1 DEF Connected
    <2>5. QED BY <1>12, <2>2, <2>3, <2>4
  <1>13. ASSUME k.at \in InLoop
         PROVE  let = 1 .. Innermost
    BY <1>1, <1>13 DEF ConnOK
  (* A connection that is served goes on being served, *)
  <1>14. ASSUME NEW at \in InLoop, NEW mw, NEW data, NEW passed,
                k.at \in InLoop, Goes(at, mw, data, passed),
                UNCHANGED <<accepted, tcpActive>>,
                mw \in Numbers, data \in Data, passed \in Seq(DOMAIN Order),
                at = "inbound" => data = << >> /\ mw >= 1 /\ passed = Inwards(mw),
                at = "handling" => data = << >> /\ passed = Middlewares,
                at = "outbound" => data = << >> /\ mw =< Innermost /\ passed = Outwards(mw),
                at \in {"sending", "stuck"} => data = Pipeline /\ passed = Reverse(Middlewares)
         PROVE  TcpInv'
    <2>1. ConnOK(State(at, mw, data, passed), let)
      <3> HIDE DEF Numbers, k, let
      <3>1. QED BY <1>13, <1>14 DEF ConnOK, State, InLoop, Working, Connected, Numbers
    <2>2. Gauged(c, State(at, mw, data, passed))
      BY <1>14 DEF Gauged, State, Connected
    <2>3. Keeps(at, mw, data, passed, let)
      BY <1>5, <1>14, <2>1, <2>2
    <2> HIDE DEF Keeps
    <2>4. QED BY <1>7, <2>3
  (* begins its loop again, or leaves it. *)
  <1>29. ASSUME k.at \in InLoop, ToLoop(c), UNCHANGED <<accepted, tcpActive>>
         PROVE  TcpInv'
    <2>1. Goes("loop", 0, << >>, << >>) /\ "loop" \in InLoop
      BY <1>25, <1>29 DEF InLoop
    <2> HIDE DEF Numbers, k
    <2>2. QED BY <1>3, <1>4, <1>14, <1>29, <2>1
  <1>15. ASSUME k.at \in InLoop, ToDisconnect(c), UNCHANGED <<accepted, tcpActive>>
         PROVE  TcpInv'
    <2>1. Goes("disconnecting", Innermost, << >>, << >>)
      BY <1>15, <1>26
    <2>2. ConnOK(State("disconnecting", Innermost, << >>, << >>), let)
      BY <1>3, <1>4, <1>13, <1>15 DEF ConnOK, State, InLoop, Working, Connected
    <2>3. Gauged(c, State("disconnecting", Innermost, << >>, << >>))
      BY <1>15 DEF Gauged, State, Connected
    <2>4. Keeps("disconnecting", Innermost, << >>, << >>, let)
      BY <1>5, <1>15, <2>1, <2>2, <2>3
    <2> HIDE DEF Keeps
    <2>5. QED BY <1>7, <2>4
  <1>16. CASE Frame(c)
    <2>1. k.at = "loop" /\ UNCHANGED <<accepted, tcpActive>>
      BY <1>16 DEF Frame
    <2>2. PICK raw \in {EncodePipeline(<< >>), Failed} :
            IF DecodePipeline(raw) = Failed
              THEN ToDisconnect(c)
              ELSE tcp' = [tcp EXCEPT ![c] = [at |-> "inbound", mw |-> 1,
                                              data |-> DecodePipeline(raw), passed |-> << >>]]
      BY <1>16 DEF Frame
    <2>3. DecodePipeline(raw) \in {<< >>, Failed}
      BY <2>2, Encoded, Decoded
    <2>7. k.at \in InLoop
      BY <2>1 DEF InLoop
    <2>4. CASE DecodePipeline(raw) = Failed
      BY <1>15, <2>1, <2>2, <2>4, <2>7
    <2>5. CASE DecodePipeline(raw) # Failed
      <3>1. Goes("inbound", 1, << >>, << >>)
        BY <2>2, <2>3, <2>5 DEF Goes, State
      <3>2. << >> = Inwards(1) /\ "inbound" \in InLoop /\ 1 >= 1
        BY InwardsMoves DEF InLoop, Working
      <3> HIDE DEF Numbers, k
      <3>3. QED BY <1>3, <1>4, <1>14, <2>1, <2>7, <3>1, <3>2
    <2>6. QED BY <2>4, <2>5
  <1>17. CASE Passes(c)
    <2> DEFINE passed == Append(k.passed, Middlewares[k.mw])
    <2>1. ASSUME NEW mw, Pass(c, mw)
          PROVE  Goes(k.at, mw, k.data, passed)
      <3>1. Handed(k, mw, passed) = State(k.at, mw, k.data, passed)
        <4> HIDE DEF k
        <4>1. QED BY <1>2, StateMoves
      <3>2. tcp' = [tcp EXCEPT ![c] = Handed(k, mw, passed)]
        BY <1>1, <2>1 DEF Pass, Handed
      <3>3. QED BY <3>1, <3>2 DEF Goes
    <2>2. CASE k.at = "inbound" /\ k.mw =< Innermost /\ Pass(c, k.mw + 1)
      <3>1. k.data = << >> /\ k.mw >= 1 /\ k.passed = Inwards(k.mw)
        BY <1>1, <2>2 DEF ConnOK
      <3>2. k.mw \in 1 .. Innermost /\ k.mw + 1 \in 1 .. (Innermost + 1) /\ k.mw + 1 \in Numbers
            /\ k.mw + 1 >= 1
        BY <1>2, <1>3, <2>2, <3>1
      <3>3. passed = Inwards(k.mw + 1) /\ passed \in Seq(DOMAIN Order)
        <4>1. Append(Inwards(k.mw), Middlewares[k.mw]) = Inwards(k.mw + 1)
          BY <3>2, InwardsMoves
        <4>2. Inwards(k.mw + 1) \in Seq(DOMAIN Order)
          BY <3>2, InwardsMoves
        <4>3. passed = Append(Inwards(k.mw), Middlewares[k.mw])
          BY <3>1
        <4> HIDE DEF passed, k
        <4>4. QED BY <4>1, <4>2, <4>3
      <3>4. Goes("inbound", k.mw + 1, << >>, passed)
        BY <2>1, <2>2, <3>1
      <3>5. UNCHANGED <<accepted, tcpActive>> /\ "inbound" \in InLoop
        BY <1>17 DEF Passes, InLoop, Working
      <3> HIDE DEF passed, Numbers, k
      <3>6. QED BY <1>4, <1>14, <2>2, <3>2, <3>3, <3>4, <3>5
    <2>3. CASE k.at = "outbound" /\ k.mw >= 1 /\ Pass(c, k.mw - 1)
      <3>1. k.data = << >> /\ k.mw =< Innermost /\ k.passed = Outwards(k.mw)
        BY <1>1, <2>3 DEF ConnOK
      <3>2. k.mw \in 1 .. Innermost /\ k.mw - 1 \in 0 .. Innermost /\ k.mw - 1 \in Numbers
            /\ k.mw - 1 =< Innermost
        BY <1>2, <1>3, <2>3, <3>1
      <3>3. passed = Outwards(k.mw - 1) /\ passed \in Seq(DOMAIN Order)
        BY <3>1, <3>2, OutwardsMoves
      <3>4. Goes("outbound", k.mw - 1, << >>, passed)
        BY <2>1, <2>3, <3>1
      <3>5. UNCHANGED <<accepted, tcpActive>> /\ "outbound" \in InLoop
        BY <1>17 DEF Passes, InLoop, Working
      <3> HIDE DEF passed, Numbers, k
      <3>6. QED BY <1>4, <1>14, <2>3, <3>2, <3>3, <3>4, <3>5
    <2>4. QED BY <1>17, <2>2, <2>3 DEF Passes
  <1>18. CASE Drops(c)
    <2>1. k.at \in InLoop /\ ToLoop(c) /\ UNCHANGED <<accepted, tcpActive>>
      BY <1>18 DEF Drops, InLoop, Working
    <2>2. QED BY <1>29, <2>1
  <1>19. CASE OnMessage(c)
    <2>1. /\ k.at = "inbound" /\ k.mw = Innermost + 1 /\ Goes("handling", 0, k.data, k.passed)
          /\ UNCHANGED <<accepted, tcpActive>>
      BY <1>6, <1>19 DEF OnMessage
    <2>2. k.data = << >> /\ k.passed = Middlewares
      BY <1>1, <2>1, InwardsMoves DEF ConnOK
    <2>3. k.at \in InLoop /\ "handling" \in InLoop
      BY <2>1 DEF InLoop, Working
    <2> HIDE DEF Numbers, k
    <2>4. QED BY <1>2, <1>3, <1>14, <2>1, <2>2, <2>3
  <1>20. CASE Reply(c)
    <2>1. k.at = "handling" /\ UNCHANGED <<accepted, tcpActive>>
      BY <1>20 DEF Reply
    <2>2. k.at \in InLoop /\ "outbound" \in InLoop
      BY <2>1 DEF InLoop, Working
    <2>3. CASE tcp' = [tcp EXCEPT ![c] = [at |-> "outbound", mw |-> Innermost,
                                          data |-> << >>, passed |-> << >>]]
      <3>1. Goes("outbound", Innermost, << >>, << >>)
        BY <2>3 DEF Goes, State
      <3>2. << >> = Outwards(Innermost) /\ Innermost =< Innermost
        BY <1>3, OutwardsMoves
      <3> HIDE DEF Numbers, k
      <3>3. QED BY <1>3, <1>4, <1>14, <2>1, <2>2, <3>1, <3>2
    <2>4. CASE ToLoop(c)
      BY <1>29, <2>1, <2>2, <2>4
    <2>5. CASE ToDisconnect(c)
      BY <1>15, <2>1, <2>2, <2>5
    <2>6. QED BY <1>20, <2>3, <2>4, <2>5 DEF Reply
  <1>21. CASE Send(c)
    <2>1. k.at = "outbound" /\ k.mw = 0 /\ UNCHANGED <<accepted, tcpActive>>
      BY <1>21 DEF Send
    <2>2. k.at \in InLoop /\ "sending" \in InLoop
      BY <2>1 DEF InLoop, Working
    <2>5. k.data = << >> /\ k.passed = Reverse(Middlewares)
      BY <1>1, <2>1, OutwardsMoves DEF ConnOK
    <2>3. CASE tcp' = [tcp EXCEPT ![c].at = "sending", ![c].data = EncodePipeline(@)]
      <3>1. Filled(k, "sending", EncodePipeline(k.data))
              = State("sending", k.mw, Pipeline, k.passed)
        <4>1. EncodePipeline(k.data) = Pipeline
          BY <2>5, Encoded
        <4> HIDE DEF k
        <4>2. QED BY <1>2, <4>1, StateMoves
      <3>2. Goes("sending", k.mw, Pipeline, k.passed)
        <4>1. tcp' = [tcp EXCEPT ![c] = Filled(k, "sending", EncodePipeline(k.data))]
          BY <1>1, <2>3 DEF Filled
        <4>2. QED BY <3>1, <4>1 DEF Goes
      <3>3. Pipeline \in Data
        BY PipelineFacts
      <3> HIDE DEF Numbers, k
      <3>4. QED BY <1>2, <1>14, <2>1, <2>2, <2>5, <3>2, <3>3
    <2>4. CASE ToDisconnect(c)
      BY <1>15, <2>1, <2>2, <2>4
    <2>6. QED BY <1>21, <2>3, <2>4 DEF Send
  <1>30. CASE SendReturns(c)
    <2>1. k.at \in InLoop /\ UNCHANGED <<accepted, tcpActive>>
      BY <1>30 DEF SendReturns, InLoop, Working
    <2>2. QED BY <1>15, <1>29, <1>30, <2>1 DEF SendReturns
  <1>31. CASE ReaderStops(c)
    <2>1. k.at = "sending" /\ UNCHANGED <<accepted, tcpActive>>
      BY <1>31 DEF ReaderStops
    <2>2. k.at \in InLoop /\ "stuck" \in InLoop
      BY <2>1 DEF InLoop, Working
    <2>3. k.data = Pipeline /\ k.passed = Reverse(Middlewares)
      BY <1>1, <2>1 DEF ConnOK
    <2>4. Filled(k, "stuck", k.data) = State("stuck", k.mw, k.data, k.passed)
      <3> HIDE DEF k
      <3>1. QED BY <1>2, StateMoves
    <2>5. Filled(k, "stuck", k.data) = [k EXCEPT !.at = "stuck"]
      <3> HIDE DEF k
      <3>1. QED BY <1>2 DEF Filled, State
    <2>6. tcp' = [tcp EXCEPT ![c] = [k EXCEPT !.at = "stuck"]]
      BY <1>1, <1>31 DEF ReaderStops
    <2>7. Goes("stuck", k.mw, k.data, k.passed)
      BY <2>4, <2>5, <2>6 DEF Goes
    <2> HIDE DEF Numbers, k
    <2>8. QED BY <1>2, <1>14, <2>1, <2>2, <2>3, <2>7
  <1>22. CASE LeavesLoop(c) \/ ReaderBreaks(c)
    <2>1. k.at \in InLoop /\ ToDisconnect(c) /\ UNCHANGED <<accepted, tcpActive>>
      BY <1>22 DEF LeavesLoop, ReaderBreaks, InLoop
    <2>2. QED BY <1>15, <2>1
  <1>23. CASE MiddlewareDisconnects(c)
    <2> DEFINE left == let \ {k.mw}
    <2>1. /\ k.at = "disconnecting" /\ k.mw >= 1 /\ tcpActive' = tcpActive
          /\ Goes("disconnecting", k.mw - 1, k.data, k.passed)
          /\ accepted' = [accepted EXCEPT ![c] = left]
      BY <1>1, <1>6, <1>23 DEF MiddlewareDisconnects
    <2>2. let = 1 .. k.mw /\ left \subseteq 1 .. Innermost
      BY <1>1, <2>1 DEF ConnOK
    <2>3. k.mw - 1 \in Numbers /\ left = 1 .. (k.mw - 1)
      BY <1>2, <1>3, <2>1, <2>2
    <2> HIDE DEF left
    <2>4. ConnOK(State("disconnecting", k.mw - 1, k.data, k.passed), left)
      <3> HIDE DEF Numbers, k
      <3>1. QED BY <1>2, <2>2, <2>3 DEF ConnOK, State, InLoop, Working, Connected, Numbers
    <2>5. Gauged(c, State("disconnecting", k.mw - 1, k.data, k.passed))
      BY <2>1 DEF Gauged, State, Connected
    <2>6. Keeps("disconnecting", k.mw - 1, k.data, k.passed, left)
      BY <2>1, <2>4, <2>5
    <2> HIDE DEF Keeps
    <2>7. QED BY <1>7, <2>6
  <1>24. QED
    BY <1>8, <1>9, <1>10, <1>11, <1>16, <1>17, <1>18, <1>19, <1>20, <1>21, <1>22, <1>23,
       <1>27, <1>28, <1>30, <1>31 DEF TcpStep

-----------------------------------------------------------------------------
(* The application *)

(* The shutdown token and the connections of both kinds. *)
AppInv == SocketInv /\ TcpInv

(* Nothing is open at first. *)
LEMMA AppInvInit == AppInit => AppInv
  <1> SUFFICES ASSUME AppInit
               PROVE  AppInv
    OBVIOUS
  <1>1. SocketInv
    <2>1. Fresh \in SocketState /\ Fresh.at \notin Tracked
      BY WsAssumption DEF Fresh, SocketState, Tracked, Serving
    <2>2. sock = [s \in Socks |-> Fresh] /\ active = 0 /\ drain = "no" /\ woken = FALSE
          /\ token = FALSE
      BY DEF AppInit, WsInit, TokenInit
    <2>3. {s \in Socks : sock[s].at \in Tracked} = {}
      BY <2>1, <2>2
    <2>4. Cardinality({s \in Socks : sock[s].at \in Tracked}) = 0
      BY <2>3, FS_EmptySet
    <2>5. Cardinality(Socks) \in Nat
      BY WsAssumption, FS_CardinalityType
    <2>6. sock \in [Socks -> SocketState]
      BY <2>1, <2>2
    <2>7. active \in 0 .. Cardinality(Socks)
      BY <2>2, <2>5
    <2>8. WsTypeOK
      BY <2>2, <2>6, <2>7 DEF WsTypeOK, SocketState
    <2>9. QED BY <2>2, <2>4, <2>8 DEF SocketInv, ActiveCounted
  <1>2. TcpInv
    <2>1. tcp = [c \in TcpConns |-> NoConn] /\ accepted = [c \in TcpConns |-> {}] /\ tcpActive = 0
      BY DEF AppInit, TcpInit
    <2>2. NoConn = State("none", 0, << >>, << >>) /\ NoConn.at = "none"
      BY DEF NoConn, State
    <2>3. 0 \in 0 .. (Innermost + 1) /\ << >> \in Data /\ << >> \in Seq(DOMAIN Order)
      BY InnermostFacts DEF Data
    <2>4. ConnOK(NoConn, {})
      BY <2>2, <2>3 DEF ConnOK, State, InLoop, Working
    <2>5. {c \in TcpConns : tcp[c].at \in Connected} = {}
      BY <2>1, <2>2 DEF Connected, InLoop, Working
    <2>6. Cardinality({c \in TcpConns : tcp[c].at \in Connected}) = 0
      BY <2>5, FS_EmptySet
    <2>7. QED BY <2>1, <2>4, <2>6 DEF TcpInv
  <1>3. QED BY <1>1, <1>2 DEF AppInv

(* Whatever run, its listeners, clients and connections do. *)
LEMMA AppInvStep == AppInv /\ [AppNext]_allVars => AppInv'
  <1> SUFFICES ASSUME AppInv, [AppNext]_allVars
               PROVE  AppInv'
    OBVIOUS
  <1> USE DEF AppInv
  <1>1. UNCHANGED <<token, wsVars>> => SocketInv'
    BY DEF SocketInv, WsTypeOK, ActiveCounted, wsVars
  <1>2. UNCHANGED tcpVars => TcpInv'
    BY DEF TcpInv, ConnOK, tcpVars
  <1>3. CASE AppStep /\ UNCHANGED <<token, wsVars, tcpVars>>
    BY <1>1, <1>2, <1>3
  <1>4. CASE Drains /\ UNCHANGED <<token, tcpVars>>
    <2>1. SocketInv' /\ TcpInv'
      BY <1>2, <1>4, WsDrainKeeps DEF Drains
    <2>2. QED BY <2>1
  <1>5. CASE Signal /\ UNCHANGED <<wsVars, tcpVars, appVars>>
    <2>1. SocketInv'
      BY <1>5 DEF Signal, SocketInv, WsTypeOK, ActiveCounted, wsVars
    <2>2. QED BY <1>2, <1>5, <2>1
  <1>6. ASSUME NEW s \in Socks, SocketWorks(s) \/ PeerStep(s), UNCHANGED <<token, tcpVars, appVars>>
        PROVE  AppInv'
    BY <1>2, <1>6, SocketStepKeeps DEF SocketWorks
  <1>7. CASE ClockTicks /\ UNCHANGED <<token, tcpVars, appVars>>
    BY <1>2, <1>7, ClockKeeps
  <1>8. ASSUME NEW c \in TcpConns, ConnectionWorks(c), UNCHANGED <<token, wsVars, appVars>>
        PROVE  AppInv'
    BY <1>1, <1>8, TcpStepKeeps DEF ConnectionWorks
  <1>9. CASE UNCHANGED allVars
    BY <1>1, <1>2, <1>9 DEF allVars
  <1>10. QED
    BY <1>3, <1>4, <1>5, <1>6, <1>7, <1>8, <1>9 DEF AppNext

(* The inductive invariant of the application. *)
LEMMA AppInvariant == AppSpec => []AppInv
  BY AppInvInit, AppInvStep, PTL DEF AppSpec

(* WsTracker counts exactly the sockets between on_connect and              *)
(* on_disconnect and the TCP gauge exactly the connections that are open;    *)
(* every middleware let in each connection that is served and was told of    *)
(* the end of each that is closed: through every refusal, failure, peer that *)
(* does not read and close, and whatever run is doing.                       *)
THEOREM ConnectionsAlwaysCounted == AppSpec => []ConnectionsCounted
  <1>1. AppInv => ConnectionsCounted
    BY DEF AppInv, SocketInv, TcpInv, ConnOK, ConnectionsCounted, TcpAccounted
  <1>2. QED BY <1>1, AppInvariant, PTL

(* For any middlewares, orders and pipeline: handle_tcp_connection gives the *)
(* handler what all of them passed in ascending order, and sends what all of *)
(* them passed in descending order, wrapped so that the peer can unwrap it.  *)
THEOREM MessagesFiltered == AppSpec => []FilteredBothWays
  <1>1. ASSUME AppInv
        PROVE  FilteredBothWays
    <2>1. SUFFICES ASSUME NEW c \in TcpConns
                   PROVE  /\ tcp[c].at = "handling" =>
                               ByAll(tcp[c].passed) /\ Ascending(tcp[c].passed)
                          /\ tcp[c].at \in {"sending", "stuck"} =>
                               /\ ByAll(tcp[c].passed) /\ Ascending(Reverse(tcp[c].passed))
                               /\ DecodePipeline(tcp[c].data) = << >>
      BY DEF FilteredBothWays
    <2>2. ConnOK(tcp[c], accepted[c])
      BY <1>1 DEF AppInv, TcpInv
    <2>3. ByAll(Middlewares) /\ Ascending(Middlewares)
      BY MiddlewaresSorted DEF ByAll
    <2>4. ByAll(Reverse(Middlewares)) /\ Ascending(Reverse(Reverse(Middlewares)))
      <3>1. Reverse(Reverse(Middlewares)) = Middlewares
        BY ReverseFacts
      <3>2. QED BY <2>3, <3>1, ReverseFacts, MiddlewaresSorted DEF ByAll
    <2>5. tcp[c].at = "handling" => tcp[c].passed = Middlewares
      BY <2>2 DEF ConnOK
    <2>6. tcp[c].at \in {"sending", "stuck"} =>
            tcp[c].data = Pipeline /\ tcp[c].passed = Reverse(Middlewares)
      BY <2>2 DEF ConnOK
    <2>7. QED BY <2>3, <2>4, <2>5, <2>6, Decoded
  <1>2. QED BY <1>1, AppInvariant, PTL
=============================================================================
