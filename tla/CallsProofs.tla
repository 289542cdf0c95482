----------------------------- MODULE CallsProofs ----------------------------
(***************************************************************************)
(* Proofs about the calls of the mocker, their upstream legs and their     *)
(* streams (BidiCalls): the variables keep their types, a call leaves at   *)
(* most one record, its effects are carried out all or not at all, it      *)
(* captures what was passed on, and no message is handled twice.           *)
(*                                                                         *)
(* All of it follows from one invariant.  It has one clause per concern,   *)
(* each a predicate over what belongs to a single call, so that a step of  *)
(* a handler is first a fact about a record and its next version (the      *)
(* lemmas named -ing) and then a fact about the action (those named Kept). *)
(***************************************************************************)
EXTENDS BidiCalls, SequenceTheorems, TLAPS

----------------------------------------------------------------------------
(* The inductive invariant, as predicates over the state that belongs to   *)
(* one call: its record k, its history h, what the upstream got u, what it *)
(* captured p and the effects it carried out a.                            *)

\* The fields of a call.
Fields ==
  {"kind", "session", "mode", "msgs", "at", "read", "gone", "stub", "body", "ops", "sent",
   "code", "missed", "prefetched", "reqs", "resps", "ups", "upCode", "matching",
   "served", "last", "req", "resp", "reqErr", "respErr", "bidiCancel",
   "header", "snapReqs", "snapResps"}

\* An operation of the effects.
Operation == [action : Actions, id : Ids]

\* The fields of a call, each with its values.
CallTyped(k) ==
  /\ DOMAIN k = Fields
  /\ k.kind \in Kinds /\ k.session \in SessionNames /\ k.mode \in Modes
  /\ k.msgs \in Seq(Contents) /\ k.read \in 0..Len(k.msgs)
  /\ k.kind = "unary" => Len(k.msgs) = 1
  /\ k.stub \in Ids \cup {NoId} /\ k.last \in Ids \cup {NoId}
  /\ k.body \in StubValues \cup {NoStub}
  /\ k.ops \in Seq(Operation) /\ k.matching \subseteq Ids \X StubValues
  /\ k.code \in Codes /\ k.upCode \in UpstreamCodes \cup {"none"}
  /\ k.reqErr \in Codes \cup {"none"} /\ k.respErr \in Codes \cup {"none"}
  /\ k.prefetched \in Seq(1..Len(k.msgs))
  /\ k.sent \in Nat /\ k.served \in Nat /\ k.reqs \in Nat
  /\ k.snapReqs \in Nat /\ k.snapResps \in Nat
  /\ k.resps \in 0..MaxUp /\ k.ups \in 0..k.resps

\* Before the mock has given the call away no upstream is involved.
Mocking == {"new", "search", "matched", "effects", "deleting", "loop", "select", "forward"}

\* Where a call is tells its kind, its mode, and that nothing is recorded yet.
Placed(k, h, u) ==
  /\ k.at \in {"search", "upstream"} => k.kind # "bidi"
  /\ k.at \in {"loop", "select", "await", "storing", "recording"} => k.kind = "bidi"
  /\ k.req # "off" \/ k.resp # "off" => k.kind = "bidi"
  /\ k.at \in Mocking =>
       u = <<>> /\ k.resps = 0 /\ k.req = "off" /\ k.resp = "off" /\ k.upCode = "none"
  /\ k.at = "upstream" => k.upCode = "none" /\ (k.kind # "server" => k.resps = 0)
  /\ k.at \in {"capture", "storing"} => k.mode = "capture"
  /\ k.kind # "bidi" /\ k.at \in {"capture", "record"} => k.upCode # "none"
  /\ k.kind # "bidi" /\ k.at \notin {"new", "done"} => k.read = Len(k.msgs)
  /\ k.at # "done" => h = <<>>

\* The record of a call that returns a code tells another status.
Unknowable(status, k, code) ==
  status = "Unknown" /\ code = "Canceled" /\ k.gone /\ k.kind \in {"server", "bidi"}

\* One record; the mock writes it only of a call that never went upstream, and with
\* another status only of a stream whose client is gone.
Story(k, h, u) ==
  /\ Len(h) <= 1
  /\ h # <<>> =>
       /\ h[1].code = k.code \/ (Unknowable(h[1].code, k, k.code) /\ u = <<>> /\ k.req # "run")
       /\ h[1].stub # NoId =>
            u = <<>> /\ k.resps = 0 /\ k.req # "run" /\ k.resp # "run"
  /\ (k.at = "done" /\ k.code = "OK" /\ (k.kind \in {"client", "server"} => k.read > 0)) => h # <<>>

\* What a call carries out before it answers is what was prepared.
Carrying(k, h, a) ==
  /\ a \in Seq(Operation)
  /\ k.at \in {"matched", "effects", "deleting"} => k.body # NoStub
  /\ k.at = "deleting" => k.ops # <<>>
  /\ k.kind # "bidi" =>
       /\ k.at \in {"new", "search"} => k.body = NoStub
       /\ k.body = NoStub => a = <<>> /\ k.sent = 0
       /\ k.at \in {"new", "search", "matched"} => a = <<>> /\ k.sent = 0
       /\ k.at \in {"effects", "deleting"} => a \o k.ops = Prepared(k.body)
       /\ k.at \notin {"effects", "deleting"} /\ k.body # NoStub => a \in {<<>>, Prepared(k.body)}
       /\ k.sent > 0 \/ (h # <<>> /\ h[1].stub # NoId) =>
            /\ a = Prepared(k.body) /\ k.body # NoStub
            /\ k.at # "deleting" /\ (k.at = "effects" => k.ops = <<>>)

\* Two counts of the messages in one direction: a pump that is left behind may change
\* one of them by a message, and ends with it.
Near(pump, n, m) == IF pump = "run" THEN n = m ELSE n <= m + 1 /\ m <= n + 1

\* What was passed on is what was taken, up to one message in each direction of a
\* stream; that is what is captured.  A pump that is left behind is cancelled.
Capturing(k, p, u) ==
  /\ k.kind # "bidi" /\ k.at = "capture" => k.resps = k.ups
  /\ k.at = "upstream" => k.resps = k.ups
  /\ k.kind = "bidi" => k.resps - k.ups \in {0, 1} /\ (k.resp # "done" => k.resps = k.ups)
  /\ k.kind = "bidi" => k.reqs - Len(u) \in {0, 1} /\ (k.req # "done" => k.reqs = Len(u))
  /\ k.at \notin Mocking \cup {"await"} => (k.req = "run" \/ k.resp = "run" => k.bidiCancel = TRUE)
  /\ k.at \in Mocking /\ k.kind = "bidi" => k.reqs = 0
  /\ k.at = "storing" => Near(k.req, k.snapReqs, Len(u)) /\ Near(k.resp, k.snapResps, k.ups)
  /\ k.at \notin {"record", "recording", "done"} => p = <<>>
  /\ Len(p) <= 1
  /\ p # <<>> =>
       /\ k.mode = "capture" /\ p[1].session = k.session
       /\ p[1].len \in Nat /\ p[1].inputs \in Nat
       /\ IF k.kind = "bidi"
          THEN Near(k.req, p[1].inputs, Len(u)) /\ Near(k.resp, p[1].len, k.ups)
          ELSE p[1].len = k.ups

\* All that was read, in order.
AllRead(k) == [i \in 1..k.read |-> i]

\* The messages that a stub answered come first, then those of the upstream.
Splitting(k, u) ==
  /\ u \in Seq(1..Len(k.msgs))
  /\ \A i \in 1..Len(u) : u[i] > k.served /\ u[i] <= k.read
  /\ \A i, j \in 1..Len(u) : i < j => u[i] < u[j]
  /\ k.served <= k.read
  /\ k.kind = "bidi" =>
       /\ k.at \in {"new", "loop"} => k.prefetched = <<>>
       /\ k.at \in {"select", "matched", "effects", "deleting"} =>
            k.served < k.read /\ k.prefetched = <<>>
       /\ k.prefetched # <<>> => k.prefetched = <<k.read>> /\ k.served < k.read /\ u = <<>>
  /\ k.kind # "bidi" =>
       /\ k.served = 0
       /\ k.prefetched \in {<<>>, AllRead(k)}
       /\ k.at \in {"new", "search", "matched", "effects", "deleting"} => ~k.missed
       /\ k.missed /\ k.at = "forward" => k.prefetched = AllRead(k)
       /\ k.missed /\ k.at = "upstream" => u = AllRead(k)
       /\ k.mode \in {"replay", "capture"} /\ k.body = NoStub /\ k.msgs # <<>> =>
            /\ k.at = "forward" => k.prefetched # <<>>
            /\ k.at = "upstream" => u # <<>>
            /\ k.at \in {"capture", "record"} /\ k.upCode = "NotFound" => u # <<>>
  /\ (k.mode \in {"replay", "capture"} /\ k.at = "done" /\ k.code = "NotFound" /\ ~k.gone) =>
       u # <<>> \/ k.body # NoStub \/ k.msgs = <<>>

\* The invariant of one call.
CallInv(k, h, u, p, a) ==
  /\ CallTyped(k) /\ Placed(k, h, u) /\ Story(k, h, u)
  /\ Carrying(k, h, a) /\ Capturing(k, p, u) /\ Splitting(k, u)

\* Every ID holds a stub or none.
StubsTyped == stubs \in [Ids -> StubValues \cup {NoStub}]

\* Every call has its record, its history and its traces.
Domains ==
  /\ DOMAIN call = Calls /\ DOMAIN history = Calls /\ DOMAIN upstream = Calls
  /\ DOMAIN captured = Calls /\ DOMAIN applied = Calls

Inv(c) == CallInv(call[c], history[c], upstream[c], captured[c], applied[c])

\* The inductive invariant.
CallsInv == StubsTyped /\ Domains /\ \A c \in Calls : Inv(c)

\* j differs from k in no other fields than these.
Sets(j, k, fields) ==
  /\ DOMAIN j = Fields
  /\ j.kind = k.kind /\ j.session = k.session /\ j.mode = k.mode /\ j.msgs = k.msgs
  /\ ("at" \in fields \/ j.at = k.at) /\ ("read" \in fields \/ j.read = k.read)
  /\ ("gone" \in fields \/ j.gone = k.gone) /\ ("stub" \in fields \/ j.stub = k.stub)
  /\ ("body" \in fields \/ j.body = k.body) /\ ("ops" \in fields \/ j.ops = k.ops)
  /\ ("sent" \in fields \/ j.sent = k.sent) /\ ("code" \in fields \/ j.code = k.code)
  /\ ("missed" \in fields \/ j.missed = k.missed)
  /\ ("prefetched" \in fields \/ j.prefetched = k.prefetched)
  /\ ("reqs" \in fields \/ j.reqs = k.reqs)
  /\ ("resps" \in fields \/ j.resps = k.resps) /\ ("ups" \in fields \/ j.ups = k.ups)
  /\ ("upCode" \in fields \/ j.upCode = k.upCode) /\ ("matching" \in fields \/ j.matching = k.matching)
  /\ ("served" \in fields \/ j.served = k.served) /\ ("last" \in fields \/ j.last = k.last)
  /\ ("req" \in fields \/ j.req = k.req) /\ ("resp" \in fields \/ j.resp = k.resp)
  /\ ("reqErr" \in fields \/ j.reqErr = k.reqErr) /\ ("respErr" \in fields \/ j.respErr = k.respErr)
  /\ ("bidiCancel" \in fields \/ j.bidiCancel = k.bidiCancel)
  /\ ("header" \in fields \/ j.header = k.header)
  /\ ("snapReqs" \in fields \/ j.snapReqs = k.snapReqs)
  /\ ("snapResps" \in fields \/ j.snapResps = k.snapResps)

----------------------------------------------------------------------------
(* Facts about sequences and records.                                      *)

\* The indices of n messages, in order, are a sequence of them.
LEMMA Indices ==
  ASSUME NEW n \in Nat
  PROVE  [i \in 1..n |-> i] \in Seq(1..n) /\ Len([i \in 1..n |-> i]) = n
OBVIOUS

\* The empty sequence is a sequence over any set.
LEMMA NoElements ==
  ASSUME NEW S
  PROVE  <<>> \in Seq(S)
OBVIOUS

\* A record appended to an empty history is all of the history.
LEMMA FirstRecord ==
  ASSUME NEW r
  PROVE  Len(Append(<<>>, r)) = 1 /\ Append(<<>>, r)[1] = r /\ Append(<<>>, r) # <<>>
OBVIOUS

\* A sequence that is empty or holds one element is not longer than one.
LEMMA AtMostOne ==
  ASSUME NEW s, s = <<>> \/ Len(s) = 1
  PROVE  Len(s) <= 1
<1>1. CASE s = <<>>
  BY <1>1
<1>2. CASE Len(s) = 1
  BY <1>2
<1> QED BY <1>1, <1>2

\* The head and the tail of a sequence of one element.
LEMMA OneElement ==
  ASSUME NEW x
  PROVE  Head(<<x>>) = x /\ Tail(<<x>>) = <<>>
OBVIOUS

\* One message more keeps what the upstream got in order and below the next one.
LEMMA AppendedInOrder ==
  ASSUME NEW S, NEW u \in Seq(S), NEW x \in S, S \subseteq Nat,
         \A i \in 1..Len(u) : u[i] < x,
         \A i, j \in 1..Len(u) : i < j => u[i] < u[j]
  PROVE  /\ Append(u, x) # <<>>
         /\ \A i \in 1..Len(Append(u, x)) :
              Append(u, x)[i] = x \/ (i \in 1..Len(u) /\ Append(u, x)[i] = u[i])
         /\ \A i, j \in 1..Len(Append(u, x)) : i < j => Append(u, x)[i] < Append(u, x)[j]
<1>1. /\ Append(u, x) # <<>> /\ Len(Append(u, x)) = Len(u) + 1 /\ Len(u) \in Nat
      /\ \A i \in 1..Len(u) : Append(u, x)[i] = u[i]
      /\ Append(u, x)[Len(u) + 1] = x
  BY AppendProperties
<1>2. \A i \in 1..Len(Append(u, x)) : i = Len(u) + 1 \/ i \in 1..Len(u)
  BY <1>1
<1> QED BY <1>1, <1>2

\* Set changes the record of one call alone.
LEMMA SetEffect ==
  ASSUME DOMAIN call = Calls, NEW c \in Calls, NEW k, Set(c, k)
  PROVE  /\ DOMAIN call' = Calls /\ call'[c] = k
         /\ \A d \in Calls \ {c} : call'[d] = call[d]
BY DEF Set

----------------------------------------------------------------------------
(* What each kind of step makes of one call.                               *)

\* A handler has read its messages: it searches, or forwards them.
LEMMA Receiving ==
  ASSUME NEW k, NEW h, NEW u, NEW p, NEW a, CallInv(k, h, u, p, a), NEW j,
         k.at = "new", k.kind # "bidi",
         Sets(j, k, {"read", "prefetched", "at"}),
         j.read = Len(k.msgs),
         \/ j.at = "forward" /\ k.mode = "proxy" /\ j.prefetched = [i \in 1..Len(k.msgs) |-> i]
         \/ j.at = "search" /\ j.prefetched = <<>>
  PROVE  CallInv(j, h, u, p, a)
<1>1. CallTyped(j)
  <2>1. j.msgs = k.msgs /\ Len(k.msgs) \in Nat
    BY DEF CallInv, CallTyped, Sets
  <2>2. j.prefetched \in Seq(1..Len(k.msgs))
    BY <2>1, Indices, NoElements
  <2>3. j.read \in 0..Len(j.msgs)
    BY <2>1
  <2> QED BY <2>1, <2>2, <2>3 DEF CallInv, CallTyped, Sets
<1>2. Placed(j, h, u)
  <2>1. k.at \in Mocking
    BY DEF Mocking
  <2> QED BY <2>1 DEF CallInv, CallTyped, Placed, Sets
<1>3. Story(j, h, u)
  BY DEF CallInv, CallTyped, Placed, Story, Sets
<1>4. Carrying(j, h, a)
  BY DEF CallInv, CallTyped, Placed, Carrying, Sets
<1>5. Capturing(j, p, u)
  BY DEF CallInv, CallTyped, Placed, Capturing, Sets
<1>6. Splitting(j, u)
  BY DEF CallInv, CallTyped, Placed, Splitting, Mocking, AllRead, Sets
<1> QED BY <1>1, <1>2, <1>3, <1>4, <1>5, <1>6 DEF CallInv

\* The mock ends a call, with a record or without.
LEMMA Returning ==
  ASSUME NEW k, NEW h, NEW u, NEW p, NEW a, CallInv(k, h, u, p, a), NEW j, NEW g,
         k.at \in Mocking \ {"deleting"},
         Sets(j, k, {"at", "code", "sent", "last"}),
         j.at = "done", j.code \in Codes, j.sent \in Nat, j.last \in Ids \cup {NoId},
         g # h => /\ Len(g) = 1 /\ g # <<>>
                  /\ g[1].code = j.code \/ Unknowable(g[1].code, k, j.code),
         j.code = "OK" /\ (k.kind \in {"client", "server"} => k.read > 0) => g # h,
         k.kind # "bidi" /\ (j.sent > 0 \/ (g # h /\ g[1].stub # NoId)) =>
           a = Prepared(k.body) /\ k.body # NoStub,
         k.kind # "bidi" /\ k.body # NoStub => a \in {<<>>, Prepared(k.body)},
         k.mode \in {"replay", "capture"} /\ j.code = "NotFound" => k.body # NoStub
  PROVE  CallInv(j, g, u, p, a)
<1>0. /\ h = <<>> /\ u = <<>> /\ k.resps = 0 /\ k.req = "off" /\ k.resp = "off"
      /\ k.upCode = "none" /\ k.at \notin {"done", "upstream", "capture", "record"}
  BY DEF CallInv, Placed, Mocking
<1>r. \/ g = <<>>
      \/ /\ g # <<>> /\ Len(g) = 1 /\ g # h
         /\ g[1].code = j.code \/ Unknowable(g[1].code, k, j.code)
  BY <1>0
<1>1. CallTyped(j)
  BY DEF CallInv, CallTyped, Sets
<1>2. Placed(j, g, u)
  BY <1>0 DEF CallInv, CallTyped, Placed, Sets, Mocking
<1>3. Story(j, g, u)
  <2>1. Len(g) <= 1
    BY <1>r, AtMostOne
  <2>2. j.req = "off" /\ j.resp = "off" /\ j.resps = 0 /\ j.kind = k.kind /\ j.read = k.read
        /\ j.gone = k.gone
    BY <1>0 DEF Sets
  <2> QED BY <2>1, <2>2, <1>0, <1>r DEF Story, Unknowable
<1>4. Carrying(j, g, a)
  BY <1>0, <1>r DEF CallInv, CallTyped, Placed, Carrying, Sets
<1>5. Capturing(j, p, u)
  BY <1>0 DEF CallInv, CallTyped, Placed, Capturing, Sets
<1>6. Splitting(j, u)
  BY <1>0 DEF CallInv, CallTyped, Placed, Splitting, AllRead, Sets
<1> QED BY <1>1, <1>2, <1>3, <1>4, <1>5, <1>6 DEF CallInv

\* The mock ends a call without a record.
LEMMA ReturningUntold ==
  ASSUME NEW k, NEW h, NEW u, NEW p, NEW a, CallInv(k, h, u, p, a), NEW j,
         k.at \in Mocking \ {"deleting"},
         Sets(j, k, {"at", "code", "sent", "last"}),
         j.at = "done", j.code \in Codes, j.sent = k.sent, j.last \in Ids \cup {NoId},
         j.code = "OK" => k.kind \in {"client", "server"} /\ k.read = 0,
         k.kind # "bidi" /\ k.body # NoStub => a \in {<<>>, Prepared(k.body)},
         k.mode \in {"replay", "capture"} /\ j.code = "NotFound" => k.body # NoStub
  PROVE  CallInv(j, h, u, p, a)
<1>1. k.sent \in Nat /\ k.read \in Nat
  BY DEF CallInv, CallTyped
<1>2. k.kind # "bidi" /\ k.sent > 0 => a = Prepared(k.body) /\ k.body # NoStub
  BY DEF CallInv, Carrying
<1> QED BY <1>1, <1>2, Returning

\* Moving the head of one sequence to the end of another keeps both together.
LEMMA HeadThenTail ==
  ASSUME NEW S, NEW a \in Seq(S), NEW o \in Seq(S), o # <<>>
  PROVE  /\ Append(a, Head(o)) \in Seq(S) /\ Tail(o) \in Seq(S)
         /\ Append(a, Head(o)) \o Tail(o) = a \o o
<1>1. Head(o) \in S /\ Tail(o) \in Seq(S) /\ Len(o) \in Nat \ {0}
  BY HeadTailProperties, EmptySeq
<1>2. <<Head(o)>> \in Seq(S)
  BY <1>1
<1>3. o = <<Head(o)>> \o Tail(o)
  <2>1. o = SubSeq(o, 1, Len(o)) /\ Tail(o) = SubSeq(o, 2, Len(o)) /\ o[1] = Head(o)
    BY SubSeqFull, TailIsSubSeq
  <2>2. SubSeq(o, 1, Len(o)) = <<o[1]>> \o SubSeq(o, 1 + 1, Len(o))
    BY <1>1, SubSeqRecursiveFirst
  <2> QED BY <2>1, <2>2
<1>4. Append(a, Head(o)) = a \o <<Head(o)>> /\ Append(a, Head(o)) \in Seq(S)
  BY <1>1, AppendIsConcat, AppendProperties
<1>5. (a \o <<Head(o)>>) \o Tail(o) = a \o (<<Head(o)>> \o Tail(o))
  BY <1>1, <1>2, ConcatAssociative
<1> QED BY <1>1, <1>3, <1>4, <1>5

\* All that was read is a sequence of message indices, as long as the count of reads.
LEMMA AllReadTyped ==
  ASSUME NEW k, CallTyped(k)
  PROVE  /\ AllRead(k) \in Seq(1..Len(k.msgs)) /\ Len(AllRead(k)) = k.read
         /\ k.read > 0 => AllRead(k) # <<>>
         /\ \A i \in 1..k.read : AllRead(k)[i] = i
<1>1. k.read \in Nat /\ Len(k.msgs) \in Nat /\ k.read <= Len(k.msgs)
  BY DEF CallTyped
<1>2. AllRead(k) \in Seq(1..k.read) /\ Len(AllRead(k)) = k.read
  BY <1>1, Indices DEF AllRead
<1>3. AllRead(k) \in Seq(1..Len(k.msgs))
  BY <1>1, <1>2, SeqMonotonic
<1> QED BY <1>1, <1>2, <1>3 DEF AllRead

\* The mock hands a call over to the upstream leg.
LEMMA HandingOver ==
  ASSUME NEW k, NEW h, NEW u, NEW p, NEW a, CallInv(k, h, u, p, a), NEW j,
         k.at \in Mocking \ {"forward", "deleting"},
         Sets(j, k, {"at", "prefetched", "missed", "last"}),
         j.at = "forward", j.last \in Ids \cup {NoId},
         k.kind # "bidi" =>
           /\ k.at # "new"
           /\ \/ j.prefetched = AllRead(k)
              \/ j.prefetched = <<>> /\ k.body # NoStub /\ j.missed = k.missed
           /\ k.body # NoStub => a \in {<<>>, Prepared(k.body)},
         k.kind = "bidi" =>
           \/ j.prefetched \in {<<>>, k.prefetched}
           \/ k.at = "select" /\ j.prefetched = <<k.read>>
  PROVE  CallInv(j, h, u, p, a)
<1>0. /\ h = <<>> /\ u = <<>> /\ k.resps = 0 /\ k.req = "off" /\ k.resp = "off"
      /\ k.upCode = "none"
  BY DEF CallInv, Placed, Mocking
<1>1. CallTyped(j)
  <2>1. j.msgs = k.msgs /\ Len(k.msgs) \in Nat /\ k.prefetched \in Seq(1..Len(k.msgs))
    BY DEF CallInv, CallTyped, Sets
  <2>2. k.kind = "bidi" /\ k.at = "select" => <<k.read>> \in Seq(1..Len(k.msgs))
    <3>0. k.read \in 0..Len(k.msgs) /\ Len(k.msgs) \in Nat /\ k.served \in Nat /\ Splitting(k, u)
      BY DEF CallInv, CallTyped
    <3>1. k.kind = "bidi" /\ k.at = "select" => k.served < k.read
      BY <3>0 DEF Splitting
    <3>2. k.kind = "bidi" /\ k.at = "select" => k.read \in 1..Len(k.msgs)
      BY ONLY <3>0, <3>1
    <3> QED BY <3>2
  <2>3. j.prefetched \in Seq(1..Len(k.msgs))
    BY <2>1, <2>2, AllReadTyped, NoElements DEF CallInv
  <2> QED BY <2>1, <2>3 DEF CallInv, CallTyped, Sets
<1>2. Placed(j, h, u)
  BY <1>0 DEF CallInv, CallTyped, Placed, Sets, Mocking
<1>3. Story(j, h, u)
  BY <1>0 DEF CallInv, CallTyped, Placed, Story, Sets
<1>4. Carrying(j, h, a)
  BY <1>0 DEF CallInv, CallTyped, Placed, Carrying, Sets
<1>5. Capturing(j, p, u)
  BY <1>0 DEF CallInv, CallTyped, Placed, Capturing, Sets, Mocking
<1>6. Splitting(j, u)
  <2>1. CASE k.kind = "bidi"
    BY <1>0, <2>1 DEF CallInv, CallTyped, Placed, Splitting, Sets
  <2>2. CASE k.kind # "bidi"
    <3>1. k.read = Len(k.msgs) /\ ~k.missed /\ AllRead(j) = AllRead(k)
      BY <2>2 DEF CallInv, Placed, Splitting, Mocking, AllRead, Sets
    <3>2. k.msgs # <<>> => k.read > 0
      BY <3>1, EmptySeq DEF CallInv, CallTyped
    <3>3. k.msgs # <<>> => AllRead(k) # <<>>
      BY <3>2, AllReadTyped DEF CallInv
    <3> QED BY <1>0, <2>2, <3>1, <3>3 DEF CallInv, CallTyped, Placed, Splitting, Sets
  <2> QED BY <2>1, <2>2
<1> QED BY <1>1, <1>2, <1>3, <1>4, <1>5, <1>6 DEF CallInv

\* A search found a stub of the storage.
LEMMA Matching ==
  ASSUME NEW k, NEW h, NEW u, NEW p, NEW a, CallInv(k, h, u, p, a), NEW j,
         k.at = "search",
         Sets(j, k, {"at", "stub", "body"}),
         j.at = "matched", j.stub \in Ids, j.body \in StubValues
  PROVE  CallInv(j, h, u, p, a)
<1>0. j.body # NoStub /\ k.at \in Mocking /\ j.at \in Mocking
  BY CallsAssumption DEF Mocking
<1>1. CallTyped(j)
  BY DEF CallInv, CallTyped, Sets
<1>2. Placed(j, h, u)
  BY <1>0 DEF CallInv, CallTyped, Placed, Sets
<1>3. Story(j, h, u)
  BY <1>0 DEF CallInv, CallTyped, Placed, Story, Sets
<1>4. Carrying(j, h, a)
  BY <1>0 DEF CallInv, CallTyped, Placed, Carrying, Sets
<1>5. Capturing(j, p, u)
  BY <1>0 DEF CallInv, CallTyped, Placed, Capturing, Sets
<1>6. Splitting(j, u)
  BY <1>0 DEF CallInv, CallTyped, Placed, Splitting, AllRead, Sets
<1> QED BY <1>1, <1>2, <1>3, <1>4, <1>5, <1>6 DEF CallInv

\* The prepared operations of a stub are operations.
LEMMA PreparedTyped ==
  ASSUME NEW b \in StubValues
  PROVE  Prepared(b) \in Seq(Operation)
BY NoElements DEF Prepared, StubValues, Operation

\* The effects of the matched stub are prepared.
LEMMA Preparing ==
  ASSUME NEW k, NEW h, NEW u, NEW p, NEW a, CallInv(k, h, u, p, a), NEW j,
         k.at = "matched",
         Sets(j, k, {"at", "ops"}),
         j.at = "effects", j.ops = Prepared(k.body)
  PROVE  CallInv(j, h, u, p, a)
<1>0. /\ k.at \in Mocking /\ j.at \in Mocking /\ k.body \in StubValues
      /\ j.ops \in Seq(Operation)
  BY PreparedTyped DEF Mocking, CallInv, CallTyped, Carrying
<1>1. CallTyped(j)
  BY <1>0 DEF CallInv, CallTyped, Sets
<1>2. Placed(j, h, u)
  BY <1>0 DEF CallInv, CallTyped, Placed, Sets
<1>3. Story(j, h, u)
  BY <1>0 DEF CallInv, CallTyped, Placed, Story, Sets
<1>4. Carrying(j, h, a)
  <2>1. <<>> \o j.ops = Prepared(j.body)
    BY <1>0, ConcatEmptySeq DEF Sets
  <2>2. Carrying(k, h, a) /\ CallTyped(k)
    BY DEF CallInv
  <2>3. h = <<>> /\ (k.kind # "bidi" => a = <<>> /\ k.sent = 0)
    BY <1>0, <2>2 DEF Carrying, CallInv, Placed
  <2> QED BY <1>0, <2>1, <2>2, <2>3 DEF Carrying, Sets
<1>5. Capturing(j, p, u)
  BY <1>0 DEF CallInv, CallTyped, Placed, Capturing, Sets
<1>6. Splitting(j, u)
  BY <1>0 DEF CallInv, CallTyped, Placed, Splitting, AllRead, Sets
<1> QED BY <1>1, <1>2, <1>3, <1>4, <1>5, <1>6 DEF CallInv

\* An operation of the effects is carried out, or skipped by a delete that may not.
LEMMA CarryingOut ==
  ASSUME NEW k, NEW h, NEW u, NEW p, NEW a, CallInv(k, h, u, p, a), NEW j,
         k.at \in {"effects", "deleting"}, k.ops # <<>>,
         Sets(j, k, {"at", "ops"}),
         j.at = "effects", j.ops = Tail(k.ops)
  PROVE  CallInv(j, h, u, p, Append(a, Head(k.ops)))
<1> DEFINE b == Append(a, Head(k.ops))
<1>0. /\ k.at \in Mocking /\ j.at \in Mocking
      /\ k.ops \in Seq(Operation) /\ a \in Seq(Operation)
  BY DEF Mocking, CallInv, CallTyped, Carrying
<1>b. b \in Seq(Operation) /\ j.ops \in Seq(Operation) /\ b \o j.ops = a \o k.ops
  <2>1. \A s, o \in Seq(Operation) : o # <<>> =>
          /\ Append(s, Head(o)) \in Seq(Operation) /\ Tail(o) \in Seq(Operation)
          /\ Append(s, Head(o)) \o Tail(o) = s \o o
    BY HeadThenTail
  <2> QED BY <1>0, <2>1, Zenon
<1> HIDE DEF b
<1>1. CallTyped(j)
  BY <1>0, <1>b DEF CallInv, CallTyped, Sets
<1>2. Placed(j, h, u)
  BY <1>0 DEF CallInv, CallTyped, Placed, Sets
<1>3. Story(j, h, u)
  BY <1>0 DEF CallInv, CallTyped, Placed, Story, Sets
<1>4. Carrying(j, h, b)
  <2>1. h = <<>>
    BY DEF CallInv, Placed
  <2>2. k.kind # "bidi" => k.sent = 0
    BY DEF CallInv, CallTyped, Carrying
  <2> QED BY <1>0, <1>b, <2>1, <2>2 DEF CallInv, CallTyped, Placed, Carrying, Sets
<1>5. Capturing(j, p, u)
  BY <1>0 DEF CallInv, CallTyped, Placed, Capturing, Sets
<1>6. Splitting(j, u)
  BY <1>0 DEF CallInv, CallTyped, Placed, Splitting, AllRead, Sets
<1>7. CallInv(j, h, u, p, b)
  BY <1>1, <1>2, <1>3, <1>4, <1>5, <1>6 DEF CallInv
<1> QED BY <1>7 DEF b

\* A delete effect has found a stub that it may delete.
LEMMA Targeting ==
  ASSUME NEW k, NEW h, NEW u, NEW p, NEW a, CallInv(k, h, u, p, a), NEW j,
         k.at = "effects", k.ops # <<>>,
         Sets(j, k, {"at"}),
         j.at = "deleting"
  PROVE  CallInv(j, h, u, p, a)
<1>0. k.at \in Mocking /\ j.at \in Mocking
  BY DEF Mocking
<1>1. CallTyped(j)
  BY <1>0 DEF CallInv, CallTyped, Sets
<1>2. Placed(j, h, u)
  BY <1>0 DEF CallInv, CallTyped, Placed, Sets
<1>3. Story(j, h, u)
  BY <1>0 DEF CallInv, CallTyped, Placed, Story, Sets
<1>4. Carrying(j, h, a)
  <2>1. h = <<>>
    BY DEF CallInv, Placed
  <2>2. k.kind # "bidi" => k.sent = 0
    BY DEF CallInv, CallTyped, Carrying
  <2> QED BY <1>0, <2>1, <2>2 DEF CallInv, CallTyped, Placed, Carrying, Sets
<1>5. Capturing(j, p, u)
  BY <1>0 DEF CallInv, CallTyped, Placed, Capturing, Sets
<1>6. Splitting(j, u)
  BY <1>0 DEF CallInv, CallTyped, Placed, Splitting, AllRead, Sets
<1> QED BY <1>1, <1>2, <1>3, <1>4, <1>5, <1>6 DEF CallInv

\* What is carried out before an answer is all that was prepared.
LEMMA EffectsPrepared ==
  ASSUME NEW k, NEW h, NEW a, CallTyped(k), Carrying(k, h, a), k.at = "effects", k.ops = <<>>
  PROVE  k.body \in StubValues /\ k.body # NoStub /\ (k.kind # "bidi" => a = Prepared(k.body))
BY ConcatEmptySeq DEF CallTyped, Carrying

\* An element of a server stream is sent.
LEMMA Sending ==
  ASSUME NEW k, NEW h, NEW u, NEW p, NEW a, CallInv(k, h, u, p, a), NEW j,
         k.at = "effects", k.ops = <<>>, k.kind # "bidi",
         Sets(j, k, {"sent"}), j.sent \in Nat
  PROVE  CallInv(j, h, u, p, a)
<1>0. /\ k.at \in Mocking /\ j.at \in Mocking /\ a = Prepared(k.body) /\ k.body # NoStub
      /\ j.at = "effects" /\ j.ops = <<>> /\ j.body = k.body
  BY EffectsPrepared DEF Mocking, CallInv, Sets
<1>1. CallTyped(j)
  BY <1>0 DEF CallInv, CallTyped, Sets
<1>2. Placed(j, h, u)
  BY <1>0 DEF CallInv, CallTyped, Placed, Sets
<1>3. Story(j, h, u)
  BY <1>0 DEF CallInv, CallTyped, Placed, Story, Sets
<1>4. Carrying(j, h, a)
  BY <1>0 DEF CallInv, CallTyped, Placed, Carrying, Sets
<1>5. Capturing(j, p, u)
  BY <1>0 DEF CallInv, CallTyped, Placed, Capturing, Sets
<1>6. Splitting(j, u)
  BY <1>0 DEF CallInv, CallTyped, Placed, Splitting, AllRead, Sets
<1> QED BY <1>1, <1>2, <1>3, <1>4, <1>5, <1>6 DEF CallInv

\* The client leaves, or the upstream sends its header.
LEMMA Leaving ==
  ASSUME NEW k, NEW h, NEW u, NEW p, NEW a, CallInv(k, h, u, p, a), NEW j,
         Sets(j, k, {"gone", "header"}), j.gone = TRUE \/ j.gone = k.gone
  PROVE  CallInv(j, h, u, p, a)
<1>0. /\ j.kind = k.kind /\ j.session = k.session /\ j.mode = k.mode /\ j.msgs = k.msgs
      /\ j.at = k.at /\ j.read = k.read /\ j.stub = k.stub /\ j.body = k.body /\ j.ops = k.ops
      /\ j.sent = k.sent /\ j.code = k.code /\ j.missed = k.missed
      /\ j.prefetched = k.prefetched /\ j.reqs = k.reqs /\ j.resps = k.resps /\ j.ups = k.ups
      /\ j.upCode = k.upCode /\ j.served = k.served /\ j.last = k.last
      /\ j.req = k.req /\ j.resp = k.resp /\ j.bidiCancel = k.bidiCancel
      /\ j.snapReqs = k.snapReqs /\ j.snapResps = k.snapResps
  BY DEF Sets
<1>1. CallTyped(j)
  BY DEF CallInv, CallTyped, Sets
<1>2. Placed(j, h, u)
  BY <1>0 DEF CallInv, Placed
<1>3. Story(j, h, u)
  BY <1>0 DEF CallInv, Story, Unknowable
<1>4. Carrying(j, h, a)
  BY <1>0 DEF CallInv, Carrying
<1>5. Capturing(j, p, u)
  BY <1>0 DEF CallInv, Capturing
<1>6. Splitting(j, u)
  BY <1>0 DEF CallInv, Splitting, AllRead
<1> QED BY <1>1, <1>2, <1>3, <1>4, <1>5, <1>6 DEF CallInv

\* The upstream gets what was read, or the first n messages of it.
LEMMA Forwarding ==
  ASSUME NEW k, NEW h, NEW u, NEW p, NEW a, CallInv(k, h, u, p, a), NEW j, NEW v,
         k.at = "forward", k.kind # "bidi",
         Sets(j, k, {"at", "reqs", "upCode"}), j.reqs \in Nat,
         \/ j.at = "upstream" /\ v = k.prefetched /\ j.upCode = k.upCode
         \/ /\ j.at = "record" \/ (j.at = "capture" /\ k.mode = "capture")
            /\ \E n \in 0..Len(k.prefetched) : v = SubSeq(k.prefetched, 1, n)
            /\ j.upCode = "Aborted"
  PROVE  CallInv(j, h, v, p, a)
<1>0. /\ u = <<>> /\ h = <<>> /\ k.resps = 0 /\ k.upCode = "none" /\ k.at \in Mocking
      /\ k.req = "off" /\ k.resp = "off"
  BY DEF Mocking, CallInv, Placed
<1>1. CallTyped(j)
  BY <1>0 DEF CallInv, CallTyped, Sets, UpstreamCodes
<1>2. Placed(j, h, v)
  BY <1>0 DEF CallInv, CallTyped, Placed, Sets, Mocking
<1>3. Story(j, h, v)
  BY <1>0 DEF CallInv, CallTyped, Placed, Story, Sets
<1>4. Carrying(j, h, a)
  BY <1>0 DEF CallInv, CallTyped, Placed, Carrying, Sets
<1>5. Capturing(j, p, v)
  BY <1>0 DEF CallInv, CallTyped, Placed, Capturing, Sets
<1>6. Splitting(j, v)
  <2>1. /\ k.prefetched \in Seq(1..Len(k.msgs)) /\ k.served = 0 /\ k.read \in Nat
        /\ k.prefetched \in {<<>>, AllRead(k)} /\ AllRead(j) = AllRead(k)
    BY DEF CallInv, CallTyped, Splitting, AllRead, Sets
  <2>2. \A i \in 1..Len(k.prefetched) : k.prefetched[i] = i /\ i <= k.read
    BY <2>1, AllReadTyped DEF CallInv
  <2>3. /\ v \in Seq(1..Len(k.msgs))
        /\ Len(v) \in Nat /\ Len(v) <= Len(k.prefetched)
        /\ \A i \in 1..Len(v) : v[i] = i /\ i <= k.read
    <3>1. CASE v = k.prefetched
      BY <3>1, <2>1, <2>2
    <3>2. CASE \E n \in 0..Len(k.prefetched) : v = SubSeq(k.prefetched, 1, n)
      <4>1. PICK n \in 0..Len(k.prefetched) : v = SubSeq(k.prefetched, 1, n)
        BY <3>2
      <4>2. n \in Nat /\ n <= Len(k.prefetched) /\ \A i \in 1..n : i \in 1..Len(k.prefetched)
        BY <2>1, <4>1
      <4>3. \A i \in 1..n : k.prefetched[i] \in 1..Len(k.msgs)
        BY <2>1, <4>2, ElementOfSeq
      <4>4. /\ v \in Seq(1..Len(k.msgs)) /\ Len(v) = IF 1 <= n THEN n - 1 + 1 ELSE 0
            /\ \A i \in 1..n - 1 + 1 : v[i] = k.prefetched[1 + i - 1]
        BY <4>1, <4>3, SubSeqProperties
      <4> QED BY <4>2, <4>4, <2>2
    <3> QED BY <3>1, <3>2
  <2>4. /\ \A i \in 1..Len(v) : v[i] > j.served /\ v[i] <= j.read
        /\ \A i, m \in 1..Len(v) : i < m => v[i] < v[m]
        /\ v \in Seq(1..Len(j.msgs))
    BY <2>1, <2>3 DEF Sets
  <2>5. CASE j.at = "upstream"
    BY <1>0, <2>1, <2>4, <2>5 DEF CallInv, CallTyped, Placed, Splitting, Sets
  <2>6. CASE j.at \in {"capture", "record"} /\ j.upCode = "Aborted"
    BY <1>0, <2>1, <2>4, <2>6 DEF CallInv, CallTyped, Placed, Splitting, Sets
  <2> QED BY <2>5, <2>6
<1> QED BY <1>1, <1>2, <1>3, <1>4, <1>5, <1>6 DEF CallInv

\* A response of the upstream, or the end of the upstream call.
LEMMA UpstreamAnswering ==
  ASSUME NEW k, NEW h, NEW u, NEW p, NEW a, CallInv(k, h, u, p, a), NEW j,
         k.at = "upstream",
         Sets(j, k, {"at", "resps", "ups", "upCode"}),
         j.resps \in 0..MaxUp, j.ups \in 0..j.resps,
         \/ j.at = "upstream" /\ k.kind = "server" /\ j.upCode = "none" /\ j.resps = j.ups
         \/ j.at = "record" /\ j.upCode \in UpstreamCodes
         \/ j.at = "capture" /\ k.mode = "capture" /\ j.upCode \in UpstreamCodes /\ j.resps = j.ups
  PROVE  CallInv(j, h, u, p, a)
<1>0. k.kind # "bidi" /\ h = <<>> /\ j.at \notin Mocking \cup {"done"}
  BY DEF CallInv, Placed, Mocking
<1>1. CallTyped(j)
  BY DEF CallInv, CallTyped, Sets
<1>2. Placed(j, h, u)
  BY <1>0 DEF CallInv, CallTyped, Placed, Sets, UpstreamCodes
<1>3. Story(j, h, u)
  BY <1>0 DEF CallInv, CallTyped, Placed, Story, Sets
<1>4. Carrying(j, h, a)
  BY <1>0 DEF CallInv, CallTyped, Placed, Carrying, Sets
<1>5. Capturing(j, p, u)
  BY <1>0 DEF CallInv, CallTyped, Placed, Capturing, Sets
<1>6. Splitting(j, u)
  BY <1>0 DEF CallInv, CallTyped, Placed, Splitting, AllRead, Sets
<1> QED BY <1>1, <1>2, <1>3, <1>4, <1>5, <1>6 DEF CallInv

\* What was passed on becomes a stub.
LEMMA Storing ==
  ASSUME NEW k, NEW h, NEW u, NEW p, NEW a, CallInv(k, h, u, p, a), NEW j, NEW r,
         Sets(j, k, {"at"}), j.at = "record",
         r.session = k.session, r.len \in Nat, r.inputs \in Nat,
         \/ k.at = "capture" /\ k.kind # "bidi" /\ r.len = k.resps
         \/ k.at = "storing" /\ r.inputs = k.snapReqs /\ r.len = k.snapResps
  PROVE  CallInv(j, h, u, Append(p, r), a)
<1> DEFINE q == Append(p, r)
<1>0. /\ p = <<>> /\ h = <<>> /\ j.at \notin Mocking \cup {"done"}
      /\ k.at \notin Mocking \cup {"await"} /\ k.mode = "capture"
      /\ k.at = "storing" => k.kind = "bidi"
  BY DEF CallInv, Placed, Capturing, Mocking
<1>q. Len(q) = 1 /\ q[1] = r /\ q # <<>>
  BY <1>0, FirstRecord
<1> HIDE DEF q
<1>1. CallTyped(j)
  BY DEF CallInv, CallTyped, Sets
<1>2. Placed(j, h, u)
  BY <1>0 DEF CallInv, CallTyped, Placed, Sets
<1>3. Story(j, h, u)
  BY <1>0 DEF CallInv, CallTyped, Placed, Story, Sets
<1>4. Carrying(j, h, a)
  BY <1>0 DEF CallInv, CallTyped, Placed, Carrying, Sets
<1>5. Capturing(j, q, u)
  <2>1. /\ j.mode = "capture" /\ j.kind = k.kind /\ j.session = k.session
        /\ j.req = k.req /\ j.resp = k.resp /\ j.reqs = k.reqs /\ j.resps = k.resps
        /\ j.ups = k.ups /\ j.bidiCancel = k.bidiCancel
    BY <1>0 DEF Sets
  <2>2. Capturing(k, p, u)
    BY DEF CallInv
  <2> QED BY <1>0, <1>q, <2>1, <2>2 DEF Capturing
<1>6. Splitting(j, u)
  BY <1>0 DEF CallInv, CallTyped, Placed, Splitting, AllRead, Sets
<1>7. CallInv(j, h, u, q, a)
  BY <1>1, <1>2, <1>3, <1>4, <1>5, <1>6 DEF CallInv
<1> QED BY <1>7 DEF q

\* The upstream leg of a call ends: its record tells the upstream's status, or the call broke.
Ended(j, k) ==
  /\ k.at \in {"record", "recording"}
  /\ Sets(j, k, {"at", "code", "gone"}) /\ j.at = "done" /\ j.code \in Codes
  /\ \/ k.kind # "bidi" /\ j.code = k.upCode
     \/ j.gone = TRUE

\* The record of the upstream leg ends the call.
LEMMA Recording ==
  ASSUME NEW k, NEW h, NEW u, NEW p, NEW a, CallInv(k, h, u, p, a), NEW j, NEW r,
         Ended(j, k), r.stub = NoId, r.code = j.code
  PROVE  CallInv(j, Append(h, r), u, p, a)
<1> DEFINE g == Append(h, r)
<1>0. /\ k.at \in {"record", "recording"}
      /\ Sets(j, k, {"at", "code", "gone"}) /\ j.at = "done" /\ j.code \in Codes
      /\ \/ k.kind # "bidi" /\ j.code = k.upCode
         \/ j.gone = TRUE
  BY DEF Ended
<1>r. Len(g) = 1 /\ g[1] = r /\ g # <<>> /\ h = <<>>
  BY <1>0, FirstRecord DEF CallInv, Placed
<1> HIDE DEF g
<1>1. CallTyped(j)
  BY <1>0 DEF CallInv, CallTyped, Sets
<1>2. Placed(j, g, u)
  BY <1>0 DEF CallInv, CallTyped, Placed, Sets, Mocking
<1>3. Story(j, g, u)
  BY <1>0, <1>r DEF CallInv, CallTyped, Placed, Story, Sets
<1>4. Carrying(j, g, a)
  BY <1>0, <1>r DEF CallInv, CallTyped, Placed, Carrying, Sets
<1>5. Capturing(j, p, u)
  <2>1. Capturing(k, p, u) /\ k.at \notin Mocking /\ j.at \notin Mocking
    BY <1>0 DEF CallInv, Mocking
  <2> QED BY <1>0, <2>1 DEF Capturing, Sets
<1>6. Splitting(j, u)
  <2>1. /\ AllRead(j) = AllRead(k) /\ j.kind = k.kind /\ j.mode = k.mode /\ j.msgs = k.msgs
        /\ j.body = k.body /\ j.read = k.read /\ j.served = k.served /\ j.missed = k.missed
        /\ j.prefetched = k.prefetched /\ j.upCode = k.upCode
    BY <1>0 DEF Sets, AllRead
  <2>2. Splitting(k, u) /\ (k.kind # "bidi" => k.at = "record")
    BY <1>0 DEF CallInv, Placed
  <2> QED BY <1>0, <2>1, <2>2 DEF Splitting
<1>7. CallInv(j, g, u, p, a)
  BY <1>1, <1>2, <1>3, <1>4, <1>5, <1>6 DEF CallInv
<1> QED BY <1>7 DEF g

----------------------------------------------------------------------------
(* Bidirectional streams.                                                  *)

\* The search goes on: a stream opens, a message narrows the stubs, a stub that
\* has no use left is dropped, or one is reserved.
LEMMA Narrowing ==
  ASSUME NEW k, NEW h, NEW u, NEW p, NEW a, CallInv(k, h, u, p, a), NEW j,
         k.kind = "bidi",
         Sets(j, k, {"at", "read", "matching", "stub", "body"}),
         j.matching \subseteq Ids \X StubValues,
         \/ k.at = "new" /\ j.at = "loop" /\ j.read = k.read
            /\ j.body = k.body /\ j.stub = k.stub
         \/ k.at = "loop" /\ j.at = "select" /\ k.read < Len(k.msgs) /\ j.read = k.read + 1
            /\ j.body = k.body /\ j.stub = k.stub
         \/ k.at = "select" /\ j.at \in {"select", "matched"} /\ j.read = k.read
            /\ j.body \in StubValues \cup {NoStub} /\ j.stub \in Ids \cup {NoId}
            /\ (j.at = "matched" => j.body \in StubValues)
  PROVE  CallInv(j, h, u, p, a)
<1>0. /\ k.at \in Mocking /\ j.at \in Mocking /\ j.at \notin {"new", "search", "forward"}
      /\ (j.at = "matched" => j.body # NoStub) /\ u = <<>>
  BY CallsAssumption DEF Mocking, CallInv, Placed
<1>1. CallTyped(j)
  BY SMTT(30) DEF CallInv, CallTyped, Sets
<1>2. Placed(j, h, u)
  BY <1>0 DEF CallInv, CallTyped, Placed, Sets
<1>3. Story(j, h, u)
  BY <1>0 DEF CallInv, CallTyped, Placed, Story, Sets
<1>4. Carrying(j, h, a)
  BY <1>0 DEF CallInv, CallTyped, Placed, Carrying, Sets
<1>5. Capturing(j, p, u)
  BY <1>0 DEF CallInv, CallTyped, Placed, Capturing, Sets
<1>6. Splitting(j, u)
  BY <1>0 DEF CallInv, CallTyped, Placed, Splitting, Sets
<1> QED BY <1>1, <1>2, <1>3, <1>4, <1>5, <1>6 DEF CallInv

\* A stub has answered a message, and the stream goes on.
LEMMA AnsweringOn ==
  ASSUME NEW k, NEW h, NEW u, NEW p, NEW a, CallInv(k, h, u, p, a), NEW j,
         k.at = "effects", k.kind = "bidi",
         Sets(j, k, {"at", "sent", "served", "last"}),
         j.at = "loop", j.sent \in Nat, j.served = k.served + 1, j.last \in Ids \cup {NoId}
  PROVE  CallInv(j, h, u, p, a)
<1>0. /\ k.at \in Mocking /\ j.at \in Mocking /\ u = <<>>
      /\ k.served < k.read /\ k.prefetched = <<>>
  BY DEF Mocking, CallInv, Placed, Splitting
<1>1. CallTyped(j)
  BY SMTT(30) DEF CallInv, CallTyped, Sets
<1>2. Placed(j, h, u)
  BY <1>0 DEF CallInv, CallTyped, Placed, Sets
<1>3. Story(j, h, u)
  BY <1>0 DEF CallInv, CallTyped, Placed, Story, Sets
<1>4. Carrying(j, h, a)
  BY <1>0 DEF CallInv, CallTyped, Placed, Carrying, Sets
<1>5. Capturing(j, p, u)
  BY <1>0 DEF CallInv, CallTyped, Placed, Capturing, Sets
<1>6. Splitting(j, u)
  BY <1>0 DEF CallInv, CallTyped, Placed, Splitting, Sets
<1> QED BY <1>1, <1>2, <1>3, <1>4, <1>5, <1>6 DEF CallInv

\* The pumps of a proxied stream start, or the upstream call cannot be opened.
LEMMA Piping ==
  ASSUME NEW k, NEW h, NEW u, NEW p, NEW a, CallInv(k, h, u, p, a), NEW j,
         k.at = "forward", k.kind = "bidi",
         Sets(j, k, {"at", "req", "resp", "reqErr"}),
         j.reqErr \in Codes \cup {"none"},
         \/ j.at = "await" /\ j.req = "run" /\ j.resp = "run"
         \/ j.at = "record" /\ j.req = k.req /\ j.resp = k.resp
  PROVE  CallInv(j, h, u, p, a)
<1>0. k.at \in Mocking /\ j.at \notin Mocking \cup {"done"} /\ u = <<>> /\ h = <<>>
  BY DEF Mocking, CallInv, Placed
<1>1. CallTyped(j)
  BY DEF CallInv, CallTyped, Sets
<1>2. Placed(j, h, u)
  BY <1>0 DEF CallInv, CallTyped, Placed, Sets
<1>3. Story(j, h, u)
  BY <1>0 DEF CallInv, CallTyped, Placed, Story, Sets
<1>4. Carrying(j, h, a)
  BY <1>0 DEF CallInv, CallTyped, Placed, Carrying, Sets
<1>5. Capturing(j, p, u)
  BY <1>0 DEF CallInv, CallTyped, Placed, Capturing, Sets
<1>6. Splitting(j, u)
  BY <1>0 DEF CallInv, CallTyped, Placed, Splitting, Sets
<1> QED BY <1>1, <1>2, <1>3, <1>4, <1>5, <1>6 DEF CallInv

\* The pump of the requests takes the next message, which reaches the upstream or not.
Takes(j, k, v, u) ==
  \E next :
    /\ \/ /\ k.prefetched # <<>> /\ next = Head(k.prefetched)
          /\ j.prefetched = Tail(k.prefetched) /\ j.read = k.read
       \/ /\ k.prefetched = <<>> /\ next = k.read + 1 /\ k.read < Len(k.msgs)
          /\ j.prefetched = k.prefetched /\ j.read = k.read + 1
    /\ v = u \/ v = Append(u, next)

\* The pump of the requests takes a message and goes on or ends.
LEMMA PumpingRequest ==
  ASSUME NEW k, NEW h, NEW u, NEW p, NEW a, CallInv(k, h, u, p, a), NEW j, NEW v,
         k.req = "run",
         Sets(j, k, {"prefetched", "read", "reqs", "req", "reqErr"}),
         j.req \in {"run", "done"}, j.reqErr \in Codes \cup {"none"},
         \/ Takes(j, k, v, u)
         \/ j.prefetched = k.prefetched /\ j.read = k.read /\ v = u,
         j.reqs = k.reqs + 1 \/ (j.reqs = k.reqs /\ v = u),
         j.req = "run" => k.bidiCancel # TRUE /\ v # u /\ j.reqs = k.reqs + 1
  PROVE  CallInv(j, h, v, p, a)
<1>t. PICK next :
        /\ \/ /\ k.prefetched # <<>> /\ next = Head(k.prefetched)
              /\ j.prefetched = Tail(k.prefetched) /\ j.read = k.read
           \/ /\ k.prefetched = <<>> /\ next = k.read + 1 /\ k.read < Len(k.msgs)
              /\ j.prefetched = k.prefetched /\ j.read = k.read + 1
           \/ j.prefetched = k.prefetched /\ j.read = k.read /\ v = u
        /\ v = u \/ v = Append(u, next)
  BY DEF Takes
<1>0. k.kind = "bidi" /\ k.at \notin Mocking \cup {"upstream"}
  BY DEF CallInv, Placed
<1>p. k.prefetched # <<>> =>
        /\ Head(k.prefetched) = k.read /\ Tail(k.prefetched) = <<>> /\ u = <<>>
        /\ k.served < k.read /\ k.prefetched = <<k.read>>
  <2>1. k.prefetched # <<>> => k.prefetched = <<k.read>> /\ k.served < k.read /\ u = <<>>
    BY <1>0 DEF CallInv, Splitting
  <2> QED BY <2>1, OneElement
<1>r. /\ j.prefetched \in {<<>>, k.prefetched}
      /\ k.prefetched # <<>> => j.read = k.read
      /\ j.read = k.read \/ (j.read = k.read + 1 /\ k.read < Len(k.msgs))
  BY <1>t, <1>p
<1>l. Len(v) \in {Len(u), Len(u) + 1} /\ (v # u => Len(v) = Len(u) + 1) /\ Len(u) \in Nat
  <2>1. u \in Seq(1..Len(k.msgs))
    BY DEF CallInv, Splitting
  <2>2. Len(u) \in Nat /\ (v = Append(u, next) => Len(v) = Len(u) + 1)
    BY <2>1
  <2> QED BY <1>t, <2>2
<1>1. CallTyped(j)
  <2>1. /\ k.prefetched \in Seq(1..Len(k.msgs)) /\ k.read \in 0..Len(k.msgs)
        /\ Len(k.msgs) \in Nat /\ j.msgs = k.msgs
    BY DEF CallInv, CallTyped, Sets
  <2>2. j.prefetched \in Seq(1..Len(k.msgs))
    <3>1. <<>> \in Seq(1..Len(k.msgs))
      BY NoElements
    <3> QED BY <1>r, <2>1, <3>1
  <2>3. j.read \in 0..Len(k.msgs)
    BY <1>r, <2>1
  <2>4. j.reqs \in Nat
    BY DEF CallInv, CallTyped
  <2> QED BY <2>1, <2>2, <2>3, <2>4 DEF CallInv, CallTyped, Sets
<1>2. Placed(j, h, v)
  BY <1>t, <1>0 DEF CallInv, CallTyped, Placed, Sets
<1>3. Story(j, h, v)
  BY <1>t, <1>0 DEF CallInv, CallTyped, Placed, Story, Sets
<1>4. Carrying(j, h, a)
  BY <1>0 DEF CallInv, CallTyped, Placed, Carrying, Sets
<1>5. Capturing(j, p, v)
  <2>1. /\ j.kind = k.kind /\ j.at = k.at /\ j.mode = k.mode /\ j.session = k.session
        /\ j.resp = k.resp /\ j.resps = k.resps /\ j.ups = k.ups /\ j.bidiCancel = k.bidiCancel
        /\ j.snapReqs = k.snapReqs /\ j.snapResps = k.snapResps
    BY DEF Sets
  <2>2. /\ Capturing(k, p, u) /\ k.reqs \in Nat /\ k.snapReqs \in Nat /\ k.kind = "bidi"
        /\ k.at \notin Mocking
    BY <1>0 DEF CallInv, CallTyped
  <2>3. k.reqs = Len(u)
    BY <2>2 DEF Capturing
  <2>4. j.reqs - Len(v) \in {0, 1} /\ (j.req # "done" => j.reqs = Len(v))
    <3>1. Len(u) \in Nat /\ Len(v) \in {Len(u), Len(u) + 1}
      BY <1>l
    <3>2. \/ j.reqs = Len(u) + 1 /\ (j.req # "done" => Len(v) = Len(u) + 1)
          \/ j.reqs = Len(u) /\ Len(v) = Len(u) /\ j.req = "done"
      <4>1. CASE j.req = "run"
        <5>1. j.reqs = Len(u) + 1 /\ Len(v) = Len(u) + 1
          BY <1>l, <2>3, <4>1
        <5> QED BY <5>1
      <4>2. CASE j.req = "done" /\ j.reqs = k.reqs + 1
        BY <2>3, <4>2
      <4>3. CASE j.req = "done" /\ j.reqs = k.reqs /\ v = u
        BY <2>3, <4>3
      <4> QED BY <4>1, <4>2, <4>3
    <3> QED BY <3>1, <3>2
  <2>5. k.at # "await" => k.bidiCancel = TRUE /\ j.req = "done"
    BY <2>2 DEF Capturing
  <2>6. ASSUME NEW n \in Nat, k.at # "await", Near(k.req, n, Len(u))
        PROVE  Near(j.req, n, Len(v))
    <3>1. n = Len(u) /\ j.req = "done"
      BY <2>5, <2>6 DEF Near
    <3> QED BY <1>l, <3>1 DEF Near
  <2> QED BY <2>1, <2>2, <2>4, <2>5, <2>6 DEF Capturing
<1>6. Splitting(j, v)
  <2>1. /\ k.served \in Nat /\ k.read \in Nat /\ Len(k.msgs) \in Nat /\ k.read <= Len(k.msgs)
        /\ u \in Seq(1..Len(k.msgs)) /\ k.served <= k.read
        /\ \A i \in 1..Len(u) : u[i] > k.served /\ u[i] <= k.read
        /\ \A i, m \in 1..Len(u) : i < m => u[i] < u[m]
    BY DEF CallInv, CallTyped, Splitting
  <2>2. j.served = k.served /\ j.msgs = k.msgs
    BY DEF Sets
  <2>3. CASE v = u
    <3>1. /\ j.read \in Nat /\ k.read <= j.read
          /\ j.prefetched # <<>> => j.prefetched = <<j.read>> /\ j.served < j.read /\ v = <<>>
      <4>1. CASE k.prefetched = <<>>
        <5>1. j.prefetched = <<>>
          BY <1>t, <4>1
        <5> QED BY <1>t, <2>1, <2>3, <4>1, <5>1
      <4>2. CASE k.prefetched # <<>>
        <5>1. j.read = k.read
          BY <1>r, <4>2
        <5>2. j.prefetched \in {<<>>, <<j.read>>}
          BY <1>r, <1>p, <4>2, <5>1
        <5> QED BY <1>p, <2>1, <2>2, <2>3, <4>2, <5>1, <5>2
      <4> QED BY <4>1, <4>2
    <3>2. \A i \in 1..Len(v) : v[i] > j.served /\ v[i] <= j.read
      <4>1. \A i \in 1..Len(u) : u[i] \in Nat
        BY <2>1, ElementOfSeq
      <4> QED BY <2>1, <2>2, <2>3, <3>1, <4>1
    <3>3. /\ j.kind = "bidi" /\ j.at \notin Mocking /\ j.served <= j.read
          /\ v \in Seq(1..Len(j.msgs)) /\ \A i, m \in 1..Len(v) : i < m => v[i] < v[m]
          /\ j.at = "done" => k.at = "done" /\ j.code = k.code
          /\ j.mode = k.mode /\ j.gone = k.gone /\ j.body = k.body
      BY <1>0, <2>1, <2>2, <2>3, <3>1 DEF Sets
    <3>4. (j.mode \in {"replay", "capture"} /\ j.at = "done" /\ j.code = "NotFound" /\ ~j.gone) =>
            v # <<>> \/ j.body # NoStub \/ j.msgs = <<>>
      BY <2>2, <2>3, <3>3 DEF CallInv, Splitting
    <3> QED BY <3>1, <3>2, <3>3, <3>4 DEF Splitting, Mocking
  <2>4. CASE v # u
    <3>1. /\ v = Append(u, next) /\ next \in 1..Len(k.msgs) /\ next = j.read /\ j.prefetched = <<>>
          /\ k.served < next /\ k.read <= next
          /\ \A i \in 1..Len(u) : u[i] < next
      <4>1. \A i \in 1..Len(u) : u[i] \in Nat
        BY <2>1, ElementOfSeq
      <4>2. CASE k.prefetched # <<>>
        <5>1. /\ next = k.read /\ j.prefetched = <<>> /\ u = <<>> /\ k.served < k.read
              /\ j.read = k.read /\ v = Append(u, next)
          BY <1>t, <1>p, <2>4, <4>2
        <5>2. 1..Len(u) = {}
          BY <5>1
        <5> QED BY <2>1, <5>1, <5>2
      <4>3. CASE k.prefetched = <<>>
        BY <1>t, <2>1, <2>4, <4>1, <4>3
      <4> QED BY <4>2, <4>3
    <3>2. /\ v \in Seq(1..Len(k.msgs)) /\ v # <<>>
          /\ \A i \in 1..Len(v) : v[i] = next \/ (i \in 1..Len(u) /\ v[i] = u[i])
          /\ \A i, m \in 1..Len(v) : i < m => v[i] < v[m]
      BY <2>1, <3>1, AppendedInOrder, AppendProperties
    <3>3. \A i \in 1..Len(v) : v[i] > j.served /\ v[i] <= j.read
      BY <2>1, <2>2, <3>1, <3>2
    <3>4. j.kind = "bidi" /\ j.at \notin Mocking /\ j.served <= j.read
      BY <1>0, <2>1, <2>2, <3>1 DEF Sets
    <3> QED BY <2>2, <3>1, <3>2, <3>3, <3>4 DEF Splitting, Mocking
  <2> QED BY <2>3, <2>4
<1> QED BY <1>1, <1>2, <1>3, <1>4, <1>5, <1>6 DEF CallInv

\* The pump of the responses takes one and passes it on or not, or ends.
LEMMA PumpingResponse ==
  ASSUME NEW k, NEW h, NEW u, NEW p, NEW a, CallInv(k, h, u, p, a), NEW j,
         k.resp = "run",
         Sets(j, k, {"resps", "ups", "resp", "respErr", "upCode"}),
         j.resp \in {"run", "done"}, j.respErr \in Codes \cup {"none"},
         j.upCode \in UpstreamCodes \cup {"none"}, j.resps \in 0..MaxUp,
         \/ j.resps = k.resps + 1 /\ j.ups = k.ups + 1
         \/ j.resps = k.resps + 1 /\ j.ups = k.ups /\ j.resp = "done"
         \/ j.resps = k.resps /\ j.ups = k.ups,
         j.resp = "run" => k.bidiCancel # TRUE
  PROVE  CallInv(j, h, u, p, a)
<1>0. k.kind = "bidi" /\ k.at \notin Mocking \cup {"upstream"} /\ k.resps = k.ups
  BY DEF CallInv, Placed, Capturing
<1>1. CallTyped(j)
  <2>1. CallTyped(k)
    BY DEF CallInv
  <2>2. MaxUp \in Nat /\ k.resps \in 0..MaxUp /\ k.ups \in 0..k.resps /\ k.ups = k.resps
    BY <1>0, <2>1, CallsAssumption DEF CallTyped
  <2>3. j.resps \in 0..MaxUp /\ j.ups \in 0..j.resps
    BY <2>2
  <2> QED BY <2>1, <2>3 DEF CallTyped, Sets
<1>2. Placed(j, h, u)
  BY <1>0 DEF CallInv, CallTyped, Placed, Sets
<1>3. Story(j, h, u)
  BY <1>0 DEF CallInv, CallTyped, Placed, Story, Unknowable, Sets
<1>4. Carrying(j, h, a)
  BY <1>0 DEF CallInv, CallTyped, Placed, Carrying, Sets
<1>5. Capturing(j, p, u)
  <2>1. /\ j.kind = k.kind /\ j.at = k.at /\ j.mode = k.mode /\ j.session = k.session
        /\ j.req = k.req /\ j.reqs = k.reqs /\ j.bidiCancel = k.bidiCancel
        /\ j.snapReqs = k.snapReqs /\ j.snapResps = k.snapResps
    BY DEF Sets
  <2>2. /\ Capturing(k, p, u) /\ k.ups \in Nat /\ k.snapResps \in Nat /\ k.kind = "bidi"
        /\ k.at \notin Mocking
    BY <1>0 DEF CallInv, CallTyped
  <2>4. j.resps - j.ups \in {0, 1} /\ (j.resp # "done" => j.resps = j.ups)
    BY <1>0, <2>2
  <2>5. k.at # "await" => k.bidiCancel = TRUE /\ j.resp = "done"
    BY <2>2 DEF Capturing
  <2>6. ASSUME NEW n \in Nat, k.at # "await", Near(k.resp, n, k.ups)
        PROVE  Near(j.resp, n, j.ups)
    <3>1. n = k.ups /\ j.resp = "done"
      BY <2>5, <2>6 DEF Near
    <3> QED BY <2>2, <3>1 DEF Near
  <2>7. k.at # "upstream"
    BY <1>0
  <2> QED BY <2>1, <2>2, <2>4, <2>5, <2>6, <2>7 DEF Capturing
<1>6. Splitting(j, u)
  BY <1>0 DEF CallInv, CallTyped, Placed, Splitting, Sets
<1> QED BY <1>1, <1>2, <1>3, <1>4, <1>5, <1>6 DEF CallInv

\* The handler stops waiting for the pumps.
LEMMA Awaiting ==
  ASSUME NEW k, NEW h, NEW u, NEW p, NEW a, CallInv(k, h, u, p, a), NEW j,
         k.at = "await",
         Sets(j, k, {"at", "bidiCancel", "reqErr", "respErr"}),
         j.at = "record" \/ (j.at = "capture" /\ k.mode = "capture"),
         j.reqErr \in Codes \cup {"none"}, j.respErr \in Codes \cup {"none"},
         j.bidiCancel = TRUE \/ (k.req # "run" /\ k.resp # "run")
  PROVE  CallInv(j, h, u, p, a)
<1>0. k.kind = "bidi" /\ h = <<>> /\ j.at \notin Mocking \cup {"done"}
  BY DEF CallInv, Placed, Mocking
<1>1. CallTyped(j)
  BY <1>0 DEF CallInv, CallTyped, Sets
<1>2. Placed(j, h, u)
  BY <1>0 DEF CallInv, CallTyped, Placed, Sets
<1>3. Story(j, h, u)
  BY <1>0 DEF CallInv, CallTyped, Placed, Story, Sets
<1>4. Carrying(j, h, a)
  BY <1>0 DEF CallInv, CallTyped, Placed, Carrying, Sets
<1>5. Capturing(j, p, u)
  BY <1>0 DEF CallInv, CallTyped, Placed, Capturing, Sets
<1>6. Splitting(j, u)
  BY <1>0 DEF CallInv, CallTyped, Placed, Splitting, Sets
<1> QED BY <1>1, <1>2, <1>3, <1>4, <1>5, <1>6 DEF CallInv

\* The messages that were passed on are counted, for the capture and for the record.
LEMMA Snapshotting ==
  ASSUME NEW k, NEW h, NEW u, NEW p, NEW a, CallInv(k, h, u, p, a), NEW j,
         k.kind = "bidi",
         Sets(j, k, {"at", "snapReqs", "snapResps"}),
         j.snapReqs = k.reqs, j.snapResps = k.resps,
         \/ k.at = "capture" /\ j.at \in {"storing", "record"}
         \/ k.at = "record" /\ j.at = "recording"
  PROVE  CallInv(j, h, u, p, a)
<1>0. k.at \notin Mocking \cup {"done"} /\ j.at \notin Mocking \cup {"done"} /\ h = <<>>
  BY DEF CallInv, Placed, Mocking
<1>1. CallTyped(j)
  <2>1. CallTyped(k)
    BY DEF CallInv
  <2>2. j.snapReqs \in Nat /\ j.snapResps \in Nat
    BY <2>1, CallsAssumption DEF CallTyped
  <2> QED BY <2>1, <2>2 DEF CallTyped, Sets
<1>2. Placed(j, h, u)
  BY <1>0 DEF CallInv, CallTyped, Placed, Sets
<1>3. Story(j, h, u)
  BY <1>0 DEF CallInv, CallTyped, Placed, Story, Sets
<1>4. Carrying(j, h, a)
  BY <1>0 DEF CallInv, CallTyped, Placed, Carrying, Sets
<1>5. Capturing(j, p, u)
  <2>1. /\ j.kind = k.kind /\ j.mode = k.mode /\ j.session = k.session
        /\ j.req = k.req /\ j.resp = k.resp /\ j.reqs = k.reqs /\ j.resps = k.resps
        /\ j.ups = k.ups /\ j.bidiCancel = k.bidiCancel
    BY DEF Sets
  <2>2. Capturing(k, p, u) /\ k.reqs \in Nat /\ k.resps \in Nat /\ k.ups \in Nat /\ Len(u) \in Nat
    BY DEF CallInv, CallTyped, Splitting
  <2>3. Near(k.req, k.reqs, Len(u)) /\ Near(k.resp, k.resps, k.ups)
    BY <2>2 DEF Capturing, Near
  <2> QED BY <1>0, <2>1, <2>2, <2>3 DEF Capturing
<1>6. Splitting(j, u)
  BY <1>0 DEF CallInv, CallTyped, Placed, Splitting, Sets
<1> QED BY <1>1, <1>2, <1>3, <1>4, <1>5, <1>6 DEF CallInv

----------------------------------------------------------------------------
(* Every action keeps the invariant.                                       *)

\* A step of call c keeps the invariant of c and leaves the other calls alone.
Kept(c) ==
  /\ StubsTyped' /\ Domains' /\ Inv(c)'
  /\ \A d \in Calls \ {c} :
       /\ call'[d] = call[d] /\ history'[d] = history[d] /\ upstream'[d] = upstream[d]
       /\ captured'[d] = captured[d] /\ applied'[d] = applied[d]

\* What the invariant says of one call.
LEMMA InvOf ==
  ASSUME CallsInv, NEW c \in Calls
  PROVE  /\ StubsTyped /\ Domains /\ DOMAIN call[c] = Fields /\ CallTyped(call[c])
         /\ CallInv(call[c], history[c], upstream[c], captured[c], applied[c])
BY DEF CallsInv, Inv, CallInv, CallTyped

\* Most steps change nothing but the call's own record.
LEMMA Quiet ==
  ASSUME CallsInv, NEW c \in Calls, NEW j, Set(c, j),
         UNCHANGED <<stubs, history, upstream, captured, applied>>,
         CallInv(call'[c], history[c], upstream[c], captured[c], applied[c])
  PROVE  Kept(c)
BY InvOf, SetEffect DEF Kept, StubsTyped, Domains, Inv

\* The messages are read (Receive).
LEMMA ReceiveKept ==
  ASSUME CallsInv, NEW c \in Calls, Receive(c)
  PROVE  Kept(c)
<1> DEFINE k == call[c]
<1>1. /\ k.at = "new" /\ k.kind # "bidi"
      /\ call'[c] = [k EXCEPT !.read = Len(k.msgs),
             !.prefetched = IF k.mode = "proxy" THEN [i \in 1..Len(k.msgs) |-> i] ELSE <<>>,
             !.at = IF k.mode = "proxy" THEN "forward" ELSE "search"]
  BY InvOf, SetEffect DEF Receive, Domains
<1>2. /\ Sets(call'[c], k, {"read", "prefetched", "at"}) /\ call'[c].read = Len(k.msgs)
      /\ \/ /\ call'[c].at = "forward" /\ k.mode = "proxy"
            /\ call'[c].prefetched = [i \in 1..Len(k.msgs) |-> i]
         \/ call'[c].at = "search" /\ call'[c].prefetched = <<>>
  BY <1>1, InvOf DEF Sets, Fields
<1> QED BY <1>1, <1>2, InvOf, Receiving, Quiet DEF Receive

\* A unary call with headers of its own is captured again (CaptureByHeaders).
LEMMA CaptureByHeadersKept ==
  ASSUME CallsInv, NEW c \in Calls, CaptureByHeaders(c)
  PROVE  Kept(c)
<1> DEFINE k == call[c]
<1>1. /\ k.at = "search" /\ k.kind = "unary"
      /\ call'[c] = [k EXCEPT !.at = "forward", !.prefetched = <<1>>]
  BY InvOf, SetEffect DEF CaptureByHeaders, Domains
<1>2. AllRead(k) = <<1>> /\ k.body = NoStub
  <2>1. k.read = 1 /\ k.body = NoStub
    <3>1. CallTyped(k) /\ Placed(k, history[c], upstream[c]) /\ Carrying(k, history[c], applied[c])
      BY InvOf DEF CallInv
    <3>2. k.read = Len(k.msgs) /\ Len(k.msgs) = 1
      BY <1>1, <3>1 DEF CallTyped, Placed
    <3>3. k.body = NoStub
      BY <1>1, <3>1 DEF Carrying
    <3> QED BY <3>2, <3>3
  <2> QED BY <2>1 DEF AllRead
<1>3. /\ Sets(call'[c], k, {"at", "prefetched", "missed", "last"}) /\ call'[c].at = "forward"
      /\ call'[c].prefetched = <<1>> /\ call'[c].last = k.last
  BY <1>1, InvOf DEF Sets, Fields
<1>4. k.last \in Ids \cup {NoId} /\ k.at \in Mocking \ {"forward", "deleting"}
  BY <1>1, InvOf DEF CallTyped, Mocking
<1>5. CallInv(call'[c], history[c], upstream[c], captured[c], applied[c])
  BY <1>1, <1>2, <1>3, <1>4, InvOf, HandingOver
<1> QED BY <1>5, Quiet DEF CaptureByHeaders

\* A search finds a stub (Match).
LEMMA MatchKept ==
  ASSUME CallsInv, NEW c \in Calls, Match(c)
  PROVE  Kept(c)
<1> DEFINE k == call[c]
<1>1. PICK id \in Candidates(c) :
        Set(c, [call[c] EXCEPT !.at = "matched", !.stub = id, !.body = stubs[id]])
  BY DEF Match
<1>2. k.at = "search" /\ call'[c] = [k EXCEPT !.at = "matched", !.stub = id, !.body = stubs[id]]
  BY <1>1, InvOf, SetEffect DEF Match, Domains
<1>3. id \in Ids /\ stubs[id] \in StubValues
  BY InvOf DEF Candidates, Visible, StubsTyped
<1>4. /\ Sets(call'[c], k, {"at", "stub", "body"}) /\ call'[c].at = "matched"
      /\ call'[c].stub = id /\ call'[c].body = stubs[id]
  BY <1>2, InvOf DEF Sets, Fields
<1> QED BY <1>1, <1>2, <1>3, <1>4, InvOf, Matching, Quiet DEF Match

\* All operations are prepared, or none (PrepareEffects).
LEMMA PrepareEffectsKept ==
  ASSUME CallsInv, NEW c \in Calls, PrepareEffects(c)
  PROVE  Kept(c)
<1> DEFINE k == call[c]
<1>1. k.at = "matched" /\ call'[c] = [k EXCEPT !.at = "effects", !.ops = Prepared(k.body)]
  BY InvOf, SetEffect DEF PrepareEffects, Domains
<1>2. /\ Sets(call'[c], k, {"at", "ops"}) /\ call'[c].at = "effects"
      /\ call'[c].ops = Prepared(k.body)
  BY <1>1, InvOf DEF Sets, Fields
<1> QED BY <1>1, <1>2, InvOf, Preparing, Quiet DEF PrepareEffects

\* A step that may leave a record.
LEMMA Told ==
  ASSUME CallsInv, NEW c \in Calls, NEW j, Set(c, j), NEW g,
         UNCHANGED <<stubs, upstream, captured, applied>>,
         \/ history' = history /\ g = history[c]
         \/ history' = [history EXCEPT ![c] = g],
         CallInv(call'[c], g, upstream[c], captured[c], applied[c])
  PROVE  Kept(c)
<1>1. /\ DOMAIN history' = Calls /\ history'[c] = g
      /\ \A d \in Calls \ {c} : history'[d] = history[d]
  BY InvOf DEF Domains
<1> QED BY <1>1, InvOf, SetEffect DEF Kept, StubsTyped, Domains, Inv

\* recordCall leaves one record, or none of a call without requests.
LEMMA RecordCallEffect ==
  ASSUME NEW c \in Calls, NEW stub, NEW code, NEW resps, RecordCall(c, stub, code, resps),
         history[c] = <<>>
  PROVE  \E g :
           \/ call[c].read = 0 /\ history' = history /\ g = history[c]
           \/ /\ history' = [history EXCEPT ![c] = g] /\ g # history[c]
              /\ Len(g) = 1 /\ g # <<>> /\ g[1].stub = stub /\ g[1].code = code
<1> DEFINE r == [stub |-> stub, code |-> code, reqs |-> call[c].read, resps |-> resps]
           g == Append(history[c], r)
<1>1. Len(g) = 1 /\ g # <<>> /\ g[1].stub = stub /\ g[1].code = code
  <2>1. r.stub = stub /\ r.code = code
    OBVIOUS
  <2> HIDE DEF r
  <2> QED BY <2>1, FirstRecord
<1>2. history' = IF call[c].read = 0 THEN history ELSE [history EXCEPT ![c] = g]
  BY DEF RecordCall, Records
<1> HIDE DEF g
<1>3. CASE call[c].read = 0
  BY <1>2, <1>3
<1>4. CASE call[c].read # 0
  BY <1>1, <1>2, <1>4
<1> QED BY <1>3, <1>4

\* The client leaves before its messages are read (ReceiveFails).
LEMMA ReceiveFailsKept ==
  ASSUME CallsInv, NEW c \in Calls, ReceiveFails(c)
  PROVE  Kept(c)
<1> DEFINE k == call[c]
<1>1. k.at = "new" /\ k.kind # "bidi" /\ call'[c] = [k EXCEPT !.at = "done", !.code = "Canceled"]
  BY InvOf, SetEffect DEF ReceiveFails, Done, Domains
<1>2. /\ Sets(call'[c], k, {"at", "code", "sent", "last"}) /\ call'[c].at = "done"
      /\ call'[c].code = "Canceled" /\ call'[c].sent = k.sent /\ call'[c].last = k.last
  BY <1>1, InvOf DEF Sets, Fields
<1>3. /\ k.last \in Ids \cup {NoId} /\ k.at \in Mocking \ {"forward", "deleting"}
      /\ k.body = NoStub /\ k.sent = 0 /\ "Canceled" \in Codes
  BY <1>1, InvOf DEF CallInv, CallTyped, Carrying, Mocking, Codes
<1>4. call'[c].code \in Codes /\ call'[c].code \notin {"OK", "NotFound"}
  BY <1>2, <1>3
<1>5. CallInv(call'[c], history[c], upstream[c], captured[c], applied[c])
  BY <1>1, <1>2, <1>3, <1>4, InvOf, ReturningUntold
<1> QED BY <1>5, Quiet DEF ReceiveFails

\* The client of a server stream sends nothing (ReceiveNothing).
LEMMA ReceiveNothingKept ==
  ASSUME CallsInv, NEW c \in Calls, ReceiveNothing(c)
  PROVE  Kept(c)
<1> DEFINE k == call[c]
<1>1. /\ k.at = "new" /\ k.kind = "server" /\ k.msgs = <<>>
      /\ \E code \in {"OK", "Internal"} : Set(c, [k EXCEPT !.at = "done", !.code = code])
  BY DEF ReceiveNothing, Done
<1>2. PICK code \in {"OK", "Internal"} : Set(c, [k EXCEPT !.at = "done", !.code = code])
  BY <1>1
<1>3. call'[c] = [k EXCEPT !.at = "done", !.code = code]
  BY <1>2, InvOf, SetEffect DEF Domains
<1>4. /\ Sets(call'[c], k, {"at", "code", "sent", "last"}) /\ call'[c].at = "done"
      /\ call'[c].code = code /\ call'[c].sent = k.sent /\ call'[c].last = k.last
  BY <1>3, InvOf DEF Sets, Fields
<1>5. /\ k.last \in Ids \cup {NoId} /\ k.at \in Mocking \ {"forward", "deleting"}
      /\ k.body = NoStub /\ code \in Codes \ {"NotFound"} /\ k.read = 0
  <2>1. k.read \in 0..Len(k.msgs) /\ Len(k.msgs) = 0
    BY <1>1, InvOf DEF CallTyped
  <2>2. k.body = NoStub /\ k.last \in Ids \cup {NoId}
    BY <1>1, InvOf DEF CallInv, CallTyped, Carrying
  <2> QED BY <1>1, <2>1, <2>2 DEF Mocking, Codes
<1>6. CallInv(call'[c], history[c], upstream[c], captured[c], applied[c])
  BY <1>1, <1>4, <1>5, InvOf, ReturningUntold
<1> QED BY <1>1, <1>6, Quiet DEF ReceiveNothing

\* A search finds no stub (Miss).
LEMMA MissKept ==
  ASSUME CallsInv, NEW c \in Calls, Miss(c)
  PROVE  Kept(c)
<1> DEFINE k == call[c]
<1>1. k.at = "search" /\ Set(c, Missed(k, AllRead(k)))
  BY DEF Miss, AllRead
<1>2. /\ k.last \in Ids \cup {NoId} /\ k.at \in Mocking \ {"forward", "deleting"}
      /\ k.kind # "bidi" /\ k.body = NoStub /\ k.sent = 0 /\ "NotFound" \in Codes
      /\ history[c] = <<>>
  BY <1>1, InvOf DEF CallInv, CallTyped, Placed, Carrying, Mocking, Codes
<1>3. CASE CanFallback(k, "NotFound")
  <2>1. call'[c] = [k EXCEPT !.at = "forward", !.prefetched = AllRead(k), !.missed = TRUE]
    BY <1>1, <1>3, InvOf, SetEffect DEF Missed, Domains
  <2>2. /\ Sets(call'[c], k, {"at", "prefetched", "missed", "last"}) /\ call'[c].at = "forward"
        /\ call'[c].prefetched = AllRead(k) /\ call'[c].last = k.last
    BY <2>1, InvOf DEF Sets, Fields
  <2>3. history' = history
    BY <1>3 DEF Miss, RecordUnlessProxied
  <2>4. CallInv(call'[c], history[c], upstream[c], captured[c], applied[c])
    BY <1>1, <1>2, <2>2, InvOf, HandingOver
  <2> QED BY <1>1, <2>3, <2>4, Quiet DEF Miss
<1>4. CASE ~CanFallback(k, "NotFound")
  <2>1. call'[c] = [k EXCEPT !.at = "done", !.code = "NotFound"]
    BY <1>1, <1>4, InvOf, SetEffect DEF Missed, Done, Domains
  <2>2. /\ Sets(call'[c], k, {"at", "code", "sent", "last"}) /\ call'[c].at = "done"
        /\ call'[c].code = "NotFound" /\ call'[c].sent = k.sent /\ call'[c].last = k.last
    BY <2>1, InvOf DEF Sets, Fields
  <2>3. PICK g :
           \/ call[c].read = 0 /\ history' = history /\ g = history[c]
           \/ /\ history' = [history EXCEPT ![c] = g] /\ g # history[c]
              /\ Len(g) = 1 /\ g # <<>> /\ g[1].stub = NoId /\ g[1].code = "NotFound"
    BY <1>2, <1>4, RecordCallEffect DEF Miss, RecordUnlessProxied
  <2>4. CallInv(call'[c], g, upstream[c], captured[c], applied[c])
    BY <1>2, <1>4, <2>2, <2>3, InvOf, Returning DEF CanFallback
  <2> QED BY <1>1, <2>3, <2>4, Told DEF Miss
<1> QED BY <1>3, <1>4

\* A matched call fails before its effects (FailEarly).
LEMMA FailEarlyKept ==
  ASSUME CallsInv, NEW c \in Calls, NEW code \in {"Canceled", "Internal"}, FailEarly(c, code)
  PROVE  Kept(c)
<1> DEFINE k == call[c]
<1>1. /\ k.at = "matched" /\ k.kind # "bidi"
      /\ call'[c] = [k EXCEPT !.at = "done", !.code = code]
  BY InvOf, SetEffect DEF FailEarly, Returned, CanFallback, Done, Domains
<1>2. /\ Sets(call'[c], k, {"at", "code", "sent", "last"}) /\ call'[c].at = "done"
      /\ call'[c].code = code /\ call'[c].sent = k.sent /\ call'[c].last = k.last
  BY <1>1, InvOf DEF Sets, Fields
<1>3. /\ k.last \in Ids \cup {NoId} /\ k.at \in Mocking \ {"forward", "deleting"}
      /\ k.sent = 0 /\ code \in Codes /\ applied[c] = <<>>
  BY <1>1, InvOf DEF CallInv, CallTyped, Carrying, Mocking, Codes
<1>4. CallInv(call'[c], history[c], upstream[c], captured[c], applied[c])
  BY <1>1, <1>2, <1>3, InvOf, ReturningUntold
<1> QED BY <1>4, Quiet DEF FailEarly

\* A step that carries out an operation of the effects.
LEMMA CarriedOut ==
  ASSUME CallsInv, NEW c \in Calls, NEW j, Set(c, j), StubsTyped',
         UNCHANGED <<history, upstream, captured>>, Carried(c),
         CallInv(call'[c], history[c], upstream[c], captured[c],
                 Append(applied[c], Head(call[c].ops)))
  PROVE  Kept(c)
<1>1. /\ DOMAIN applied' = Calls /\ applied'[c] = Append(applied[c], Head(call[c].ops))
      /\ \A d \in Calls \ {c} : applied'[d] = applied[d]
  BY InvOf DEF Domains, Carried
<1> QED BY <1>1, InvOf, SetEffect DEF Kept, Domains, Inv

\* An upsert effect stores its stub (UpsertEffect).
LEMMA UpsertEffectKept ==
  ASSUME CallsInv, NEW c \in Calls, UpsertEffect(c)
  PROVE  Kept(c)
<1> DEFINE k == call[c]
<1>1. /\ k.at = "effects" /\ k.ops # <<>> /\ Carried(c)
      /\ call'[c] = [k EXCEPT !.ops = Tail(@)]
  BY InvOf, SetEffect DEF UpsertEffect, Domains
<1>2. /\ Sets(call'[c], k, {"at", "ops"}) /\ call'[c].at = "effects"
      /\ call'[c].ops = Tail(k.ops)
  BY <1>1, InvOf DEF Sets, Fields
<1>3. StubsTyped'
  <2>1. k.body \in StubValues
    BY <1>1, InvOf DEF CallInv, CallTyped, Carrying
  <2>2. k.body.session \in SessionNames
    BY <2>1 DEF StubValues
  <2>3. Generated(k.body.session) \in StubValues
    BY <2>2, NoElements DEF Generated, StubValues, Codes
  <2> QED BY <2>3, InvOf DEF UpsertEffect, StubsTyped
<1>4. k.at \in {"effects", "deleting"} /\ k.ops # <<>>
  BY <1>1
<1>5. CallInv(call'[c], history[c], upstream[c], captured[c], Append(applied[c], Head(k.ops)))
  BY <1>2, <1>4, InvOf, CarryingOut
<1> QED BY <1>1, <1>3, <1>5, CarriedOut DEF UpsertEffect

\* A delete effect looks its stub up (CheckDelete).
LEMMA CheckDeleteKept ==
  ASSUME CallsInv, NEW c \in Calls, CheckDelete(c)
  PROVE  Kept(c)
<1> DEFINE k == call[c]
           found == stubs[Head(k.ops).id]
<1>1. k.at = "effects" /\ k.ops # <<>> /\ Head(k.ops).action = "delete"
  BY DEF CheckDelete
<1>2. CASE CanDelete(found, k.body.session)
  <2>1. call'[c] = [k EXCEPT !.at = "deleting"]
    BY <1>2, InvOf, SetEffect DEF CheckDelete, Domains
  <2>2. Sets(call'[c], k, {"at"}) /\ call'[c].at = "deleting"
    BY <2>1, InvOf DEF Sets, Fields
  <2>3. CallInv(call'[c], history[c], upstream[c], captured[c], applied[c])
    BY <1>1, <2>2, InvOf, Targeting
  <2> QED BY <1>2, <2>3, Quiet DEF CheckDelete
<1>3. CASE ~CanDelete(found, k.body.session)
  <2>1. Carried(c) /\ call'[c] = [k EXCEPT !.ops = Tail(@)]
    BY <1>3, InvOf, SetEffect DEF CheckDelete, Domains
  <2>2. /\ Sets(call'[c], k, {"at", "ops"}) /\ call'[c].at = "effects"
        /\ call'[c].ops = Tail(k.ops)
    BY <1>1, <2>1, InvOf DEF Sets, Fields
  <2>3. CallInv(call'[c], history[c], upstream[c], captured[c], Append(applied[c], Head(k.ops)))
    BY <1>1, <2>2, InvOf, CarryingOut
  <2>4. StubsTyped'
    BY InvOf DEF CheckDelete, StubsTyped
  <2> QED BY <1>3, <2>1, <2>3, <2>4, CarriedOut DEF CheckDelete
<1> QED BY <1>2, <1>3

\* A delete effect deletes what the ID holds (DeleteEffect).
LEMMA DeleteEffectKept ==
  ASSUME CallsInv, NEW c \in Calls, DeleteEffect(c)
  PROVE  Kept(c)
<1> DEFINE k == call[c]
<1>1. /\ k.at = "deleting" /\ Carried(c)
      /\ call'[c] = [k EXCEPT !.at = "effects", !.ops = Tail(@)]
  BY InvOf, SetEffect DEF DeleteEffect, Domains
<1>2. /\ Sets(call'[c], k, {"at", "ops"}) /\ call'[c].at = "effects"
      /\ call'[c].ops = Tail(k.ops)
  BY <1>1, InvOf DEF Sets, Fields
<1>3. StubsTyped'
  BY InvOf DEF DeleteEffect, StubsTyped
<1>4. k.at \in {"effects", "deleting"} /\ k.ops # <<>>
  BY <1>1, InvOf DEF CallInv, Carrying
<1>5. CallInv(call'[c], history[c], upstream[c], captured[c], Append(applied[c], Head(k.ops)))
  BY <1>2, <1>4, InvOf, CarryingOut
<1> QED BY <1>1, <1>3, <1>5, CarriedOut DEF DeleteEffect

\* The next element of a server stream (SendElement).
LEMMA SendElementKept ==
  ASSUME CallsInv, NEW c \in Calls, SendElement(c)
  PROVE  Kept(c)
<1> DEFINE k == call[c]
<1>1. /\ k.at = "effects" /\ k.ops = <<>> /\ k.kind # "bidi"
      /\ call'[c] = [k EXCEPT !.sent = @ + 1]
  BY InvOf, SetEffect DEF SendElement, EffectsDone, Domains
<1>2. Sets(call'[c], k, {"sent"}) /\ call'[c].sent = k.sent + 1
  BY <1>1, InvOf DEF Sets, Fields
<1>3. /\ k.at = "effects" /\ k.ops = <<>> /\ k.kind # "bidi"
      /\ Sets(call'[c], k, {"sent"}) /\ call'[c].sent \in Nat
  <2>1. k.sent \in Nat
    BY InvOf DEF CallTyped
  <2> QED BY <1>1, <1>2, <2>1
<1>4. CallInv(call'[c], history[c], upstream[c], captured[c], applied[c])
  BY <1>3, InvOf, Sending
<1> QED BY <1>4, Quiet DEF SendElement

\* A client leaves (ClientLeaves).
LEMMA ClientLeavesKept ==
  ASSUME CallsInv, NEW c \in Calls, ClientLeaves(c)
  PROVE  Kept(c)
<1> DEFINE k == call[c]
<1>1. call'[c] = [k EXCEPT !.gone = TRUE]
  BY InvOf, SetEffect DEF ClientLeaves, Domains
<1>2. Sets(call'[c], k, {"gone", "header"}) /\ call'[c].gone = TRUE
  BY <1>1, InvOf DEF Sets, Fields
<1> QED BY <1>2, InvOf, Leaving, Quiet DEF ClientLeaves

\* Where the effects are done: the stub is there and all it prepared is carried out.
LEMMA AtAnswer ==
  ASSUME CallsInv, NEW c \in Calls, EffectsDone(c), call[c].kind # "bidi"
  PROVE  /\ call[c].at \in Mocking \ {"forward", "deleting"} /\ call[c].at # "new"
         /\ history[c] = <<>>
         /\ call[c].body \in StubValues /\ call[c].body # NoStub /\ call[c].body.code \in Codes
         /\ applied[c] = Prepared(call[c].body)
         /\ call[c].last \in Ids \cup {NoId} /\ call[c].sent \in Nat /\ call[c].read \in Nat
         /\ call[c].kind = "unary" => call[c].read = 1
<1> DEFINE k == call[c]
<1>1. k.at = "effects" /\ k.ops = <<>>
  BY DEF EffectsDone
<1>2. k.body \in StubValues /\ k.body # NoStub /\ applied[c] = Prepared(k.body)
  BY <1>1, InvOf, EffectsPrepared DEF CallInv
<1>3. k.body.code \in Codes
  BY <1>2 DEF StubValues
<1>4. history[c] = <<>> /\ (k.kind = "unary" => k.read = 1)
  BY <1>1, InvOf DEF CallInv, CallTyped, Placed
<1>5. k.last \in Ids \cup {NoId} /\ k.sent \in Nat /\ k.read \in Nat
  BY InvOf DEF CallTyped
<1> QED BY <1>1, <1>2, <1>3, <1>4, <1>5 DEF Mocking

\* The answer of a unary call (AnswerUnary).
LEMMA AnswerUnaryKept ==
  ASSUME CallsInv, NEW c \in Calls, AnswerUnary(c)
  PROVE  Kept(c)
<1> DEFINE k == call[c]
           code == k.body.code
           sent == IF code = "OK" THEN 1 ELSE 0
<1>1. EffectsDone(c) /\ k.kind = "unary" /\ k.read = 1
  BY AtAnswer DEF AnswerUnary
<1>2. CASE /\ RecordCall(c, k.stub, code, sent)
           /\ Set(c, [Returned(k, code) EXCEPT !.sent = sent])
  <2>1. call'[c] = [[k EXCEPT !.at = "done", !.code = code] EXCEPT !.sent = sent]
    BY <1>1, <1>2, InvOf, SetEffect DEF Returned, Done, Domains
  <2>2. /\ Sets(call'[c], k, {"at", "code", "sent", "last"}) /\ call'[c].at = "done"
        /\ call'[c].code = code /\ call'[c].sent = sent /\ call'[c].last = k.last
    BY <2>1, InvOf DEF Sets, Fields
  <2>3. PICK g :
           \/ k.read = 0 /\ history' = history /\ g = history[c]
           \/ /\ history' = [history EXCEPT ![c] = g] /\ g # history[c]
              /\ Len(g) = 1 /\ g # <<>> /\ g[1].stub = k.stub /\ g[1].code = code
    BY <1>1, <1>2, AtAnswer, RecordCallEffect
  <2>4. sent \in Nat
    OBVIOUS
  <2> HIDE DEF code, sent
  <2>5. CallInv(call'[c], g, upstream[c], captured[c], applied[c])
    BY <1>1, <2>2, <2>3, <2>4, AtAnswer, InvOf, Returning DEF code
  <2> QED BY <1>2, <2>3, <2>5, Told DEF AnswerUnary
<1>3. CASE Set(c, Returned(k, "Internal")) /\ UNCHANGED history
  <2>1. call'[c] = [k EXCEPT !.at = "done", !.code = "Internal"]
    BY <1>1, <1>3, InvOf, SetEffect DEF Returned, Done, Domains
  <2>2. /\ Sets(call'[c], k, {"at", "code", "sent", "last"}) /\ call'[c].at = "done"
        /\ call'[c].code = "Internal" /\ call'[c].sent = k.sent /\ call'[c].last = k.last
    BY <2>1, InvOf DEF Sets, Fields
  <2>3. call'[c].code \in Codes /\ call'[c].code \notin {"OK", "NotFound"}
    BY <2>2 DEF Codes
  <2>4. CallInv(call'[c], history[c], upstream[c], captured[c], applied[c])
    BY <1>1, <2>2, <2>3, AtAnswer, InvOf, ReturningUntold
  <2> QED BY <1>3, <2>4, Quiet DEF AnswerUnary
<1> QED BY <1>2, <1>3 DEF AnswerUnary

\* A handler of a stream returns without a record of its own.
LEMMA ReturnedUntold ==
  ASSUME CallsInv, NEW c \in Calls, NEW code \in Codes, EffectsDone(c),
         call[c].kind \in {"server", "client"}, code # "OK",
         Set(c, Returned(call[c], code)),
         UNCHANGED <<stubs, history, upstream, captured, applied>>
  PROVE  Kept(c)
<1> DEFINE k == call[c]
<1>1. CASE CanFallback(k, code)
  <2>1. call'[c] = [k EXCEPT !.at = "forward", !.prefetched = <<>>]
    BY <1>1, InvOf, SetEffect DEF Returned, Domains
  <2>2. /\ Sets(call'[c], k, {"at", "prefetched", "missed", "last"}) /\ call'[c].at = "forward"
        /\ call'[c].prefetched = <<>> /\ call'[c].last = k.last /\ call'[c].missed = k.missed
    BY <2>1, InvOf DEF Sets, Fields
  <2>3. CallInv(call'[c], history[c], upstream[c], captured[c], applied[c])
    BY <2>2, AtAnswer, InvOf, HandingOver
  <2> QED BY <2>3, Quiet
<1>2. CASE ~CanFallback(k, code)
  <2>1. call'[c] = [k EXCEPT !.at = "done", !.code = code]
    BY <1>2, InvOf, SetEffect DEF Returned, Done, Domains
  <2>2. /\ Sets(call'[c], k, {"at", "code", "sent", "last"}) /\ call'[c].at = "done"
        /\ call'[c].code = code /\ call'[c].sent = k.sent /\ call'[c].last = k.last
    BY <2>1, InvOf DEF Sets, Fields
  <2>3. CallInv(call'[c], history[c], upstream[c], captured[c], applied[c])
    BY <2>2, AtAnswer, InvOf, ReturningUntold
  <2> QED BY <2>3, Quiet
<1> QED BY <1>1, <1>2

\* The record of a call that returned with one message sent.
Answered(k, code) == [Returned(k, code) EXCEPT !.sent = 1]

\* The statuses of a stream whose client is gone.
LEMMA CanceledStatus ==
  ASSUME NEW k, NEW status \in CanceledAs, k.gone, k.kind \in {"server", "bidi"}
  PROVE  /\ status \in Codes
         /\ status = "Canceled" \/ Unknowable(status, k, "Canceled")
         /\ ~CanFallback(k, status) /\ ~CanFallback(k, "Canceled")
BY DEF CanceledAs, Unknowable, CanFallback, Codes

\* A handler of a stream returns with a record.
LEMMA ReturnedTold ==
  ASSUME CallsInv, NEW c \in Calls, NEW code \in Codes, EffectsDone(c), NEW resps, NEW status,
         status = code \/ Unknowable(status, call[c], code),
         call[c].kind \in {"server", "client"}, ~CanFallback(call[c], code),
         NEW j, Set(c, j), j \in {Returned(call[c], code), Answered(call[c], code)},
         RecordCall(c, call[c].stub, status, resps),
         UNCHANGED <<stubs, upstream, captured, applied>>
  PROVE  Kept(c)
<1> DEFINE k == call[c]
<1>1. \/ call'[c] = [k EXCEPT !.at = "done", !.code = code]
      \/ call'[c] = [[k EXCEPT !.at = "done", !.code = code] EXCEPT !.sent = 1]
  BY InvOf, SetEffect DEF Answered, Returned, Done, Domains
<1>2. /\ Sets(call'[c], k, {"at", "code", "sent", "last"}) /\ call'[c].at = "done"
      /\ call'[c].code = code /\ call'[c].sent \in {1, k.sent} /\ call'[c].last = k.last
  BY <1>1, InvOf DEF Sets, Fields
<1>3. PICK g :
         \/ k.read = 0 /\ history' = history /\ g = history[c]
         \/ /\ history' = [history EXCEPT ![c] = g] /\ g # history[c]
            /\ Len(g) = 1 /\ g # <<>> /\ g[1].stub = k.stub /\ g[1].code = status
  BY AtAnswer, RecordCallEffect
<1>4. CallInv(call'[c], g, upstream[c], captured[c], applied[c])
  BY <1>2, <1>3, AtAnswer, InvOf, Returning
<1> QED BY <1>3, <1>4, Told

\* The answer of a client stream (AnswerClient).
LEMMA AnswerClientKept ==
  ASSUME CallsInv, NEW c \in Calls, AnswerClient(c)
  PROVE  Kept(c)
<1> DEFINE k == call[c]
<1>1. EffectsDone(c) /\ k.kind = "client" /\ k.body.code \in Codes /\ {"OK", "Internal"} \subseteq Codes
  BY AtAnswer DEF AnswerClient, Codes
<1>2. CASE RecordCall(c, k.stub, "OK", 1) /\ Set(c, [Returned(k, "OK") EXCEPT !.sent = 1])
  BY <1>1, <1>2, ReturnedTold DEF AnswerClient, Answered, CanFallback
<1>3. CASE /\ \/ Set(c, Returned(k, k.body.code)) /\ k.body.code # "OK"
              \/ Set(c, Returned(k, "Internal"))
           /\ UNCHANGED history
  BY <1>1, <1>3, ReturnedUntold DEF AnswerClient
<1> QED BY <1>2, <1>3 DEF AnswerClient

\* The end of a server stream (EndServer).
LEMMA EndServerKept ==
  ASSUME CallsInv, NEW c \in Calls, NEW code \in Codes, EndServer(c, code)
  PROVE  Kept(c)
<1>1. EffectsDone(c) /\ call[c].kind = "server" /\ call[c].sent \in Nat
  BY AtAnswer DEF EndServer
<1>2. CASE CanFallback(call[c], code)
  BY <1>1, <1>2, ReturnedUntold DEF EndServer, RecordUnlessProxied, CanFallback
<1>3. CASE ~CanFallback(call[c], code)
  <2>1. PICK status : /\ RecordUnlessProxied(c, call[c].stub, status, call[c].sent)
                      /\ \/ status = code
                         \/ code = "Canceled" /\ call[c].gone /\ status \in CanceledAs
    BY DEF EndServer
  <2>2. status = code \/ Unknowable(status, call[c], code)
    BY <1>1, <2>1, CanceledStatus
  <2>3. ~CanFallback(call[c], status)
    BY <1>1, <1>3, <2>1, CanceledStatus
  <2>4. /\ Set(c, Returned(call[c], code)) /\ RecordCall(c, call[c].stub, status, call[c].sent)
        /\ UNCHANGED <<stubs, upstream, captured, applied>>
    BY <2>1, <2>3 DEF EndServer, RecordUnlessProxied
  <2> QED BY <1>1, <1>3, <2>2, <2>4, ReturnedTold
<1> QED BY <1>2, <1>3

----------------------------------------------------------------------------
(* The upstream legs.                                                      *)

\* A step that hands messages to the upstream.
LEMMA Passed ==
  ASSUME CallsInv, NEW c \in Calls, NEW j, Set(c, j), NEW v,
         UNCHANGED <<stubs, history, captured, applied>>,
         \/ upstream' = upstream /\ v = upstream[c]
         \/ upstream' = [upstream EXCEPT ![c] = v],
         CallInv(call'[c], history[c], v, captured[c], applied[c])
  PROVE  Kept(c)
<1>1. /\ DOMAIN upstream' = Calls /\ upstream'[c] = v
      /\ \A d \in Calls \ {c} : upstream'[d] = upstream[d]
  BY InvOf DEF Domains
<1> QED BY <1>1, InvOf, SetEffect DEF Kept, StubsTyped, Domains, Inv

\* A server stream whose request was read already (NothingToForward).
LEMMA NothingToForwardKept ==
  ASSUME CallsInv, NEW c \in Calls, NothingToForward(c)
  PROVE  Kept(c)
<1> DEFINE k == call[c]
<1>1. /\ k.at = "forward" /\ k.kind = "server"
      /\ call'[c] = [k EXCEPT !.at = "done", !.code = "Unknown"]
  BY InvOf, SetEffect DEF NothingToForward, Done, Domains
<1>2. /\ Sets(call'[c], k, {"at", "code", "sent", "last"}) /\ call'[c].at = "done"
      /\ call'[c].code = "Unknown" /\ call'[c].sent = k.sent /\ call'[c].last = k.last
  BY <1>1, InvOf DEF Sets, Fields
<1>3. /\ k.last \in Ids \cup {NoId} /\ k.at \in Mocking \ {"deleting"}
      /\ k.body # NoStub => applied[c] \in {<<>>, Prepared(k.body)}
  BY <1>1, InvOf DEF CallInv, CallTyped, Carrying, Mocking
<1>4. call'[c].code \in Codes /\ call'[c].code \notin {"OK", "NotFound"}
  BY <1>2 DEF Codes
<1>5. CallInv(call'[c], history[c], upstream[c], captured[c], applied[c])
  BY <1>1, <1>2, <1>3, <1>4, InvOf, ReturningUntold
<1> QED BY <1>5, Quiet DEF NothingToForward

\* The messages go upstream (Forward).
LEMMA ForwardKept ==
  ASSUME CallsInv, NEW c \in Calls, Forward(c)
  PROVE  Kept(c)
<1> DEFINE k == call[c]
<1>1. /\ k.at = "forward" /\ k.kind # "bidi"
      /\ upstream' = [upstream EXCEPT ![c] = k.prefetched]
      /\ call'[c] = [k EXCEPT !.at = "upstream", !.reqs = Len(k.prefetched)]
  BY InvOf, SetEffect DEF Forward, Domains
<1>2. /\ Sets(call'[c], k, {"at", "reqs", "upCode"}) /\ call'[c].at = "upstream"
      /\ call'[c].reqs = Len(k.prefetched) /\ call'[c].upCode = k.upCode
  BY <1>1, InvOf DEF Sets, Fields
<1>3. call'[c].reqs \in Nat /\ k.at = "forward" /\ k.kind # "bidi"
  BY <1>1, <1>2, InvOf DEF CallTyped
<1>4. CallInv(call'[c], history[c], k.prefetched, captured[c], applied[c])
  BY <1>2, <1>3, InvOf, Forwarding
<1> QED BY <1>1, <1>4, Passed DEF Forward

\* The upstream takes a part of the messages (ForwardFails).
LEMMA ForwardFailsKept ==
  ASSUME CallsInv, NEW c \in Calls, ForwardFails(c)
  PROVE  Kept(c)
<1> DEFINE k == call[c]
           at == IF k.kind = "unary" /\ k.mode = "capture" THEN "capture" ELSE "record"
<1>1. /\ k.at = "forward" /\ k.kind # "bidi"
      /\ \E n \in 0..Len(k.prefetched) : \E tried \in {n, n + 1} :
           /\ upstream' = [upstream EXCEPT ![c] = SubSeq(k.prefetched, 1, n)]
           /\ Set(c, [k EXCEPT !.upCode = "Aborted", !.at = at,
                      !.reqs = IF k.kind = "client" THEN tried ELSE 1])
  BY DEF ForwardFails
<1>p. PICK n \in 0..Len(k.prefetched) : \E tried \in {n, n + 1} :
        /\ upstream' = [upstream EXCEPT ![c] = SubSeq(k.prefetched, 1, n)]
        /\ Set(c, [k EXCEPT !.upCode = "Aborted", !.at = at,
                   !.reqs = IF k.kind = "client" THEN tried ELSE 1])
  BY <1>1
<1>2. PICK tried \in {n, n + 1} :
        /\ upstream' = [upstream EXCEPT ![c] = SubSeq(k.prefetched, 1, n)]
        /\ Set(c, [k EXCEPT !.upCode = "Aborted", !.at = at,
                   !.reqs = IF k.kind = "client" THEN tried ELSE 1])
  BY <1>p
<1>3. call'[c] = [k EXCEPT !.upCode = "Aborted", !.at = at,
                  !.reqs = IF k.kind = "client" THEN tried ELSE 1]
  BY <1>2, InvOf, SetEffect DEF Domains
<1>4. /\ Sets(call'[c], k, {"at", "reqs", "upCode"}) /\ call'[c].at = at
      /\ call'[c].upCode = "Aborted" /\ call'[c].reqs \in {1, tried}
  BY <1>3, InvOf DEF Sets, Fields
<1>5. /\ Len(k.prefetched) \in Nat /\ n \in Nat /\ n <= Len(k.prefetched)
      /\ call'[c].reqs \in Nat
  BY <1>4, InvOf DEF CallTyped
<1>6. at = "record" \/ (at = "capture" /\ k.mode = "capture")
  OBVIOUS
<1> HIDE DEF at
<1>7. CallInv(call'[c], history[c], SubSeq(k.prefetched, 1, n), captured[c], applied[c])
  BY <1>1, <1>4, <1>5, <1>6, InvOf, Forwarding
<1> QED BY <1>2, <1>7, Passed DEF ForwardFails

\* A response of a server stream (UpstreamResponds).
LEMMA UpstreamRespondsKept ==
  ASSUME CallsInv, NEW c \in Calls, UpstreamResponds(c)
  PROVE  Kept(c)
<1> DEFINE k == call[c]
<1>1. /\ k.at = "upstream" /\ k.kind = "server" /\ k.resps < MaxUp
      /\ \/ call'[c] = [k EXCEPT !.resps = @ + 1, !.ups = @ + 1]
         \/ call'[c] = [k EXCEPT !.resps = @ + 1, !.at = "record", !.upCode = "Canceled"]
  BY InvOf, SetEffect DEF UpstreamResponds, Domains
<1>2. /\ Sets(call'[c], k, {"at", "resps", "ups", "upCode"}) /\ call'[c].resps = k.resps + 1
      /\ \/ /\ call'[c].at = "upstream" /\ call'[c].upCode = k.upCode
            /\ call'[c].ups = k.ups + 1
         \/ call'[c].at = "record" /\ call'[c].upCode = "Canceled" /\ call'[c].ups = k.ups
  <2>0. k.at = "upstream"
    BY <1>1
  <2>1. CASE call'[c] = [k EXCEPT !.resps = @ + 1, !.ups = @ + 1]
    BY <2>0, <2>1, InvOf DEF Sets, Fields
  <2>2. CASE call'[c] = [k EXCEPT !.resps = @ + 1, !.at = "record", !.upCode = "Canceled"]
    BY <2>2, InvOf DEF Sets, Fields
  <2> QED BY <1>1, <2>1, <2>2
<1>3. /\ k.resps \in Nat /\ k.ups \in 0..k.resps /\ MaxUp \in Nat
      /\ k.upCode = "none" /\ k.resps = k.ups
  <2>1. k.resps \in Nat /\ k.ups \in 0..k.resps /\ MaxUp \in Nat
    BY InvOf, CallsAssumption DEF CallTyped
  <2>2. k.upCode = "none"
    BY <1>1, InvOf DEF CallInv, Placed
  <2>3. k.resps = k.ups
    BY <1>1, InvOf DEF CallInv, Capturing
  <2> QED BY <2>1, <2>2, <2>3
<1>4. call'[c].resps \in 0..MaxUp /\ call'[c].ups \in 0..call'[c].resps
  BY <1>1, <1>2, <1>3
<1>5. CallInv(call'[c], history[c], upstream[c], captured[c], applied[c])
  BY <1>1, <1>2, <1>3, <1>4, InvOf, UpstreamAnswering DEF UpstreamCodes
<1> QED BY <1>5, Quiet DEF UpstreamResponds

\* The end of the upstream call (UpstreamEnds).
LEMMA UpstreamEndsKept ==
  ASSUME CallsInv, NEW c \in Calls, NEW code \in UpstreamCodes, UpstreamEnds(c, code)
  PROVE  Kept(c)
<1> DEFINE k == call[c]
           last == IF k.kind # "server" /\ code = "OK" THEN 1 ELSE 0
           capture == k.mode = "capture" /\ (code = "OK" \/ Capturable(k, code))
           at == IF capture THEN "capture" ELSE "record"
<1>1. /\ k.at = "upstream"
      /\ \/ call'[c] = [[k EXCEPT !.resps = @ + last, !.upCode = code]
                          EXCEPT !.ups = @ + last, !.at = at]
         \/ call'[c] = [[k EXCEPT !.resps = @ + last, !.upCode = code]
                          EXCEPT !.at = "record", !.upCode = "Canceled"]
  BY InvOf, SetEffect DEF UpstreamEnds, Domains
<1>2. last \in {0, 1} /\ (k.kind = "server" => last = 0)
  OBVIOUS
<1>3. at = "record" \/ (at = "capture" /\ k.mode = "capture")
  OBVIOUS
<1> HIDE DEF last, at, capture
<1>4. /\ Sets(call'[c], k, {"at", "resps", "ups", "upCode"}) /\ call'[c].resps = k.resps + last
      /\ \/ /\ call'[c].at = at /\ call'[c].upCode = code
            /\ call'[c].ups = k.ups + last
         \/ call'[c].at = "record" /\ call'[c].upCode = "Canceled" /\ call'[c].ups = k.ups
  <2>1. CASE call'[c] = [[k EXCEPT !.resps = @ + last, !.upCode = code]
                          EXCEPT !.ups = @ + last, !.at = at]
    BY <2>1, InvOf DEF Sets, Fields
  <2>2. CASE call'[c] = [[k EXCEPT !.resps = @ + last, !.upCode = code]
                          EXCEPT !.at = "record", !.upCode = "Canceled"]
    BY <2>2, InvOf DEF Sets, Fields
  <2> QED BY <1>1, <2>1, <2>2
<1>5. /\ k.resps \in 0..MaxUp /\ MaxUp \in Nat /\ MaxUp > 0
      /\ k.resps = k.ups /\ (k.kind # "server" => k.resps = 0)
  <2>1. k.resps \in 0..MaxUp /\ MaxUp \in Nat /\ MaxUp > 0
    BY InvOf, CallsAssumption DEF CallTyped
  <2>2. k.kind # "server" => k.resps = 0
    BY <1>1, InvOf DEF CallInv, Placed
  <2>3. k.resps = k.ups
    BY <1>1, InvOf DEF CallInv, Capturing
  <2> QED BY <2>1, <2>2, <2>3
<1>6. call'[c].resps \in 0..MaxUp /\ call'[c].ups \in 0..call'[c].resps
  BY <1>2, <1>4, <1>5
<1>7. CallInv(call'[c], history[c], upstream[c], captured[c], applied[c])
  <2>1. CASE call'[c].at = at /\ call'[c].upCode = code /\ call'[c].ups = k.ups + last
    <3>1. call'[c].resps = call'[c].ups
      BY <1>4, <1>5, <2>1
    <3> QED BY <1>1, <1>3, <1>4, <1>6, <2>1, <3>1, InvOf, UpstreamAnswering
  <2>2. CASE call'[c].at = "record" /\ call'[c].upCode = "Canceled"
    BY <1>1, <1>4, <1>6, <2>2, InvOf, UpstreamAnswering DEF UpstreamCodes
  <2> QED BY <1>4, <2>1, <2>2
<1> QED BY <1>7, Quiet DEF UpstreamEnds

\* A captured stub is a stub.
LEMMA CapturedTyped ==
  ASSUME NEW k, NEW code \in Codes, k.session \in SessionNames, k.msgs \in Seq(Contents),
         k.reqs \in Nat, k.resps \in Nat
  PROVE  /\ CapturedStub(k, code) \in StubValues
         /\ CapturedStub(k, code).session = k.session /\ CapturedStub(k, code).len = k.resps
         /\ CapturedStub(k, code).inputs \in Nat
         /\ k.kind = "bidi" => CapturedStub(k, code).inputs = k.reqs
<1>1. {k.msgs[i] : i \in 1..Len(k.msgs)} \subseteq Contents
  BY ElementOfSeq
<1>2. 0 \in Nat /\ <<>> \in Seq([action : Actions, id : Ids])
  BY NoElements, CallsAssumption
<1> QED BY <1>1, <1>2 DEF CapturedStub, StubValues

\* A step that stores a captured stub.
LEMMA Captured ==
  ASSUME CallsInv, NEW c \in Calls, NEW r \in StubValues,
         Set(c, [call[c] EXCEPT !.at = "record"]), Store(c, r),
         UNCHANGED <<history, upstream, applied>>,
         r.session = call[c].session,
         \/ call[c].at = "capture" /\ call[c].kind # "bidi" /\ r.len = call[c].resps
         \/ call[c].at = "storing" /\ r.inputs = call[c].snapReqs /\ r.len = call[c].snapResps
  PROVE  Kept(c)
<1> DEFINE k == call[c]
<1>1. call'[c] = [k EXCEPT !.at = "record"]
  BY InvOf, SetEffect DEF Domains
<1>2. Sets(call'[c], k, {"at"}) /\ call'[c].at = "record"
  BY <1>1, InvOf DEF Sets, Fields
<1>3. r.len \in Nat /\ r.inputs \in Nat
  BY DEF StubValues
<1>4. StubsTyped'
  BY InvOf DEF Store, StubsTyped
<1>5. CallInv(call'[c], history[c], upstream[c], Append(captured[c], r), applied[c])
  BY <1>2, <1>3, InvOf, Storing
<1>6. /\ DOMAIN captured' = Calls /\ captured'[c] = Append(captured[c], r)
      /\ \A d \in Calls \ {c} : captured'[d] = captured[d]
  BY InvOf DEF Domains, Store
<1> QED BY <1>4, <1>5, <1>6, InvOf, SetEffect DEF Kept, Domains, Inv

\* The answer of the upstream becomes a stub (Capture).
LEMMA CaptureKept ==
  ASSUME CallsInv, NEW c \in Calls, Capture(c)
  PROVE  Kept(c)
<1> DEFINE k == call[c]
           r == CapturedStub(k, k.upCode)
<1>1. /\ k.at = "capture" /\ k.kind # "bidi" /\ Store(c, r)
      /\ Set(c, [call[c] EXCEPT !.at = "record"]) /\ UNCHANGED <<history, upstream, applied>>
  BY DEF Capture
<1>2. k.upCode \in Codes
  <2>1. k.upCode \in UpstreamCodes
    BY <1>1, InvOf DEF CallInv, CallTyped, Placed
  <2> QED BY <2>1 DEF UpstreamCodes, Codes
<1>3. r \in StubValues /\ r.session = k.session /\ r.len = k.resps
  <2>1. /\ k.session \in SessionNames /\ k.msgs \in Seq(Contents)
        /\ k.reqs \in Nat /\ k.resps \in Nat
    BY InvOf DEF CallTyped
  <2> QED BY <1>2, <2>1, CapturedTyped
<1> HIDE DEF r
<1> QED BY <1>1, <1>3, Captured

\* The single record point: an upstream leg has one record, which no stub served.
LEMMA RecordProxyKept ==
  ASSUME CallsInv, NEW c \in Calls, NEW code \in Codes, NEW j, Set(c, j),
         call[c].at \in {"record", "recording"}, NEW reqs, NEW resps,
         history' = [history EXCEPT ![c] = Records(c, NoId, code, reqs, resps)],
         Sets(j, call[c], {"at", "code", "gone"}), j.at = "done", j.code = code,
         \/ call[c].kind # "bidi" /\ code = call[c].upCode
         \/ j.gone = TRUE,
         UNCHANGED <<stubs, upstream, captured, applied>>
  PROVE  Kept(c)
<1> DEFINE k == call[c]
           r == [stub |-> NoId, code |-> code, reqs |-> reqs, resps |-> resps]
<1>1. call'[c] = j /\ history' = [history EXCEPT ![c] = Append(history[c], r)]
  BY InvOf, SetEffect DEF Records, Domains
<1>2. r.stub = NoId /\ r.code = j.code
  OBVIOUS
<1> HIDE DEF r
<1>3. CallInv(j, Append(history[c], r), upstream[c], captured[c], applied[c])
  <2>1. Ended(j, k)
    BY DEF Ended
  <2>2. CallInv(k, history[c], upstream[c], captured[c], applied[c])
    BY InvOf
  <2> HIDE DEF k
  <2> QED BY ONLY <1>2, <2>1, <2>2, Recording
<1> QED BY <1>1, <1>3, Told

\* The record of an upstream leg (Record).
LEMMA RecordKept ==
  ASSUME CallsInv, NEW c \in Calls, Record(c)
  PROVE  Kept(c)
<1> DEFINE k == call[c]
           j == [k EXCEPT !.at = "done", !.code = k.upCode]
<1>1. /\ k.at = "record" /\ k.kind # "bidi" /\ Set(c, j)
      /\ history' = [history EXCEPT ![c] = Records(c, NoId, k.upCode, k.reqs, k.resps)]
      /\ UNCHANGED <<stubs, upstream, captured, applied>>
  BY DEF Record, RecordProxy, Done
<1>2. k.upCode \in Codes
  <2>1. k.upCode \in UpstreamCodes
    BY <1>1, InvOf DEF CallInv, CallTyped, Placed
  <2> QED BY <2>1 DEF UpstreamCodes, Codes
<1>3. Sets(j, k, {"at", "code", "gone"}) /\ j.at = "done" /\ j.code = k.upCode
  BY InvOf DEF Sets, Fields
<1> HIDE DEF j
<1> QED BY <1>1, <1>2, <1>3, RecordProxyKept

----------------------------------------------------------------------------
(* Bidirectional streams.                                                  *)

\* A stream that ends with a code: it goes upstream, or leaves its record.
StreamEnd(j, k, code, last) ==
  IF CanFallback(k, code)
  THEN /\ Sets(j, k, {"at", "prefetched", "missed", "last"})
       /\ j.at = "forward" /\ j.last = last
       /\ j.prefetched = <<>> \/ (k.at = "select" /\ j.prefetched = <<k.read>>)
  ELSE /\ Sets(j, k, {"at", "code", "sent", "last"})
       /\ j.at = "done" /\ j.code = code /\ j.sent = k.sent /\ j.last = last

\* A stream is handed to the upstream, or ends with its record.
LEMMA StreamEnds ==
  ASSUME CallsInv, NEW c \in Calls, NEW code \in Codes, NEW last \in Ids \cup {NoId},
         call[c].kind = "bidi", call[c].at \in Mocking \ {"forward", "deleting"},
         NEW j, Set(c, j), StreamEnd(j, call[c], code, last),
         NEW status,
         \/ status = code
         \/ code = "Canceled" /\ call[c].gone /\ status \in CanceledAs,
         history' = IF CanFallback(call[c], status) THEN history
                    ELSE [history EXCEPT ![c] = Records(c, last, status, call[c].read, call[c].sent)],
         UNCHANGED <<stubs, upstream, captured, applied>>
  PROVE  Kept(c)
<1> DEFINE k == call[c]
<1>0. call'[c] = j
  BY InvOf, SetEffect DEF Domains
<1>s. /\ status = code \/ Unknowable(status, k, code)
      /\ CanFallback(k, status) <=> CanFallback(k, code)
  BY CanceledStatus
<1>1. CASE CanFallback(k, code)
  <2>1. CallInv(j, history[c], upstream[c], captured[c], applied[c])
    BY <1>1, InvOf, HandingOver DEF StreamEnd
  <2> QED BY <1>0, <1>1, <1>s, <2>1, Quiet
<1>2. CASE ~CanFallback(k, code)
  <2> DEFINE r == [stub |-> last, code |-> status, reqs |-> k.read, resps |-> k.sent]
             g == Append(history[c], r)
  <2>1. history' = [history EXCEPT ![c] = g]
    BY <1>2, <1>s DEF Records
  <2>2. Len(g) = 1 /\ g # <<>> /\ g[1].code = status /\ history[c] = <<>>
    <3>1. r.code = status /\ history[c] = <<>>
      BY InvOf DEF CallInv, Placed, Mocking
    <3> HIDE DEF r
    <3> QED BY <3>1, FirstRecord
  <2> HIDE DEF g, r
  <2>3. k.sent \in Nat /\ ~(k.mode \in {"replay", "capture"} /\ code = "NotFound")
    BY <1>2, InvOf DEF CallTyped, CanFallback
  <2>4. /\ Sets(j, k, {"at", "code", "sent", "last"})
        /\ j.at = "done" /\ j.code = code /\ j.sent = k.sent /\ j.last = last
    BY <1>2 DEF StreamEnd
  <2>5. CallInv(j, g, upstream[c], captured[c], applied[c])
    BY <1>s, <2>2, <2>3, <2>4, InvOf, Returning
  <2> QED BY <1>0, <2>1, <2>5, Told
<1> QED BY <1>1, <1>2

\* Where a stream can be when the mock gives it up, its last stub is a stub.
LEMMA ReturnBidiKept ==
  ASSUME CallsInv, NEW c \in Calls, NEW code \in Codes, NEW status, ReturnBidi(c, code, status),
         \/ status = code
         \/ code = "Canceled" /\ call[c].gone /\ status \in CanceledAs,
         call[c].kind = "bidi", call[c].at \in Mocking \ {"forward", "deleting"}
  PROVE  Kept(c)
<1> DEFINE k == call[c]
           j == Returned(k, code)
<1>1. Set(c, j) /\ k.last \in Ids \cup {NoId}
  BY InvOf DEF ReturnBidi, CallTyped
<1>2. StreamEnd(j, k, code, k.last)
  <2>1. CASE CanFallback(k, code)
    <3>1. j = [k EXCEPT !.at = "forward", !.prefetched = <<>>]
      BY <2>1 DEF Returned
    <3> QED BY <2>1, <3>1, InvOf DEF StreamEnd, Sets, Fields
  <2>2. CASE ~CanFallback(k, code)
    <3>1. j = [k EXCEPT !.at = "done", !.code = code]
      BY <2>2 DEF Returned, Done
    <3> QED BY <2>2, <3>1, InvOf DEF StreamEnd, Sets, Fields
  <2> QED BY <2>1, <2>2
<1>3. /\ history' = IF CanFallback(k, status) THEN history
                    ELSE [history EXCEPT ![c] = Records(c, k.last, status, k.read, k.sent)]
      /\ UNCHANGED <<stubs, upstream, captured, applied>>
  BY DEF ReturnBidi, RecordStream
<1> HIDE DEF j
<1> QED BY <1>1, <1>2, <1>3, StreamEnds

\* A stream opens (Open).
LEMMA OpenKept ==
  ASSUME CallsInv, NEW c \in Calls, Open(c)
  PROVE  Kept(c)
<1> DEFINE k == call[c]
<1>0. /\ k.at = "new" /\ k.kind = "bidi" /\ k.at \in Mocking \ {"forward", "deleting"}
      /\ k.last \in Ids \cup {NoId} /\ "NotFound" \in Codes
      /\ k.matching \subseteq Ids \X StubValues
  BY InvOf DEF Open, CallTyped, Mocking, Codes
<1>1. CASE Set(c, [k EXCEPT !.at = "forward"])
  <2>1. call'[c] = [k EXCEPT !.at = "forward"]
    BY <1>1, InvOf, SetEffect DEF Domains
  <2>2. /\ Sets(call'[c], k, {"at", "prefetched", "missed", "last"}) /\ call'[c].at = "forward"
        /\ call'[c].prefetched = k.prefetched /\ call'[c].last = k.last
    BY <2>1, InvOf DEF Sets, Fields
  <2>3. CallInv(call'[c], history[c], upstream[c], captured[c], applied[c])
    BY <1>0, <2>2, InvOf, HandingOver
  <2> QED BY <1>1, <2>3, Quiet DEF Open
<1>2. CASE Set(c, Returned(k, "NotFound"))
  <2>1. CASE CanFallback(k, "NotFound")
    <3>1. call'[c] = [k EXCEPT !.at = "forward", !.prefetched = <<>>]
      BY <1>0, <1>2, <2>1, InvOf, SetEffect DEF Returned, Domains
    <3>2. /\ Sets(call'[c], k, {"at", "prefetched", "missed", "last"}) /\ call'[c].at = "forward"
          /\ call'[c].prefetched = <<>> /\ call'[c].last = k.last
      BY <3>1, InvOf DEF Sets, Fields
    <3>3. CallInv(call'[c], history[c], upstream[c], captured[c], applied[c])
      BY <1>0, <3>2, InvOf, HandingOver
    <3> QED BY <1>2, <3>3, Quiet DEF Open
  <2>2. CASE ~CanFallback(k, "NotFound")
    <3>1. call'[c] = [k EXCEPT !.at = "done", !.code = "NotFound"]
      BY <1>2, <2>2, InvOf, SetEffect DEF Returned, Done, Domains
    <3>2. /\ Sets(call'[c], k, {"at", "code", "sent", "last"}) /\ call'[c].at = "done"
          /\ call'[c].code = "NotFound" /\ call'[c].sent = k.sent /\ call'[c].last = k.last
      BY <3>1, InvOf DEF Sets, Fields
    <3>3. k.mode \notin {"replay", "capture"}
      BY <2>2 DEF CanFallback
    <3>4. CallInv(call'[c], history[c], upstream[c], captured[c], applied[c])
      BY <1>0, <3>2, <3>3, InvOf, ReturningUntold
    <3> QED BY <1>2, <3>4, Quiet DEF Open
  <2> QED BY <2>1, <2>2
<1>3. CASE Set(c, [k EXCEPT !.at = "loop"])
  <2>1. call'[c] = [k EXCEPT !.at = "loop"]
    BY <1>3, InvOf, SetEffect DEF Domains
  <2>2. /\ Sets(call'[c], k, {"at", "read", "matching", "stub", "body"}) /\ call'[c].at = "loop"
        /\ call'[c].read = k.read /\ call'[c].body = k.body /\ call'[c].stub = k.stub
        /\ call'[c].matching = k.matching
    BY <2>1, InvOf DEF Sets, Fields
  <2>3. CallInv(call'[c], history[c], upstream[c], captured[c], applied[c])
    BY <1>0, <2>2, InvOf, Narrowing
  <2> QED BY <1>3, <2>3, Quiet DEF Open
<1> QED BY <1>1, <1>2, <1>3 DEF Open

\* The next message narrows the stubs (NextMessage).
LEMMA NextMessageKept ==
  ASSUME CallsInv, NEW c \in Calls, NextMessage(c)
  PROVE  Kept(c)
<1> DEFINE k == call[c]
           visible == {id \in Ids : /\ Visible(stubs[id], k.session)
                                    /\ HasUses(id, stubs[id], k.session)}
           pool == IF k.matching = {} THEN {<<id, stubs[id]>> : id \in visible} ELSE k.matching
           fitting == {p \in pool : Fits(p[2], k)}
<1>1. /\ k.at = "loop" /\ k.read < Len(k.msgs)
      /\ call'[c] = [k EXCEPT !.read = @ + 1, !.at = "select", !.matching = fitting]
  BY InvOf, SetEffect DEF NextMessage, Domains
<1>2. fitting \subseteq Ids \X StubValues
  <2>1. \A id \in visible : id \in Ids /\ stubs[id] \in StubValues
    BY InvOf DEF Visible, StubsTyped
  <2>2. k.matching \subseteq Ids \X StubValues
    BY InvOf DEF CallTyped
  <2> HIDE DEF visible
  <2>3. {<<id, stubs[id]>> : id \in visible} \subseteq Ids \X StubValues
    BY <2>1
  <2> QED BY <2>2, <2>3
<1> HIDE DEF fitting
<1>3. /\ Sets(call'[c], k, {"at", "read", "matching", "stub", "body"}) /\ call'[c].at = "select"
      /\ call'[c].read = k.read + 1 /\ call'[c].body = k.body /\ call'[c].stub = k.stub
      /\ call'[c].matching = fitting
  BY <1>1, InvOf DEF Sets, Fields
<1>4. k.kind = "bidi"
  BY <1>1, InvOf DEF CallInv, Placed
<1>5. CallInv(call'[c], history[c], upstream[c], captured[c], applied[c])
  BY <1>1, <1>2, <1>3, <1>4, InvOf, Narrowing
<1> QED BY <1>5, Quiet DEF NextMessage

\* A stub is reserved for the message, or dropped (ReserveBidi).
LEMMA ReserveBidiKept ==
  ASSUME CallsInv, NEW c \in Calls, ReserveBidi(c)
  PROVE  Kept(c)
<1> DEFINE k == call[c]
           rest(p) == IF p[2].inputs = 0 /\ k.read = 1 THEN {} ELSE k.matching
<1>0. k.at = "select" /\ k.kind = "bidi" /\ k.matching \subseteq Ids \X StubValues
  BY InvOf DEF ReserveBidi, CallInv, CallTyped, Placed
<1>1. PICK p \in k.matching :
        \/ Set(c, [k EXCEPT !.at = "matched", !.stub = p[1], !.body = p[2], !.matching = rest(p)])
        \/ Set(c, [k EXCEPT !.matching = @ \ {p}])
  BY DEF ReserveBidi
<1>2. p[1] \in Ids /\ p[2] \in StubValues /\ rest(p) \subseteq Ids \X StubValues
  BY <1>0
<1> HIDE DEF rest
<1>3. \/ call'[c] = [k EXCEPT !.at = "matched", !.stub = p[1], !.body = p[2], !.matching = rest(p)]
      \/ call'[c] = [k EXCEPT !.matching = @ \ {p}]
  BY <1>1, InvOf, SetEffect DEF Domains
<1>4. /\ Sets(call'[c], k, {"at", "read", "matching", "stub", "body"}) /\ call'[c].read = k.read
      /\ \/ /\ call'[c].at = "matched" /\ call'[c].stub = p[1] /\ call'[c].body = p[2]
            /\ call'[c].matching = rest(p)
         \/ /\ call'[c].at = k.at /\ call'[c].stub = k.stub /\ call'[c].body = k.body
            /\ call'[c].matching = k.matching \ {p}
  BY <1>3, InvOf DEF Sets, Fields
<1>5. k.body \in StubValues \cup {NoStub} /\ k.stub \in Ids \cup {NoId}
  BY InvOf DEF CallTyped
<1>6. CallInv(call'[c], history[c], upstream[c], captured[c], applied[c])
  <2>1. call'[c].matching \subseteq Ids \X StubValues
    BY <1>0, <1>2, <1>4
  <2> QED BY <1>0, <1>2, <1>4, <1>5, <2>1, InvOf, Narrowing
<1> QED BY <1>1, <1>6, Quiet DEF ReserveBidi

\* What a miss changes when the call goes upstream.
LEMMA MissedFields ==
  ASSUME NEW k, DOMAIN k = Fields, NEW read, CanFallback(k, "NotFound")
  PROVE  /\ Sets(Missed(k, read), k, {"at", "prefetched", "missed", "last"})
         /\ Missed(k, read).at = "forward" /\ Missed(k, read).prefetched = read
         /\ Missed(k, read).last = k.last
<1>1. Missed(k, read) = [k EXCEPT !.at = "forward", !.prefetched = read, !.missed = TRUE]
  BY DEF Missed
<1> QED BY <1>1 DEF Sets, Fields

\* No stub is left (MissBidi).
LEMMA MissBidiKept ==
  ASSUME CallsInv, NEW c \in Calls, MissBidi(c)
  PROVE  Kept(c)
<1> DEFINE k == call[c]
<1>1. /\ k.at = "select" /\ k.kind = "bidi" /\ k.at \in Mocking \ {"forward", "deleting"}
      /\ "NotFound" \in Codes /\ k.last \in Ids \cup {NoId}
  BY InvOf DEF MissBidi, CallInv, CallTyped, Placed, Mocking, Codes
<1>2. CASE ReturnBidi(c, "NotFound", "NotFound")
  BY <1>1, <1>2, ReturnBidiKept
<1>3. CASE /\ RecordStream(c, "NotFound") /\ Set(c, Missed(k, <<k.read>>))
           /\ UNCHANGED <<stubs, upstream, captured, applied>>
  <2> DEFINE j == Missed(k, <<k.read>>)
  <2>1. StreamEnd(j, k, "NotFound", k.last)
    <3>1. CASE CanFallback(k, "NotFound")
      BY <1>1, <3>1, InvOf, MissedFields DEF StreamEnd
    <3>2. CASE ~CanFallback(k, "NotFound")
      <4>1. j = [k EXCEPT !.at = "done", !.code = "NotFound"]
        BY <3>2 DEF Missed, Done
      <4> QED BY <3>2, <4>1, InvOf DEF StreamEnd, Sets, Fields
    <3> QED BY <3>1, <3>2
  <2>2. Set(c, j) /\ UNCHANGED <<stubs, upstream, captured, applied>>
    BY <1>3
  <2>3. history' = IF CanFallback(k, "NotFound") THEN history
                   ELSE [history EXCEPT ![c] = Records(c, k.last, "NotFound", k.read, k.sent)]
    BY <1>3 DEF RecordStream
  <2> HIDE DEF j
  <2> QED BY <1>1, <2>1, <2>2, <2>3, StreamEnds
<1> QED BY <1>2, <1>3 DEF MissBidi

\* The client closed its side (EndOfStream).
LEMMA EndOfStreamKept ==
  ASSUME CallsInv, NEW c \in Calls, EndOfStream(c)
  PROVE  Kept(c)
<1>1. /\ call[c].kind = "bidi" /\ call[c].at \in Mocking \ {"forward", "deleting"}
      /\ "OK" \in Codes /\ ReturnBidi(c, "OK", "OK")
  BY InvOf DEF EndOfStream, CallInv, Placed, Mocking, Codes
<1> QED BY <1>1, ReturnBidiKept

\* The client leaves between two messages (LoopFails).
LEMMA LoopFailsKept ==
  ASSUME CallsInv, NEW c \in Calls, LoopFails(c)
  PROVE  Kept(c)
<1>1. /\ call[c].kind = "bidi" /\ call[c].at \in Mocking \ {"forward", "deleting"}
      /\ "Canceled" \in Codes /\ call[c].gone
      /\ \E status \in CanceledAs : ReturnBidi(c, "Canceled", status)
  BY InvOf DEF LoopFails, CallInv, Placed, Mocking, Codes
<1> QED BY <1>1, ReturnBidiKept

\* A delay cut short or a template that fails (PrepareFails).
LEMMA PrepareFailsKept ==
  ASSUME CallsInv, NEW c \in Calls, PrepareFails(c)
  PROVE  Kept(c)
<1>1. /\ call[c].kind = "bidi" /\ call[c].at \in Mocking \ {"forward", "deleting"}
      /\ \E code \in {"Canceled", "Internal"} : ReturnBidi(c, code, code)
  BY DEF PrepareFails, Mocking
<1>2. {"Canceled", "Internal"} \subseteq Codes
  BY DEF Codes
<1> QED BY <1>1, <1>2, ReturnBidiKept

\* The last answer of a stream: its stub counts as the last one.
LastAnswer(k, code, last) == [Returned(k, code) EXCEPT !.last = last]

\* The fields of a stream after its last answer.
LEMMA LastAnswerEnds ==
  ASSUME NEW k, DOMAIN k = Fields, k.kind = "bidi", k.at = "effects", NEW code, NEW last
  PROVE  StreamEnd(LastAnswer(k, code, last), k, code, last)
<1> DEFINE j == LastAnswer(k, code, last)
<1>1. CASE CanFallback(k, code)
  <2>1. j = [[k EXCEPT !.at = "forward", !.prefetched = <<>>] EXCEPT !.last = last]
    BY <1>1 DEF Returned, LastAnswer
  <2> QED BY <1>1, <2>1 DEF StreamEnd, Sets, Fields
<1>2. CASE ~CanFallback(k, code)
  <2>1. j = [[k EXCEPT !.at = "done", !.code = code] EXCEPT !.last = last]
    BY <1>2 DEF Returned, Done, LastAnswer
  <2> QED BY <1>2, <2>1 DEF StreamEnd, Sets, Fields
<1> QED BY <1>1, <1>2

\* A script that is not at its end holds a message at least.
LEMMA ScriptedCount ==
  ASSUME NEW k, k.body \in StubValues, k.read \in Nat, ~Exhausted(k)
  PROVE  Scripted(k) \in Nat
<1>1. k.body.len \in Nat /\ k.body.inputs \in Nat
  BY DEF StubValues
<1> QED BY <1>1 DEF Scripted, Exhausted

\* The answer to a message of a stream (AnswerBidi).
LEMMA AnswerBidiKept ==
  ASSUME CallsInv, NEW c \in Calls, AnswerBidi(c)
  PROVE  Kept(c)
<1> DEFINE k == call[c]
           code == IF k.body.code = "OK" /\ Exhausted(k) THEN "NotFound" ELSE k.body.code
           last == IF k.body.code = "OK" THEN k.stub ELSE k.last
<1>1. /\ k.at = "effects" /\ k.kind = "bidi" /\ k.ops = <<>>
      /\ k.at \in Mocking \ {"forward", "deleting"}
      /\ UNCHANGED <<stubs, upstream, captured, applied>>
  BY DEF AnswerBidi, EffectsDone, Mocking
<1>2. k.body \in StubValues /\ last \in Ids \cup {NoId} /\ k.read \in Nat /\ k.sent \in Nat
  <2>1. CallTyped(k) /\ Carrying(k, history[c], applied[c])
    BY InvOf DEF CallInv
  <2>2. k.body \in StubValues
    BY <1>1, <2>1, EffectsPrepared
  <2> QED BY <2>1, <2>2 DEF CallTyped
<1>3. code \in Codes /\ {"Internal", "Canceled"} \subseteq Codes
  BY <1>2 DEF Codes, StubValues
<1>4. ASSUME NEW end \in Codes, NEW status, Set(c, LastAnswer(k, end, last)),
             status = end \/ (end = "Canceled" /\ k.gone /\ status \in CanceledAs),
             history' = IF CanFallback(k, status) THEN history
                        ELSE [history EXCEPT ![c] = Records(c, last, status, k.read, k.sent)]
      PROVE  Kept(c)
  <2>1. StreamEnd(LastAnswer(k, end, last), k, end, last)
    BY <1>1, InvOf, LastAnswerEnds
  <2> HIDE DEF last
  <2> QED BY <1>1, <1>2, <1>4, <2>1, StreamEnds
<1>5. ASSUME code = "OK", UNCHANGED history,
             Set(c, [k EXCEPT !.at = "loop", !.sent = @ + Scripted(k),
                     !.served = @ + 1, !.last = last])
      PROVE  Kept(c)
  <2>1. call'[c] = [k EXCEPT !.at = "loop", !.sent = @ + Scripted(k),
                    !.served = @ + 1, !.last = last]
    BY <1>5, InvOf, SetEffect DEF Domains
  <2>2. Scripted(k) \in Nat
    BY <1>2, <1>5, ScriptedCount
  <2> HIDE DEF last, code
  <2>3. /\ Sets(call'[c], k, {"at", "sent", "served", "last"}) /\ call'[c].at = "loop"
        /\ call'[c].sent = k.sent + Scripted(k) /\ call'[c].served = k.served + 1
        /\ call'[c].last = last
    BY <2>1, InvOf DEF Sets, Fields
  <2>4. call'[c].sent \in Nat
    BY <1>2, <2>2, <2>3
  <2>5. CallInv(call'[c], history[c], upstream[c], captured[c], applied[c])
    BY <1>1, <1>2, <2>3, <2>4, InvOf, AnsweringOn
  <2> QED BY <1>1, <1>5, <2>5, Quiet
<1>6. \/ \E end, status \in Codes :
           /\ status = end \/ (end = "Canceled" /\ k.gone /\ status \in CanceledAs)
           /\ history' = IF CanFallback(k, status) THEN history
                         ELSE [history EXCEPT ![c] = Records(c, last, status, k.read, k.sent)]
           /\ Set(c, LastAnswer(k, end, last))
      \/ /\ code = "OK" /\ UNCHANGED history
         /\ Set(c, [k EXCEPT !.at = "loop", !.sent = @ + Scripted(k),
                    !.served = @ + 1, !.last = last])
  BY DEF AnswerBidi, LastAnswer
<1> HIDE DEF last, code
<1> QED BY <1>3, <1>4, <1>5, <1>6

----------------------------------------------------------------------------
(* The proxied stream.                                                     *)

\* The upstream stream opens, or not (OpenPumps).
LEMMA OpenPumpsKept ==
  ASSUME CallsInv, NEW c \in Calls, OpenPumps(c)
  PROVE  Kept(c)
<1> DEFINE k == call[c]
<1>1. /\ k.at = "forward" /\ k.kind = "bidi"
      /\ \/ call'[c] = [k EXCEPT !.at = "await", !.req = "run", !.resp = "run"]
         \/ call'[c] = [k EXCEPT !.at = "record", !.reqErr = "Aborted"]
  BY InvOf, SetEffect DEF OpenPumps, Domains
<1>2. /\ Sets(call'[c], k, {"at", "req", "resp", "reqErr"})
      /\ \/ /\ call'[c].at = "await" /\ call'[c].req = "run" /\ call'[c].resp = "run"
            /\ call'[c].reqErr = k.reqErr
         \/ /\ call'[c].at = "record" /\ call'[c].req = k.req /\ call'[c].resp = k.resp
            /\ call'[c].reqErr = "Aborted"
  <2>1. CASE call'[c] = [k EXCEPT !.at = "await", !.req = "run", !.resp = "run"]
    BY <2>1, InvOf DEF Sets, Fields
  <2>2. CASE call'[c] = [k EXCEPT !.at = "record", !.reqErr = "Aborted"]
    BY <2>2, InvOf DEF Sets, Fields
  <2> QED BY <1>1, <2>1, <2>2
<1>3. call'[c].reqErr \in Codes \cup {"none"}
  BY <1>2, InvOf DEF CallTyped, Codes
<1>4. CallInv(call'[c], history[c], upstream[c], captured[c], applied[c])
  BY <1>1, <1>2, <1>3, InvOf, Piping
<1> QED BY <1>4, Quiet DEF OpenPumps

\* The pump of the requests takes a message (PumpRequest).
LEMMA PumpRequestKept ==
  ASSUME CallsInv, NEW c \in Calls, PumpRequest(c)
  PROVE  Kept(c)
<1> DEFINE k == call[c]
           early == k.prefetched # <<>>
           next == IF early THEN Head(k.prefetched) ELSE k.read + 1
           rest == IF early THEN Tail(k.prefetched) ELSE k.prefetched
           read == IF early THEN k.read ELSE k.read + 1
           taken == [k EXCEPT !.prefetched = rest, !.read = read, !.reqs = @ + 1]
           sent == [upstream EXCEPT ![c] = Append(@, next)]
           ends(err) == [taken EXCEPT !.req = "done", !.reqErr = err]
<1>1. /\ k.req = "run" /\ next <= Len(k.msgs)
      /\ \/ call'[c] = taken /\ k.bidiCancel # TRUE /\ upstream' = sent
         \/ /\ \E err \in {"OK", "Unknown", k.reqErr} : call'[c] = ends(err)
            /\ upstream' \in {upstream, sent}
  <2>1. \/ Set(c, NextRequest(taken)) /\ upstream' = sent
        \/ Set(c, ReqDone(taken, "Unknown")) /\ UNCHANGED upstream
    BY DEF PumpRequest
  <2>2. taken.at = k.at /\ taken.reqErr = k.reqErr /\ taken.bidiCancel = k.bidiCancel
    BY InvOf DEF Fields
  <2>3. \A err : ReqDone(taken, err) \in {ends(err), ends(k.reqErr)}
    BY <2>2 DEF ReqDone
  <2>4. k.req = "run" /\ next <= Len(k.msgs)
    BY DEF PumpRequest
  <2>5. \/ NextRequest(taken) = taken /\ k.bidiCancel # TRUE
        \/ NextRequest(taken) = ReqDone(taken, "OK")
    BY <2>2 DEF NextRequest
  <2> HIDE DEF taken, next, ends, sent
  <2>6. \A j : Set(c, j) => call'[c] = j
    BY InvOf, SetEffect DEF Domains
  <2>7. CASE Set(c, NextRequest(taken)) /\ upstream' = sent
    BY <2>3, <2>4, <2>5, <2>6, <2>7
  <2>8. CASE Set(c, ReqDone(taken, "Unknown")) /\ UNCHANGED upstream
    BY <2>3, <2>4, <2>6, <2>8
  <2> QED BY <2>1, <2>7, <2>8
<1>2. \/ k.prefetched # <<>> /\ next = Head(k.prefetched) /\ rest = Tail(k.prefetched) /\ read = k.read
      \/ k.prefetched = <<>> /\ next = k.read + 1 /\ rest = k.prefetched /\ read = k.read + 1
  OBVIOUS
<1>3. /\ {"OK", "Unknown", k.reqErr} \subseteq Codes \cup {"none"}
      /\ k.read \in Nat /\ Len(k.msgs) \in Nat
  BY InvOf DEF CallTyped, Codes
<1>n. /\ Append(upstream[c], next) # upstream[c]
      /\ sent = [upstream EXCEPT ![c] = Append(upstream[c], next)]
  <2>1. upstream[c] \in Seq(1..Len(k.msgs))
    BY InvOf DEF CallInv, Splitting
  <2>2. Len(Append(upstream[c], next)) = Len(upstream[c]) + 1 /\ Len(upstream[c]) \in Nat
    BY <2>1
  <2> QED BY <2>2
<1> HIDE DEF next, rest, read, early
<1>4. /\ Sets(call'[c], k, {"prefetched", "read", "reqs", "req", "reqErr"})
      /\ call'[c].prefetched = rest /\ call'[c].read = read /\ call'[c].reqs = k.reqs + 1
      /\ \/ /\ call'[c].req = k.req /\ call'[c].reqErr = k.reqErr /\ k.bidiCancel # TRUE
            /\ upstream' = sent
         \/ call'[c].req = "done" /\ call'[c].reqErr \in {"OK", "Unknown", k.reqErr}
  <2>1. CASE call'[c] = taken /\ k.bidiCancel # TRUE /\ upstream' = sent
    BY <2>1, InvOf DEF Sets, Fields
  <2>2. ASSUME NEW err \in {"OK", "Unknown", k.reqErr}, call'[c] = ends(err)
        PROVE  /\ Sets(call'[c], k, {"prefetched", "read", "reqs", "req", "reqErr"})
               /\ call'[c].prefetched = rest /\ call'[c].read = read
               /\ call'[c].reqs = k.reqs + 1 /\ call'[c].req = "done" /\ call'[c].reqErr = err
    BY <2>2, InvOf DEF Sets, Fields
  <2> HIDE DEF taken, ends, sent
  <2> QED BY <1>1, <2>1, <2>2
<1>5. call'[c].req \in {"run", "done"} /\ call'[c].reqErr \in Codes \cup {"none"}
  BY <1>1, <1>3, <1>4
<1>6. k.prefetched = <<>> => k.read < Len(k.msgs)
  BY <1>1, <1>2, <1>3
<1>7. PICK v : /\ v = upstream[c] \/ v = Append(upstream[c], next)
               /\ \/ upstream' = upstream /\ v = upstream[c]
                  \/ upstream' = [upstream EXCEPT ![c] = v]
               /\ upstream' = sent => v # upstream[c]
  <2>1. CASE upstream' = sent
    BY <1>n, <2>1
  <2>2. CASE upstream' # sent
    BY <1>1, <2>2
  <2> QED BY <2>1, <2>2
<1>8. Takes(call'[c], k, v, upstream[c])
  BY <1>2, <1>4, <1>6, <1>7 DEF Takes
<1>9. k.req = "run" /\ UNCHANGED <<stubs, history, captured, applied>> /\ \E j : Set(c, j)
  BY DEF PumpRequest
<1>r. call'[c].req = "run" => /\ k.bidiCancel # TRUE /\ v # upstream[c]
                              /\ call'[c].reqs = k.reqs + 1
  BY <1>4, <1>7
<1> HIDE DEF sent
<1>10. CallInv(call'[c], history[c], v, captured[c], applied[c])
  BY <1>4, <1>5, <1>8, <1>9, <1>r, InvOf, PumpingRequest
<1> QED BY <1>7, <1>9, <1>10, Passed

\* The pump of the requests ends without handing a message on.
LEMMA RequestsEnd ==
  ASSUME CallsInv, NEW c \in Calls, NEW j, Set(c, j), call[c].req = "run",
         Sets(j, call[c], {"prefetched", "read", "reqs", "req", "reqErr"}),
         j.req = "done", j.reqErr \in Codes \cup {"none"}, j.reqs = call[c].reqs,
         j.prefetched = call[c].prefetched,
         \/ j.read = call[c].read
         \/ /\ call[c].prefetched = <<>> /\ call[c].read < Len(call[c].msgs)
            /\ j.read = call[c].read + 1,
         UNCHANGED <<stubs, history, upstream, captured, applied>>
  PROVE  Kept(c)
<1>1. call'[c] = j
  BY InvOf, SetEffect DEF Domains
<1>2. \/ j.prefetched = call[c].prefetched /\ j.read = call[c].read
      \/ Takes(j, call[c], upstream[c], upstream[c])
  BY DEF Takes
<1>3. CallInv(j, history[c], upstream[c], captured[c], applied[c])
  BY <1>1, <1>2, InvOf, PumpingRequest
<1> QED BY <1>1, <1>3, Quiet

\* The end of the client's messages (PumpRequestEnds).
LEMMA PumpRequestEndsKept ==
  ASSUME CallsInv, NEW c \in Calls, PumpRequestEnds(c)
  PROVE  Kept(c)
<1> DEFINE k == call[c]
           j == ReqDone(k, "OK")
           i == ReqDone([k EXCEPT !.read = @ + 1], "Internal")
<1>1. /\ k.req = "run" /\ k.prefetched = <<>>
      /\ Set(c, j) \/ (k.read < Len(k.msgs) /\ Set(c, i))
      /\ UNCHANGED <<stubs, history, upstream, captured, applied>>
  BY DEF PumpRequestEnds
<1>2. k.reqErr \in Codes \cup {"none"} /\ {"OK", "Internal"} \subseteq Codes
  BY InvOf DEF CallTyped, Codes
<1>3. /\ Sets(j, k, {"prefetched", "read", "reqs", "req", "reqErr"}) /\ j.req = "done"
      /\ j.reqErr \in {"OK", k.reqErr} /\ j.reqs = k.reqs
      /\ j.prefetched = k.prefetched /\ j.read = k.read
  BY InvOf DEF ReqDone, Sets, Fields
<1>4. /\ Sets(i, k, {"prefetched", "read", "reqs", "req", "reqErr"}) /\ i.req = "done"
      /\ i.reqErr \in {"Internal", k.reqErr} /\ i.reqs = k.reqs
      /\ i.prefetched = k.prefetched /\ i.read = k.read + 1
  BY InvOf DEF ReqDone, Sets, Fields
<1> HIDE DEF i, j
<1>5. CASE Set(c, j)
  BY <1>1, <1>2, <1>3, <1>5, RequestsEnd
<1>6. CASE k.read < Len(k.msgs) /\ Set(c, i)
  BY <1>1, <1>2, <1>4, <1>6, RequestsEnd
<1> QED BY <1>1, <1>5, <1>6

\* The pump of the requests is cancelled (PumpRequestCanceled).
LEMMA PumpRequestCanceledKept ==
  ASSUME CallsInv, NEW c \in Calls, PumpRequestCanceled(c)
  PROVE  Kept(c)
<1> DEFINE k == call[c]
<1>1. PICK err \in {"OK", "Canceled"} : Set(c, ReqDone(k, err))
  BY DEF PumpRequestCanceled
<1> DEFINE j == ReqDone(k, err)
<1>2. k.reqErr \in Codes \cup {"none"} /\ err \in Codes
  BY InvOf DEF CallTyped, Codes
<1>3. /\ Sets(j, k, {"prefetched", "read", "reqs", "req", "reqErr"}) /\ j.req = "done"
      /\ j.reqErr \in {err, k.reqErr} /\ j.reqs = k.reqs
      /\ j.prefetched = k.prefetched /\ j.read = k.read
  BY InvOf DEF ReqDone, Sets, Fields
<1>4. k.req = "run" /\ Set(c, j) /\ UNCHANGED <<stubs, history, upstream, captured, applied>>
  BY <1>1 DEF PumpRequestCanceled
<1> HIDE DEF j
<1> QED BY <1>2, <1>3, <1>4, RequestsEnd

\* A step of the pump of the responses.
LEMMA ResponseStep ==
  ASSUME CallsInv, NEW c \in Calls, NEW j, Set(c, j), call[c].resp = "run",
         Sets(j, call[c], {"resps", "ups", "resp", "respErr", "upCode"}),
         j.resp \in {"run", "done"}, j.respErr \in Codes \cup {"none"},
         j.upCode \in UpstreamCodes \cup {"none"},
         \/ call[c].resps < MaxUp /\ j.resps = call[c].resps + 1 /\ j.ups = call[c].ups + 1
         \/ /\ call[c].resps < MaxUp /\ j.resps = call[c].resps + 1 /\ j.ups = call[c].ups
            /\ j.resp = "done"
         \/ j.resps = call[c].resps /\ j.ups = call[c].ups,
         j.resp = "run" => call[c].bidiCancel # TRUE,
         UNCHANGED <<stubs, history, upstream, captured, applied>>
  PROVE  Kept(c)
<1>1. call'[c] = j /\ j.resps \in 0..MaxUp
  BY InvOf, SetEffect, CallsAssumption DEF Domains, CallTyped
<1>2. CallInv(j, history[c], upstream[c], captured[c], applied[c])
  BY <1>1, InvOf, PumpingResponse
<1> QED BY <1>1, <1>2, Quiet

\* A response of the upstream, or its end (PumpResponse).
LEMMA PumpResponseKept ==
  ASSUME CallsInv, NEW c \in Calls, PumpResponse(c)
  PROVE  Kept(c)
<1> DEFINE k == call[c]
           turned == RespDone([k EXCEPT !.resps = @ + 1], "Canceled")
           passed == [k EXCEPT !.resps = @ + 1, !.ups = @ + 1]
           last == RespDone(passed, "OK")
           ended(code) == RespDone([k EXCEPT !.upCode = code], code)
<1>1. /\ k.resp = "run"
      /\ \/ /\ k.resps < MaxUp
            /\ \/ Set(c, turned) \/ Set(c, last)
               \/ Set(c, passed) /\ k.bidiCancel # TRUE
         \/ \E code \in UpstreamCodes : Set(c, ended(code))
      /\ UNCHANGED <<stubs, history, upstream, captured, applied>>
  <2>1. passed.bidiCancel = k.bidiCancel
    BY InvOf DEF Fields
  <2>2. NextResponse(passed) = last \/ (NextResponse(passed) = passed /\ k.bidiCancel # TRUE)
    BY <2>1 DEF NextResponse
  <2>3. /\ k.resp = "run"
        /\ \/ k.resps < MaxUp /\ (Set(c, turned) \/ Set(c, NextResponse(passed)))
           \/ \E code \in UpstreamCodes : Set(c, ended(code))
        /\ UNCHANGED <<stubs, history, upstream, captured, applied>>
    BY DEF PumpResponse
  <2> HIDE DEF turned, last, passed, ended
  <2> QED BY <2>2, <2>3
<1>2. /\ k.respErr \in Codes \cup {"none"} /\ {"OK", "Canceled"} \subseteq Codes
      /\ UpstreamCodes \subseteq Codes
      /\ k.upCode \in UpstreamCodes \cup {"none"}
  BY InvOf DEF CallTyped, Codes, UpstreamCodes
<1>3. /\ Sets(turned, k, {"resps", "ups", "resp", "respErr", "upCode"}) /\ turned.resp = "done"
      /\ turned.respErr \in {"Canceled", k.respErr} /\ turned.upCode = k.upCode
      /\ turned.resps = k.resps + 1 /\ turned.ups = k.ups
  BY InvOf DEF RespDone, Sets, Fields
<1>4. /\ Sets(passed, k, {"resps", "ups", "resp", "respErr", "upCode"}) /\ passed.resp = k.resp
      /\ passed.respErr = k.respErr /\ passed.upCode = k.upCode
      /\ passed.resps = k.resps + 1 /\ passed.ups = k.ups + 1
  BY InvOf DEF Sets, Fields
<1>l. /\ Sets(last, k, {"resps", "ups", "resp", "respErr", "upCode"}) /\ last.resp = "done"
      /\ last.respErr \in {"OK", k.respErr} /\ last.upCode = k.upCode
      /\ last.resps = k.resps + 1 /\ last.ups = k.ups + 1
  BY InvOf DEF RespDone, Sets, Fields
<1>5. ASSUME NEW code \in UpstreamCodes
      PROVE  /\ Sets(ended(code), k, {"resps", "ups", "resp", "respErr", "upCode"})
             /\ ended(code).resp = "done" /\ ended(code).respErr \in {code, k.respErr}
             /\ ended(code).upCode = code
             /\ ended(code).resps = k.resps /\ ended(code).ups = k.ups
  BY InvOf DEF RespDone, Sets, Fields
<1> HIDE DEF turned, passed, last, ended
<1>6. CASE k.resps < MaxUp /\ Set(c, turned)
  BY <1>1, <1>2, <1>3, <1>6, ResponseStep
<1>7. CASE k.resps < MaxUp /\ Set(c, passed) /\ k.bidiCancel # TRUE
  BY <1>1, <1>2, <1>4, <1>7, ResponseStep
<1>9. CASE k.resps < MaxUp /\ Set(c, last)
  BY <1>1, <1>2, <1>l, <1>9, ResponseStep
<1>8. CASE \E code \in UpstreamCodes : Set(c, ended(code))
  <2>1. PICK code \in UpstreamCodes : Set(c, ended(code))
    BY <1>8
  <2> DEFINE j == ended(code)
  <2>2. /\ Set(c, j) /\ Sets(j, k, {"resps", "ups", "resp", "respErr", "upCode"})
        /\ j.resp = "done" /\ j.respErr \in {code, k.respErr} /\ j.upCode = code
        /\ j.resps = k.resps /\ j.ups = k.ups
    BY <2>1, <1>5
  <2> HIDE DEF j
  <2> QED BY <1>1, <1>2, <2>2, ResponseStep
<1> QED BY <1>1, <1>6, <1>7, <1>8, <1>9

\* The pump of the responses is cancelled (PumpResponseEnds).
LEMMA PumpResponseEndsKept ==
  ASSUME CallsInv, NEW c \in Calls, PumpResponseEnds(c)
  PROVE  Kept(c)
<1> DEFINE k == call[c]
<1>1. PICK err \in {"OK", "Canceled"} : Set(c, RespDone(k, err))
  BY DEF PumpResponseEnds
<1> DEFINE j == RespDone(k, err)
<1>2. /\ k.respErr \in Codes \cup {"none"} /\ err \in Codes
      /\ k.upCode \in UpstreamCodes \cup {"none"}
  BY InvOf DEF CallTyped, Codes
<1>3. /\ Sets(j, k, {"resps", "ups", "resp", "respErr", "upCode"}) /\ j.resp = "done"
      /\ j.respErr \in {err, k.respErr} /\ j.upCode = k.upCode
      /\ j.resps = k.resps /\ j.ups = k.ups
  BY InvOf DEF RespDone, Sets, Fields
<1>4. k.resp = "run" /\ Set(c, j) /\ UNCHANGED <<stubs, history, upstream, captured, applied>>
  BY <1>1 DEF PumpResponseEnds
<1> HIDE DEF j
<1> QED BY <1>2, <1>3, <1>4, ResponseStep

\* The handler has waited for its pumps (Await).
LEMMA AwaitKept ==
  ASSUME CallsInv, NEW c \in Calls, Await(c)
  PROVE  Kept(c)
<1> DEFINE k == call[c]
           next == IF k.mode = "capture" THEN "capture" ELSE "record"
           req == IF k.req = "done" THEN k.reqErr ELSE "OK"
           resp == IF k.resp = "done" THEN k.respErr ELSE "OK"
<1>1. /\ k.at = "await"
      /\ \/ call'[c] = [k EXCEPT !.at = next] /\ k.req = "done" /\ k.resp = "done"
         \/ call'[c] = [k EXCEPT !.at = next, !.bidiCancel = TRUE,
                        !.reqErr = req, !.respErr = resp]
  BY InvOf, SetEffect DEF Await, Domains
<1>2. next = "record" \/ (next = "capture" /\ k.mode = "capture")
  OBVIOUS
<1>3. /\ req \in Codes \cup {"none"} /\ resp \in Codes \cup {"none"}
      /\ k.reqErr \in Codes \cup {"none"} /\ k.respErr \in Codes \cup {"none"}
  BY InvOf DEF CallTyped, Codes
<1> HIDE DEF next, req, resp
<1>4. /\ Sets(call'[c], k, {"at", "bidiCancel", "reqErr", "respErr"}) /\ call'[c].at = next
      /\ call'[c].reqErr \in {k.reqErr, req} /\ call'[c].respErr \in {k.respErr, resp}
      /\ call'[c].bidiCancel = TRUE \/ (k.req # "run" /\ k.resp # "run")
  BY <1>1, InvOf DEF Sets, Fields
<1>5. k.at = "await"
  BY <1>1
<1>6. CallInv(call'[c], history[c], upstream[c], captured[c], applied[c])
  BY <1>2, <1>3, <1>4, <1>5, InvOf, Awaiting
<1> QED BY <1>6, Quiet DEF Await

\* The result of a proxied stream is a status.
LEMMA FirstErrorTyped ==
  ASSUME NEW k, CallTyped(k)
  PROVE  FirstError(k) \in Codes
BY DEF CallTyped, FirstError, Codes

\* The messages are counted (Snapshot).
LEMMA SnapshotKept ==
  ASSUME CallsInv, NEW c \in Calls, Snapshot(c)
  PROVE  Kept(c)
<1> DEFINE k == call[c]
           held == [k EXCEPT !.snapReqs = k.reqs, !.snapResps = k.resps]
<1>1. PICK at : /\ Set(c, [held EXCEPT !.at = at]) /\ k.kind = "bidi"
                /\ \/ k.at = "capture" /\ at \in {"storing", "record"}
                   \/ k.at = "record" /\ at = "recording"
  BY DEF Snapshot
<1>2. call'[c] = [held EXCEPT !.at = at]
  BY <1>1, InvOf, SetEffect DEF Domains
<1>3. /\ Sets(call'[c], k, {"at", "snapReqs", "snapResps"}) /\ call'[c].at = at
      /\ call'[c].snapReqs = k.reqs /\ call'[c].snapResps = k.resps
  BY <1>2, InvOf DEF Sets, Fields
<1>4. CallInv(call'[c], history[c], upstream[c], captured[c], applied[c])
  BY <1>1, <1>3, InvOf, Snapshotting
<1> QED BY <1>1, <1>4, Quiet DEF Snapshot

\* The upstream sends its header (UpstreamHeader).
LEMMA UpstreamHeaderKept ==
  ASSUME CallsInv, NEW c \in Calls, UpstreamHeader(c)
  PROVE  Kept(c)
<1> DEFINE k == call[c]
<1>1. call'[c] = [k EXCEPT !.header = TRUE]
  BY InvOf, SetEffect DEF UpstreamHeader, Domains
<1>2. Sets(call'[c], k, {"gone", "header"}) /\ call'[c].gone = k.gone
  BY <1>1, InvOf DEF Sets, Fields
<1> QED BY <1>2, InvOf, Leaving, Quiet DEF UpstreamHeader

\* A proxied stream becomes a stub (CaptureBidi).
LEMMA CaptureBidiKept ==
  ASSUME CallsInv, NEW c \in Calls, CaptureBidi(c)
  PROVE  Kept(c)
<1> DEFINE k == call[c]
           held == [k EXCEPT !.reqs = k.snapReqs, !.resps = k.snapResps]
           r == CapturedStub(held, CaptureCode(held))
<1>1. /\ k.at = "storing" /\ Store(c, r)
      /\ Set(c, [call[c] EXCEPT !.at = "record"]) /\ UNCHANGED <<history, upstream, applied>>
  BY DEF CaptureBidi, BidiStub
<1>2. /\ held.reqErr = k.reqErr /\ held.respErr = k.respErr /\ held.kind = k.kind
      /\ held.session = k.session /\ held.msgs = k.msgs
      /\ held.reqs = k.snapReqs /\ held.resps = k.snapResps
  BY InvOf DEF Fields
<1> HIDE DEF held
<1>3. CaptureCode(held) \in Codes
  <2>1. FirstError(held) = FirstError(k)
    BY <1>2 DEF FirstError
  <2> QED BY <2>1, InvOf, FirstErrorTyped DEF CaptureCode, Codes
<1>4. /\ held.session \in SessionNames /\ held.msgs \in Seq(Contents) /\ held.reqs \in Nat
      /\ held.resps \in Nat /\ held.kind = "bidi"
  BY <1>1, <1>2, InvOf DEF CallInv, CallTyped, Placed
<1>5. r \in StubValues /\ r.session = k.session /\ r.len = k.snapResps /\ r.inputs = k.snapReqs
  BY <1>2, <1>3, <1>4, CapturedTyped
<1> HIDE DEF r
<1> QED BY <1>1, <1>5, Captured

\* The record of a proxied stream (RecordBidi).
LEMMA RecordBidiKept ==
  ASSUME CallsInv, NEW c \in Calls, RecordBidi(c)
  PROVE  Kept(c)
<1> DEFINE k == call[c]
           code == FirstError(k)
           j == [Done(k, code) EXCEPT !.gone = TRUE]
<1>1. code \in Codes
  BY InvOf, FirstErrorTyped
<1>2. /\ k.at = "recording" /\ Set(c, j)
      /\ history' = [history EXCEPT ![c] = Records(c, NoId, code, k.snapReqs, k.snapResps)]
      /\ UNCHANGED <<stubs, upstream, captured, applied>>
  BY DEF RecordBidi
<1> HIDE DEF code
<1>3. Sets(j, k, {"at", "code", "gone"}) /\ j.at = "done" /\ j.code = code /\ j.gone = TRUE
  BY InvOf DEF Done, Sets, Fields
<1> HIDE DEF j
<1> QED BY <1>1, <1>2, <1>3, RecordProxyKept

----------------------------------------------------------------------------
(* The invariant holds.                                                    *)

\* What the steps of one call keep, all calls keep.
LEMMA KeptByAll ==
  ASSUME CallsInv, NEW c \in Calls, Kept(c)
  PROVE  CallsInv'
BY DEF CallsInv, Kept, Inv

\* The steps of the mock.
LEMMA MockStepKept ==
  ASSUME CallsInv, NEW c \in Calls, 
         MockStep(c) \/ Receive(c) \/ ReceiveNothing(c) \/ ClientLeaves(c)
  PROVE  Kept(c)
<1>1. CASE \E code \in {"Canceled", "Internal"} : FailEarly(c, code)
  BY <1>1, FailEarlyKept
<1>2. CASE \E code \in Codes : EndServer(c, code)
  BY <1>2, EndServerKept
<1> QED
  BY <1>1, <1>2, ReceiveKept, ReceiveNothingKept, ReceiveFailsKept, CaptureByHeadersKept, MatchKept,
     MissKept, PrepareEffectsKept, UpsertEffectKept, CheckDeleteKept, DeleteEffectKept, AnswerUnaryKept,
     AnswerClientKept, SendElementKept, ClientLeavesKept
  DEF MockStep

\* The steps of the upstream legs.
LEMMA ProxyStepKept ==
  ASSUME CallsInv, NEW c \in Calls, ProxyStep(c) \/ UpstreamStep(c)
  PROVE  Kept(c)
<1>1. CASE \E code \in UpstreamCodes : UpstreamEnds(c, code)
  BY <1>1, UpstreamEndsKept
<1>2. CASE UpstreamCanceled(c) \/ UpstreamTimeout(c)
  <2>1. {"Canceled", "Aborted"} \subseteq UpstreamCodes
    BY DEF UpstreamCodes
  <2> QED BY <1>2, <2>1, UpstreamEndsKept DEF UpstreamCanceled, UpstreamTimeout
<1> QED
  BY <1>1, <1>2, NothingToForwardKept, ForwardKept, ForwardFailsKept, UpstreamRespondsKept,
     CaptureKept, RecordKept
  DEF ProxyStep, UpstreamStep

\* The steps of bidirectional streams.
LEMMA BidiStepKept ==
  ASSUME CallsInv, NEW c \in Calls,
         \/ BidiStep(c) \/ PumpStep(c) \/ NextMessage(c) \/ EndOfStream(c)
         \/ PumpRequest(c) \/ PumpRequestEnds(c) \/ PumpResponse(c) \/ UpstreamHeader(c)
  PROVE  Kept(c)
BY OpenKept, ReserveBidiKept, MissBidiKept, LoopFailsKept, PrepareFailsKept, AnswerBidiKept,
   OpenPumpsKept, AwaitKept, CaptureBidiKept, RecordBidiKept, PumpRequestCanceledKept,
   PumpResponseEndsKept, NextMessageKept, EndOfStreamKept, PumpRequestKept, PumpRequestEndsKept,
   PumpResponseKept, SnapshotKept, UpstreamHeaderKept
DEF BidiStep, PumpStep

\* REST writes put a stub under an ID, or none.
LEMMA StubWritten ==
  ASSUME CallsInv, NEW id \in Ids, DeleteStub(id) \/ \E b \in Bodies : PutStub(id, b)
  PROVE  CallsInv'
<1>1. PICK b \in StubValues \cup {NoStub} : stubs' = [stubs EXCEPT ![id] = b]
  BY CallsAssumption DEF DeleteStub, PutStub
<1>2. UNCHANGED <<call, history, upstream, captured, applied>>
  BY DEF DeleteStub, PutStub
<1> QED BY <1>1, <1>2 DEF CallsInv, StubsTyped, Domains, Inv

\* Every step is one of those above.
LEMMA CallsInvStep ==
  ASSUME CallsInv, [Next]_vars
  PROVE  CallsInv'
<1>1. ASSUME NEW c \in Calls,
             \/ CallStep(c) \/ PumpStep(c) \/ ClientStep(c) \/ UpstreamStep(c) \/ PumpResponse(c)
             \/ ClientLeaves(c) \/ UpstreamHeader(c)
      PROVE  CallsInv'
  BY <1>1, KeptByAll, MockStepKept, ProxyStepKept, BidiStepKept DEF CallStep, ClientStep
<1>2. CASE UNCHANGED vars
  BY <1>2 DEF vars, CallsInv, StubsTyped, Domains, Inv
<1>3. CASE Next
  BY <1>1, <1>3, StubWritten DEF Next, Environment
<1> QED BY <1>2, <1>3

\* A call that begins satisfies the invariant.
LEMMA NewCallTyped ==
  ASSUME NEW s \in Shapes
  PROVE  CallInv(NewCall(s), <<>>, <<>>, <<>>, <<>>)
<1> DEFINE k == NewCall(s)
<1>1. /\ DOMAIN k = Fields /\ k.kind = s.kind /\ k.session = s.session /\ k.mode = s.mode
      /\ k.msgs = s.msgs /\ k.at = "new" /\ k.read = 0 /\ k.gone = FALSE /\ k.stub = NoId
      /\ k.body = NoStub /\ k.ops = <<>> /\ k.sent = 0 /\ k.code = "OK"
      /\ k.missed = FALSE /\ k.prefetched = <<>> /\ k.reqs = 0 /\ k.resps = 0 /\ k.ups = 0
      /\ k.upCode = "none" /\ k.matching = {} /\ k.served = 0 /\ k.last = NoId
      /\ k.req = "off" /\ k.resp = "off" /\ k.reqErr = "none" /\ k.respErr = "none"
      /\ k.snapReqs = 0 /\ k.snapResps = 0
  BY DEF NewCall, Fields
<1> HIDE DEF k
<1>2. /\ s.kind \in Kinds /\ s.session \in SessionNames /\ s.mode \in Modes
      /\ s.msgs \in Seq(Contents) /\ Len(s.msgs) \in Nat
      /\ (s.kind = "unary" => Len(s.msgs) = 1) /\ MaxUp \in Nat
  <2>1. s \in [kind : Kinds, session : SessionNames, mode : Modes, msgs : Seq(Contents)]
    BY CallsAssumption
  <2>2. \A t \in Shapes : t.kind = "unary" => Len(t.msgs) = 1
    BY CallsAssumption
  <2>3. MaxUp \in Nat
    BY CallsAssumption
  <2> QED BY <2>1, <2>2, <2>3
<1>3. CallTyped(k)
  BY <1>1, <1>2, NoElements DEF CallTyped, Codes
<1>4. Placed(k, <<>>, <<>>)
  BY <1>1 DEF Placed
<1>5. Story(k, <<>>, <<>>)
  BY <1>1 DEF Story
<1>6. Carrying(k, <<>>, <<>>)
  BY <1>1, NoElements DEF Carrying
<1>7. Capturing(k, <<>>, <<>>)
  <2>1. Len(<<>>) = 0
    OBVIOUS
  <2>2. k.at \in Mocking
    BY <1>1 DEF Mocking
  <2>3. /\ k.reqs = 0 /\ k.snapReqs = 0 /\ k.snapResps = 0 /\ k.resps = 0 /\ k.ups = 0
        /\ k.req = "off" /\ k.resp = "off" /\ k.at = "new"
    BY <1>1
  <2>4. k.resps - k.ups \in {0, 1} /\ k.resps = k.ups
    BY ONLY <2>3
  <2>5. \A n : n = 0 => k.reqs - n \in {0, 1} /\ k.reqs = n
    BY ONLY <2>3
  <2>6. k.reqs - Len(<<>>) \in {0, 1} /\ k.reqs = Len(<<>>)
    BY ONLY <2>1, <2>5, Zenon
  <2> QED BY <2>1, <2>2, <2>3, <2>4, <2>6 DEF Capturing
<1>8. Splitting(k, <<>>)
  BY <1>1, <1>2, NoElements DEF Splitting
<1> QED BY <1>3, <1>4, <1>5, <1>6, <1>7, <1>8 DEF CallInv, k

\* The invariant holds at the start.
LEMMA CallsInvInit ==
  ASSUME Init
  PROVE  CallsInv
<1>1. StubsTyped /\ Domains
  BY CallsAssumption DEF Init, StubsTyped, Domains
<1>2. ASSUME NEW c \in Calls
      PROVE  Inv(c)
  <2>1. PICK s \in Shapes : call[c] = NewCall(s)
    BY DEF Init
  <2>2. history[c] = <<>> /\ upstream[c] = <<>> /\ captured[c] = <<>> /\ applied[c] = <<>>
    BY DEF Init
  <2> QED BY <2>1, <2>2, NewCallTyped DEF Inv
<1> QED BY <1>1, <1>2 DEF CallsInv

\* Every reachable state satisfies the invariant (the handlers of all calls
\* together with REST writes).
THEOREM CallsInvariant == Spec => []CallsInv
<1>1. Init => CallsInv
  BY CallsInvInit
<1>2. CallsInv /\ [Next]_vars => CallsInv'
  BY CallsInvStep
<1> QED BY <1>1, <1>2, PTL DEF Spec

\* The uses of stubs and the bound of the REST writes.
UsesTyped == used \in [Ids \X SessionNames -> Nat] /\ puts \in 0..MaxPuts

\* Reserving a use keeps the counters.
LEMMA UsesReserved ==
  ASSUME UsesTyped, NEW id, NEW session, Reserve(id, session)
  PROVE  used' \in [Ids \X SessionNames -> Nat]
<1> DEFINE key == <<id, session>>
<1>1. used' = [used EXCEPT ![key] = used[key] + 1] /\ used \in [Ids \X SessionNames -> Nat]
  BY DEF UsesTyped, Reserve
<1> HIDE DEF key
<1>2. ASSUME key \in Ids \X SessionNames
      PROVE  used[key] + 1 \in Nat
  BY <1>1, <1>2
<1> QED BY <1>1, <1>2

\* Forgetting the uses of deleted stubs keeps the counters.
LEMMA UsesForgotten ==
  ASSUME UsesTyped, NEW ids
  PROVE  Forgotten(ids) \in [Ids \X SessionNames -> Nat]
BY DEF UsesTyped, Forgotten

\* Every step keeps the counters and the bound.
LEMMA UsesStep ==
  ASSUME UsesTyped, [Next]_vars
  PROVE  UsesTyped'
<1>1. ASSUME NEW c \in Calls, Match(c) \/ ReserveBidi(c)
      PROVE  UsesTyped'
  BY <1>1, UsesReserved DEF Match, ReserveBidi, UsesTyped
<1>2. ASSUME NEW c \in Calls, DeleteEffect(c)
      PROVE  UsesTyped'
  BY <1>2, UsesForgotten DEF DeleteEffect, UsesTyped
<1>3. ASSUME NEW c \in Calls, MockStep(c) \/ Receive(c) \/ ReceiveNothing(c) \/ ClientLeaves(c)
      PROVE  UsesTyped'
  <2>1. CASE Match(c) \/ DeleteEffect(c)
    BY <2>1, <1>1, <1>2
  <2>2. CASE ~(Match(c) \/ DeleteEffect(c))
    <3>1. CASE \/ Receive(c) \/ ReceiveFails(c) \/ ReceiveNothing(c) \/ CaptureByHeaders(c)
               \/ Miss(c) \/ PrepareEffects(c) \/ UpsertEffect(c) \/ CheckDelete(c) \/ ClientLeaves(c)
      BY <3>1 DEF UsesTyped, Receive, ReceiveFails, ReceiveNothing, CaptureByHeaders, Miss, PrepareEffects,
                  UpsertEffect, CheckDelete, ClientLeaves
    <3>2. CASE AnswerUnary(c) \/ AnswerClient(c) \/ SendElement(c)
      BY <3>2 DEF UsesTyped, AnswerUnary, AnswerClient, SendElement
    <3>3. CASE \/ \E code \in {"Canceled", "Internal"} : FailEarly(c, code)
               \/ \E code \in Codes : EndServer(c, code)
      BY <3>3 DEF UsesTyped, FailEarly, EndServer
    <3> QED BY <1>3, <2>2, <3>1, <3>2, <3>3, Zenon DEF MockStep
  <2> QED BY <2>1, <2>2
<1>4. ASSUME NEW c \in Calls, ProxyStep(c) \/ UpstreamStep(c)
      PROVE  UsesTyped'
  <2>1. CASE NothingToForward(c) \/ Forward(c) \/ ForwardFails(c) \/ Capture(c) \/ Record(c)
    BY <2>1 DEF UsesTyped, NothingToForward, Forward, ForwardFails, Capture, Record
  <2>2. CASE \/ UpstreamResponds(c) \/ UpstreamCanceled(c) \/ UpstreamTimeout(c)
             \/ \E code \in UpstreamCodes : UpstreamEnds(c, code)
    BY <2>2 DEF UsesTyped, UpstreamResponds, UpstreamCanceled, UpstreamTimeout, UpstreamEnds
  <2> QED BY <1>4, <2>1, <2>2, ZenonT(40) DEF ProxyStep, UpstreamStep
<1>5. ASSUME NEW c \in Calls,
             \/ BidiStep(c) \/ PumpStep(c) \/ NextMessage(c) \/ EndOfStream(c)
             \/ PumpRequest(c) \/ PumpRequestEnds(c) \/ PumpResponse(c) \/ UpstreamHeader(c)
      PROVE  UsesTyped'
  <2>1. CASE ReserveBidi(c)
    BY <2>1, <1>1
  <2>2. CASE ~ReserveBidi(c)
    <3>1. UNCHANGED <<used, puts>>
      BY <1>5, <2>2
      DEF BidiStep, PumpStep, Open, MissBidi, LoopFails, PrepareFails, AnswerBidi, OpenPumps,
          Await, CaptureBidi, RecordBidi, ReturnBidi, NextMessage, EndOfStream, PumpRequest,
          PumpRequestEnds, PumpRequestCanceled, PumpResponse, PumpResponseEnds,
          Snapshot, UpstreamHeader
    <3> QED BY <3>1 DEF UsesTyped
  <2> QED BY <2>1, <2>2
<1>6. ASSUME NEW id \in Ids, DeleteStub(id) \/ \E b \in Bodies : PutStub(id, b)
      PROVE  UsesTyped'
  BY <1>6, UsesForgotten, CallsAssumption DEF DeleteStub, PutStub, UsesTyped
<1>7. CASE UNCHANGED vars
  BY <1>7 DEF vars, UsesTyped
<1>8. CASE Next
  BY <1>3, <1>4, <1>5, <1>6, <1>8 DEF Next, CallStep, ClientStep, Environment
<1> QED BY <1>7, <1>8

\* The variables hold what their comments say.
THEOREM TypeCorrect == Spec => []TypeOK
<1>1. Init => UsesTyped
  BY CallsAssumption DEF Init, UsesTyped
<1>2. UsesTyped /\ [Next]_vars => UsesTyped'
  BY UsesStep
<1>3. CallsInv /\ UsesTyped => TypeOK
  <2> SUFFICES ASSUME CallsInv, UsesTyped PROVE TypeOK
    OBVIOUS
  <2>1. ASSUME NEW c \in Calls
        PROVE  /\ \A p \in call[c].matching : p[1] \in Ids /\ p[2] \in StubValues
               /\ \A i \in 1..Len(history[c]) : history[c][i].code \in Codes
               /\ \A i \in 1..Len(upstream[c]) : upstream[c][i] \in 1..Len(call[c].msgs)
    <3>1. CallTyped(call[c]) /\ Story(call[c], history[c], upstream[c])
          /\ upstream[c] \in Seq(1..Len(call[c].msgs))
      BY InvOf DEF CallInv, Splitting
    <3>2. \A i \in 1..Len(history[c]) : history[c][i].code \in Codes
      <4> SUFFICES ASSUME NEW i \in 1..Len(history[c]) PROVE history[c][i].code \in Codes
        OBVIOUS
      <4>1. history[c] # <<>> /\ i = 1
        BY <3>1 DEF Story
      <4> QED BY <3>1, <4>1 DEF Story, CallTyped, Unknowable, Codes
    <3>3. \A i \in 1..Len(upstream[c]) : upstream[c][i] \in 1..Len(call[c].msgs)
      BY <3>1, ElementOfSeq
    <3> QED BY <3>1, <3>2, <3>3 DEF CallTyped
  <2>2. ASSUME NEW c \in Calls
        PROVE  CallTyped(call[c])
    BY InvOf
  <2> QED BY <2>1, <2>2 DEF TypeOK, CallsInv, StubsTyped, UsesTyped, CallTyped
<1> QED BY <1>1, <1>2, <1>3, CallsInvariant, PTL DEF Spec

----------------------------------------------------------------------------
(* What the invariant says of the calls.                                   *)

\* At most one record of a call, made at its end by the mock or by the upstream leg,
\* with the status that its client got, or Unknown of a mock's stream whose client is
\* gone; an OK answer has its record, but for a stream without any message.
THEOREM OneRecord == Spec => []OneStory
<1>1. ASSUME CallsInv, NEW c \in Calls
      PROVE  LET k == call[c] IN
             /\ Len(history[c]) <= 1
             /\ history[c] # <<>> =>
                  LET r == history[c][1] IN
                  /\ k.at = "done"
                  /\ \/ r.code = k.code
                     \/ /\ r.code = "Unknown" /\ k.code = "Canceled" /\ k.gone
                        /\ k.kind \in {"server", "bidi"} /\ upstream[c] = <<>>
                  /\ r.stub # NoId => upstream[c] = <<>> /\ k.ups = 0
             /\ (k.at = "done" /\ k.code = "OK" /\ (k.kind \in {"client", "server"} => k.read > 0)) =>
                  history[c] # <<>>
  BY <1>1, InvOf DEF CallInv, CallTyped, Placed, Story, Unknowable
<1>2. CallsInv => OneStory
  BY <1>1 DEF OneStory
<1> QED BY <1>2, CallsInvariant, PTL

\* The effects of a stub are carried out all or not at all, in order and once,
\* before its answer leaves or is recorded.
THEOREM AllEffectsOrNone == Spec => []EffectsWhole
<1>1. ASSUME CallsInv, NEW c \in Calls, call[c].kind # "bidi"
      PROVE  LET k == call[c] IN
             /\ k.at \in {"new", "search", "matched"} => applied[c] = <<>>
             /\ k.at \notin {"effects", "deleting"} /\ k.body # NoStub =>
                  applied[c] \in {<<>>, k.body.effects}
             /\ (k.sent > 0 \/ \E i \in 1..Len(history[c]) : history[c][i].stub # NoId) =>
                  \/ applied[c] = k.body.effects
                  \/ \E i \in 1..Len(k.body.effects) : k.body.effects[i].action = "broken"
  <2> DEFINE k == call[c]
  <2>1. Carrying(k, history[c], applied[c]) /\ Len(history[c]) <= 1
    BY <1>1, InvOf DEF CallInv, Story
  <2>2. Prepared(k.body) \in {<<>>, k.body.effects}
    BY DEF Prepared
  <2>3. ASSUME k.sent > 0 \/ \E i \in 1..Len(history[c]) : history[c][i].stub # NoId
        PROVE  \/ applied[c] = k.body.effects
               \/ \E i \in 1..Len(k.body.effects) : k.body.effects[i].action = "broken"
    <3>1. k.sent > 0 \/ (history[c] # <<>> /\ history[c][1].stub # NoId)
      BY <2>1, <2>3
    <3>2. applied[c] = Prepared(k.body)
      BY <1>1, <2>1, <3>1 DEF Carrying
    <3> QED BY <3>2 DEF Prepared
  <2>4. k.at \in {"new", "search", "matched"} => applied[c] = <<>>
    BY <1>1, <2>1 DEF Carrying
  <2>5. k.at \notin {"effects", "deleting"} /\ k.body # NoStub =>
          applied[c] \in {<<>>, k.body.effects}
    BY <1>1, <2>1, <2>2 DEF Carrying
  <2> QED BY <2>3, <2>4, <2>5
<1>2. CallsInv => EffectsWhole
  BY <1>1 DEF EffectsWhole
<1> QED BY <1>2, CallsInvariant, PTL

\* A call captures at most one stub, in capture mode and for its own session, with the
\* responses that its client was sent; of a bidirectional stream one message in each
\* direction may be in the stub alone, or passed on by a pump after the snapshot.
THEOREM CapturesAreFaithful == Spec => []CaptureFaithful
<1>1. ASSUME CallsInv, NEW c \in Calls, captured[c] # <<>>
      PROVE  LET k == call[c]
                 s == captured[c][1]
                 got == Len(upstream[c])
             IN  /\ k.mode = "capture" /\ s.session = k.session
                 /\ IF k.kind # "bidi" THEN s.len = k.ups
                    ELSE /\ s.len <= k.ups + 1 /\ k.ups <= s.len + 1
                         /\ s.inputs <= got + 1 /\ got <= s.inputs + 1
  <2>1. Capturing(call[c], captured[c], upstream[c]) /\ call[c].ups \in Nat
        /\ Len(upstream[c]) \in Nat
    <3>1. upstream[c] \in Seq(1..Len(call[c].msgs))
      BY <1>1, InvOf DEF CallInv, Splitting
    <3>2. call[c].resps \in 0..MaxUp /\ call[c].ups \in 0..call[c].resps
      BY <1>1, InvOf DEF CallTyped
    <3> QED BY <1>1, <3>1, <3>2, InvOf DEF CallInv
  <2> QED BY <1>1, <2>1 DEF Capturing, Near
<1>2. ASSUME CallsInv, NEW c \in Calls
      PROVE  Len(captured[c]) <= 1
  BY <1>2, InvOf DEF CallInv, Capturing
<1>3. CallsInv => CaptureFaithful
  BY <1>1, <1>2 DEF CaptureFaithful
<1> QED BY <1>3, CallsInvariant, PTL

\* No message is answered by a stub and sent to the upstream, or sent twice, or
\* out of order; a miss before any response goes upstream with all that was read.
THEOREM NoMessageTwice == Spec => []MessagesOnce
<1>1. ASSUME CallsInv, NEW c \in Calls
      PROVE  Splitting(call[c], upstream[c])
  BY <1>1, InvOf DEF CallInv
<1>2. CallsInv => MessagesOnce
  BY <1>1 DEF MessagesOnce, Splitting, AllRead
<1> QED BY <1>2, CallsInvariant, PTL
=============================================================================
