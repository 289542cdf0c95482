----------------------------- MODULE ProxyCalls ----------------------------
(***************************************************************************)
(* The upstream legs of unary, server-streaming and client-streaming calls *)
(* (internal/app/grpc_proxy_*.go): messages that were read already are     *)
(* forwarded, the answer comes back, capture turns it into a stub, and one *)
(* record tells of the call.  The upstream is the environment: it answers  *)
(* what it likes, a stream with up to MaxUp messages, or never.             *)
(***************************************************************************)
EXTENDS MockCalls

UpstreamCodes == {"OK", "NotFound", "Aborted", "Canceled"}

\* recordProxyCall: no stub served the call.
RecordProxy(c, code) ==
  history' = [history EXCEPT ![c] = Records(c, NoId, code, call[c].reqs, call[c].resps)]

\* A server stream whose request was read by the mock: the proxy reads again,
\* meets the end of the client's stream and returns that as the call's error.
NothingToForward(c) ==
  LET k == call[c] IN
  /\ k.at = "forward" /\ k.kind = "server" /\ k.prefetched = <<>>
  /\ Set(c, Done(k, "Unknown"))
  /\ UNCHANGED <<stubs, used, history, upstream, captured, applied, puts>>

\* Opens the upstream call, sends the messages and closes the sending side.
Forward(c) ==
  LET k == call[c] IN
  /\ k.at = "forward" /\ k.kind \in {"unary", "server", "client"}
  /\ k.kind = "server" => k.prefetched # <<>>
  /\ upstream' = [upstream EXCEPT ![c] = k.prefetched]
  /\ Set(c, [k EXCEPT !.at = "upstream", !.reqs = Len(k.prefetched)])
  /\ UNCHANGED <<stubs, used, history, captured, applied, puts>>

\* The upstream cannot be reached, or stops taking messages: only the unary leg
\* captures that as its answer.
ForwardFails(c) ==
  LET k == call[c] IN
  /\ k.at = "forward" /\ k.kind \in {"unary", "server", "client"}
  /\ k.kind = "server" => k.prefetched # <<>>
  /\ \E n \in 0..Len(k.prefetched) : \E tried \in {n, n + 1} :
       /\ tried <= Len(k.prefetched)
       /\ upstream' = [upstream EXCEPT ![c] = SubSeq(k.prefetched, 1, n)]
       /\ Set(c, [k EXCEPT !.upCode = "Aborted",
                  !.at = IF k.kind = "unary" /\ k.mode = "capture" THEN "capture" ELSE "record",
                  !.reqs = IF k.kind = "client" THEN tried ELSE 1])
  /\ UNCHANGED <<stubs, used, history, captured, applied, puts>>

\* A response of a server stream, passed on at once to a client that takes it.
UpstreamResponds(c) ==
  LET k == call[c] IN
  /\ k.at = "upstream" /\ k.kind = "server" /\ k.resps < MaxUp
  /\ \/ Set(c, [k EXCEPT !.resps = @ + 1, !.ups = @ + 1])
     \/ k.gone /\ Set(c, [k EXCEPT !.resps = @ + 1, !.at = "record", !.upCode = "Canceled"])
  /\ UNCHANGED <<stubs, used, history, upstream, captured, applied, puts>>

\* capturableResult
Capturable(k, code) ==
  /\ k.reqs > 0 \/ k.resps > 0
  /\ ~(code = "Canceled" /\ k.gone)

\* The end of the upstream call, which brings the one response of a unary or a
\* client-streaming call when its code is OK.  A client stream passes it on
\* before it captures, a unary call after.  A clean end of a stream is captured
\* in any case, an error when it is not the client's own.
UpstreamEnds(c, code) ==
  LET k == call[c]
      last == IF k.kind # "server" /\ code = "OK" THEN 1 ELSE 0
      got == [k EXCEPT !.resps = @ + last, !.upCode = code]
      capture == k.mode = "capture" /\ (code = "OK" \/ Capturable(k, code))
  IN
  /\ k.at = "upstream"
  /\ \/ Set(c, [got EXCEPT !.ups = @ + last, !.at = IF capture THEN "capture" ELSE "record"])
     \/ /\ k.kind = "client" /\ code = "OK" /\ k.gone
        /\ Set(c, [got EXCEPT !.at = "record", !.upCode = "Canceled"])
  /\ UNCHANGED <<stubs, used, history, upstream, captured, applied, puts>>

\* The upstream call shares the client's context: it ends when the client leaves.
UpstreamCanceled(c) == call[c].gone /\ UpstreamEnds(c, "Canceled")

\* route.WithTimeout gives up a unary call; WithStreamTimeout leaves streams alone.
UpstreamTimeout(c) == call[c].kind = "unary" /\ UpstreamEnds(c, "Aborted")

\* Fault: the stub is captured for everybody.
CapturedGlobally(k, code) ==
  [session |-> Global, times |-> 0, accepts |-> Contents, inputs |-> 0,
   len |-> k.resps, code |-> code, effects |-> <<>>]

\* proxycapture.Build...Stub: the request, the responses and the status, under
\* the session of the call.
CapturedStub(k, code) ==
  [session |-> k.session, times |-> 0,
   accepts |-> {k.msgs[i] : i \in 1..Len(k.msgs)},
   inputs |-> IF k.kind \in {"client", "bidi"} THEN k.reqs ELSE 0,
   len |-> k.resps, code |-> code, effects |-> <<>>]

\* Stores a captured stub under a new ID (one outside Ids when none is free).
Store(c, s) ==
  /\ captured' = [captured EXCEPT ![c] = Append(@, s)]
  /\ IF \E id \in Ids : stubs[id] = NoStub
     THEN \E id \in Ids : stubs[id] = NoStub /\ stubs' = [stubs EXCEPT ![id] = s]
     ELSE UNCHANGED stubs

Capture(c) ==
  LET k == call[c] IN
  /\ k.at = "capture" /\ k.kind # "bidi"
  /\ Store(c, CapturedStub(k, k.upCode))
  /\ Set(c, [k EXCEPT !.at = "record"])
  /\ UNCHANGED <<used, history, upstream, applied, puts>>

\* The single record point: every way out of the leg passes it.
Record(c) ==
  LET k == call[c] IN
  /\ k.at = "record" /\ k.kind # "bidi"
  /\ RecordProxy(c, k.upCode)
  /\ Set(c, Done(k, k.upCode))
  /\ UNCHANGED <<stubs, used, upstream, captured, applied, puts>>

ProxyStep(c) ==
  \/ NothingToForward(c) \/ Forward(c) \/ ForwardFails(c) \/ UpstreamCanceled(c)
  \/ UpstreamTimeout(c) \/ Capture(c) \/ Record(c)

\* The upstream.
UpstreamStep(c) ==
  \/ UpstreamResponds(c)
  \/ \E code \in UpstreamCodes : UpstreamEnds(c, code)
=============================================================================
