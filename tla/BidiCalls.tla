----------------------------- MODULE BidiCalls -----------------------------
(***************************************************************************)
(* Bidirectional streams: the search that goes on from message to message  *)
(* (stuber/search_bidi_*.go), the mocker's loop (grpc_mocker_bidi.go) and  *)
(* the proxied stream with its two pumps (grpc_proxy_stream.go).  The      *)
(* composed specification of all calls is at the end.                      *)
(*                                                                         *)
(* An in-process handler of an embedded server takes a stream over as a    *)
(* whole and is left out.                                                  *)
(***************************************************************************)
EXTENDS ProxyCalls

----------------------------------------------------------------------------
(* The search.                                                             *)

\* findBidi needs a stub of any session; without one the stream leaves no record.
Open(c) ==
  LET k == call[c] IN
  /\ k.at = "new" /\ k.kind = "bidi"
  /\ Set(c, IF k.mode = "proxy" THEN [k EXCEPT !.at = "forward"]
            ELSE IF \A id \in Ids : stubs[id] = NoStub THEN Returned(k, "NotFound")
            ELSE [k EXCEPT !.at = "loop"])
  /\ UNCHANGED <<stubs, used, history, upstream, captured, applied, puts>>

\* A stub with inputs accepts a message that any of them accepts.
Fits(b, k) == k.msgs[k.read + 1] \in b.accepts

\* BidiResult.Next, first half: the next message narrows the stubs that matched
\* so far, as they were then; an empty list is filled from the storage.
NextMessage(c) ==
  LET k == call[c]
      visible == {id \in Ids : Visible(stubs[id], k.session) /\ HasUses(id, stubs[id], k.session)}
      pool == IF k.matching = {} THEN {<<id, stubs[id]>> : id \in visible} ELSE k.matching
  IN
  /\ k.at = "loop" /\ k.read < Len(k.msgs)
  /\ Set(c, [k EXCEPT !.read = @ + 1, !.at = "select",
             !.matching = {p \in pool : Fits(p[2], k)}])
  /\ UNCHANGED <<stubs, used, history, upstream, captured, applied, puts>>

\* Every message uses the stub that answers it once more.  A stub without
\* inputs ends the narrowing after the first message.
ReserveBidi(c) ==
  LET k == call[c] IN
  /\ k.at = "select"
  /\ \E p \in k.matching :
       IF HasUses(p[1], p[2], k.session)
       THEN /\ Reserve(p[1], k.session)
            /\ Set(c, [k EXCEPT !.at = "matched", !.stub = p[1], !.body = p[2],
                       !.matching = IF p[2].inputs = 0 /\ k.read = 1 THEN {} ELSE @])
       ELSE /\ Set(c, [k EXCEPT !.matching = @ \ {p}])
            /\ UNCHANGED used
  /\ UNCHANGED <<stubs, history, upstream, captured, applied, puts>>

\* The record of a stream keeps the last stub that answered; the upstream leg
\* records a stream that it takes over.
RecordStream(c, status) ==
  LET k == call[c] IN
  history' = IF CanFallback(k, status) THEN history
             ELSE [history EXCEPT ![c] = Records(c, k.last, status, k.read, k.sent)]

ReturnBidi(c, code, status) ==
  /\ RecordStream(c, status)
  /\ Set(c, Returned(call[c], code))
  /\ UNCHANGED <<stubs, used, upstream, captured, applied, puts>>

\* No stub is left.  Before the first response the stream may go upstream with
\* this message; after it the same status goes without the message.
MissBidi(c) ==
  LET k == call[c] IN
  /\ k.at = "select" /\ k.matching = {}
  /\ \/ k.sent > 0 /\ ReturnBidi(c, "NotFound", "NotFound")
     \/ /\ k.sent = 0
        /\ RecordStream(c, "NotFound")
        /\ Set(c, Missed(k, <<k.read>>))
        /\ UNCHANGED <<stubs, used, upstream, captured, applied, puts>>

----------------------------------------------------------------------------
(* The mocker's loop.                                                      *)

\* The client closed its side; an empty stream is recorded as well.
EndOfStream(c) ==
  LET k == call[c] IN
  /\ k.at = "loop" /\ k.read = Len(k.msgs)
  /\ ReturnBidi(c, "OK", "OK")

LoopFails(c) ==
  /\ call[c].at = "loop" /\ call[c].gone
  /\ \E status \in CanceledAs : ReturnBidi(c, "Canceled", status)

\* A delay cut short, whose error delayResponse has made a status, or a template that
\* fails, before the effects.
PrepareFails(c) ==
  /\ call[c].at = "matched" /\ call[c].kind = "bidi"
  /\ \E code \in {"Canceled", "Internal"} :
       (code = "Canceled" => call[c].gone) /\ ReturnBidi(c, code, code)

\* What the stub scripts for the message (index read - 1): one message, all
\* elements of a server stream, or the element of the same index, with the rest
\* after the last input; a script may be at its end.
Exhausted(k) ==
  k.body.len > 0 /\ k.body.inputs > 0 /\ (k.read > k.body.inputs \/ k.read > k.body.len)

Scripted(k) ==
  IF k.body.len = 0 \/ (k.body.inputs > 0 /\ k.read < k.body.inputs) THEN 1
  ELSE IF k.body.inputs = 0 THEN k.body.len
  ELSE k.body.len - k.read + 1

\* sendBidiResponse after the effects: the stub's error, the end of the script,
\* a response that cannot be sent, or all of them.
AnswerBidi(c) ==
  LET k == call[c]
      code == IF k.body.code = "OK" /\ Exhausted(k) THEN "NotFound" ELSE k.body.code
      last == IF k.body.code = "OK" THEN k.stub ELSE k.last
  IN
  /\ EffectsDone(c) /\ k.kind = "bidi"
  /\ \/ \E end, status \in Codes :
           /\ \/ code # "OK" /\ end = code /\ status = code
              \/ code = "OK" /\ end = "Internal" /\ status = end
              \/ code = "OK" /\ end = "Canceled" /\ k.gone /\ status \in CanceledAs
           /\ history' = IF CanFallback(k, status) THEN history
                         ELSE [history EXCEPT ![c] = Records(c, last, status, k.read, k.sent)]
           /\ Set(c, [Returned(k, end) EXCEPT !.last = last])
     \/ /\ code = "OK"
        /\ Set(c, [k EXCEPT !.at = "loop", !.sent = @ + Scripted(k),
                   !.served = @ + 1, !.last = last])
        /\ UNCHANGED history
  /\ UNCHANGED <<stubs, used, upstream, captured, applied, puts>>

----------------------------------------------------------------------------
(* The proxied stream: two pumps, and the handler that waits for them.     *)

OpenPumps(c) ==
  LET k == call[c] IN
  /\ k.at = "forward" /\ k.kind = "bidi"
  /\ \/ Set(c, [k EXCEPT !.at = "await", !.req = "run", !.resp = "run"])
     \/ Set(c, [k EXCEPT !.at = "record", !.reqErr = "Aborted"])   \* NewStream fails
  /\ UNCHANGED <<stubs, used, history, upstream, captured, applied, puts>>

\* A pump ends and leaves its result in its channel, for a handler that waits.
ReqDone(k, err) ==
  [k EXCEPT !.req = "done", !.reqErr = IF k.at = "await" THEN err ELSE @]
RespDone(k, err) ==
  [k EXCEPT !.resp = "done", !.respErr = IF k.at = "await" THEN err ELSE @]

\* The pumps test their context only before they take a message: one that waits for a
\* message takes, appends and sends it although the guard has cancelled it meanwhile.
NextRequest(k) == IF k.bidiCancel THEN ReqDone(k, "OK") ELSE k
NextResponse(k) == IF k.bidiCancel THEN RespDone(k, "OK") ELSE k

\* forwardBidiRequests: the message that was read already, then the client's.  The
\* upstream call ends with the handler.
PumpRequest(c) ==
  LET k == call[c]
      early == k.prefetched # <<>>
      next == IF early THEN Head(k.prefetched) ELSE k.read + 1
      taken == [k EXCEPT !.prefetched = IF early THEN Tail(@) ELSE @,
                         !.read = IF early THEN @ ELSE @ + 1, !.reqs = @ + 1]
  IN
  /\ k.req = "run" /\ next <= Len(k.msgs)
  /\ \/ /\ k.upCode = "none" /\ k.at # "done"
        /\ Set(c, NextRequest(taken))
        /\ upstream' = [upstream EXCEPT ![c] = Append(@, next)]
     \/ /\ k.upCode # "none" \/ k.gone        \* the upstream call has ended
        /\ Set(c, ReqDone(taken, "Unknown"))
        /\ UNCHANGED upstream
  /\ UNCHANGED <<stubs, used, history, captured, applied, puts>>

\* The end of the client's messages, or one that cannot be decoded.
PumpRequestEnds(c) ==
  LET k == call[c] IN
  /\ k.req = "run" /\ k.prefetched = <<>>
  /\ \/ k.read = Len(k.msgs) /\ Set(c, ReqDone(k, "OK"))
     \/ k.read < Len(k.msgs) /\ Set(c, ReqDone([k EXCEPT !.read = @ + 1], "Internal"))
  /\ UNCHANGED <<stubs, used, history, upstream, captured, applied, puts>>

\* The client is gone; or the guard has cancelled the pumps, which only a pump that is
\* between two messages sees.
PumpRequestCanceled(c) ==
  LET k == call[c] IN
  /\ k.req = "run"
  /\ \/ k.gone /\ \E err \in {"OK", "Canceled"} : Set(c, ReqDone(k, err))
     \/ k.bidiCancel /\ Set(c, ReqDone(k, "OK"))
  /\ UNCHANGED <<stubs, used, history, upstream, captured, applied, puts>>

\* forwardBidiResponses takes one response of the upstream, or its end.
PumpResponse(c) ==
  LET k == call[c] IN
  /\ k.resp = "run" /\ k.upCode = "none"
  /\ \/ /\ k.resps < MaxUp
        /\ Set(c, IF k.gone THEN RespDone([k EXCEPT !.resps = @ + 1], "Canceled")
                            ELSE NextResponse([k EXCEPT !.resps = @ + 1, !.ups = @ + 1]))
     \/ \E code \in UpstreamCodes : Set(c, RespDone([k EXCEPT !.upCode = code], code))
  /\ UNCHANGED <<stubs, used, history, upstream, captured, applied, puts>>

\* The upstream call shares the client's context: it ends with it.
PumpResponseEnds(c) ==
  LET k == call[c] IN
  /\ k.resp = "run"
  /\ \/ k.gone /\ Set(c, RespDone(k, "Canceled"))
     \/ k.bidiCancel /\ Set(c, RespDone(k, "OK"))
  /\ UNCHANGED <<stubs, used, history, upstream, captured, applied, puts>>

\* Fault: the handler waits for both pumps, whatever they end with.
AwaitBoth(c) ==
  /\ call[c].at = "await" /\ call[c].req = "done" /\ call[c].resp = "done"
  /\ Set(c, [call[c] EXCEPT !.at = IF @ = "await" /\ call[c].mode = "capture" THEN "capture" ELSE "record"])
  /\ UNCHANGED <<stubs, used, history, upstream, captured, applied, puts>>

\* awaitBidiCompletion: the requests' clean end waits for the responses without
\* limit; any other end waits for the other side under a guard of five seconds,
\* which cancels the pumps but not the upstream call.
Await(c) ==
  LET k == call[c]
      next == IF k.mode = "capture" THEN "capture" ELSE "record"
  IN
  /\ k.at = "await"
  /\ \/ k.req = "done" /\ k.resp = "done" /\ Set(c, [k EXCEPT !.at = next])
     \/ /\ k.resp = "done" \/ (k.req = "done" /\ k.reqErr # "OK")
        /\ ~(k.resp = "done" /\ k.req = "done")
        /\ Set(c, [k EXCEPT !.at = next, !.bidiCancel = TRUE,
                   !.reqErr = IF k.req = "done" THEN @ ELSE "OK",
                   !.respErr = IF k.resp = "done" THEN @ ELSE "OK"])
  /\ UNCHANGED <<stubs, used, history, upstream, captured, applied, puts>>

\* selectCaptureError over the results the handler took from the channels.
FirstError(k) ==
  IF k.reqErr \notin {"OK", "none"} THEN k.reqErr
  ELSE IF k.respErr = "none" THEN "OK" ELSE k.respErr

\* sanitizeCapturedStreamError: a cancellation after responses counts as a clean end.
CaptureCode(k) == IF k.resps > 0 /\ FirstError(k) = "Canceled" THEN "OK" ELSE FirstError(k)

\* StreamCaptureState.Snapshot, for the capture and again for the record: a pump that is
\* left behind may append another message afterwards.  captureBidiResult decides on the
\* snapshot whether there is anything to capture.
Snapshot(c) ==
  LET k == call[c]
      held == [k EXCEPT !.snapReqs = k.reqs, !.snapResps = k.resps]
  IN
  /\ k.kind = "bidi"
  /\ \/ /\ k.at = "capture"
        /\ Set(c, [held EXCEPT !.at = IF Capturable(k, CaptureCode(k)) THEN "storing" ELSE "record"])
     \/ k.at = "record" /\ Set(c, [held EXCEPT !.at = "recording"])
  /\ UNCHANGED <<stubs, used, history, upstream, captured, applied, puts>>

\* clientStream.Header, which the capture and the record read: it waits until the
\* upstream has sent its header, or the call to it has ended or never began.
HeaderKnown(k) ==
  k.header \/ k.resps > 0 \/ k.upCode # "none" \/ k.gone \/ k.req = "off"

\* What the snapshot and the results of the pumps make a stub of.
BidiStub(k) ==
  LET held == [k EXCEPT !.reqs = k.snapReqs, !.resps = k.snapResps]
  IN  CapturedStub(held, CaptureCode(held))

CaptureBidi(c) ==
  LET k == call[c] IN
  /\ k.at = "storing" /\ HeaderKnown(k)
  /\ Store(c, BidiStub(k))
  /\ Set(c, [k EXCEPT !.at = "record"])
  /\ UNCHANGED <<used, history, upstream, applied, puts>>

\* recordBidiProxyHistory, before the upstream call is cancelled.
RecordBidi(c) ==
  LET k == call[c] IN
  /\ k.at = "recording" /\ HeaderKnown(k)
  /\ history' = [history EXCEPT ![c] = Records(c, NoId, FirstError(k), k.snapReqs, k.snapResps)]
  /\ Set(c, [Done(k, FirstError(k)) EXCEPT !.gone = TRUE])
  /\ UNCHANGED <<stubs, used, upstream, captured, applied, puts>>

\* The header of an upstream that has not answered yet.
UpstreamHeader(c) ==
  LET k == call[c] IN
  /\ k.at \in {"storing", "recording"} /\ ~HeaderKnown(k)
  /\ Set(c, [k EXCEPT !.header = TRUE])
  /\ UNCHANGED <<stubs, used, history, upstream, captured, applied, puts>>

BidiStep(c) ==
  \/ Open(c) \/ ReserveBidi(c) \/ MissBidi(c) \/ LoopFails(c) \/ PrepareFails(c) \/ AnswerBidi(c)
  \/ OpenPumps(c) \/ Await(c) \/ Snapshot(c) \/ CaptureBidi(c) \/ RecordBidi(c)

PumpStep(c) == PumpRequestCanceled(c) \/ PumpResponseEnds(c)

\* Steps that a message of the client, or the end of its messages, makes possible.
ClientStep(c) ==
  Receive(c) \/ ReceiveNothing(c) \/ NextMessage(c) \/ EndOfStream(c) \/ PumpRequest(c) \/ PumpRequestEnds(c)

----------------------------------------------------------------------------
(* All calls together.                                                     *)

CallStep(c) == MockStep(c) \/ ProxyStep(c) \/ BidiStep(c)

Next ==
  \/ \E c \in Calls : CallStep(c) \/ PumpStep(c) \/ ClientStep(c)
                        \/ UpstreamStep(c) \/ PumpResponse(c) \/ UpstreamHeader(c)
  \/ Environment

Spec == Init /\ [][Next]_vars

\* Handlers run whenever they can (goroutines, timers that fire), and a pump ends when
\* its streams have; neither clients nor upstreams have to do anything, and a pump that
\* waits for them does not see that the guard has cancelled it.
Fairness == \A c \in Calls : WF_vars(CallStep(c)) /\ WF_vars(call[c].gone /\ PumpStep(c))

FairSpec == Spec /\ Fairness

----------------------------------------------------------------------------
(* Properties.                                                             *)

\* The variables hold what their comments say.
TypeOK ==
  /\ stubs \in [Ids -> StubValues \cup {NoStub}]
  /\ used \in [Ids \X SessionNames -> Nat]
  /\ \A c \in Calls :
       /\ call[c].kind \in Kinds /\ call[c].mode \in Modes /\ call[c].code \in Codes
       /\ call[c].stub \in Ids \cup {NoId} /\ call[c].read \in 0..Len(call[c].msgs)
       /\ call[c].body \in StubValues \cup {NoStub}
       /\ \A p \in call[c].matching : p[1] \in Ids /\ p[2] \in StubValues
       /\ \A i \in 1..Len(history[c]) : history[c][i].code \in Codes
       /\ \A i \in 1..Len(upstream[c]) : upstream[c][i] \in 1..Len(call[c].msgs)
       /\ call[c].resps \in 0..MaxUp /\ call[c].ups \in 0..call[c].resps
  /\ puts \in 0..MaxPuts

\* The history tells one story of a call: at most one record, made at its end, from the
\* mock or from the upstream leg but not both.  Its status is the one the client got,
\* but for the mock's streams whose client is gone, recorded as Canceled or as Unknown.
\* A call answered with OK has its record ("single record point" in
\* grpc_proxy_stream.go, proxyFallbackWillServe), but for one without any message: a
\* client stream that the mock answers (recordCall) and a server stream that its client
\* closes (grpc_mocker_stream.go:133).
OneStory ==
  \A c \in Calls :
    LET k == call[c] IN
    /\ Len(history[c]) <= 1
    /\ history[c] # <<>> =>
         LET r == history[c][1] IN
         /\ k.at = "done"
         /\ \/ r.code = k.code
            \/ /\ r.code = "Unknown" /\ k.code = "Canceled" /\ k.gone
               /\ k.kind \in {"server", "bidi"} /\ upstream[c] = <<>>
         /\ r.stub # NoId => upstream[c] = <<>> /\ k.ups = 0
    /\ (k.at = "done" /\ k.code = "OK" /\ (k.kind \in {"client", "server"} => k.read > 0)) =>
         history[c] # <<>>

\* The effects of a matched stub are carried out all or not at all, in order and
\* once, and before its answer leaves or is recorded (effectApplier.apply).
EffectsWhole ==
  \A c \in Calls :
    LET k == call[c] IN
    k.kind # "bidi" =>
      /\ k.at \in {"new", "search", "matched"} => applied[c] = <<>>
      /\ k.at \notin {"effects", "deleting"} /\ k.body # NoStub =>
           applied[c] \in {<<>>, k.body.effects}
      /\ (k.sent > 0 \/ \E i \in 1..Len(history[c]) : history[c][i].stub # NoId) =>
           \/ applied[c] = k.body.effects
           \/ \E i \in 1..Len(k.body.effects) : k.body.effects[i].action = "broken"

\* A parent stub without a session: "generated/deleted targets are global", with one:
\* "... are in same session" (docs/guide/stubs/effects.md:50): a delete effect takes
\* away no stub of another session than its parent's.
DeletesKeepSessions ==
  [][\A c \in Calls :
       (call[c].at = "deleting" /\ call'[c].at = "effects") =>
         LET b == stubs[Head(call[c].ops).id] IN
         b = NoStub \/ b.session = call[c].body.session]_vars

\* A call captures at most one stub, in capture mode, for its own session, with what it
\* passed on: of a unary, client or server stream call all the responses the client was
\* sent.  Of a bidirectional stream that the guard gave up, one message in each
\* direction may be on one side only: in the stub but refused by the peer, or passed on
\* by the pump left behind after the snapshot.
CaptureFaithful ==
  \A c \in Calls :
    LET k == call[c]
        got == Len(upstream[c])
    IN
    /\ Len(captured[c]) <= 1
    /\ captured[c] # <<>> =>
         LET s == captured[c][1] IN
         /\ k.mode = "capture" /\ s.session = k.session
         /\ IF k.kind # "bidi" THEN s.len = k.ups
            ELSE /\ s.len <= k.ups + 1 /\ k.ups <= s.len + 1
                 /\ s.inputs <= got + 1 /\ got <= s.inputs + 1

\* No message is handled twice: the upstream gets messages in their order, each
\* once, and none that a stub answered; and a call that missed before any
\* response does go upstream, with all that was read, unless the upstream or
\* the client is gone (fallbackError, forwardBidiRequests).
MessagesOnce ==
  \A c \in Calls :
    LET k == call[c] IN
    /\ \A i \in 1..Len(upstream[c]) : upstream[c][i] > k.served
    /\ \A i, j \in 1..Len(upstream[c]) : i < j => upstream[c][i] < upstream[c][j]
    /\ k.kind # "bidi" /\ k.missed /\ k.at = "upstream" =>
         upstream[c] = [i \in 1..k.read |-> i]
    /\ (k.mode \in {"replay", "capture"} /\ k.at = "done" /\ k.code = "NotFound" /\ ~k.gone) =>
         \/ upstream[c] # <<>>
         \/ k.body # NoStub
         \/ k.msgs = <<>>

\* What a handler may wait for without an end: the client's next message, or the
\* upstream's answer to a stream, its header included.
Waits(c) ==
  LET k == call[c] IN
  /\ ~k.gone
  /\ \/ k.at \in {"new", "loop"}
     \/ k.at = "upstream" /\ k.kind # "unary"
     \/ k.at = "await" /\ k.resp = "run" /\ k.reqErr \in {"none", "OK"}
     \/ k.at \in {"storing", "recording"} /\ ~HeaderKnown(k)

\* Every call returns and both its pumps end, unless its client neither sends nor
\* leaves or the upstream of a stream never answers: the end of either pump ends
\* the call although the other still waits (awaitBidiCompletion, drainBidiSide).  A
\* call that the guard gave up returns only when the upstream has sent its header or
\* its client has left, for which the capture and the record wait
\* (captureMetadataFromClientStream, responseHeadersFromClientStream).
CallsEnd ==
  \A c \in Calls :
    \/ <>[](call[c].at = "done" /\ call[c].req # "run" /\ call[c].resp # "run")
    \/ <>[]Waits(c)
=============================================================================
