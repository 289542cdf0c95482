----------------------------- MODULE MockCalls -----------------------------
(***************************************************************************)
(* The gRPC mocker (internal/app/grpc_mocker_*.go, grpc_effects.go): calls *)
(* served from stubs, their effects and their history records.  This       *)
(* module holds the state of all calls and the handlers of unary, server-  *)
(* streaming and client-streaming methods; ProxyCalls adds the upstream    *)
(* legs, BidiCalls the bidirectional streams.                              *)
(*                                                                         *)
(* A search is one step here (Search and SearchLocks open it up): it       *)
(* reserves a use of a visible stub that accepts the messages, or misses   *)
(* when there is none.  What a handler does between two shared accesses is *)
(* a step of its own, so other calls and REST writes run in between.       *)
(***************************************************************************)
EXTENDS Naturals, Sequences, FiniteSets

CONSTANTS
  Calls,       \* the gRPC calls
  Shapes,      \* what calls may be: [kind, session, mode, msgs]
  Ids, NoId,   \* stub IDs, and uuid.Nil
  Global,      \* the empty session
  Sessions,    \* the named sessions
  Contents,    \* what a client message may hold
  Loaded,      \* the stubs there may be at the start
  Bodies,      \* the stubs that REST puts may carry
  NoStub,      \* Go's nil *Stub
  MaxPuts,     \* bound: REST puts and deletions
  MaxUp        \* bound: responses of the upstream to one call

SessionNames == Sessions \cup {Global}

Kinds == {"unary", "server", "client", "bidi"}
Modes == {"none", "proxy", "replay", "capture"}   \* none: no route to an upstream
Codes == {"OK", "NotFound", "Canceled", "Internal", "Aborted", "Unknown"}
Actions == {"upsert", "delete", "broken"}         \* broken: its template or stub is invalid

StubValues ==
  [session : SessionNames, times : Nat, accepts : SUBSET Contents, inputs : Nat,
   len : Nat, code : Codes, effects : Seq([action : Actions, id : Ids])]

ASSUME CallsAssumption ==
  /\ NoStub \notin StubValues /\ NoId \notin Ids
  /\ Loaded \subseteq StubValues /\ Bodies \subseteq StubValues
  /\ Shapes \subseteq [kind : Kinds, session : SessionNames, mode : Modes, msgs : Seq(Contents)]
  /\ \A s \in Shapes : s.kind = "unary" => Len(s.msgs) = 1
  /\ \A s \in Shapes : s.kind = "server" => Len(s.msgs) <= 1
  /\ MaxPuts \in Nat /\ MaxUp \in Nat \ {0}

VARIABLES
  stubs,     \* the stub of every ID
  used,      \* searcher.stubCallCount: uses per stub ID and session
  call,      \* the calls
  history,   \* the records each call left
  upstream,  \* the messages (by index) the upstream got from each call
  captured,  \* history: the stubs that each call captured
  applied,   \* history: the effect operations that each call carried out
  puts       \* how much of the bound is used

vars == <<stubs, used, call, history, upstream, captured, applied, puts>>

NewCall(s) ==
  [kind |-> s.kind, session |-> s.session, mode |-> s.mode, msgs |-> s.msgs,
   at |-> "new", read |-> 0, gone |-> FALSE, stub |-> NoId, body |-> NoStub,
   ops |-> <<>>, sent |-> 0, code |-> "OK",
   missed |-> FALSE, prefetched |-> <<>>, reqs |-> 0, resps |-> 0, ups |-> 0, upCode |-> "none",
   matching |-> {}, served |-> 0, last |-> NoId, req |-> "off", resp |-> "off",
   reqErr |-> "none", respErr |-> "none", bidiCancel |-> FALSE, header |-> FALSE,
   snapReqs |-> 0, snapResps |-> 0]

Init ==
  /\ stubs \in [Ids -> Loaded \cup {NoStub}]
  /\ used = [k \in Ids \X SessionNames |-> 0]
  /\ call \in {[c \in Calls |-> NewCall(f[c])] : f \in [Calls -> Shapes]}
  /\ history = [c \in Calls |-> <<>>]
  /\ upstream = [c \in Calls |-> <<>>]
  /\ captured = [c \in Calls |-> <<>>]
  /\ applied = [c \in Calls |-> <<>>]
  /\ puts = 0

----------------------------------------------------------------------------
(* Stubs and their uses.                                                   *)

Visible(b, session) == b # NoStub /\ b.session \in {Global, session}

HasUses(id, b, session) == b.times = 0 \/ used[<<id, session>>] < b.times

Accepts(b, msgs) == \A i \in 1..Len(msgs) : msgs[i] \in b.accepts

\* What a query of the call may return.
Candidates(c) ==
  {id \in Ids : /\ Visible(stubs[id], call[c].session)
                /\ HasUses(id, stubs[id], call[c].session)
                /\ Accepts(stubs[id], call[c].msgs)}

Reserve(id, session) == used' = [used EXCEPT ![<<id, session>>] = @ + 1]

Forgotten(ids) == [k \in DOMAIN used |-> IF k[1] \in ids THEN 0 ELSE used[k]]

----------------------------------------------------------------------------
(* How a handler returns, and what it records.                             *)

\* proxyBehavior: both modes that look for a stub first may go upstream.
CanFallback(k, code) == k.mode \in {"replay", "capture"} /\ code = "NotFound"

Done(k, code) == [k EXCEPT !.at = "done", !.code = code]

\* Fault: a miss ends the call although an upstream could answer it.
MissedForGood(k, msgs) == Done(k, "NotFound")

\* A matcher miss (fallbackError): it carries the messages read so far.
Missed(k, msgs) ==
  IF CanFallback(k, "NotFound") THEN [k EXCEPT !.at = "forward", !.prefetched = msgs, !.missed = TRUE]
                                ELSE Done(k, "NotFound")

\* Any other return.  A unary call goes upstream only on a fallbackError; the
\* stream handler tests the status code alone, so that a stub's own NotFound
\* is handed to the upstream, without the messages that were read.
Returned(k, code) ==
  IF k.kind # "unary" /\ CanFallback(k, code)
  THEN [k EXCEPT !.at = "forward", !.prefetched = <<>>]
  ELSE Done(k, code)

Records(c, stub, code, reqs, resps) ==
  Append(history[c], [stub |-> stub, code |-> code, reqs |-> reqs, resps |-> resps])

\* status.Code of the error of a stream whose client is gone.  A bare error of the
\* context or of a gateway's connection is recorded as Unknown, while the client gets it
\* as Canceled; a delay cut short (delayResponse) and grpc's own errors carry their status.
CanceledAs == {"Canceled", "Unknown"}

\* recordCall keeps nothing of a call without requests.
RecordCall(c, stub, code, resps) ==
  history' = IF call[c].read = 0 THEN history
             ELSE [history EXCEPT ![c] = Records(c, stub, code, call[c].read, resps)]

\* Fault: the mock records a call that its upstream leg records again.
RecordAlways(c, stub, code, resps) == RecordCall(c, stub, code, resps)

\* recordUnmatched and the record...UnlessProxied: the upstream leg records.
RecordUnlessProxied(c, stub, code, resps) ==
  IF CanFallback(call[c], code) THEN history' = history
                                ELSE RecordCall(c, stub, code, resps)

Set(c, k) == call' = [call EXCEPT ![c] = k]

----------------------------------------------------------------------------
(* From the first message to the match.                                    *)

\* The messages a handler reads before it searches: one, or all of them.
Receive(c) ==
  LET k == call[c] IN
  /\ k.at = "new" /\ k.kind # "bidi"
  /\ k.kind = "server" /\ k.mode # "proxy" => k.msgs # <<>>
  /\ Set(c, [k EXCEPT !.read = Len(k.msgs),
             !.prefetched = IF k.mode = "proxy" THEN [i \in 1..Len(k.msgs) |-> i] ELSE <<>>,
             !.at = IF k.mode = "proxy" THEN "forward" ELSE "search"])
  /\ UNCHANGED <<stubs, used, history, upstream, captured, applied, puts>>

\* The client leaves before its messages are read.
ReceiveFails(c) ==
  /\ call[c].at = "new" /\ call[c].kind # "bidi" /\ call[c].gone
  /\ Set(c, Done(call[c], "Canceled"))
  /\ UNCHANGED <<stubs, used, history, upstream, captured, applied, puts>>

\* The client of a server stream closes its side without a message.  grpc refuses such
\* a call; the streams of the gateways hand the end on, and the handler takes it for
\* the end of the call.  Neither leaves a record.
ReceiveNothing(c) ==
  LET k == call[c] IN
  /\ k.at = "new" /\ k.kind = "server" /\ k.mode # "proxy" /\ k.msgs = <<>>
  /\ \E code \in {"OK", "Internal"} : Set(c, Done(k, code))
  /\ UNCHANGED <<stubs, used, history, upstream, captured, applied, puts>>

\* captureShouldProxyUnaryByHeaders: a unary call with headers of its own is
\* captured again although a stub without header matchers would serve it.
CaptureByHeaders(c) ==
  LET k == call[c] IN
  /\ k.at = "search" /\ k.kind = "unary" /\ k.mode = "capture"
  /\ Set(c, [k EXCEPT !.at = "forward", !.prefetched = <<1>>])
  /\ UNCHANGED <<stubs, used, history, upstream, captured, applied, puts>>

Match(c) ==
  /\ call[c].at = "search"
  /\ \E id \in Candidates(c) :
       /\ Reserve(id, call[c].session)
       /\ Set(c, [call[c] EXCEPT !.at = "matched", !.stub = id, !.body = stubs[id]])
  /\ UNCHANGED <<stubs, history, upstream, captured, applied, puts>>

Miss(c) ==
  LET k == call[c] IN
  /\ k.at = "search" /\ Candidates(c) = {}
  /\ Set(c, Missed(k, [i \in 1..k.read |-> i]))
  /\ RecordUnlessProxied(c, NoId, "NotFound", 0)
  /\ UNCHANGED <<stubs, used, upstream, captured, applied, puts>>

\* A handler function that fails, a delay that the client does not wait for, a
\* template that cannot be rendered: the use is spent, nothing else happens.
FailEarly(c, code) ==
  LET k == call[c] IN
  /\ k.at = "matched" /\ k.kind # "bidi"
  /\ code = "Canceled" => k.gone
  /\ Set(c, Returned(k, code))
  /\ UNCHANGED <<stubs, used, history, upstream, captured, applied, puts>>

----------------------------------------------------------------------------
(* The effects of the matched stub, in two phases.                         *)

\* Fault: the operations before the one that cannot be prepared are kept.
PreparedUntilBroken(b) == SelectSeq(b.effects, LAMBDA op : op.action # "broken")

\* All operations are prepared, or none is applied.
Prepared(b) ==
  IF \E i \in 1..Len(b.effects) : b.effects[i].action = "broken" THEN <<>> ELSE b.effects

PrepareEffects(c) ==
  LET k == call[c] IN
  /\ k.at = "matched"
  /\ Set(c, [k EXCEPT !.at = "effects", !.ops = Prepared(k.body)])
  /\ UNCHANGED <<stubs, used, history, upstream, captured, applied, puts>>

\* The stub an upsert effect stores: it inherits the session of its parent.
Generated(session) ==
  [session |-> session, times |-> 0, accepts |-> Contents, inputs |-> 0,
   len |-> 0, code |-> "OK", effects |-> <<>>]

Carried(c) ==
  applied' = [applied EXCEPT ![c] = Append(@, Head(call[c].ops))]

UpsertEffect(c) ==
  LET k == call[c] IN
  /\ k.at = "effects" /\ k.ops # <<>> /\ Head(k.ops).action = "upsert"
  /\ stubs' = [stubs EXCEPT ![Head(k.ops).id] = Generated(k.body.session)]
  /\ Carried(c)
  /\ Set(c, [k EXCEPT !.ops = Tail(@)])
  /\ UNCHANGED <<used, history, upstream, captured, puts>>

\* effectCanDeleteStub
CanDelete(b, session) == b # NoStub /\ b.session = session

\* A delete effect looks the stub up, and deletes whatever the ID holds later.
CheckDelete(c) ==
  LET k == call[c]
      found == stubs[Head(k.ops).id]
  IN
  /\ k.at = "effects" /\ k.ops # <<>> /\ Head(k.ops).action = "delete"
  /\ IF CanDelete(found, k.body.session)
     THEN Set(c, [k EXCEPT !.at = "deleting"]) /\ UNCHANGED applied
     ELSE Set(c, [k EXCEPT !.ops = Tail(@)]) /\ Carried(c)
  /\ UNCHANGED <<stubs, used, history, upstream, captured, puts>>

DeleteEffect(c) ==
  LET k == call[c] IN
  /\ k.at = "deleting"
  /\ stubs' = [stubs EXCEPT ![Head(k.ops).id] = NoStub]
  /\ used' = Forgotten({Head(k.ops).id})
  /\ Carried(c)
  /\ Set(c, [k EXCEPT !.at = "effects", !.ops = Tail(@)])
  /\ UNCHANGED <<history, upstream, captured, puts>>

EffectsDone(c) == call[c].at = "effects" /\ call[c].ops = <<>>

----------------------------------------------------------------------------
(* The answer.                                                             *)

\* A unary call: the stub's error or its message; a message that does not fit
\* the method's type is an error that leaves no record.
AnswerUnary(c) ==
  LET k == call[c] IN
  /\ EffectsDone(c) /\ k.kind = "unary"
  /\ \/ /\ RecordCall(c, k.stub, k.body.code, IF k.body.code = "OK" THEN 1 ELSE 0)
        /\ Set(c, [Returned(k, k.body.code) EXCEPT !.sent = IF k.body.code = "OK" THEN 1 ELSE 0])
     \/ /\ k.body.code = "OK"
        /\ Set(c, Returned(k, "Internal"))
        /\ UNCHANGED history
  /\ UNCHANGED <<stubs, used, upstream, captured, applied, puts>>

\* A client stream records its answer only when it was sent.
AnswerClient(c) ==
  LET k == call[c] IN
  /\ EffectsDone(c) /\ k.kind = "client"
  /\ \/ /\ k.body.code = "OK"
        /\ RecordCall(c, k.stub, "OK", 1)
        /\ Set(c, [Returned(k, "OK") EXCEPT !.sent = 1])
     \/ /\ \/ Set(c, Returned(k, k.body.code)) /\ k.body.code # "OK"
           \/ Set(c, Returned(k, "Internal")) /\ k.body.code = "OK"
        /\ UNCHANGED history
  /\ UNCHANGED <<stubs, used, upstream, captured, applied, puts>>

\* The next element of a server stream.
SendElement(c) ==
  LET k == call[c] IN
  /\ EffectsDone(c) /\ k.kind = "server" /\ k.sent < k.body.len
  /\ Set(c, [k EXCEPT !.sent = @ + 1])
  /\ UNCHANGED <<stubs, used, history, upstream, captured, applied, puts>>

\* The end of a server stream: the stub's code after all elements, or an
\* element that is not sent (a delay cut short, a failed template or send, an
\* error of its own), or a client that is gone.
EndServer(c, code) ==
  LET k == call[c] IN
  /\ EffectsDone(c) /\ k.kind = "server"
  /\ \/ /\ \/ k.sent = k.body.len /\ code = k.body.code
           \/ k.sent < k.body.len /\ code \in {"Internal", "NotFound"}
        /\ RecordUnlessProxied(c, k.stub, code, k.sent)
     \/ /\ code = "Canceled" /\ k.gone
        /\ \E status \in CanceledAs : RecordUnlessProxied(c, k.stub, status, k.sent)
  /\ Set(c, Returned(k, code))
  /\ UNCHANGED <<stubs, used, upstream, captured, applied, puts>>

----------------------------------------------------------------------------
(* The environment: clients that leave, and writes through REST.           *)

ClientLeaves(c) ==
  /\ call[c].at # "done" /\ ~call[c].gone
  /\ Set(c, [call[c] EXCEPT !.gone = TRUE])
  /\ UNCHANGED <<stubs, used, history, upstream, captured, applied, puts>>

PutStub(id, b) ==
  /\ puts < MaxPuts
  /\ puts' = puts + 1
  /\ stubs' = [stubs EXCEPT ![id] = b]
  /\ UNCHANGED <<used, call, history, upstream, captured, applied>>

DeleteStub(id) ==
  /\ puts < MaxPuts /\ stubs[id] # NoStub
  /\ puts' = puts + 1
  /\ stubs' = [stubs EXCEPT ![id] = NoStub]
  /\ used' = Forgotten({id})
  /\ UNCHANGED <<call, history, upstream, captured, applied>>

\* What the handler of a mock call does on its own, once its messages are there.
MockStep(c) ==
  \/ ReceiveFails(c) \/ CaptureByHeaders(c) \/ Match(c) \/ Miss(c)
  \/ \E code \in {"Canceled", "Internal"} : FailEarly(c, code)
  \/ PrepareEffects(c) \/ UpsertEffect(c) \/ CheckDelete(c) \/ DeleteEffect(c)
  \/ AnswerUnary(c) \/ AnswerClient(c) \/ SendElement(c)
  \/ \E code \in Codes : EndServer(c, code)

Environment ==
  \/ \E c \in Calls : ClientLeaves(c)
  \/ \E id \in Ids : DeleteStub(id) \/ \E b \in Bodies : PutStub(id, b)
=============================================================================
