--------------------------------- MODULE Sdk --------------------------------
(***************************************************************************)
(* The SDK for Go tests (pkg/sdk): one Server of one test, embedded in the *)
(* test's process or remote, one stub per request or in batches.  The      *)
(* test's goroutine declares expectations, flushes, verifies, resets and   *)
(* closes, and at last runs the cleanup; callers make calls at any moment, *)
(* other tests of a remote server purge its history, and the TTL timer of  *)
(* a session deletes the test's stubs.  Requests to a remote GripMock may  *)
(* be refused, or carried out while their answer is lost.                  *)
(***************************************************************************)
EXTENDS Naturals, FiniteSets, SequencesExt

CONSTANTS
  Callers,
  Global, Own, Other,  \* no session, the one of WithSession, another one
  MaxExpectations, MaxLinks, MaxStubs, MaxTimes,
  MaxCalls, MaxFaults, MaxResets, MaxPurges

ASSUME SdkAssumption ==
  /\ IsFiniteSet(Callers)
  /\ Global # Own /\ Global # Other /\ Own # Other
  /\ MaxExpectations \in Nat /\ MaxLinks \in Nat \ {0} /\ MaxTimes \in Nat

Modes == {"embedded", "remote", "batch"}
Sessions == {Global, Own, Other}
Outcomes == {"ok", "refused", "lost"}

\* A builder numbers its stubs: the first, then those of NextWillReturn.  Calls
\* for one builder match no stub of another; a lower link has a higher priority.
Ids == (1..MaxExpectations) \X (1..MaxLinks)
Stub(id, times, s) == [id |-> id, times |-> times, session |-> s]
IdsOf(ss) == {s.id : s \in ss}
Idle == [id |-> <<0, 0>>, session |-> Global]

VARIABLES
  mode, session,
  expectations,    \* Server.expectations; late: added after verified was set
  verified, pending,
  stubIDs, opErr,  \* of remoteMock
  batch, unsent,   \* the stubs of the commit under way, and the sessions still to serve
  chain,           \* the last builder, until a Reset or a Close: its number, links, first stub
  op,              \* what the test's goroutine still has to do in this operation
  timer, expired,  \* the TTL timer, and the stubs it has popped
  serving,         \* the embedded server takes calls
  stubs, count,    \* of the server; count per stub and session of the calls
  recorded,        \* the history, as records per stub and session
  calls,           \* the match each caller waits for
  reported,        \* t.Error was called, or the test's own verification failed
  wanted, taken,   \* history: the stubs the test has on the open server; all matches
  stranded,        \* history: the stubs of failed deletions that t.Error told nothing of
  used             \* how much of the bounds is used

testVars == <<expectations, verified, pending, chain, wanted>>
commitVars == <<batch, unsent>>
ownVars == <<stubIDs, opErr>>
timerVars == <<timer, expired, serving, stranded>>
storeVars == <<stubs, count>>
callVars == <<recorded, calls, taken>>
sdkVars == <<mode, session, testVars, commitVars, ownVars, op, timerVars, storeVars,
          callVars, reported, used>>

Zero == [i \in Ids \X Sessions |-> 0]
NoChain == [number |-> 0, links |-> 0, first |-> Stub(<<0, 0>>, 0, Global)]

\* armSessionTTL: only a remote server with a session has the timer.
TestInit ==
  /\ mode \in Modes /\ session \in {Global, Own}
  /\ expectations = {} /\ verified = FALSE /\ pending = <<>> /\ wanted = {}
  /\ stubIDs = {} /\ opErr = FALSE /\ batch = <<>> /\ unsent = {}
  /\ chain = NoChain /\ op = <<>>
  /\ timer = (IF mode # "embedded" /\ session = Own THEN "armed" ELSE "off") /\ expired = {}
  /\ serving = TRUE /\ stranded = {}
  /\ stubs = {} /\ count = Zero /\ recorded = Zero /\ taken = Zero
  /\ calls = [c \in Callers |-> Idle] /\ reported = FALSE
  /\ used = [expectations |-> 0, stubs |-> 0, calls |-> 0, faults |-> 0, resets |-> 0,
             purges |-> 0]

Answered(outcome) ==
  /\ outcome # "ok" => used.faults < MaxFaults
  /\ used' = [used EXCEPT !.faults = @ + IF outcome = "ok" THEN 0 ELSE 1]

----------------------------------------------------------------------------
(* Expectations and the ways their stubs take to the server.               *)

\* PutMany keeps the counters of a stub that it replaces.
Put(ss) == {s \in stubs : s.id \notin IdsOf(ss)} \cup ss

\* Deletions by ID look at no session, and wipe the counters.
Delete(ids) ==
  /\ stubs' = {s \in stubs : s.id \notin ids}
  /\ count' = [i \in Ids \X Sessions |-> IF i[1] \in ids THEN 0 ELSE count[i]]

\* Embedded, the stub's own session is all it has; the header of a remote
\* request gives it the server's.
SessionOf(s) == IF mode # "embedded" /\ s = Global THEN session ELSE s

\* Nothing is sent once an error is kept.
Commit(ss, rest) ==
  IF ss = <<>> \/ opErr
  THEN op' = rest /\ UNCHANGED commitVars
  ELSE op' = <<"send">> \o rest /\ batch' = ss /\ unsent' = {s.session : s \in ToSet(ss)}

\* upsertStub; registerStub differs from it only for a stub already queued.
Register(s, rest) ==
  \/ /\ mode = "embedded"
     /\ stubs' = Put({s}) /\ op' = rest
     /\ UNCHANGED <<pending, commitVars>>
  \/ /\ mode = "batch"
     /\ pending' = IF \E i \in DOMAIN pending : pending[i].id = s.id
                   THEN [i \in DOMAIN pending |-> IF pending[i].id = s.id THEN s ELSE pending[i]]
                   ELSE Append(pending, s)
     /\ op' = rest
     /\ UNCHANGED <<stubs, commitVars>>
  \/ /\ mode = "remote"
     /\ Commit(<<s>>, rest)
     /\ UNCHANGED <<stubs, pending>>

Track(s) ==
  expectations' = IF s.times = 0 THEN expectations
                  ELSE expectations \cup {[id |-> s.id, times |-> s.times, late |-> verified]}

\* A terminal method of a builder; s is the session of the stub, if it has one.
Expect(times, s) ==
  LET n == used.expectations + 1
      stub == Stub(<<n, 1>>, times, SessionOf(s))
  IN /\ op = <<>> /\ n <= MaxExpectations /\ used.stubs < MaxStubs
     /\ used' = [used EXCEPT !.expectations = n, !.stubs = @ + 1]
     /\ chain' = [number |-> n, links |-> 1, first |-> stub]
     /\ wanted' = wanted \cup {stub}
     /\ Track(stub) /\ Register(stub, <<>>)
     /\ UNCHANGED <<mode, session, verified, ownVars, timerVars, count, callVars, reported>>

\* Fault: the first stub stays unlimited.
FixFirstNever ==
  /\ op' = <<"link">>
  /\ UNCHANGED <<chain, wanted, stubs, pending, commitVars>>

\* A first stub without a limit gets one; it was not tracked and never will be.
FixFirst ==
  LET fixed == [chain.first EXCEPT !.times = 1]
  IN IF chain.first.times # 0
     THEN /\ op' = <<"link">>
          /\ UNCHANGED <<chain, wanted, stubs, pending, commitVars>>
     ELSE /\ chain' = [chain EXCEPT !.first = fixed]
          /\ wanted' = (wanted \ {chain.first}) \cup {fixed}
          /\ Register(fixed, <<"link">>)

NextWillReturn ==
  /\ op = <<>> /\ chain.links \in 1..(MaxLinks - 1) /\ used.stubs < MaxStubs
  /\ used' = [used EXCEPT !.stubs = @ + 1]
  /\ FixFirst
  /\ UNCHANGED <<mode, session, expectations, verified, ownVars, timerVars, count, callVars,
                 reported>>

RegisterLink ==
  LET stub == Stub(<<chain.number, chain.links + 1>>, 1, chain.first.session)
  IN /\ op = <<"link">>
     /\ chain' = [chain EXCEPT !.links = @ + 1]
     /\ wanted' = wanted \cup {stub}
     /\ Track(stub) /\ Register(stub, <<>>)
     /\ UNCHANGED <<mode, session, verified, ownVars, timerVars, count, callVars, reported,
                    used>>

\* ServerStreamBuilder.Send adds a message to a stub that is registered already.
SendMessage ==
  /\ op = <<>> /\ chain.links > 0
  /\ Register(chain.first, <<>>)
  /\ UNCHANGED <<mode, session, expectations, verified, chain, wanted, ownVars, timerVars,
                 count, callVars, reported, used>>

\* sessionOrder: the session whose first stub comes first in the batch.
Foremost(s) ==
  \E i \in DOMAIN batch :
    batch[i].session = s /\ \A j \in 1..(i - 1) : batch[j].session \notin unsent

\* Fault: the error of a request is not kept.
SendUnrecorded(outcome) ==
  \E s \in unsent :
    LET part == {stub \in ToSet(batch) : stub.session = s}
        left == unsent \ {s}
        over == left = {} \/ outcome # "ok"
    IN
     /\ op # <<>> /\ Head(op) = "send"
     /\ Foremost(s)
     /\ Answered(outcome)
     /\ stubs' = IF outcome = "refused" THEN stubs ELSE Put(part)
     /\ stubIDs' = IF over /\ outcome = "ok" THEN stubIDs \cup IdsOf(ToSet(batch)) ELSE stubIDs
     /\ op' = IF over THEN Tail(op) ELSE op
     /\ unsent' = (IF over THEN {} ELSE left) /\ batch' = IF over THEN <<>> ELSE batch
     /\ UNCHANGED <<mode, session, testVars, opErr, timerVars, count, callVars, reported>>

\* One request for each session of a batch.  The test owns the stubs of a batch
\* only if every request of it was answered.
Send(outcome) ==
  \E s \in unsent :
    LET part == {stub \in ToSet(batch) : stub.session = s}
        left == unsent \ {s}
        over == left = {} \/ outcome # "ok"
    IN
     /\ op # <<>> /\ Head(op) = "send"
     /\ Foremost(s)
     /\ Answered(outcome)
     /\ stubs' = IF outcome = "refused" THEN stubs ELSE Put(part)
     /\ stubIDs' = IF over /\ outcome = "ok" THEN stubIDs \cup IdsOf(ToSet(batch)) ELSE stubIDs
     /\ opErr' = (opErr \/ outcome # "ok")
     /\ op' = IF over THEN Tail(op) ELSE op
     /\ unsent' = (IF over THEN {} ELSE left) /\ batch' = IF over THEN <<>> ELSE batch
     /\ UNCHANGED <<mode, session, testVars, timerVars, count, callVars, reported>>

\* The test's own Flush, or that of a verification or of Close; the error goes nowhere
\* but into opErr.
Flush ==
  /\ \/ op = <<>> /\ mode = "batch" /\ pending # <<>> /\ Commit(pending, <<>>)
     \/ op # <<>> /\ Head(op) = "flush" /\ Commit(pending, Tail(op))
  /\ pending' = <<>>
  /\ UNCHANGED <<mode, session, expectations, verified, chain, wanted, ownVars, timerVars,
                 storeVars, callVars, reported, used>>

----------------------------------------------------------------------------
(* Verification, Close, Reset and the cleanup.                             *)

FlushStep == IF mode = "batch" THEN <<"flush">> ELSE <<>>

CloseSteps ==
  IF mode = "embedded" THEN <<"shut", "drain">> ELSE FlushStep \o <<"stop", "delete">>

\* ExpectationsWereMet checks once.
ThenVerify(rest) ==
  IF verified
  THEN op' = rest /\ UNCHANGED verified
  ELSE op' = FlushStep \o <<"check">> \o rest /\ verified' = TRUE

Verify ==
  /\ op = <<>>
  /\ ThenVerify(<<>>)
  /\ UNCHANGED <<mode, session, expectations, pending, chain, wanted, commitVars, ownVars,
                 timerVars, storeVars, callVars, reported, used>>

\* The test's own Close, mostly deferred: its error is dropped.
Close ==
  /\ op = <<>> /\ used.resets < MaxResets
  /\ used' = [used EXCEPT !.resets = @ + 1]
  /\ op' = CloseSteps
  /\ UNCHANGED <<mode, session, testVars, commitVars, ownVars, timerVars, storeVars, callVars,
                 reported>>

\* t.Cleanup: a verification, then Close.
Cleanup ==
  /\ op = <<>>
  /\ ThenVerify(CloseSteps \o <<"end">>)
  /\ UNCHANGED <<mode, session, expectations, pending, chain, wanted, commitVars, ownVars,
                 timerVars, storeVars, callVars, reported, used>>

\* A remote history answers a session with its own records and those of none.
Shown == IF mode = "embedded" \/ session = Global THEN Sessions ELSE {Global, session}

Total(f, id, ss) ==
  LET Of(s) == IF s \in ss THEN f[<<id, s>>] ELSE 0
  IN  Of(Global) + Of(Own) + Of(Other)

\* Fault: too many calls pass, too few as well.
UnmetByExcess(e) == Total(recorded, e.id, Shown) > e.times

Unmet(e) == Total(recorded, e.id, Shown) # e.times

Check(outcome) ==
  /\ op # <<>> /\ Head(op) = "check"
  /\ mode = "embedded" => outcome = "ok"
  /\ Answered(outcome)
  /\ opErr' = (opErr \/ outcome # "ok")
  /\ reported' = (reported \/ outcome # "ok" \/ \E e \in expectations : Unmet(e))
  /\ op' = Tail(op)
  /\ UNCHANGED <<mode, session, testVars, commitVars, stubIDs, timerVars, storeVars, callVars>>

\* Called, TotalCalls and History of a remote server; without an error they
\* change nothing.
ReadFails(outcome) ==
  /\ op = <<>> /\ mode # "embedded" /\ outcome # "ok"
  /\ Answered(outcome)
  /\ opErr' = TRUE /\ reported' = TRUE
  /\ UNCHANGED <<mode, session, testVars, commitVars, stubIDs, op, timerVars, storeVars, callVars>>

\* The test declares what follows a Reset or a Close with new builders.
Reset ==
  /\ op = <<>> /\ used.resets < MaxResets
  /\ used' = [used EXCEPT !.resets = @ + 1]
  /\ expectations' = {} /\ verified' = FALSE /\ pending' = <<>>
  /\ wanted' = {} /\ chain' = NoChain
  /\ IF mode = "embedded"
     THEN stubs' = {} /\ count' = Zero /\ op' = <<"purge">>
     ELSE op' = <<"delete", "purge">> /\ UNCHANGED storeVars
  /\ UNCHANGED <<mode, session, commitVars, ownVars, timerVars, callVars, reported>>

\* deleteOwnedStubs; Reset and the cleanup report its error, the test's own Close
\* returns it.
DeleteOwned(outcome) ==
  /\ op # <<>> /\ Head(op) = "delete"
  /\ outcome # "ok" => stubIDs # {}
  /\ Answered(outcome)
  /\ IF outcome = "refused" THEN UNCHANGED storeVars ELSE Delete(stubIDs)
  /\ stubIDs' = {} /\ wanted' = {} /\ chain' = NoChain
  /\ LET dropped == outcome # "ok" /\ Tail(op) = <<>>
     IN  /\ reported' = (reported \/ (outcome # "ok" /\ ~dropped))
         /\ stranded' = stranded \cup IF dropped THEN stubIDs ELSE {}
  /\ op' = Tail(op)
  /\ UNCHANGED <<mode, session, expectations, verified, pending, commitVars, opErr, timer, expired,
                 serving, callVars>>

\* A purge with a session takes that session's records only.
Purge(outcome) ==
  /\ op = <<"purge">>
  /\ mode = "embedded" => outcome = "ok"
  /\ Answered(outcome)
  /\ recorded' = [i \in Ids \X Sessions |->
       IF outcome # "refused" /\ (mode = "embedded" \/ session \in {Global, i[2]})
       THEN 0 ELSE recorded[i]]
  /\ reported' = (reported \/ outcome # "ok")
  /\ op' = <<>>
  /\ UNCHANGED <<mode, session, testVars, commitVars, ownVars, timerVars, storeVars, calls,
                 taken>>

\* Stop does not wait for a timer's function that runs.
StopTimer ==
  /\ op # <<>> /\ Head(op) = "stop"
  /\ timer' = IF timer = "armed" THEN "off" ELSE timer
  /\ op' = Tail(op)
  /\ UNCHANGED <<mode, session, testVars, commitVars, ownVars, expired, serving, stranded, storeVars,
                 callVars, reported, used>>

\* GracefulStop of the embedded server: no more calls, and an end to those that run.
Shut ==
  /\ op # <<>> /\ Head(op) = "shut"
  /\ serving' = FALSE /\ wanted' = {} /\ chain' = NoChain
  /\ op' = Tail(op)
  /\ UNCHANGED <<mode, session, expectations, verified, pending, commitVars, ownVars, timer,
                 expired, stranded, storeVars, callVars, reported, used>>

Drain ==
  /\ op # <<>> /\ Head(op) = "drain"
  /\ \A c \in Callers : calls[c] = Idle
  /\ op' = Tail(op)
  /\ UNCHANGED <<mode, session, testVars, commitVars, ownVars, timerVars, storeVars, callVars,
                 reported, used>>

End ==
  /\ op = <<"end">>
  /\ op' = <<"ended">>
  /\ reported' = (reported \/ opErr)
  /\ UNCHANGED <<mode, session, testVars, commitVars, ownVars, timerVars, storeVars, callVars,
                 used>>

----------------------------------------------------------------------------
(* The timer of the session, and the calls.                                *)

Expire ==
  /\ timer = "armed"
  /\ timer' = (IF stubIDs = {} THEN "done" ELSE "deleting")
  /\ expired' = stubIDs /\ stubIDs' = {}
  /\ UNCHANGED <<mode, session, testVars, commitVars, opErr, op, serving, stranded, storeVars,
                 callVars, reported, used>>

DeleteExpired(outcome) ==
  /\ timer = "deleting"
  /\ Answered(outcome)
  /\ IF outcome = "refused" THEN UNCHANGED storeVars ELSE Delete(expired)
  /\ opErr' = (opErr \/ outcome # "ok")
  /\ timer' = "done" /\ expired' = {}
  /\ stranded' = stranded \cup IF outcome # "ok" /\ op = <<"ended">> THEN expired ELSE {}
  /\ UNCHANGED <<mode, session, testVars, commitVars, stubIDs, op, serving, callVars, reported>>

\* Reset of another test of the remote server: without a session it purges all records.
OthersPurge(s) ==
  /\ mode # "embedded" /\ used.purges < MaxPurges
  /\ \E i \in Ids \X Sessions : recorded[i] > 0
  /\ used' = [used EXCEPT !.purges = @ + 1]
  /\ recorded' = [i \in Ids \X Sessions |-> IF s \in {Global, i[2]} THEN 0 ELSE recorded[i]]
  /\ UNCHANGED <<mode, session, testVars, commitVars, ownVars, op, timerVars, storeVars, calls,
                 taken, reported>>

\* The free match of the highest priority is taken.
Call(c, e, s) ==
  LET free == {x \in stubs : /\ x.id[1] = e
                             /\ x.session \in {Global, s}
                             /\ x.times = 0 \/ count[<<x.id, s>>] < x.times}
  IN \E best \in free :
     /\ \A x \in free : best.id[2] <= x.id[2]
     /\ calls[c] = Idle /\ used.calls < MaxCalls
     /\ serving
     /\ used' = [used EXCEPT !.calls = @ + 1]
     /\ count' = [count EXCEPT ![<<best.id, s>>] = @ + 1]
     /\ taken' = [taken EXCEPT ![<<best.id, s>>] = @ + 1]
     /\ calls' = [calls EXCEPT ![c] = [id |-> best.id, session |-> s]]
     /\ UNCHANGED <<mode, session, testVars, commitVars, ownVars, op, timerVars, stubs,
                    recorded, reported>>

\* A call is recorded before its answer leaves.
Record(c) ==
  /\ calls[c] # Idle
  /\ recorded' = [recorded EXCEPT ![<<calls[c].id, calls[c].session>>] = @ + 1]
  /\ calls' = [calls EXCEPT ![c] = Idle]
  /\ UNCHANGED <<mode, session, testVars, commitVars, ownVars, op, timerVars, storeVars, taken,
                 reported, used>>

----------------------------------------------------------------------------
TestNext ==
  \/ \E n \in 0..MaxTimes, s \in {Global, Other} : Expect(n, s)
  \/ NextWillReturn \/ RegisterLink \/ SendMessage
  \/ Flush \/ Verify \/ Reset \/ Close \/ Cleanup \/ StopTimer \/ Shut \/ Drain \/ End
  \/ Expire
  \/ \E outcome \in Outcomes :
       \/ Send(outcome) \/ Check(outcome) \/ ReadFails(outcome)
       \/ DeleteOwned(outcome) \/ Purge(outcome) \/ DeleteExpired(outcome)
  \/ \E s \in Sessions : OthersPurge(s)
  \/ \E c \in Callers, e \in 1..MaxExpectations, s \in {session, Other} : Call(c, e, s)
  \/ \E c \in Callers : Record(c)

TestSpec == TestInit /\ [][TestNext]_sdkVars

----------------------------------------------------------------------------
(* A stub the test declared is queued or on the server, in its last form,  *)
(* between two operations of the test, unless an error is kept for the     *)
(* cleanup to report or the TTL has run out.  When a remote test has ended *)
(* and t.Error was not called, a stub that is left on the server is one    *)
(* that the timer is about to delete, or failed to delete after Close had  *)
(* read the kept error, or one that the test's own Close failed to delete  *)
(* (commitStubsBatch, armSessionTTL, remoteMock.Close).                    *)
StubsAccounted ==
  /\ op = <<>> /\ ~opErr /\ timer \in {"off", "armed"} => wanted \subseteq stubs \cup ToSet(pending)
  /\ op = <<"ended">> /\ mode # "embedded" /\ ~reported
       => IdsOf(stubs) \subseteq expired \cup stranded

(* NextWillReturn: in every session, the first stub answers as often as it *)
(* may and then each link once, in order, also when links are added while  *)
(* calls come in (fixFirstUnlimited).                                      *)
ChainInOrder ==
  [][\A c \in Callers :
       LET id == calls'[c].id
           s == calls'[c].session
           Often(l) == \A w \in wanted :
                         w.id = <<id[1], l>> => taken[<<w.id, s>>] >= w.times
       IN calls'[c] # Idle /\ calls[c] = Idle /\ id \in IdsOf(wanted) /\ timer \in {"off", "armed"}
            => /\ \A l \in 1..(id[2] - 1) : Often(l)
               /\ <<id[1], id[2] + 1>> \in IdsOf(stubs) => ~Often(id[2])]_sdkVars

\* How many calls of a stub are finished, in the sessions that the history shows.
Finished(id) ==
  Total([i \in Ids \X Sessions |->
           taken[i] - Cardinality({c \in Callers : calls[c] = [id |-> i[1], session |-> i[2]]})],
        id, Shown)

(* A verification finds an error exactly when an expectation has not been  *)
(* called as often as it said, by calls that are finished, in the sessions *)
(* that the history shows: those are all without WithSession and in the    *)
(* embedded mode.  When another test has purged records, one without an    *)
(* error still means that often at least.  A test that ends without an     *)
(* error has seen every expectation declared before its last verification  *)
(* called that often (ExpectationsWereMet, Close, reportRemoteErr).        *)
VerdictTrue ==
  [][/\ op # <<>> /\ Head(op) = "check" /\ op' = Tail(op) /\ ~reported' =>
          \A e \in expectations : IF used.purges = 0 THEN Finished(e.id) = e.times
                                  ELSE Finished(e.id) >= e.times
     /\ reported' /\ ~reported /\ used'.faults = 0 /\ used.purges = 0 =>
          \E e \in expectations : Finished(e.id) # e.times
     /\ op = <<"end">> /\ op' = <<"ended">> /\ ~reported' =>
          \A e \in expectations : e.late \/ Total(taken, e.id, Sessions) >= e.times]_sdkVars

(* "The SDK registers cleanup automatically and verifies Times(...)        *)
(* expectations" (docs/guide/embedded-sdk/best-practices.md:81): a test    *)
(* that ends without an error has seen every expectation called.           *)
CleanupVerifies ==
  [][op = <<"end">> /\ op' = <<"ended">> /\ ~reported' =>
       \A e \in expectations : Total(taken, e.id, Sessions) >= e.times]_sdkVars
=============================================================================
