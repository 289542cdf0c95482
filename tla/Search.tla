------------------------------- MODULE Search -------------------------------
(***************************************************************************)
(* The searcher (internal/infra/stuber): concurrent FindByQuery calls, the *)
(* per-session match counters behind options.times, and the operations     *)
(* that change stubs meanwhile.                                            *)
(*                                                                         *)
(* A search is not atomic.  It takes the storage lock and searcher.mu      *)
(* separately for each name it looks a service up by, for the index probe, *)
(* for the exhaustion test of every candidate, for the similar-stub scan,  *)
(* for the full scan and for each reservation; other calls, puts, deletes  *)
(* and clears run in between.                                              *)
(* A service has two positions: its full name and, when that has a package *)
(* prefix, the name without it.                                            *)
(* Every action below is one critical section.  The storage is the table   *)
(* of stubs that StubStorage implements; its reads are exact by ReadsExact *)
(* and IndexCompleteAtUsable of that module.  A stub's input is its set of *)
(* equals pairs, the empty one standing for an input outside the equals    *)
(* index that matches every query.                                         *)
(***************************************************************************)
EXTENDS Naturals, FiniteSets

CONSTANTS
  Clients,    \* goroutines inside FindByQuery
  Ids,        \* stub IDs
  NoId,       \* a query without an ID
  Global,     \* the empty session
  Sessions,   \* the other sessions
  Services, Methods,
  Short,      \* a service's name without its package prefix
  Inputs,     \* inputs of stubs and of queries: functions from keys to values
  Catalog,    \* the stub values puts may carry
  Queries,    \* the queries clients may send
  NoStub,     \* Go's nil *Stub
  NoQuery,    \* a client that is not searching
  MaxCalls,   \* bound: searches started
  MaxWrites   \* bound: puts, deletes and clears

SessionNames == Sessions \cup {Global}

ASSUME SearchAssumption ==
  /\ NoId \notin Ids
  /\ NoStub \notin Catalog /\ NoQuery \notin Queries
  /\ Ids \subseteq Nat
  /\ Short \in [Services -> Services]
  /\ Catalog \subseteq [id : Ids, service : Services, method : Methods,
                        session : SessionNames, priority : Nat, times : Nat,
                        equals : Inputs]
  /\ Queries \subseteq [id : Ids \cup {NoId}, service : Services, method : Methods,
                        session : SessionNames, data : Inputs,
                        strict : BOOLEAN, internal : BOOLEAN]
  /\ MaxCalls \in Nat /\ MaxWrites \in Nat

ASSUME FiniteInputs == \A input \in Inputs : IsFiniteSet(DOMAIN input)

VARIABLES
  itemsByID,      \* the stored stubs
  stubCallCount,  \* matches per (stub ID, query session), guarded by searcher.mu
  pc,             \* where each client is in find
  query,          \* the query it runs
  unresolved,     \* posByPN: the names it has still to look up
  at,             \* posByPN: the services it has found the method at
  pending,        \* candidates it has not tested for exhaustion yet
  matches,        \* matching candidates it has not tried to reserve yet
  found,          \* the stub it returns
  calls, writes,  \* how much of the bounds is used
  served,         \* history: reservations since their counter was last wiped
  skipped,        \* history: services the index probe passed over
  available       \* history: stubs that could have answered all along

clientVars == <<pc, query, unresolved, at, pending, matches, found, skipped>>
vars == <<itemsByID, stubCallCount, clientVars, calls, writes, served, available>>

----------------------------------------------------------------------------
(* What a stub is to a query.                                              *)

Stored == {itemsByID[id] : id \in Ids} \ {NoStub}

VisibleTo(s, session) == s.session = Global \/ s.session = session

Names(q) == {q.service, Short[q.service]}

AtService(s, q) == s.service \in Names(q) /\ s.method = q.method

MatchesData(s, data) ==
  \A k \in DOMAIN s.equals : k \in DOMAIN data /\ data[k] = s.equals[k]

Indexed(s) == DOMAIN s.equals # {}

NotExhausted(s, session) ==
  s.times = 0 \/ stubCallCount[<<s.id, session>>] < s.times

VisibleAndNotExhausted(s, q) ==
  VisibleTo(s, q.session) /\ NotExhausted(s, q.session)

\* compareRankedMatches: specificity, then score, then ID.
Outranks(a, b) ==
  LET specA == Cardinality(DOMAIN a.equals)
      specB == Cardinality(DOMAIN b.equals)
  IN  \/ specA > specB
      \/ specA = specB /\ a.priority > b.priority
      \/ specA = specB /\ a.priority = b.priority /\ a.id < b.id

\* The stubs that answer a query by its service and method (or by its ID) now.
Answers(s, q) ==
  /\ AtService(s, q)
  /\ IF q.id # NoId THEN s.id = q.id ELSE MatchesData(s, q.data)

Eligible(q) ==
  {s \in Stored : Answers(s, q) /\ VisibleAndNotExhausted(s, q)}

----------------------------------------------------------------------------
(* find: one client's search.                                              *)

Goto(c, label) == pc' = [pc EXCEPT ![c] = label]

\* History: the stubs that have been eligible in every state of the call.
Observe ==
  available' = [c \in Clients |->
    IF pc'[c] = "idle" THEN {}
    ELSE IF pc[c] = "idle" THEN Eligible(query[c])'
    ELSE available[c] \cap Eligible(query[c])']

KeepStore == UNCHANGED <<itemsByID, stubCallCount, writes, served>> /\ Observe

\* posByPN begins: the names to look up before the step at the label.
Resolve(c, label, q) ==
  /\ Goto(c, label)
  /\ unresolved' = [unresolved EXCEPT ![c] = Names(q)]
  /\ at' = [at EXCEPT ![c] = {}]

\* What posByPN found is used up.
Proceed(c, label) ==
  /\ Goto(c, label)
  /\ at' = [at EXCEPT ![c] = {}]
  /\ UNCHANGED unresolved

Finish(c, label) ==
  /\ Proceed(c, label)
  /\ pending' = [pending EXCEPT ![c] = {}]
  /\ matches' = [matches EXCEPT ![c] = {}]

Start(c) ==
  /\ pc[c] = "idle" /\ calls < MaxCalls
  /\ \E q \in Queries :
       /\ query' = [query EXCEPT ![c] = q]
       /\ Resolve(c, IF q.id # NoId THEN "exists" ELSE "probe", q)
  /\ calls' = calls + 1
  /\ UNCHANGED <<pending, matches, found, skipped>> /\ KeepStore

\* posByN: one of the two look-ups of posByPN, the full name first.  A short name
\* whose service lacks the method only changes which error posByPN returns.
PosByN(c) ==
  /\ pc[c] \in {"exists", "probe", "similar", "scan"}
  /\ \E name \in unresolved[c] :
       /\ name = query[c].service \/ query[c].service \notin unresolved[c]
       /\ unresolved' = [unresolved EXCEPT ![c] = @ \ {name}]
       /\ at' = IF \E s \in Stored : s.service = name /\ s.method = query[c].method
                THEN [at EXCEPT ![c] = @ \cup {name}] ELSE at
  /\ UNCHANGED <<pc, query, pending, matches, found, skipped, calls>> /\ KeepStore

Resolved(c, label) == pc[c] = label /\ unresolved[c] = {}

\* The stubs at the positions that posByPN has found.
Here(c) == {s \in Stored : s.service \in at[c] /\ s.method = query[c].method}

\* searchByID: the service and method must resolve, whatever the ID.
EnsureExists(c) ==
  /\ Resolved(c, "exists")
  /\ IF at[c] # {} THEN Proceed(c, "lookup") /\ UNCHANGED <<pending, matches>>
     ELSE Finish(c, "missed")
  /\ UNCHANGED <<query, found, skipped, calls>> /\ KeepStore

\* Fault: an unknown ID is not noticed.
LookupIDUnchecked(c) ==
  /\ pc[c] = "lookup"
  /\ pending' = [pending EXCEPT ![c] = {itemsByID[query[c].id]}]
  /\ Proceed(c, "visible") /\ UNCHANGED matches
  /\ UNCHANGED <<query, found, skipped, calls>> /\ KeepStore

LookupID(c) ==
  /\ pc[c] = "lookup"
  /\ LET s == itemsByID[query[c].id]
     IN  IF s = NoStub THEN Finish(c, "missed")
         ELSE /\ pending' = [pending EXCEPT ![c] = {s}]
              /\ Proceed(c, "visible") /\ UNCHANGED matches
  /\ UNCHANGED <<query, found, skipped, calls>> /\ KeepStore

CheckVisible(c) ==
  /\ pc[c] = "visible"
  /\ \E s \in pending[c] :
       IF VisibleAndNotExhausted(s, query[c])
       THEN /\ matches' = [matches EXCEPT ![c] = {s}]
            /\ pending' = [pending EXCEPT ![c] = {}]
            /\ Proceed(c, "reserve")
       ELSE Finish(c, "missed")
  /\ UNCHANGED <<query, found, skipped, calls>> /\ KeepStore

\* The services found that hold an indexed stub.
Usable(c) == {name \in at[c] : \E s \in Here(c) : s.service = name /\ Indexed(s)}

\* Fault: the index answers without the stubs it cannot hold.
ProbeIndexOnly(c) ==
  /\ Resolved(c, "probe")
  /\ LET data == query[c].data
     IN  IF DOMAIN data # {} /\ Usable(c) # {}
         THEN /\ pending' = [pending EXCEPT ![c] =
                   {s \in Here(c) : Indexed(s) /\ MatchesData(s, data)}]
              /\ skipped' = [skipped EXCEPT ![c] = at[c] \ Usable(c)]
              /\ Proceed(c, "filter")
         ELSE Resolve(c, "scan", query[c]) /\ UNCHANGED <<pending, skipped>>
  /\ UNCHANGED <<query, matches, found, calls>> /\ KeepStore

\* indexedCandidates: usable when one of the positions found holds an indexed stub;
\* a position that holds none is then passed over, the stubs there included.  The
\* candidates are not filtered by session.
ProbeIndex(c) ==
  /\ Resolved(c, "probe")
  /\ LET data == query[c].data
     IN  IF DOMAIN data # {} /\ Usable(c) # {}
         THEN /\ pending' = [pending EXCEPT ![c] =
                   {s \in Here(c) : /\ s.service \in Usable(c)
                                    /\ Indexed(s) => \E k \in DOMAIN s.equals :
                                         k \in DOMAIN data /\ data[k] = s.equals[k]}]
              /\ skipped' = [skipped EXCEPT ![c] = at[c] \ Usable(c)]
              /\ Proceed(c, "filter")
         ELSE Resolve(c, "scan", query[c]) /\ UNCHANGED <<pending, skipped>>
  /\ UNCHANGED <<query, matches, found, calls>> /\ KeepStore

\* Fault: the candidates are taken to be of the query's session.
FilterCandidateOfAnySession(c) ==
  /\ pc[c] = "filter"
  /\ \E s \in pending[c] :
       /\ pending' = [pending EXCEPT ![c] = @ \ {s}]
       /\ matches' = IF NotExhausted(s, query[c].session) /\ MatchesData(s, query[c].data)
                     THEN [matches EXCEPT ![c] = @ \cup {s}] ELSE matches
  /\ UNCHANGED <<pc, query, unresolved, at, found, skipped, calls>> /\ KeepStore

\* visibleIndexedCandidates tests one candidate at a time under searcher.mu;
\* the matcher that follows is pure.
FilterCandidate(c) ==
  /\ pc[c] = "filter"
  /\ \E s \in pending[c] :
       /\ pending' = [pending EXCEPT ![c] = @ \ {s}]
       /\ matches' = IF VisibleAndNotExhausted(s, query[c]) /\ MatchesData(s, query[c].data)
                     THEN [matches EXCEPT ![c] = @ \cup {s}] ELSE matches
  /\ UNCHANGED <<pc, query, unresolved, at, found, skipped, calls>> /\ KeepStore

FilterDone(c) ==
  /\ pc[c] = "filter" /\ pending[c] = {}
  /\ Proceed(c, "reserve_indexed")
  /\ UNCHANGED <<query, pending, matches, found, skipped, calls>> /\ KeepStore

\* bestSimilarStub holds the storage read lock throughout, so that no counter
\* can go down during it and its tests are as good as one.  A similar stub, of
\* any position, ends the search; without one the full scan follows.
FindSimilar(c) ==
  /\ Resolved(c, "similar")
  /\ IF \E s \in Here(c) : VisibleAndNotExhausted(s, query[c])
     THEN Finish(c, "missed") /\ UNCHANGED skipped
     ELSE /\ Resolve(c, "scan", query[c])
          /\ skipped' = [skipped EXCEPT ![c] = {}]
          /\ UNCHANGED <<pending, matches>>
  /\ UNCHANGED <<query, found, calls>> /\ KeepStore

\* resolveSearchCandidates: searcher.mu and the storage lock are both held
\* while the available stubs are collected, of all the positions found.
Scan(c) ==
  /\ Resolved(c, "scan")
  /\ LET q == query[c]
     IN  IF at[c] # {}
         THEN /\ matches' = [matches EXCEPT ![c] =
                   {s \in Here(c) : VisibleAndNotExhausted(s, q) /\ MatchesData(s, q.data)}]
              /\ Proceed(c, "reserve") /\ UNCHANGED pending
         ELSE IF q.strict THEN Finish(c, "missed")
         ELSE Proceed(c, "fallback") /\ UNCHANGED <<pending, matches>>
  /\ UNCHANGED <<query, found, skipped, calls>> /\ KeepStore

\* The service is unknown: any service's stubs for the method will do.
FallBack(c) ==
  /\ pc[c] = "fallback"
  /\ matches' = [matches EXCEPT ![c] =
       {s \in Stored : s.method = query[c].method /\
          VisibleAndNotExhausted(s, query[c]) /\ MatchesData(s, query[c].data)}]
  /\ Proceed(c, "reserve")
  /\ UNCHANGED <<query, pending, found, skipped, calls>> /\ KeepStore

\* Fault: the matches are tried unsorted.
Unranked(S) == S

Best(S) == {s \in S : \A o \in S \ {s} : Outranks(s, o)}

\* Fault: the limit is not tested again under the lock.
TryReserveUnchecked(c) ==
  /\ pc[c] \in {"reserve_indexed", "reserve"}
  /\ \E s \in Best(matches[c]) :
       LET key == <<s.id, query[c].session>>
       IN  /\ stubCallCount' = [stubCallCount EXCEPT ![key] = @ + 1]
           /\ served' = served \cup
                {[stub |-> s, session |-> query[c].session, number |-> stubCallCount[key] + 1]}
           /\ found' = [found EXCEPT ![c] = s]
  /\ Finish(c, "found")
  /\ UNCHANGED <<itemsByID, query, skipped, calls, writes>> /\ Observe

\* Fault: a match that could not be reserved is tried again.
TryReserveAgain(c) ==
  /\ pc[c] \in {"reserve_indexed", "reserve"}
  /\ \E s \in Best(matches[c]) :
       /\ query[c].internal \/ NotExhausted(s, query[c].session)
       /\ stubCallCount' = [stubCallCount EXCEPT ![<<s.id, query[c].session>>] =
                              @ + (IF query[c].internal THEN 0 ELSE 1)]
       /\ found' = [found EXCEPT ![c] = s]
  /\ Finish(c, "found")
  /\ UNCHANGED <<itemsByID, query, skipped, calls, writes, served>> /\ Observe

\* tryReserve on the best match left: one critical section of searcher.mu.
\* It sees the stub as the snapshot holds it, stored or not any more.
TryReserve(c) ==
  /\ pc[c] \in {"reserve_indexed", "reserve"}
  /\ \E s \in Best(matches[c]) :
       LET q   == query[c]
           key == <<s.id, q.session>>
       IN  IF q.internal \/ NotExhausted(s, q.session)
           THEN /\ IF q.internal THEN UNCHANGED <<stubCallCount, served>>
                   ELSE /\ stubCallCount' = [stubCallCount EXCEPT ![key] = @ + 1]
                        /\ served' = served \cup
                             {[stub |-> s, session |-> q.session,
                               number |-> stubCallCount[key] + 1]}
                /\ found' = [found EXCEPT ![c] = s]
                /\ Finish(c, "found")
           ELSE /\ matches' = [matches EXCEPT ![c] = @ \ {s}]
                /\ UNCHANGED <<stubCallCount, served, found, pc, unresolved, at, pending>>
  /\ UNCHANGED <<itemsByID, query, skipped, calls, writes>> /\ Observe

OutOfMatches(c) ==
  /\ pc[c] \in {"reserve_indexed", "reserve"} /\ matches[c] = {}
  /\ IF pc[c] = "reserve" THEN Finish(c, "missed")
     ELSE Resolve(c, "similar", query[c]) /\ UNCHANGED <<pending, matches>>
  /\ UNCHANGED <<query, found, skipped, calls>> /\ KeepStore

Return(c) ==
  /\ pc[c] \in {"found", "missed"}
  /\ Proceed(c, "idle")
  /\ skipped' = [skipped EXCEPT ![c] = {}]
  /\ found' = [found EXCEPT ![c] = NoStub]
  /\ query' = [query EXCEPT ![c] = NoQuery]
  /\ UNCHANGED <<pending, matches, calls>> /\ KeepStore

Step(c) ==
  \/ PosByN(c) \/ EnsureExists(c) \/ LookupID(c) \/ CheckVisible(c)
  \/ ProbeIndex(c) \/ FilterCandidate(c) \/ FilterDone(c)
  \/ FindSimilar(c) \/ Scan(c) \/ FallBack(c)
  \/ TryReserve(c) \/ OutOfMatches(c) \/ Return(c)

----------------------------------------------------------------------------
(* Changes of the stored stubs.  Deletes and clears hold searcher.mu over  *)
(* both the counters and the storage.                                      *)

Write ==
  /\ writes < MaxWrites
  /\ writes' = writes + 1
  /\ UNCHANGED <<clientVars, calls>> /\ Observe

\* Counters survive an update of their stub.
Upsert(s) ==
  /\ itemsByID' = [itemsByID EXCEPT ![s.id] = s]
  /\ UNCHANGED <<stubCallCount, served>>
  /\ Write

\* Wipes the counters of the keys in the set.
WipeCounts(keys) ==
  /\ stubCallCount' = [k \in Ids \X SessionNames |->
                         IF k \in keys THEN 0 ELSE stubCallCount[k]]
  /\ served' = {r \in served : <<r.stub.id, r.session>> \notin keys}

Del(ids) ==
  /\ WipeCounts(ids \X SessionNames)
  /\ itemsByID' = [id \in Ids |-> IF id \in ids THEN NoStub ELSE itemsByID[id]]
  /\ Write

DelBySession(session) ==
  /\ WipeCounts(Ids \X {session})
  /\ itemsByID' = [id \in Ids |->
       IF itemsByID[id] # NoStub /\ itemsByID[id].session = session
       THEN NoStub ELSE itemsByID[id]]
  /\ Write

Clear ==
  /\ WipeCounts(Ids \X SessionNames)
  /\ itemsByID' = [id \in Ids |-> NoStub]
  /\ Write

----------------------------------------------------------------------------
Init ==
  /\ itemsByID = [id \in Ids |-> NoStub]
  /\ stubCallCount = [k \in Ids \X SessionNames |-> 0]
  /\ pc = [c \in Clients |-> "idle"]
  /\ query = [c \in Clients |-> NoQuery]
  /\ unresolved = [c \in Clients |-> {}]
  /\ at = [c \in Clients |-> {}]
  /\ skipped = [c \in Clients |-> {}]
  /\ pending = [c \in Clients |-> {}]
  /\ matches = [c \in Clients |-> {}]
  /\ found = [c \in Clients |-> NoStub]
  /\ calls = 0 /\ writes = 0
  /\ served = {}
  /\ available = [c \in Clients |-> {}]

Next ==
  \/ \E c \in Clients : Start(c) \/ Step(c)
  \/ \E s \in Catalog : Upsert(s)
  \/ \E ids \in (SUBSET Ids) \ {{}} : Del(ids)
  \/ \E session \in Sessions : DelBySession(session)
  \/ Clear

Spec == Init /\ [][Next]_vars

\* Every goroutine inside find keeps being scheduled.
FairSpec == Spec /\ \A c \in Clients : WF_vars(Step(c))

----------------------------------------------------------------------------
(* Properties.                                                             *)

Labels == {"idle", "exists", "lookup", "visible", "probe", "filter",
           "reserve_indexed", "similar", "scan", "fallback", "reserve",
           "found", "missed"}

\* The state of the searches: a client between Start and Return has a query,
\* one on the path of searchByID has an ID in it, and one that found a stub
\* holds it.
ClientsTypeOK ==
  /\ pc \in [Clients -> Labels]
  /\ query \in [Clients -> Queries \cup {NoQuery}]
  /\ unresolved \in [Clients -> SUBSET Services] /\ at \in [Clients -> SUBSET Services]
  /\ skipped \in [Clients -> SUBSET Services]
  /\ pending \in [Clients -> SUBSET Catalog]
  /\ matches \in [Clients -> SUBSET Catalog]
  /\ found \in [Clients -> Catalog \cup {NoStub}]
  /\ \A c \in Clients :
       /\ pc[c] # "idle" => query[c] \in Queries
       /\ pc[c] \in {"exists", "lookup", "visible"} => query[c].id # NoId
       /\ pc[c] = "found" => found[c] \in Catalog

\* Type invariant; a stored stub is stored under its own ID.
TypeOK ==
  /\ itemsByID \in [Ids -> Catalog \cup {NoStub}]
  /\ \A id \in Ids : itemsByID[id] # NoStub => itemsByID[id].id = id
  /\ stubCallCount \in [Ids \X SessionNames -> Nat]
  /\ ClientsTypeOK
  /\ calls \in Nat /\ writes \in Nat
  /\ served \subseteq [stub : Catalog, session : SessionNames, number : Nat \ {0}]
  /\ available \in [Clients -> SUBSET Catalog]

\* options.times under concurrency (docs/guide/stubs/times-limit.md:172): since
\* its counter was last wiped, a (stub, session) pair has answered with the
\* match numbers 1..count, no two answers sharing a number, and no answer has
\* a number beyond the limit of the stub version that gave it - although
\* searches reserve from stale snapshots while updates change the limit.
TimesRespected ==
  /\ \A r \in served :
       /\ r.number <= stubCallCount[<<r.stub.id, r.session>>]
       /\ r.stub.times # 0 => r.number <= r.stub.times
  /\ \A r1, r2 \in served :
       r1.stub.id = r2.stub.id /\ r1.session = r2.session /\ r1.number = r2.number
         => r1 = r2
  /\ \A id \in Ids, session \in SessionNames :
       \A n \in 1..stubCallCount[<<id, session>>] :
         \E r \in served : r.stub.id = id /\ r.session = session /\ r.number = n

\* The stubs that could have answered the client's query during the whole call, but
\* for those at a position the index probe passed over.
Lasting(c) == {s \in available[c] : s.service \notin skipped[c]}

\* A search fails only when it has to, or when the index passed a position over: no
\* stub that answers its query at another position stayed stored, visible and below
\* its limit from the start of the call to its end.  The two look-ups of the service,
\* the index probe, the per-candidate exhaustion test, the early return with a similar
\* stub (search_runtime_helpers.go:48) and the full scan each drop candidates at a
\* different moment.  What the index passes over is lost: see NeverMissed.
NoFalseMiss ==
  \A c \in Clients : pc[c] = "missed" => Lasting(c) = {}

\* The stub a search returns is not outranked by one that could have answered
\* during the whole call (sortRankedMatches before the reservations), unless by one
\* at a position the index passed over.
BestAvailable ==
  \A c \in Clients : pc[c] = "found" /\ query[c].id = NoId =>
    \A s \in Lasting(c) : AtService(found[c], query[c]) /\ ~Outranks(s, found[c])

\* The equals index "only ever narrows the candidate set, never changes how candidates
\* are matched or ranked, and the caller falls back to the full set whenever the index
\* cannot answer" (storage_equals_index.go:8): a search never misses while a stub
\* could have answered it during the whole call.
NeverMissed ==
  \A c \in Clients : pc[c] = "missed" => available[c] = {}

\* A search never returns another session's stub, although the equals index
\* hands out candidates of every session (storage_equals_index.go:202).
SessionsSeparate ==
  \A c \in Clients : pc[c] = "found" => VisibleTo(found[c], query[c].session)

\* Every search comes to an end: a failed reservation takes its stub out of
\* the matches, whatever the other clients do.
SearchesFinish ==
  \A c \in Clients : pc[c] # "idle" ~> pc[c] = "idle"
=============================================================================
