---------------------------- MODULE SearchProofs ----------------------------
(***************************************************************************)
(* Proofs about the searcher, for any number of clients, stubs, sessions   *)
(* and calls.                                                              *)
(***************************************************************************)
EXTENDS Search, FiniteSetTheorems, TLAPS

----------------------------------------------------------------------------
(* Type correctness.                                                       *)

\* The values a search picks are of the types the variables have.
LEMMA RecordTypes ==
  /\ \A s \in Catalog : /\ s.id \in Ids /\ s.session \in SessionNames
                        /\ s.priority \in Nat /\ s.times \in Nat
  /\ \A q \in Queries : /\ q.id \in Ids \cup {NoId} /\ q.session \in SessionNames
                        /\ Names(q) \subseteq Services
  /\ Global \in SessionNames
BY SearchAssumption DEF SessionNames, Names

\* What is stored is in the catalog.
LEMMA StoredTyped == TypeOK => Stored \subseteq Catalog
BY DEF TypeOK, Stored

\* Eligible stubs are stored ones.
LEMMA EligibleTyped ==
  ASSUME TypeOK, NEW q PROVE Eligible(q) \subseteq Catalog
BY StoredTyped DEF Eligible

\* The history of available stubs keeps its type through any step.
LEMMA ObserveTyped ==
  ASSUME TypeOK, Observe, itemsByID' \in [Ids -> Catalog \cup {NoStub}]
  PROVE  available' \in [Clients -> SUBSET Catalog]
<1>1. Stored' \subseteq Catalog
  BY DEF Stored
<1>2. \A c \in Clients : Eligible(query[c])' \subseteq Catalog
  BY <1>1 DEF Eligible
<1>3. \A c \in Clients : available[c] \subseteq Catalog
  BY DEF TypeOK
<1> QED
  BY <1>2, <1>3 DEF Observe

\* A client's step that changes neither the store nor the counters.
LEMMA MoveTyped ==
  ASSUME TypeOK, KeepStore, ClientsTypeOK', calls' \in Nat PROVE TypeOK'
BY ObserveTyped DEF KeepStore, TypeOK

\* How the helpers of the search leave what the clients have looked up.
LEMMA MovesTyped ==
  ASSUME ClientsTypeOK, NEW c \in Clients, NEW label
  PROVE  /\ Proceed(c, label) => /\ pc' = [pc EXCEPT ![c] = label]
                                 /\ unresolved' \in [Clients -> SUBSET Services]
                                 /\ at' \in [Clients -> SUBSET Services]
         /\ Finish(c, label) => /\ pc' = [pc EXCEPT ![c] = label]
                                /\ unresolved' \in [Clients -> SUBSET Services]
                                /\ at' \in [Clients -> SUBSET Services]
                                /\ pending' \in [Clients -> SUBSET Catalog]
                                /\ matches' \in [Clients -> SUBSET Catalog]
         /\ query[c] \in Queries /\ Resolve(c, label, query[c]) =>
              /\ pc' = [pc EXCEPT ![c] = label]
              /\ unresolved' \in [Clients -> SUBSET Services]
              /\ at' \in [Clients -> SUBSET Services]
<1>1. query[c] \in Queries => Names(query[c]) \in SUBSET Services
  BY RecordTypes
<1>2. ASSUME Proceed(c, label)
      PROVE  /\ pc' = [pc EXCEPT ![c] = label]
             /\ unresolved' \in [Clients -> SUBSET Services]
             /\ at' \in [Clients -> SUBSET Services]
  BY <1>2 DEF Proceed, Goto, ClientsTypeOK
<1>3. ASSUME Finish(c, label)
      PROVE  /\ pending' \in [Clients -> SUBSET Catalog]
             /\ matches' \in [Clients -> SUBSET Catalog]
  BY <1>3 DEF Finish, ClientsTypeOK
<1>4. ASSUME query[c] \in Queries, Resolve(c, label, query[c])
      PROVE  /\ pc' = [pc EXCEPT ![c] = label]
             /\ unresolved' \in [Clients -> SUBSET Services]
             /\ at' \in [Clients -> SUBSET Services]
  <2> DEFINE names == Names(query[c])
  <2>1. names \in SUBSET Services
    BY <1>1, <1>4
  <2>2. /\ pc' = [pc EXCEPT ![c] = label] /\ at' = [at EXCEPT ![c] = {}]
        /\ unresolved' = [unresolved EXCEPT ![c] = names]
    BY <1>4 DEF Resolve, Goto
  <2> HIDE DEF names
  <2> QED
    BY <2>1, <2>2 DEF ClientsTypeOK
<1> QED
  BY <1>2, <1>3, <1>4 DEF Finish

\* The search always works on type-correct state: in particular a client that
\* reports a hit holds a stub, and a stored stub sits under its own ID.
THEOREM TypeCorrect == Spec => []TypeOK
<1>1. Init => TypeOK
  BY SearchAssumption DEF Init, TypeOK, ClientsTypeOK, Labels
<1>2. TypeOK /\ [Next]_vars => TypeOK'
  <2> SUFFICES ASSUME TypeOK, [Next]_vars PROVE TypeOK'
    OBVIOUS
  <2> USE SearchAssumption, RecordTypes
  <2>1. ASSUME NEW c \in Clients, Start(c) PROVE TypeOK'
    <3>1. PICK q \in Queries : /\ query' = [query EXCEPT ![c] = q]
                              /\ pc' = [pc EXCEPT ![c] = IF q.id # NoId THEN "exists" ELSE "probe"]
                              /\ unresolved' = [unresolved EXCEPT ![c] = Names(q)]
                              /\ at' = [at EXCEPT ![c] = {}]
      BY <2>1 DEF Start, Resolve, Goto
    <3>2. (IF q.id # NoId THEN "exists" ELSE "probe") \in Labels
      BY DEF Labels
    <3>3. ClientsTypeOK'
      BY <2>1, <3>1, <3>2 DEF Start, TypeOK, ClientsTypeOK
    <3> QED
      BY <2>1, <3>3, MoveTyped DEF Start, TypeOK
  <2>2. ASSUME NEW c \in Clients, Step(c) PROVE TypeOK'
    <3>a. CASE TryReserve(c)
      <4>1. available' \in [Clients -> SUBSET Catalog]
        BY <3>a, ObserveTyped DEF TryReserve, TypeOK
      <4>2. PICK s \in Best(matches[c]) :
              /\ stubCallCount' = stubCallCount \/
                   stubCallCount' = [stubCallCount EXCEPT ![<<s.id, query[c].session>>] = @ + 1]
              /\ served' = served \/
                   served' = served \cup
                     {[stub |-> s, session |-> query[c].session,
                       number |-> stubCallCount[<<s.id, query[c].session>>] + 1]}
              /\ \/ found' = [found EXCEPT ![c] = s] /\ Finish(c, "found")
                 \/ /\ matches' = [matches EXCEPT ![c] = @ \ {s}]
                    /\ UNCHANGED <<found, pc, unresolved, at, pending>>
        BY <3>a DEF TryReserve
      <4>3. s \in Catalog /\ query[c] \in Queries
        BY <3>a DEF TryReserve, TypeOK, ClientsTypeOK, Best
      <4>4. <<s.id, query[c].session>> \in Ids \X SessionNames
        BY <4>3
      <4>5. stubCallCount' \in [Ids \X SessionNames -> Nat]
        <5>1. stubCallCount \in [Ids \X SessionNames -> Nat]
          BY DEF TypeOK
        <5>2. ASSUME NEW k \in Ids \X SessionNames,
                     stubCallCount' = [stubCallCount EXCEPT ![k] = @ + 1]
              PROVE  stubCallCount' \in [Ids \X SessionNames -> Nat]
          BY <5>1, <5>2
        <5> QED
          BY <4>2, <4>4, <5>1, <5>2
      <4>6. stubCallCount[<<s.id, query[c].session>>] + 1 \in Nat \ {0}
        BY <4>4 DEF TypeOK
      <4>7. served' \subseteq [stub : Catalog, session : SessionNames, number : Nat \ {0}]
        BY <4>2, <4>3, <4>6 DEF TypeOK
      <4>8. /\ itemsByID' = itemsByID /\ query' = query
            /\ calls' = calls /\ writes' = writes /\ skipped' = skipped
        BY <3>a DEF TryReserve
      <4>9. pc[c] \in {"reserve_indexed", "reserve"}
        BY <3>a DEF TryReserve
      <4>10. ASSUME found' = [found EXCEPT ![c] = s], Finish(c, "found")
             PROVE  ClientsTypeOK'
        BY <4>3, <4>8, <4>9, <4>10 DEF TypeOK, ClientsTypeOK, Finish, Proceed, Goto, Labels
      <4>11. ASSUME matches' = [matches EXCEPT ![c] = @ \ {s}], UNCHANGED <<found, pc, unresolved, at, pending>>
             PROVE  ClientsTypeOK'
        BY <4>8, <4>11 DEF TypeOK, ClientsTypeOK
      <4>12. ClientsTypeOK'
        BY <4>2, <4>10, <4>11
      <4> QED
        BY <4>1, <4>5, <4>7, <4>8, <4>12 DEF TypeOK
    <3>b. CASE ~TryReserve(c)
      <4>0. KeepStore
        BY <2>2, <3>b DEF Step, PosByN, EnsureExists, LookupID, CheckVisible, ProbeIndex,
           FilterCandidate, FilterDone, FindSimilar, Scan, FallBack, OutOfMatches, Return
      <4>1. calls' = calls
        BY <2>2, <3>b DEF Step, PosByN, EnsureExists, LookupID, CheckVisible, ProbeIndex,
           FilterCandidate, FilterDone, FindSimilar, Scan, FallBack, OutOfMatches, Return
      <4> USE DEF Labels, TypeOK, ClientsTypeOK
      <4>a. ClientsTypeOK
        OBVIOUS
      <4> USE MovesTyped
      <4>b. ASSUME PosByN(c) PROVE ClientsTypeOK'
        <5>1. PICK name \in unresolved[c] :
                /\ unresolved' = [unresolved EXCEPT ![c] = @ \ {name}]
                /\ at' = at \/ at' = [at EXCEPT ![c] = @ \cup {name}]
          BY <4>b DEF PosByN
        <5>2. at' \in [Clients -> SUBSET Services]
          BY <5>1
        <5> QED
          BY <4>b, <5>1, <5>2 DEF PosByN
      <4>2. ASSUME EnsureExists(c) PROVE ClientsTypeOK'
        <5>1. CASE Proceed(c, "lookup") /\ UNCHANGED <<pending, matches>>
          BY <4>2, <4>a, <5>1 DEF EnsureExists, Resolved
        <5>2. CASE Finish(c, "missed")
          BY <4>2, <4>a, <5>2 DEF EnsureExists, Resolved
        <5> QED
          BY <4>2, <5>1, <5>2 DEF EnsureExists
      <4>3. ASSUME LookupID(c) PROVE ClientsTypeOK'
        <5> DEFINE s == itemsByID[query[c].id]
        <5>1. s \in Catalog \cup {NoStub}
          BY <4>3 DEF LookupID
        <5>2. CASE Finish(c, "missed")
          BY <4>3, <4>a, <5>2 DEF LookupID
        <5>3. CASE /\ s # NoStub /\ pending' = [pending EXCEPT ![c] = {s}]
                   /\ Proceed(c, "visible") /\ UNCHANGED matches
          BY <4>3, <4>a, <5>1, <5>3 DEF LookupID
        <5> QED
          BY <4>3, <5>2, <5>3 DEF LookupID
      <4>4. ASSUME CheckVisible(c) PROVE ClientsTypeOK'
        <5>1. PICK s \in pending[c] :
                \/ Finish(c, "missed")
                \/ /\ matches' = [matches EXCEPT ![c] = {s}]
                   /\ pending' = [pending EXCEPT ![c] = {}] /\ Proceed(c, "reserve")
          BY <4>4 DEF CheckVisible
        <5>2. CASE Finish(c, "missed")
          BY <4>4, <4>a, <5>2 DEF CheckVisible
        <5>3. CASE /\ matches' = [matches EXCEPT ![c] = {s}]
                   /\ pending' = [pending EXCEPT ![c] = {}] /\ Proceed(c, "reserve")
          <6>1. {s} \in SUBSET Catalog
            BY <5>1
          <6> QED
            BY <4>4, <4>a, <5>3, <6>1 DEF CheckVisible
        <5> QED
          BY <5>1, <5>2, <5>3
      <4>5. ASSUME ProbeIndex(c) PROVE ClientsTypeOK'
        <5>1. PICK P \in SUBSET Catalog :
                \/ /\ Proceed(c, "filter") /\ pending' = [pending EXCEPT ![c] = P]
                   /\ skipped' = [skipped EXCEPT ![c] = at[c] \ Usable(c)]
                \/ Resolve(c, "scan", query[c]) /\ pending' = pending /\ skipped' = skipped
          BY <4>5, StoredTyped DEF ProbeIndex, Here
        <5>2. pc[c] = "probe" /\ UNCHANGED <<query, matches, found>>
          BY <4>5 DEF ProbeIndex, Resolved
        <5>3. CASE /\ Proceed(c, "filter") /\ pending' = [pending EXCEPT ![c] = P]
                   /\ skipped' = [skipped EXCEPT ![c] = at[c] \ Usable(c)]
          <6>1. at[c] \ Usable(c) \in SUBSET Services
            OBVIOUS
          <6> QED
            BY <4>a, <5>2, <5>3, <6>1
        <5>4. CASE Resolve(c, "scan", query[c]) /\ pending' = pending /\ skipped' = skipped
          BY <4>a, <5>2, <5>4
        <5> QED
          BY <5>1, <5>3, <5>4
      <4>6. ASSUME FilterCandidate(c) PROVE ClientsTypeOK'
        <5>1. PICK s \in pending[c] :
                /\ pending' = [pending EXCEPT ![c] = @ \ {s}]
                /\ \/ matches' = matches
                   \/ matches' = [matches EXCEPT ![c] = @ \cup {s}]
          BY <4>6 DEF FilterCandidate
        <5>2. matches' \in [Clients -> SUBSET Catalog]
          BY <5>1
        <5> QED
          BY <4>6, <5>1, <5>2 DEF FilterCandidate
      <4>7. ASSUME FilterDone(c) PROVE ClientsTypeOK'
        BY <4>7, <4>a DEF FilterDone
      <4>8. ASSUME FindSimilar(c) PROVE ClientsTypeOK'
        <5>1. pc[c] = "similar" /\ UNCHANGED <<query, found>>
          BY <4>8 DEF FindSimilar, Resolved
        <5>2. CASE Finish(c, "missed") /\ UNCHANGED skipped
          BY <4>a, <5>1, <5>2
        <5>3. CASE /\ Resolve(c, "scan", query[c])
                   /\ skipped' = [skipped EXCEPT ![c] = {}] /\ UNCHANGED <<pending, matches>>
          <6>1. skipped' \in [Clients -> SUBSET Services]
            BY <5>3
          <6>2. query[c] \in Queries
            BY <5>1
          <6> QED
            BY <4>a, <5>1, <5>3, <6>1, <6>2
        <5> QED
          BY <4>8, <5>2, <5>3 DEF FindSimilar
      <4>9. ASSUME Scan(c) PROVE ClientsTypeOK'
        <5>1. PICK M \in SUBSET Catalog :
                \/ /\ Proceed(c, "reserve") /\ UNCHANGED pending
                   /\ matches' = [matches EXCEPT ![c] = M]
                \/ Finish(c, "missed")
                \/ Proceed(c, "fallback") /\ UNCHANGED <<pending, matches>>
          BY <4>9, StoredTyped DEF Scan, Here
        <5>2. pc[c] = "scan" /\ UNCHANGED <<query, found, skipped>>
          BY <4>9 DEF Scan, Resolved
        <5>3. CASE /\ Proceed(c, "reserve") /\ UNCHANGED pending
                   /\ matches' = [matches EXCEPT ![c] = M]
          BY <4>a, <5>2, <5>3
        <5>4. CASE Finish(c, "missed")
          BY <4>a, <5>2, <5>4
        <5>5. CASE Proceed(c, "fallback") /\ UNCHANGED <<pending, matches>>
          BY <4>a, <5>2, <5>5
        <5> QED
          BY <5>1, <5>3, <5>4, <5>5
      <4>10. ASSUME FallBack(c) PROVE ClientsTypeOK'
        <5>1. PICK M \in SUBSET Catalog : matches' = [matches EXCEPT ![c] = M]
          BY <4>10, StoredTyped DEF FallBack
        <5> QED
          BY <4>10, <4>a, <5>1 DEF FallBack
      <4>11. ASSUME OutOfMatches(c) PROVE ClientsTypeOK'
        <5>1. /\ pc[c] \in {"reserve_indexed", "reserve"}
              /\ UNCHANGED <<query, found, skipped>>
          BY <4>11 DEF OutOfMatches
        <5>2. CASE Finish(c, "missed")
          BY <4>a, <5>1, <5>2
        <5>3. CASE Resolve(c, "similar", query[c]) /\ UNCHANGED <<pending, matches>>
          BY <4>a, <5>1, <5>3
        <5> QED
          BY <4>11, <5>2, <5>3 DEF OutOfMatches
      <4>12. ASSUME Return(c) PROVE ClientsTypeOK'
        BY <4>12, <4>a DEF Return
      <4>13. ClientsTypeOK'
        BY <2>2, <3>b, <4>b, <4>2, <4>3, <4>4, <4>5, <4>6, <4>7, <4>8, <4>9, <4>10, <4>11,
           <4>12 DEF Step
      <4> QED
        BY <4>0, <4>1, <4>13, MoveTyped
    <3> QED
      BY <3>a, <3>b
  <2>3. ASSUME NEW s \in Catalog, Upsert(s) PROVE TypeOK'
    <3>1. itemsByID' \in [Ids -> Catalog \cup {NoStub}]
      BY <2>3 DEF Upsert, TypeOK
    <3>2. available' \in [Clients -> SUBSET Catalog]
      BY <2>3, <3>1, ObserveTyped DEF Upsert, Write
    <3>3. ClientsTypeOK'
      BY <2>3 DEF Upsert, Write, clientVars, TypeOK, ClientsTypeOK
    <3>4. \A id \in Ids : itemsByID'[id] # NoStub => itemsByID'[id].id = id
      BY <2>3 DEF Upsert, TypeOK
    <3> QED
      BY <2>3, <3>1, <3>2, <3>3, <3>4 DEF Upsert, Write, TypeOK
  <2>4. ASSUME NEW keys, WipeCounts(keys)
        PROVE  /\ stubCallCount' \in [Ids \X SessionNames -> Nat]
               /\ served' \subseteq [stub : Catalog, session : SessionNames, number : Nat \ {0}]
    BY <2>4 DEF WipeCounts, TypeOK
  <2>5. ASSUME NEW gone \in SUBSET Ids, Write,
               itemsByID' = [id \in Ids |-> IF id \in gone THEN NoStub ELSE itemsByID[id]],
               NEW keys, WipeCounts(keys)
        PROVE  TypeOK'
    <3>1. itemsByID' \in [Ids -> Catalog \cup {NoStub}]
      BY <2>5 DEF TypeOK
    <3>2. available' \in [Clients -> SUBSET Catalog]
      BY <2>5, <3>1, ObserveTyped DEF Write
    <3> QED
      BY <2>4, <2>5, <3>1, <3>2 DEF Write, clientVars, TypeOK, ClientsTypeOK
  <2>6. ASSUME NEW ids \in (SUBSET Ids) \ {{}}, Del(ids) PROVE TypeOK'
    BY <2>5, <2>6 DEF Del
  <2>7. ASSUME NEW session \in Sessions, DelBySession(session) PROVE TypeOK'
    <3> DEFINE gone == {id \in Ids : itemsByID[id] # NoStub /\ itemsByID[id].session = session}
    <3>1. itemsByID' = [id \in Ids |-> IF id \in gone THEN NoStub ELSE itemsByID[id]]
      BY <2>7 DEF DelBySession
    <3> QED
      BY <2>5, <2>7, <3>1 DEF DelBySession
  <2>8. ASSUME Clear PROVE TypeOK'
    <3>1. itemsByID' = [id \in Ids |-> IF id \in Ids THEN NoStub ELSE itemsByID[id]]
      BY <2>8 DEF Clear
    <3> QED
      BY <2>5, <2>8, <3>1 DEF Clear
  <2>9. CASE UNCHANGED vars
    BY <2>9 DEF vars, clientVars, TypeOK, ClientsTypeOK
  <2> QED
    BY <2>1, <2>2, <2>3, <2>6, <2>7, <2>8, <2>9 DEF Next
<1> QED
  BY <1>1, <1>2, PTL DEF Spec

----------------------------------------------------------------------------
(* No false miss.                                                          *)

\* Where the stubs that could have answered all along are, at every point of a
\* search: NoFalseMiss alone says it of the end only.  posByPN finds their positions,
\* and from the index probe on they are among the candidates, but for those at a
\* position the probe passed over.
Tracked(c) ==
  /\ pc[c] \in {"exists", "probe", "similar", "scan"} =>
       \A s \in available[c] : s.service \in at[c] \cup unresolved[c]
  /\ pc[c] = "visible" => \E s \in Catalog : pending[c] = {s} /\ Lasting(c) \subseteq {s}
  /\ pc[c] = "filter" => Lasting(c) \subseteq pending[c] \cup matches[c]
  /\ pc[c] \in {"reserve_indexed", "reserve"} => Lasting(c) \subseteq matches[c]
  /\ pc[c] \in {"similar", "missed"} => Lasting(c) = {}
  /\ pc[c] = "fallback" => available[c] = {}

ByData(c) ==
  pc[c] \in {"probe", "filter", "reserve_indexed", "similar", "scan", "fallback"}
    => query[c].id = NoId

NothingLost ==
  \A c \in Clients :
    /\ pc[c] # "idle" => available[c] \subseteq Eligible(query[c])
    /\ Tracked(c)
    /\ ByData(c)

\* What a step does to the history of a client.
LEMMA ObserveShrinks ==
  ASSUME Observe, NEW c \in Clients
  PROVE  /\ pc'[c] # "idle" => available'[c] \subseteq Eligible(query[c])'
         /\ pc[c] # "idle" => available'[c] \subseteq available[c]
         /\ pc[c] # "idle" /\ skipped'[c] = skipped[c] => Lasting(c)' \subseteq Lasting(c)
BY DEF Observe, Lasting

\* A stub that answers a query is at one of its service's positions.
LEMMA EligibleAt ==
  ASSUME NEW q, NEW s \in Eligible(q) PROVE s.service \in Names(q) /\ s.method = q.method
BY DEF Eligible, Answers, AtService

\* A client that a step leaves alone, but for its history.
LEMMA BystanderTracked ==
  ASSUME NothingLost, Observe, NEW c \in Clients,
         pc'[c] = pc[c], query'[c] = query[c],
         unresolved'[c] = unresolved[c], at'[c] = at[c], skipped'[c] = skipped[c],
         pending'[c] = pending[c], matches'[c] = matches[c]
  PROVE  /\ pc'[c] # "idle" => available'[c] \subseteq Eligible(query[c])'
         /\ Tracked(c)'
         /\ ByData(c)'
<1>1. CASE pc[c] = "idle"
  BY <1>1, ObserveShrinks DEF NothingLost, Tracked, ByData
<1>2. CASE pc[c] # "idle"
  <2>1. available'[c] \subseteq available[c] /\ Lasting(c)' \subseteq Lasting(c)
    BY <1>2, ObserveShrinks
  <2> QED BY <2>1, ObserveShrinks DEF NothingLost, Tracked, ByData
<1> QED BY <1>1, <1>2

\* A step of one client's search changes nothing of the others'.
LEMMA StepLeavesOthers ==
  ASSUME TypeOK, NEW c \in Clients, Step(c), NEW d \in Clients, d # c
  PROVE  /\ pc'[d] = pc[d] /\ query'[d] = query[d] /\ found'[d] = found[d]
         /\ unresolved'[d] = unresolved[d] /\ at'[d] = at[d]
         /\ skipped'[d] = skipped[d]
         /\ pending'[d] = pending[d] /\ matches'[d] = matches[d]
<1> DEFINE Left ==
      /\ pc'[d] = pc[d] /\ query'[d] = query[d] /\ found'[d] = found[d]
      /\ unresolved'[d] = unresolved[d] /\ at'[d] = at[d]
      /\ skipped'[d] = skipped[d]
      /\ pending'[d] = pending[d] /\ matches'[d] = matches[d]
<1>0. /\ pc \in [Clients -> Labels] /\ query \in [Clients -> Queries \cup {NoQuery}]
      /\ unresolved \in [Clients -> SUBSET Services] /\ at \in [Clients -> SUBSET Services]
      /\ skipped \in [Clients -> SUBSET Services]
      /\ pending \in [Clients -> SUBSET Catalog] /\ matches \in [Clients -> SUBSET Catalog]
      /\ found \in [Clients -> Catalog \cup {NoStub}]
  BY DEF TypeOK, ClientsTypeOK
<1> USE <1>0 DEF Goto, Proceed, Resolve, Finish
<1>1. CASE PosByN(c)          BY <1>1 DEF PosByN
<1>2. CASE EnsureExists(c)    BY <1>2 DEF EnsureExists
<1>3. CASE LookupID(c)        BY <1>3 DEF LookupID
<1>4. CASE CheckVisible(c)    BY <1>4 DEF CheckVisible
<1>5. CASE ProbeIndex(c)      BY <1>5 DEF ProbeIndex
<1>6. CASE FilterCandidate(c) BY <1>6 DEF FilterCandidate
<1>7. CASE FilterDone(c)      BY <1>7 DEF FilterDone
<1>8. CASE FindSimilar(c)     BY <1>8 DEF FindSimilar
<1>9. CASE Scan(c)            BY <1>9 DEF Scan
<1>10. CASE FallBack(c)       BY <1>10 DEF FallBack
<1>11. CASE TryReserve(c)     BY <1>11 DEF TryReserve
<1>12. CASE OutOfMatches(c)   BY <1>12 DEF OutOfMatches
<1>13. CASE Return(c)         BY <1>13 DEF Return
<1> QED
  BY <1>1, <1>2, <1>3, <1>4, <1>5, <1>6, <1>7, <1>8, <1>9, <1>10, <1>11, <1>12, <1>13
     DEF Step

\* No step of a search but the index probe, and no write next to it, loses a stub that
\* could have answered all along: the two look-ups of posByPN find its position, and the
\* probe loses what is at a position without an indexed stub, nothing else.
THEOREM NothingIsLost == Spec => []NothingLost
<1>1. Init => NothingLost
  BY DEF Init, NothingLost, Tracked, ByData
<1>2. TypeOK /\ NothingLost /\ [Next]_vars => NothingLost'
  <2> SUFFICES ASSUME TypeOK, NothingLost, [Next]_vars PROVE NothingLost'
    OBVIOUS
  <2>1. ASSUME NEW c \in Clients, Start(c) PROVE NothingLost'
    <3>1. Observe
      BY <2>1 DEF Start, KeepStore
    <3>2. ASSUME NEW d \in Clients, d # c
          PROVE  /\ pc'[d] = pc[d] /\ query'[d] = query[d]
                 /\ unresolved'[d] = unresolved[d] /\ at'[d] = at[d]
                 /\ skipped'[d] = skipped[d]
                 /\ pending'[d] = pending[d] /\ matches'[d] = matches[d]
      BY <2>1, <3>2 DEF Start, Resolve, Goto, TypeOK, ClientsTypeOK
    <3>3. PICK q \in Queries : /\ query' = [query EXCEPT ![c] = q]
                              /\ pc' = [pc EXCEPT ![c] = IF q.id # NoId THEN "exists" ELSE "probe"]
                              /\ unresolved' = [unresolved EXCEPT ![c] = Names(q)]
      BY <2>1 DEF Start, Resolve, Goto
    <3>4. Tracked(c)' /\ ByData(c)'
      <4>1. pc'[c] \in {"exists", "probe"} /\ query'[c] = q /\ unresolved'[c] = Names(q)
            /\ (pc'[c] = "probe" => q.id = NoId)
        BY <3>3 DEF TypeOK, ClientsTypeOK
      <4>2. \A s \in available'[c] : s.service \in unresolved'[c]
        <5>1. available'[c] \subseteq Eligible(query[c])'
          BY <3>1, <4>1, ObserveShrinks
        <5> QED BY <4>1, <5>1 DEF Eligible, Answers, AtService, Names
      <4> QED BY <4>1, <4>2 DEF Tracked, ByData
    <3> QED
      BY <3>1, <3>2, <3>4, ObserveShrinks, BystanderTracked DEF NothingLost
  <2>2. ASSUME NEW c \in Clients, Step(c) PROVE NothingLost'
    <3>1. Observe
      BY <2>2 DEF Step, PosByN, EnsureExists, LookupID, CheckVisible, ProbeIndex, FilterCandidate,
         FilterDone, FindSimilar, Scan, FallBack, OutOfMatches, Return, TryReserve, KeepStore
    <3>2. ASSUME NEW d \in Clients, d # c
          PROVE  /\ pc'[d] = pc[d] /\ query'[d] = query[d]
                 /\ unresolved'[d] = unresolved[d] /\ at'[d] = at[d]
                 /\ skipped'[d] = skipped[d]
                 /\ pending'[d] = pending[d] /\ matches'[d] = matches[d]
      BY <2>2, <3>2, StepLeavesOthers
    <3>3. pc[c] # "idle"
      BY <2>2 DEF Step, Resolved, PosByN, EnsureExists, LookupID, CheckVisible, ProbeIndex, FilterCandidate,
         FilterDone, FindSimilar, Scan, FallBack, OutOfMatches, Return, TryReserve
    <3>4. /\ available'[c] \subseteq available[c]
          /\ available[c] \subseteq Eligible(query[c])
          /\ skipped'[c] = skipped[c] => Lasting(c)' \subseteq Lasting(c)
          /\ Lasting(c) \subseteq available[c] /\ Lasting(c)' \subseteq available'[c]
          /\ Tracked(c) /\ ByData(c)
      BY <3>1, <3>3, ObserveShrinks DEF NothingLost, Lasting
    <3>t. /\ pc \in [Clients -> Labels] /\ query \in [Clients -> Queries \cup {NoQuery}]
          /\ unresolved \in [Clients -> SUBSET Services] /\ at \in [Clients -> SUBSET Services]
          /\ skipped \in [Clients -> SUBSET Services]
          /\ pending \in [Clients -> SUBSET Catalog] /\ matches \in [Clients -> SUBSET Catalog]
          /\ query[c] \in Queries
      BY <3>3 DEF TypeOK, ClientsTypeOK
    <3>n. \A s \in available[c] : /\ s \in Stored /\ s.service \in Names(query[c])
                                  /\ s.method = query[c].method
                                  /\ VisibleAndNotExhausted(s, query[c])
      BY <3>4 DEF Eligible, Answers, AtService
    <3>h. unresolved[c] = {} /\ pc[c] \in {"exists", "probe", "similar", "scan"} =>
            available[c] \subseteq Here(c)
      BY <3>4, <3>n DEF Tracked, Here
    <3> USE <3>4, <3>t DEF Tracked, ByData, Goto, Proceed, Finish
    <3>a. ASSUME PosByN(c) PROVE Tracked(c)' /\ ByData(c)'
      <4>1. PICK name \in unresolved[c] :
              /\ unresolved' = [unresolved EXCEPT ![c] = @ \ {name}]
              /\ at' = IF \E s \in Stored : s.service = name /\ s.method = query[c].method
                       THEN [at EXCEPT ![c] = @ \cup {name}] ELSE at
        BY <3>a DEF PosByN
      <4>2. UNCHANGED <<pc, query, pending, matches, skipped>>
        BY <3>a DEF PosByN
      <4>3. \A s \in available'[c] :
              s.service \in at[c] \cup unresolved[c] => s.service \in at'[c] \cup unresolved'[c]
        BY <3>n, <4>1
      <4>4. Lasting(c)' \subseteq Lasting(c)
        BY <4>2
      <4> QED
        BY <4>2, <4>3, <4>4
    <3>5. ASSUME EnsureExists(c) PROVE Tracked(c)' /\ ByData(c)'
      <4>1. at[c] = {} => available[c] = {}
        BY <3>5, <3>h DEF EnsureExists, Resolved, Here
      <4> QED BY <3>5, <4>1 DEF EnsureExists, Resolved
    <3>6. ASSUME LookupID(c) PROVE Tracked(c)' /\ ByData(c)'
      <4> DEFINE s == itemsByID[query[c].id]
      <4>1. available[c] \subseteq {s} \ {NoStub}
        <5>1. query[c].id # NoId
          BY <3>6 DEF LookupID, TypeOK, ClientsTypeOK
        <5>2. \A x \in Stored : x # NoStub /\ itemsByID[x.id] = x
          BY DEF Stored, TypeOK
        <5> QED
          BY <5>1, <5>2 DEF Answers, Eligible
      <4>2. query[c].id \in Ids
        BY <3>6, RecordTypes DEF LookupID, TypeOK, ClientsTypeOK
      <4>3. CASE s = NoStub
        BY <3>6, <4>1, <4>3 DEF LookupID
      <4>4. CASE s # NoStub
        <5>1. s \in Catalog
          BY <4>2, <4>4 DEF TypeOK
        <5> QED
          BY <3>6, <4>1, <4>4, <5>1 DEF LookupID
      <4> QED
        BY <4>3, <4>4
    <3>7. ASSUME CheckVisible(c) PROVE Tracked(c)' /\ ByData(c)'
      <4>1. PICK s \in Catalog : pending[c] = {s} /\ Lasting(c) \subseteq {s}
        BY <3>7 DEF CheckVisible
      <4>2. ~VisibleAndNotExhausted(s, query[c]) => Lasting(c) = {}
        BY <3>n, <4>1
      <4> QED
        BY <3>7, <4>1, <4>2 DEF CheckVisible
    <3>8. ASSUME ProbeIndex(c) PROVE Tracked(c)' /\ ByData(c)'
      <4>1. available[c] \subseteq Here(c) /\ pc[c] = "probe" /\ query' = query
            /\ matches' = matches
        BY <3>8, <3>h DEF ProbeIndex, Resolved
      <4>2. CASE Resolve(c, "scan", query[c])
        BY <3>n, <4>1, <4>2 DEF Resolve
      <4>3. CASE ~Resolve(c, "scan", query[c])
        <5>1. /\ pending' = [pending EXCEPT ![c] =
                   {s \in Here(c) : /\ s.service \in Usable(c)
                                    /\ Indexed(s) => \E k \in DOMAIN s.equals :
                                         /\ k \in DOMAIN query[c].data
                                         /\ query[c].data[k] = s.equals[k]}]
              /\ skipped' = [skipped EXCEPT ![c] = at[c] \ Usable(c)]
              /\ pc' = [pc EXCEPT ![c] = "filter"]
          BY <3>8, <4>3 DEF ProbeIndex
        <5>2. ASSUME NEW s \in Lasting(c)' PROVE s \in pending'[c]
          <6>1. s \in Here(c) /\ s \in Eligible(query[c]) /\ s.service \notin at[c] \ Usable(c)
            BY <4>1, <5>1 DEF Lasting
          <6>2. s.service \in Usable(c)
            BY <6>1 DEF Here
          <6>3. MatchesData(s, query[c].data)
            BY <4>1, <6>1 DEF Eligible, Answers
          <6>4. Indexed(s) => \E k \in DOMAIN s.equals :
                  k \in DOMAIN query[c].data /\ query[c].data[k] = s.equals[k]
            BY <6>3 DEF Indexed, MatchesData
          <6> QED BY <5>1, <6>1, <6>2, <6>4
        <5> QED BY <4>1, <5>1, <5>2
      <4> QED BY <4>2, <4>3
    <3>9. ASSUME FilterCandidate(c) PROVE Tracked(c)' /\ ByData(c)'
      <4>1. PICK s \in pending[c] :
              /\ pending' = [pending EXCEPT ![c] = @ \ {s}]
              /\ matches' = IF VisibleAndNotExhausted(s, query[c])
                               /\ MatchesData(s, query[c].data)
                            THEN [matches EXCEPT ![c] = @ \cup {s}] ELSE matches
        BY <3>9 DEF FilterCandidate
      <4>2. pc[c] = "filter" /\ UNCHANGED <<pc, query, skipped>>
        BY <3>9 DEF FilterCandidate
      <4>3. s \in Lasting(c) =>
              VisibleAndNotExhausted(s, query[c]) /\ MatchesData(s, query[c].data)
        BY <4>2 DEF Eligible, Answers
      <4>4. Lasting(c) \subseteq pending'[c] \cup matches'[c]
        BY <4>1, <4>2, <4>3
      <4> QED BY <4>2, <4>4
    <3>10. ASSUME FilterDone(c) PROVE Tracked(c)' /\ ByData(c)'
      BY <3>10 DEF FilterDone
    <3>11. ASSUME FindSimilar(c) PROVE Tracked(c)' /\ ByData(c)'
      <4>1. available[c] \subseteq Here(c) /\ pc[c] = "similar" /\ query' = query
        BY <3>11, <3>h DEF FindSimilar, Resolved
      <4>2. CASE Finish(c, "missed") /\ UNCHANGED skipped
        BY <4>1, <4>2
      <4>3. CASE Resolve(c, "scan", query[c])
        BY <3>n, <4>1, <4>3 DEF Resolve
      <4> QED BY <3>11, <4>2, <4>3 DEF FindSimilar
    <3>12. ASSUME Scan(c) PROVE Tracked(c)' /\ ByData(c)'
      <4>1. available[c] \subseteq Here(c) /\ pc[c] = "scan" /\ query' = query
            /\ skipped' = skipped /\ query[c].id = NoId
        BY <3>12, <3>h DEF Scan, Resolved
      <4>2. CASE at[c] # {}
        <5>1. /\ pc' = [pc EXCEPT ![c] = "reserve"]
              /\ matches' = [matches EXCEPT ![c] =
                   {s \in Here(c) : VisibleAndNotExhausted(s, query[c])
                                    /\ MatchesData(s, query[c].data)}]
          BY <3>12, <4>2 DEF Scan
        <5>2. available[c] \subseteq matches'[c]
          BY <4>1, <5>1 DEF Eligible, Answers
        <5> QED BY <4>1, <5>1, <5>2
      <4>3. CASE at[c] = {}
        <5>1. available[c] = {}
          BY <4>1, <4>3 DEF Here
        <5> QED BY <3>12, <4>1, <4>3, <5>1 DEF Scan
      <4> QED BY <4>2, <4>3
    <3>13. ASSUME FallBack(c) PROVE Tracked(c)' /\ ByData(c)'
      BY <3>13 DEF FallBack
    <3>14. ASSUME TryReserve(c) PROVE Tracked(c)' /\ ByData(c)'
      <4>1. PICK s \in Best(matches[c]) :
              \/ /\ Finish(c, "found")
              \/ /\ ~(query[c].internal \/ NotExhausted(s, query[c].session))
                 /\ matches' = [matches EXCEPT ![c] = @ \ {s}]
                 /\ UNCHANGED <<found, pc, unresolved, at, pending>>
        BY <3>14 DEF TryReserve
      <4>2. pc[c] \in {"reserve_indexed", "reserve"} /\ UNCHANGED <<query, skipped>>
        BY <3>14 DEF TryReserve
      <4>3. ~NotExhausted(s, query[c].session) => s \notin Lasting(c)
        BY <3>n DEF VisibleAndNotExhausted
      <4> QED BY <4>1, <4>2, <4>3
    <3>15. ASSUME OutOfMatches(c) PROVE Tracked(c)' /\ ByData(c)'
      BY <3>n, <3>15 DEF OutOfMatches, Resolve
    <3>16. ASSUME Return(c) PROVE Tracked(c)' /\ ByData(c)'
      BY <3>16 DEF Return
    <3>17. Tracked(c)' /\ ByData(c)'
      BY <2>2, <3>a, <3>5, <3>6, <3>7, <3>8, <3>9, <3>10, <3>11, <3>12, <3>13, <3>14, <3>15,
         <3>16 DEF Step
    <3> QED
      BY <3>1, <3>2, <3>17, ObserveShrinks, BystanderTracked DEF NothingLost
  <2>3. CASE Write
    BY <2>3, BystanderTracked DEF Write, clientVars, NothingLost
  <2>4. CASE UNCHANGED vars
    <3>1. \A c \in Clients : Eligible(query[c])' = Eligible(query[c])
      BY <2>4 DEF vars, clientVars, Eligible, Stored, Answers, AtService, MatchesData,
         VisibleAndNotExhausted, VisibleTo, NotExhausted
    <3> QED
      BY <2>4, <3>1 DEF vars, clientVars, NothingLost, Tracked, ByData, Lasting
  <2> QED
    BY <2>1, <2>2, <2>3, <2>4 DEF Next, Upsert, Del, DelBySession, Clear
<1> QED
  BY <1>1, <1>2, TypeCorrect, PTL DEF Spec

\* A search misses only when no stub stayed eligible during the whole call, but for
\* stubs at a position that the index passed over because it holds no indexed one
\* (storage_equals_index.go:195): these are lost, as the run SearchIndex shows.
THEOREM MissesAreGenuine == Spec => []NoFalseMiss
<1>1. NothingLost => NoFalseMiss
  BY DEF NothingLost, Tracked, NoFalseMiss
<1> QED
  BY <1>1, NothingIsLost, PTL

----------------------------------------------------------------------------
(* The ranking.                                                            *)

\* The order in which matches are tried is strict.
LEMMA OutranksAsymmetric ==
  ASSUME NEW a \in Catalog, NEW b \in Catalog, Outranks(a, b)
  PROVE  ~Outranks(b, a)
<1>1. /\ a.priority \in Nat /\ b.priority \in Nat /\ a.id \in Nat /\ b.id \in Nat
      /\ a.equals \in Inputs /\ b.equals \in Inputs
  BY SearchAssumption
<1>2. Cardinality(DOMAIN a.equals) \in Nat /\ Cardinality(DOMAIN b.equals) \in Nat
  BY <1>1, FiniteInputs, FS_CardinalityType
<1> QED
  BY <1>1, <1>2 DEF Outranks

\* The matches of a search by data are of its service and method, unless no
\* stub could have answered all along, as when it falls back on other services.
MatchesAtService(c) ==
  /\ pc[c] # "idle" => at[c] \cup unresolved[c] \subseteq Names(query[c])
  /\ pc[c] \in {"idle", "probe", "found", "missed"} => matches[c] = {}
  /\ pc[c] = "filter" => \A s \in pending[c] \cup matches[c] : AtService(s, query[c])
  /\ pc[c] \in {"reserve_indexed", "reserve"} /\ query[c].id = NoId =>
       available[c] = {} \/ \A s \in matches[c] : AtService(s, query[c])

BestOf(c) ==
  pc[c] = "found" /\ query[c].id = NoId =>
    \A s \in Lasting(c) : AtService(found[c], query[c]) /\ ~Outranks(s, found[c])

RankInv == \A c \in Clients : MatchesAtService(c) /\ BestOf(c)

\* A client that a step leaves alone, but for its history.
LEMMA BystanderRanked ==
  ASSUME RankInv, Observe, NEW c \in Clients,
         pc'[c] = pc[c], query'[c] = query[c], found'[c] = found[c],
         unresolved'[c] = unresolved[c], at'[c] = at[c],
         skipped'[c] = skipped[c], pending'[c] = pending[c], matches'[c] = matches[c]
  PROVE  MatchesAtService(c)' /\ BestOf(c)'
<1>1. MatchesAtService(c) /\ BestOf(c)
  BY DEF RankInv
<1>2. pc[c] # "idle" => available'[c] \subseteq available[c] /\ Lasting(c)' \subseteq Lasting(c)
  BY ObserveShrinks
<1>3. MatchesAtService(c)'
  BY <1>1, <1>2 DEF MatchesAtService, AtService, Names
<1>4. BestOf(c)'
  BY <1>1, <1>2 DEF BestOf, AtService, Outranks
<1> QED
  BY <1>3, <1>4

\* However reservations of other searches, updates and deletes come between,
\* the stub a search answers with is of the query's service and is outranked by
\* none that could have answered during the whole call, when there is one, but for those
\* at a position without indexed stubs that the index probe passed over.
THEOREM BestIsServed == Spec => []BestAvailable
<1>1. Init => RankInv
  BY DEF Init, RankInv, MatchesAtService, BestOf
<1>2. TypeOK /\ NothingLost /\ RankInv /\ [Next]_vars => RankInv'
  <2> SUFFICES ASSUME TypeOK, NothingLost, RankInv, [Next]_vars PROVE RankInv'
    OBVIOUS
  <2>1. ASSUME NEW c \in Clients, Start(c) PROVE RankInv'
    <3>1. Observe
      BY <2>1 DEF Start, KeepStore
    <3>2. ASSUME NEW d \in Clients, d # c
          PROVE  /\ pc'[d] = pc[d] /\ query'[d] = query[d] /\ found'[d] = found[d]
                 /\ unresolved'[d] = unresolved[d] /\ at'[d] = at[d]
                 /\ skipped'[d] = skipped[d]
                 /\ pending'[d] = pending[d] /\ matches'[d] = matches[d]
      BY <2>1, <3>2 DEF Start, Resolve, Goto, TypeOK, ClientsTypeOK
    <3>3. PICK q \in Queries : /\ query' = [query EXCEPT ![c] = q]
                              /\ pc' = [pc EXCEPT ![c] = IF q.id # NoId THEN "exists" ELSE "probe"]
                              /\ unresolved' = [unresolved EXCEPT ![c] = Names(q)]
                              /\ at' = [at EXCEPT ![c] = {}]
      BY <2>1 DEF Start, Resolve, Goto
    <3>4. MatchesAtService(c)' /\ BestOf(c)'
      <4>1. /\ pc'[c] \in {"exists", "probe"} /\ query'[c] = q
            /\ unresolved'[c] = Names(q) /\ at'[c] = {}
        BY <3>3 DEF TypeOK, ClientsTypeOK
      <4>2. matches'[c] = {}
        BY <2>1 DEF Start, RankInv, MatchesAtService
      <4> QED
        BY <4>1, <4>2 DEF MatchesAtService, BestOf
    <3> QED
      BY <3>1, <3>2, <3>4, BystanderRanked DEF RankInv
  <2>2. ASSUME NEW c \in Clients, Step(c) PROVE RankInv'
    <3>1. Observe
      BY <2>2 DEF Step, PosByN, EnsureExists, LookupID, CheckVisible, ProbeIndex, FilterCandidate,
         FilterDone, FindSimilar, Scan, FallBack, OutOfMatches, Return, TryReserve, KeepStore
    <3>2. ASSUME NEW d \in Clients, d # c
          PROVE  /\ pc'[d] = pc[d] /\ query'[d] = query[d] /\ found'[d] = found[d]
                 /\ unresolved'[d] = unresolved[d] /\ at'[d] = at[d]
                 /\ skipped'[d] = skipped[d]
                 /\ pending'[d] = pending[d] /\ matches'[d] = matches[d]
      BY <2>2, <3>2, StepLeavesOthers
    <3>3. pc[c] # "idle"
      BY <2>2 DEF Step, Resolved, PosByN, EnsureExists, LookupID, CheckVisible, ProbeIndex, FilterCandidate,
         FilterDone, FindSimilar, Scan, FallBack, OutOfMatches, Return, TryReserve
    <3>4. /\ available'[c] \subseteq available[c]
          /\ skipped'[c] = skipped[c] => Lasting(c)' \subseteq Lasting(c)
          /\ Tracked(c) /\ ByData(c) /\ MatchesAtService(c)
      BY <3>1, <3>3, ObserveShrinks DEF NothingLost, RankInv
    <3>t. /\ pc \in [Clients -> Labels] /\ query \in [Clients -> Queries \cup {NoQuery}]
          /\ unresolved \in [Clients -> SUBSET Services] /\ at \in [Clients -> SUBSET Services]
          /\ skipped \in [Clients -> SUBSET Services]
          /\ pending \in [Clients -> SUBSET Catalog] /\ matches \in [Clients -> SUBSET Catalog]
          /\ found \in [Clients -> Catalog \cup {NoStub}] /\ query[c] \in Queries
      BY <3>3 DEF TypeOK, ClientsTypeOK
    <3>h. /\ at[c] \cup unresolved[c] \subseteq Names(query[c])
          /\ \A s \in Here(c) : AtService(s, query[c])
      BY <3>3, <3>4 DEF MatchesAtService, Here, AtService
    <3> USE <3>4, <3>t DEF MatchesAtService, Goto, Proceed, Resolve, Resolved, Finish
    <3>a. ASSUME PosByN(c) PROVE MatchesAtService(c)' /\ BestOf(c)'
      BY <3>a DEF PosByN, BestOf
    <3>5. ASSUME EnsureExists(c) PROVE MatchesAtService(c)' /\ BestOf(c)'
      BY <3>5 DEF EnsureExists, BestOf
    <3>6. ASSUME LookupID(c) PROVE MatchesAtService(c)' /\ BestOf(c)'
      BY <3>6 DEF LookupID, BestOf
    <3>7. ASSUME CheckVisible(c) PROVE MatchesAtService(c)' /\ BestOf(c)'
      <4>1. pc[c] = "visible" /\ query' = query /\ skipped' = skipped
        BY <3>7 DEF CheckVisible
      <4>2. PICK s \in pending[c] :
              IF VisibleAndNotExhausted(s, query[c])
              THEN /\ matches' = [matches EXCEPT ![c] = {s}]
                   /\ pending' = [pending EXCEPT ![c] = {}]
                   /\ Proceed(c, "reserve")
              ELSE Finish(c, "missed")
        BY <3>7 DEF CheckVisible
      <4>3. query[c].id # NoId
        BY <4>1 DEF TypeOK, ClientsTypeOK
      <4>4. CASE Finish(c, "missed")
        BY <3>h, <4>1, <4>4 DEF BestOf
      <4>5. CASE Proceed(c, "reserve")
        BY <3>h, <4>1, <4>3, <4>5 DEF BestOf
      <4> QED
        BY <4>2, <4>4, <4>5
    <3>8. ASSUME ProbeIndex(c) PROVE MatchesAtService(c)' /\ BestOf(c)'
      <4>1. pc[c] = "probe" /\ query' = query /\ matches' = matches
        BY <3>8 DEF ProbeIndex
      <4>2. CASE Resolve(c, "scan", query[c])
        BY <3>h, <4>1, <4>2 DEF BestOf
      <4>3. CASE ~Resolve(c, "scan", query[c])
        <5>1. PICK P \in SUBSET Here(c) :
                pending' = [pending EXCEPT ![c] = P] /\ Proceed(c, "filter")
          BY <3>8, <4>3 DEF ProbeIndex
        <5>2. pending'[c] \subseteq Here(c) /\ matches'[c] = {} /\ pc'[c] = "filter"
          BY <4>1, <5>1
        <5>3. \A s \in pending'[c] \cup matches'[c] : AtService(s, query'[c])
          BY <3>h, <4>1, <5>2
        <5> QED
          BY <3>h, <4>1, <5>1, <5>2, <5>3 DEF BestOf, AtService, Names
      <4> QED
        BY <4>2, <4>3
    <3>9. ASSUME FilterCandidate(c) PROVE MatchesAtService(c)' /\ BestOf(c)'
      BY <3>9 DEF FilterCandidate, BestOf
    <3>10. ASSUME FilterDone(c) PROVE MatchesAtService(c)' /\ BestOf(c)'
      BY <3>10 DEF FilterDone, BestOf
    <3>11. ASSUME FindSimilar(c) PROVE MatchesAtService(c)' /\ BestOf(c)'
      BY <3>11 DEF FindSimilar, BestOf
    <3>12. ASSUME Scan(c) PROVE MatchesAtService(c)' /\ BestOf(c)'
      <4>1. /\ pc[c] = "scan" /\ query' = query
            /\ \/ \E M \in SUBSET Here(c) :
                    matches' = [matches EXCEPT ![c] = M] /\ Proceed(c, "reserve")
               \/ Finish(c, "missed") \/ Proceed(c, "fallback")
        BY <3>12 DEF Scan
      <4>2. CASE Finish(c, "missed") \/ Proceed(c, "fallback")
        BY <3>h, <4>1, <4>2, <3>12 DEF Scan, BestOf
      <4>3. ASSUME NEW M \in SUBSET Here(c),
                   matches' = [matches EXCEPT ![c] = M], Proceed(c, "reserve")
            PROVE  MatchesAtService(c)' /\ BestOf(c)'
        <5>1. matches'[c] = M /\ pc'[c] = "reserve" /\ at'[c] = {} /\ unresolved' = unresolved
          BY <4>3
        <5>2. \A s \in matches'[c] : AtService(s, query'[c])
          BY <3>h, <4>1, <5>1
        <5> QED
          BY <3>h, <4>1, <5>1, <5>2 DEF BestOf, AtService, Names
      <4> QED
        BY <4>1, <4>2, <4>3
    <3>13. ASSUME FallBack(c) PROVE MatchesAtService(c)' /\ BestOf(c)'
      BY <3>13 DEF FallBack, BestOf, Tracked
    <3>14. ASSUME TryReserve(c) PROVE MatchesAtService(c)' /\ BestOf(c)'
      <4>1. PICK s \in Best(matches[c]) :
              \/ found' = [found EXCEPT ![c] = s] /\ Finish(c, "found")
              \/ matches' = [matches EXCEPT ![c] = @ \ {s}] /\ UNCHANGED <<found, pc, unresolved, at, pending>>
        BY <3>14 DEF TryReserve
      <4>2. /\ query' = query /\ pc[c] \in {"reserve_indexed", "reserve"}
            /\ skipped' = skipped /\ Lasting(c) \subseteq matches[c]
        BY <3>14 DEF TryReserve, Tracked
      <4>3. MatchesAtService(c)'
        BY <4>1, <4>2
      <4>4. ASSUME NEW a \in Lasting(c), query[c].id = NoId
            PROVE  AtService(s, query[c]) /\ ~Outranks(a, s)
        <5>1. a \in matches[c] /\ s \in matches[c] /\ a \in Catalog /\ s \in Catalog
          BY <4>2, <4>4 DEF Best
        <5>2. AtService(s, query[c])
          BY <4>2, <4>4, <5>1 DEF Lasting
        <5>3. a = s \/ Outranks(s, a)
          BY <5>1 DEF Best
        <5> QED
          BY <5>1, <5>2, <5>3, OutranksAsymmetric
      <4>5. CASE found' = [found EXCEPT ![c] = s] /\ Finish(c, "found")
        <5>1. found'[c] = s
          BY <4>5
        <5>2. ASSUME NEW a \in Lasting(c)', query[c].id = NoId
              PROVE  AtService(s, query[c]) /\ ~Outranks(a, s)
          BY <4>2, <4>4, <5>2
        <5> QED
          BY <4>2, <4>3, <5>1, <5>2 DEF BestOf, Outranks
      <4>6. CASE pc' = pc
        BY <4>2, <4>3, <4>6 DEF BestOf
      <4> QED
        BY <4>1, <4>5, <4>6
    <3>15. ASSUME OutOfMatches(c) PROVE MatchesAtService(c)' /\ BestOf(c)'
      BY <3>15 DEF OutOfMatches, BestOf
    <3>16. ASSUME Return(c) PROVE MatchesAtService(c)' /\ BestOf(c)'
      BY <3>16 DEF Return, BestOf
    <3>17. MatchesAtService(c)' /\ BestOf(c)'
      BY <2>2, <3>5, <3>6, <3>7, <3>8, <3>9, <3>10, <3>11, <3>12, <3>13, <3>14, <3>15,
         <3>16, <3>a DEF Step
    <3> QED
      BY <3>1, <3>2, <3>17, BystanderRanked DEF RankInv
  <2>3. CASE Write
    BY <2>3, BystanderRanked DEF Write, clientVars, RankInv
  <2>4. CASE UNCHANGED vars
    BY <2>4 DEF vars, clientVars, RankInv, MatchesAtService, BestOf, AtService, Outranks,
       Names, Lasting
  <2> QED
    BY <2>1, <2>2, <2>3, <2>4 DEF Next, Upsert, Del, DelBySession, Clear
<1>3. RankInv => BestAvailable
  BY DEF RankInv, BestOf, BestAvailable
<1> QED
  BY <1>1, <1>2, <1>3, TypeCorrect, NothingIsLost, PTL DEF Spec

----------------------------------------------------------------------------
(* The times limit.                                                        *)

\* Under any number of concurrent searches, updates, deletes and clears, a
\* stub limited to n matches answers a session at most n times between two
\* resets of its counter, each answer with a number of its own.
THEOREM TimesLimitHolds == Spec => []TimesRespected
<1>1. Init => TimesRespected
  BY DEF Init, TimesRespected
<1>2. TypeOK /\ TimesRespected /\ [Next]_vars => TimesRespected'
  <2> SUFFICES ASSUME TypeOK, TimesRespected, [Next]_vars PROVE TimesRespected'
    OBVIOUS
  <2>1. ASSUME UNCHANGED <<stubCallCount, served>> PROVE TimesRespected'
    BY <2>1 DEF TimesRespected
  <2>2. ASSUME NEW c \in Clients, TryReserve(c) PROVE TimesRespected'
    <3>1. CASE UNCHANGED <<stubCallCount, served>>
      BY <2>1, <3>1
    <3>2. CASE ~ UNCHANGED <<stubCallCount, served>>
      <4>1. PICK s \in matches[c] :
              /\ NotExhausted(s, query[c].session)
              /\ stubCallCount' = [stubCallCount EXCEPT ![<<s.id, query[c].session>>] = @ + 1]
              /\ served' = served \cup
                   {[stub |-> s, session |-> query[c].session,
                     number |-> stubCallCount[<<s.id, query[c].session>>] + 1]}
        BY <2>2, <3>2 DEF TryReserve, Best
      <4> DEFINE key == <<s.id, query[c].session>>
                 new == [stub |-> s, session |-> query[c].session,
                         number |-> stubCallCount[key] + 1]
      <4>2. s \in Catalog /\ query[c] \in Queries
        BY <2>2 DEF TryReserve, TypeOK, ClientsTypeOK
      <4>3. /\ key \in Ids \X SessionNames /\ stubCallCount[key] \in Nat
            /\ s.times \in Nat
        BY <4>2, RecordTypes DEF TypeOK
      <4>4. /\ stubCallCount'[key] = stubCallCount[key] + 1
            /\ \A k \in Ids \X SessionNames : k # key => stubCallCount'[k] = stubCallCount[k]
        BY <4>1, <4>3 DEF TypeOK
      <4>5. s.times # 0 => stubCallCount[key] + 1 <= s.times
        BY <4>1, <4>3 DEF NotExhausted
      <4>6. \A r \in served : /\ r.stub.id \in Ids /\ r.session \in SessionNames
                              /\ r.number \in Nat \ {0} /\ r.stub.times \in Nat
        BY RecordTypes DEF TypeOK
      <4>7. \A r \in served' :
              /\ r.number <= stubCallCount'[<<r.stub.id, r.session>>]
              /\ r.stub.times # 0 => r.number <= r.stub.times
        <5>1. ASSUME NEW r \in served
              PROVE  /\ r.number <= stubCallCount'[<<r.stub.id, r.session>>]
                     /\ r.stub.times # 0 => r.number <= r.stub.times
          <6>1. /\ <<r.stub.id, r.session>> \in Ids \X SessionNames
                /\ stubCallCount[<<r.stub.id, r.session>>] \in Nat
            BY <4>6 DEF TypeOK
          <6>2. stubCallCount[<<r.stub.id, r.session>>] <= stubCallCount'[<<r.stub.id, r.session>>]
            BY <4>3, <4>4, <6>1
          <6>3. /\ r.number <= stubCallCount[<<r.stub.id, r.session>>]
                /\ r.stub.times # 0 => r.number <= r.stub.times
            BY DEF TimesRespected
          <6>4. stubCallCount'[<<r.stub.id, r.session>>] \in Nat
            BY <4>3, <4>4, <6>1
          <6> QED
            BY <4>6, <6>1, <6>2, <6>3, <6>4
        <5>2. /\ new.number <= stubCallCount'[<<new.stub.id, new.session>>]
              /\ new.stub.times # 0 => new.number <= new.stub.times
          BY <4>3, <4>4, <4>5
        <5> QED
          BY <4>1, <5>1, <5>2
      <4>8. \A r1, r2 \in served' :
              r1.stub.id = r2.stub.id /\ r1.session = r2.session /\ r1.number = r2.number
                => r1 = r2
        <5>1. ASSUME NEW r \in served, r.stub.id = s.id, r.session = query[c].session
              PROVE  r.number # new.number
          <6>1. r.number <= stubCallCount[key]
            BY <5>1 DEF TimesRespected
          <6> QED
            BY <4>3, <4>6, <6>1
        <5> QED
          BY <4>1, <5>1 DEF TimesRespected
      <4>9. \A id \in Ids, session \in SessionNames :
              \A n \in 1..stubCallCount'[<<id, session>>] :
                \E r \in served' : r.stub.id = id /\ r.session = session /\ r.number = n
        <5> TAKE id \in Ids, session \in SessionNames
        <5>1. CASE <<id, session>> = key
          <6> TAKE n \in 1..stubCallCount'[<<id, session>>]
          <6>1. n \in 1..stubCallCount[key] \/ n = stubCallCount[key] + 1
            BY <4>3, <4>4, <5>1
          <6>2. CASE n \in 1..stubCallCount[key]
            BY <4>1, <5>1, <6>2 DEF TimesRespected
          <6>3. CASE n = stubCallCount[key] + 1
            <7>1. new \in served' /\ new.number = n
              BY <4>1, <6>3
            <7>2. new.stub.id = id /\ new.session = session
              BY <5>1
            <7> QED
              BY <7>1, <7>2
          <6> QED
            BY <6>1, <6>2, <6>3
        <5>2. CASE <<id, session>> # key
          <6>1. stubCallCount'[<<id, session>>] = stubCallCount[<<id, session>>]
            BY <4>4, <5>2
          <6> QED
            BY <4>1, <6>1 DEF TimesRespected
        <5> QED
          BY <5>1, <5>2
      <4> QED
        BY <4>7, <4>8, <4>9 DEF TimesRespected
    <3> QED
      BY <3>1, <3>2
  <2>3. ASSUME NEW keys, WipeCounts(keys) PROVE TimesRespected'
    <3>1. /\ \A k \in Ids \X SessionNames :
               stubCallCount'[k] = IF k \in keys THEN 0 ELSE stubCallCount[k]
          /\ served' = {r \in served : <<r.stub.id, r.session>> \notin keys}
      BY <2>3 DEF WipeCounts
    <3>2. \A r \in served' : <<r.stub.id, r.session>> \in Ids \X SessionNames
      BY <3>1, RecordTypes DEF TypeOK
    <3>3. \A r \in served' : stubCallCount'[<<r.stub.id, r.session>>]
                               = stubCallCount[<<r.stub.id, r.session>>]
      BY <3>1, <3>2
    <3>4. \A id \in Ids, session \in SessionNames :
            \A n \in 1..stubCallCount'[<<id, session>>] :
              \E r \in served' : r.stub.id = id /\ r.session = session /\ r.number = n
      <4> TAKE id \in Ids, session \in SessionNames
      <4>1. CASE <<id, session>> \in keys
        BY <3>1, <4>1
      <4>2. CASE <<id, session>> \notin keys
        <5> TAKE n \in 1..stubCallCount'[<<id, session>>]
        <5>1. stubCallCount'[<<id, session>>] = stubCallCount[<<id, session>>]
          BY <3>1, <4>2
        <5>2. PICK r \in served : r.stub.id = id /\ r.session = session /\ r.number = n
          BY <5>1 DEF TimesRespected
        <5>3. r \in served'
          BY <3>1, <4>2, <5>2
        <5> QED
          BY <5>2, <5>3
      <4> QED
        BY <4>1, <4>2
    <3> QED
      BY <3>1, <3>3, <3>4 DEF TimesRespected
  <2>4. ASSUME NEW c \in Clients, Start(c) \/ (Step(c) /\ ~TryReserve(c))
        PROVE  UNCHANGED <<stubCallCount, served>>
    BY <2>4 DEF Start, Step, PosByN, EnsureExists, LookupID, CheckVisible, ProbeIndex, FilterCandidate,
       FilterDone, FindSimilar, Scan, FallBack, OutOfMatches, Return, KeepStore
  <2> QED
    BY <2>1, <2>2, <2>3, <2>4 DEF Next, Upsert, Del, DelBySession, Clear, vars
<1> QED
  BY <1>1, <1>2, TypeCorrect, PTL DEF Spec

----------------------------------------------------------------------------
(* Sessions.                                                               *)

\* The matches of a search are visible to its session, and it has none when it
\* begins and when it ends.
MatchesVisible ==
  \A c \in Clients :
    /\ \A s \in matches[c] : VisibleTo(s, query[c].session)
    /\ pc[c] \in {"idle", "found", "missed"} => matches[c] = {}

\* No search answers with a stub of another session.
THEOREM SessionsStaySeparate == Spec => []SessionsSeparate
<1> DEFINE IInv == MatchesVisible /\ SessionsSeparate
<1>1. Init => IInv
  BY DEF Init, MatchesVisible, SessionsSeparate
<1>2. TypeOK /\ IInv /\ [Next]_vars => IInv'
  <2> SUFFICES ASSUME TypeOK, IInv, [Next]_vars PROVE IInv'
    OBVIOUS
  <2> USE DEF MatchesVisible, SessionsSeparate
  <2>1. ASSUME NEW c \in Clients, Start(c) PROVE IInv'
    BY <2>1 DEF Start, Goto, Resolve, TypeOK, ClientsTypeOK
  <2>2. ASSUME NEW c \in Clients, Step(c) PROVE IInv'
    <3> USE DEF Goto, Proceed, Resolve, Resolved, Finish, TypeOK, ClientsTypeOK
    <3>0. CASE PosByN(c)         BY <3>0 DEF PosByN
    <3>1. CASE EnsureExists(c)  BY <3>1 DEF EnsureExists
    <3>2. CASE LookupID(c)      BY <3>2 DEF LookupID
    <3>3. CASE CheckVisible(c)
      BY <3>3 DEF CheckVisible, VisibleAndNotExhausted
    <3>4. CASE ProbeIndex(c)    BY <3>4 DEF ProbeIndex
    <3>5. CASE FilterCandidate(c)
      BY <3>5 DEF FilterCandidate, VisibleAndNotExhausted
    <3>6. CASE FilterDone(c)    BY <3>6 DEF FilterDone
    <3>7. CASE FindSimilar(c)   BY <3>7 DEF FindSimilar
    <3>8. CASE Scan(c)          BY <3>8 DEF Scan, Here, VisibleAndNotExhausted
    <3>9. CASE FallBack(c)      BY <3>9 DEF FallBack, VisibleAndNotExhausted
    <3>10. CASE TryReserve(c)
      <4>1. query' = query /\ pc[c] \in {"reserve_indexed", "reserve"}
        BY <3>10 DEF TryReserve
      <4>2. PICK s \in matches[c] :
              \/ found' = [found EXCEPT ![c] = s] /\ Finish(c, "found")
              \/ matches' = [matches EXCEPT ![c] = @ \ {s}] /\ UNCHANGED <<found, pc>>
        BY <3>10 DEF TryReserve, Best
      <4>3. CASE found' = [found EXCEPT ![c] = s] /\ Finish(c, "found")
        BY <4>1, <4>2, <4>3 DEF VisibleTo
      <4>4. CASE matches' = [matches EXCEPT ![c] = @ \ {s}] /\ UNCHANGED <<found, pc>>
        BY <4>1, <4>2, <4>4 DEF VisibleTo
      <4> QED
        BY <4>2, <4>3, <4>4
    <3>11. CASE OutOfMatches(c) BY <3>11 DEF OutOfMatches
    <3>12. CASE Return(c)       BY <3>12 DEF Return
    <3> QED
      BY <2>2, <3>0, <3>1, <3>2, <3>3, <3>4, <3>5, <3>6, <3>7, <3>8, <3>9, <3>10, <3>11, <3>12
         DEF Step
  <2>3. CASE UNCHANGED clientVars
    BY <2>3 DEF clientVars
  <2> QED
    BY <2>1, <2>2, <2>3 DEF Next, Upsert, Del, DelBySession, Clear, Write, vars
<1> QED
  BY <1>1, <1>2, TypeCorrect, PTL DEF Spec
=============================================================================
