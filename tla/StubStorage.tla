---------------------------- MODULE StubStorage ----------------------------
(***************************************************************************)
(* The stub storage (internal/infra/stuber): the Go struct `storage`,      *)
(* which keeps every stub in five redundant structures, and                *)
(* `storageWithInternal`, which pairs the external store with the internal *)
(* one that holds GripMock's own health stubs.                             *)
(*                                                                         *)
(* Every operation here runs under the write lock of storage.mu from its   *)
(* first read to its last write, so each one is a single action; reads run *)
(* under the read lock and are operators on a store.  A store is a record  *)
(* with one field per field of the Go struct.  A Go map is a function      *)
(* whose domain is the set of keys present: several code paths distinguish *)
(* an absent bucket from an empty one.  The 32-bit hashes of service and   *)
(* method names are abstracted to the names themselves.                    *)
(***************************************************************************)
EXTENDS Inputs

CONSTANTS
  Services,       \* service names, with and without a package prefix
  Methods,        \* method names
  Truncated,      \* Truncated[s]: s without its package prefix (s if none)
  Global,         \* the empty session, Go's ""
  Sessions,       \* session names, Global excluded
  Catalog,        \* the stub values callers of PutMany and UpdateMany pass
  InternalStubs,  \* the health stubs (Check and Watch, one per status)
  InitialInternal,\* the sequence of those put at start-up
  NilId,          \* uuid.Nil: a stub whose ID is still to be assigned
  FreshIds,       \* IDs uuid.New may return
  MaxBatch        \* bound: stubs per PutMany or UpdateMany call

ASSUME StorageAssumption ==
  /\ Global \notin Sessions
  /\ Truncated \in [Services -> Services]
  /\ MaxBatch \in Nat \ {0}
  /\ FreshIds \subseteq Nat /\ NilId \notin FreshIds
  /\ IsFiniteSet(FreshIds) /\ IsFiniteSet({s.id : s \in Catalog \cup InternalStubs})
  /\ \A s \in Catalog \cup InternalStubs :
       /\ s = [id |-> s.id, service |-> s.service, method |-> s.method,
               session |-> s.session, priority |-> s.priority,
               input |-> s.input, inputs |-> s.inputs]
       /\ s.service \in Services /\ s.method \in Methods
       /\ s.session \in Sessions \cup {Global}
       /\ s.id \in Nat /\ s.priority \in Int
  /\ InitialInternal \in Seq(InternalStubs)

VARIABLES
  external,  \* the stubs users see
  internal   \* the reserved health stubs

vars == <<external, internal>>

----------------------------------------------------------------------------
(* Stubs.                                                                  *)

Precedes(a, b) ==
  \/ a.priority > b.priority
  \/ a.priority = b.priority /\ a.id < b.id

VisibleTo(stub, session) == stub.session \in {Global, session}

----------------------------------------------------------------------------
(* Two-level maps of slices: position -> bucket -> sequence of stubs.      *)

With(f, k, v) == [x \in DOMAIN f \cup {k} |-> IF x = k THEN v ELSE f[x]]

Without(f, k) == Restrict(f, DOMAIN f \ {k})

Bucket(map, pos, b) ==
  IF pos \in DOMAIN map /\ b \in DOMAIN map[pos] THEN map[pos][b] ELSE <<>>

WithBucket(map, pos, b, stubs) ==
  LET old == IF pos \in DOMAIN map THEN map[pos] ELSE <<>>
  IN  With(map, pos, With(old, b, stubs))

AppendTo(map, pos, b, stub) ==
  WithBucket(map, pos, b, Append(Bucket(map, pos, b), stub))

\* Fault: the rest of the bucket goes with the stub (s[:i] for slices.Delete).
RemoveFromTruncating(map, pos, b, id) ==
  LET left == SelectInSeq(Bucket(map, pos, b), LAMBDA s : s.id = id) - 1
  IN  IF left < 0 THEN map
      ELSE WithBucket(map, pos, b, SubSeq(Bucket(map, pos, b), 1, left))

RemoveSortedStubByID(stubs, id) == RemoveFirstMatch(stubs, LAMBDA s : s.id = id)

\* Drops the stub from its bucket, an emptied bucket from its position and an
\* emptied position from the map.
RemoveFrom(map, pos, b, id) ==
  IF pos \notin DOMAIN map THEN map
  ELSE LET left == RemoveSortedStubByID(Bucket(map, pos, b), id)
           kept == IF left = <<>> THEN Without(map[pos], b) ELSE With(map[pos], b, left)
       IN  IF DOMAIN kept = {} THEN Without(map, pos) ELSE With(map, pos, kept)

Position(stub) == <<stub.service, stub.method>>

----------------------------------------------------------------------------
(* The store and its mutations.                                            *)

EmptyStore ==
  [lefts |-> {}, methodSorted |-> <<>>, itemSorted |-> <<>>,
   equalsIndex |-> <<>>, unindexed |-> <<>>, itemsByID |-> <<>>,
   sessions |-> <<>>]

SessionCount(st, s) == IF s \in DOMAIN st.sessions THEN st.sessions[s] ELSE 0

IncrementSession(st, s) ==
  IF s = Global THEN st.sessions
  ELSE With(st.sessions, s, SessionCount(st, s) + 1)

DecrementSession(st, s) ==
  IF s = Global THEN st.sessions
  ELSE IF SessionCount(st, s) <= 1 THEN Without(st.sessions, s)
  ELSE With(st.sessions, s, SessionCount(st, s) - 1)

IndexStub(st, stub) ==
  LET pos == Position(stub)
  IN  IF Indexable(stub)
      THEN [st EXCEPT !.equalsIndex = AppendTo(@, pos, IndexKey(stub), stub)]
      ELSE [st EXCEPT !.unindexed = AppendTo(@, pos, Global, stub)]

DeindexStub(st, stub) ==
  LET pos == Position(stub)
  IN  IF Indexable(stub)
      THEN [st EXCEPT !.equalsIndex = RemoveFrom(@, pos, IndexKey(stub), stub.id)]
      ELSE [st EXCEPT !.unindexed = RemoveFrom(@, pos, Global, stub.id)]

RemoveStubIndexes(st, stub) ==
  [DeindexStub(st, stub) EXCEPT
     !.itemSorted   = RemoveFrom(@, Position(stub), stub.session, stub.id),
     !.methodSorted = RemoveFrom(@, stub.method, stub.session, stub.id),
     !.sessions     = DecrementSession(st, stub.session)]

\* Fault: the previous stub is looked for under the keys of the new one.
InsertOneOverNewKeys(st, stub) ==
  LET base == IF stub.id \in DOMAIN st.itemsByID
              THEN RemoveStubIndexes(st, stub) ELSE st
  IN  [IndexStub(base, stub) EXCEPT
         !.itemSorted   = AppendTo(@, Position(stub), stub.session, stub),
         !.methodSorted = AppendTo(@, stub.method, stub.session, stub),
         !.sessions     = IncrementSession(base, stub.session),
         !.itemsByID    = With(@, stub.id, stub),
         !.lefts        = @ \cup {stub.service}]

\* One iteration of upsert's loop: the previous stub of the same ID leaves
\* every index, under its own service, method and session, before the new one
\* enters them.
InsertOne(st, stub) ==
  LET base == IF stub.id \in DOMAIN st.itemsByID
              THEN RemoveStubIndexes(st, st.itemsByID[stub.id]) ELSE st
  IN  [IndexStub(base, stub) EXCEPT
         !.itemSorted   = AppendTo(@, Position(stub), stub.session, stub),
         !.methodSorted = AppendTo(@, stub.method, stub.session, stub),
         !.sessions     = IncrementSession(base, stub.session),
         !.itemsByID    = With(@, stub.id, stub),
         !.lefts        = @ \cup {stub.service}]

\* slices.SortFunc: a bucket in the order of Precedes.
Sorted(stubs) ==
  LET into(ordered, stub) ==
        InsertAt(ordered,
          CHOOSE n \in 1..Len(ordered) + 1 :
            /\ \A i \in 1..n - 1 : ~Precedes(stub, ordered[i])
            /\ n <= Len(ordered) => Precedes(stub, ordered[n]),
          stub)
      ordered[n \in 0..Len(stubs)] ==
        IF n = 0 THEN <<>> ELSE into(ordered[n - 1], stubs[n])
  IN  ordered[Len(stubs)]

\* Fault: a bucket stays in the order of its appends.
LeaveUnsorted(st, batch) == st

\* Sorts the itemSorted buckets a batch appended to, once, after the loop.
ResortTouched(st, batch) ==
  LET touched(pos, s) ==
        \E i \in DOMAIN batch : Position(batch[i]) = pos /\ batch[i].session = s
  IN  [st EXCEPT !.itemSorted =
        [pos \in DOMAIN @ |-> [s \in DOMAIN @[pos] |->
           IF touched(pos, s) THEN Sorted(@[pos][s]) ELSE @[pos][s]]]]

Upsert(st, batch) ==
  LET after[n \in 0..Len(batch)] ==
        IF n = 0 THEN st ELSE InsertOne(after[n - 1], batch[n])
  IN  ResortTouched(after[Len(batch)], batch)

RemoveOne(st, id) ==
  IF id \notin DOMAIN st.itemsByID THEN st
  ELSE [RemoveStubIndexes(st, st.itemsByID[id]) EXCEPT !.itemsByID = Without(@, id)]

Del(st, ids) ==
  LET keys == SetToSeq(ids)
      after[n \in 0..Cardinality(ids)] ==
        IF n = 0 THEN st ELSE RemoveOne(after[n - 1], keys[n])
  IN  after[Cardinality(ids)]

\* Fault: the stubs the session sees, not only those it owns.
DelVisibleTo(st, session) ==
  Del(st, {id \in DOMAIN st.itemsByID : VisibleTo(st.itemsByID[id], session)})

DelBySession(st, session) ==
  IF session = Global THEN st
  ELSE Del(st, {id \in DOMAIN st.itemsByID : st.itemsByID[id].session = session})

----------------------------------------------------------------------------
(* Reads.                                                                  *)

\* "ok", "left" (ErrLeftNotFound) or "right" (ErrRightNotFound).
PosByN(st, service, method) ==
  IF service \notin st.lefts THEN "left"
  ELSE IF <<service, method>> \notin DOMAIN st.itemSorted THEN "right"
  ELSE "ok"

\* The positions a service and method resolve to: the full service name, then
\* the name without its package.
PosByPN(st, service, method) ==
  LET short     == Truncated[service]
      full      == PosByN(st, service, method)
      truncated == IF short = service THEN "none" ELSE PosByN(st, short, method)
      indexes   == (IF full = "ok" THEN << <<service, method>> >> ELSE <<>>)
                   \o (IF truncated = "ok" THEN << <<short, method>> >> ELSE <<>>)
  IN  [indexes |-> indexes,
       err     |-> IF indexes # <<>> THEN "ok"
                   ELSE IF truncated = "right" THEN "right" ELSE full]

MergeSortedStubs(a, b) ==
  LET \* how many of the first n stubs come from a
      taken[n \in 0..Len(a) + Len(b)] ==
        IF n = 0 THEN 0
        ELSE LET i == taken[n - 1]
                 j == n - 1 - i
             IN  IF i < Len(a) /\ (j < Len(b) => ~Precedes(b[j + 1], a[i + 1]))
                 THEN i + 1 ELSE i
  IN  [n \in 1..Len(a) + Len(b) |->
         IF taken[n] > taken[n - 1] THEN a[taken[n]] ELSE b[n - taken[n]]]

MergeSortedParts(parts) ==
  LET merged[n \in 0..Len(parts)] ==
        IF n = 0 THEN <<>> ELSE MergeSortedStubs(merged[n - 1], parts[n])
  IN  merged[Len(parts)]

\* The loops that append each position's buckets to one list of parts.
Concatenated(lists) ==
  LET upTo[n \in 0..Len(lists)] == IF n = 0 THEN <<>> ELSE upTo[n - 1] \o lists[n]
  IN  upTo[Len(lists)]

\* The sorted buckets a session sees at the resolved positions, merged.
CollectAvailableSorted(st, indexes, session) ==
  LET parts(pos) ==
        <<Bucket(st.itemSorted, pos, Global)>>
        \o (IF session = Global THEN <<>>
            ELSE <<Bucket(st.itemSorted, pos, session)>>)
  IN  MergeSortedParts(Concatenated([i \in DOMAIN indexes |-> parts(indexes[i])]))

\* findAll: every session's buckets, as the listing endpoints see them.
YieldSortedValues(st, indexes) ==
  LET parts(pos) == SetToSeq(Range(st.itemSorted[pos]))
  IN  MergeSortedParts(Concatenated([i \in DOMAIN indexes |-> parts(indexes[i])]))

FindByMethodAvailable(st, method, session) ==
  LET global == Bucket(st.methodSorted, method, Global)
      own    == IF session = Global THEN <<>>
                ELSE Bucket(st.methodSorted, method, session)
  IN  Sorted(global \o own)

HasMethodAvailable(st, method, session) ==
  \/ Bucket(st.methodSorted, method, Global) # <<>>
  \/ session # Global /\ Bucket(st.methodSorted, method, session) # <<>>

\* The positions the equals index can answer for.
UsableIndexes(st, indexes) ==
  {i \in DOMAIN indexes : indexes[i] \in DOMAIN st.equalsIndex}

\* The stubs filed at a position under a spelling of a text field of the query.
Probe(st, pos, data) ==
  LET texts == {k \in DOMAIN data : Type(data[k]) = "string"}
  IN  UNION {UNION {Range(Bucket(st.equalsIndex, pos, <<v, data[k][2]>>)) : v \in KeyVariations(k)} :
             k \in texts}

\* Fault: the index answers without the stubs it cannot hold.
IndexedCandidatesOnly(st, indexes, data) ==
  UNION {Probe(st, indexes[i], data) : i \in UsableIndexes(st, indexes)}

\* indexedCandidates: at each usable position the unindexed stubs and those
\* found by the query's own fields, whatever their session.
IndexedCandidates(st, indexes, data) ==
  UNION {Range(Bucket(st.unindexed, indexes[i], Global)) \cup Probe(st, indexes[i], data) :
         i \in UsableIndexes(st, indexes)}

\* resolveSearchCandidates, without its test of the times limit: the stubs of
\* the service, or, when the service and method do not resolve and the query is
\* not strict, those of the method.
ResolveSearchCandidates(st, service, method, session, strict) ==
  LET found == PosByPN(st, service, method)
  IN  IF found.err = "ok" THEN CollectAvailableSorted(st, found.indexes, session)
      ELSE IF strict \/ ~HasMethodAvailable(st, method, session) THEN <<>>
      ELSE FindByMethodAvailable(st, method, session)

----------------------------------------------------------------------------
(* Operations of the facade, Budgerigar.                                   *)

Batches ==
  UNION {[1..n -> Catalog] : n \in 1..MaxBatch}

\* PutMany gives every stub without an ID one that is new.
AssignIds(batch) ==
  LET unnamed == {i \in DOMAIN batch : batch[i].id = NilId}
      free    == FreshIds \ DOMAIN external.itemsByID
  IN  {[i \in DOMAIN batch |->
          IF i \in unnamed THEN [batch[i] EXCEPT !.id = new[i]] ELSE batch[i]] :
       new \in Injection(unnamed, free)}

PutMany(batch) ==
  /\ \E named \in AssignIds(batch) : external' = Upsert(external, named)
  /\ UNCHANGED internal

\* UpdateMany skips the stubs without an ID.
Updates(batch) ==
  LET updates[n \in 0..Len(batch)] ==
        IF n = 0 THEN <<>>
        ELSE IF batch[n].id = NilId THEN updates[n - 1]
        ELSE Append(updates[n - 1], batch[n])
  IN  updates[Len(batch)]

UpdateMany(batch) ==
  /\ external' = Upsert(external, Updates(batch))
  /\ UNCHANGED internal

DeleteByID(ids) ==
  /\ external' = Del(external, ids)
  /\ UNCHANGED internal

DeleteSession(session) ==
  /\ external' = DelBySession(external, session)
  /\ UNCHANGED internal

\* clear resets the internal store as well.
Clear ==
  /\ external' = EmptyStore
  /\ internal' = EmptyStore

PutInternal(stub) ==
  /\ internal' = Upsert(internal, <<stub>>)
  /\ UNCHANGED external

Ids == {s.id : s \in Catalog} \cup FreshIds

Init ==
  LET after[n \in 0..Len(InitialInternal)] ==
        IF n = 0 THEN EmptyStore ELSE Upsert(after[n - 1], <<InitialInternal[n]>>)
  IN  /\ external = EmptyStore
      /\ internal = after[Len(InitialInternal)]

Next ==
  \/ \E batch \in Batches : PutMany(batch) \/ UpdateMany(batch)
  \/ \E ids \in SUBSET Ids : DeleteByID(ids)
  \/ \E session \in Sessions : DeleteSession(session)
  \/ Clear
  \/ \E stub \in InternalStubs : PutInternal(stub)

Spec == Init /\ [][Next]_vars

----------------------------------------------------------------------------
(* Properties.                                                             *)

Stored(st) == Range(st.itemsByID)

NoEmptyBuckets(map) ==
  \A pos \in DOMAIN map :
    /\ DOMAIN map[pos] # {}
    /\ \A b \in DOMAIN map[pos] : map[pos][b] # <<>>

\* A store has its shape: IDs key their own stubs, session counters are
\* positive and no index keeps an empty bucket or an empty position
\* (storage_mutation.go deletes both as soon as they empty).
StoreShape(st) ==
  /\ DOMAIN st.itemsByID \subseteq Ids \cup {s.id : s \in InternalStubs}
  /\ \A id \in DOMAIN st.itemsByID : st.itemsByID[id].id = id
  /\ DOMAIN st.sessions \subseteq Sessions
  /\ \A s \in DOMAIN st.sessions : st.sessions[s] \in Nat \ {0}
  /\ st.lefts \subseteq Services
  /\ NoEmptyBuckets(st.itemSorted) /\ NoEmptyBuckets(st.methodSorted)
  /\ NoEmptyBuckets(st.equalsIndex) /\ NoEmptyBuckets(st.unindexed)

\* The entries of an index: each stub with the bucket it was found in.
Entries(map) ==
  UNION {UNION {{<<pos, b, i>> : i \in DOMAIN map[pos][b]} : b \in DOMAIN map[pos]} :
         pos \in DOMAIN map}

\* The index holds every stored stub, in its current version, exactly once
\* and where Place says.
Mirrors(map, st, Place(_)) ==
  /\ \A e \in Entries(map) :
       LET s == map[e[1]][e[2]][e[3]]
       IN  s \in Stored(st) /\ Place(s) = <<e[1], e[2]>>
  /\ Cardinality(Entries(map)) =
       Cardinality({s \in Stored(st) : Place(s) # <<>>})

\* All redundant structures of a store describe the same set of stubs, however
\* stubs were updated, moved between services, methods and sessions, deleted
\* one by one or by session.  upsert deindexes the old version under the OLD
\* stub's keys (storage_mutation.go:31); missing one of the five structures
\* there leaves a ghost no test of a single insertion would see.  The types of
\* both stores are part of it.
IndexesAgree ==
  \A st \in {external, internal} :
    /\ StoreShape(st)
    /\ Mirrors(st.itemSorted, st, LAMBDA s : <<Position(s), s.session>>)
    /\ Mirrors(st.methodSorted, st, LAMBDA s : <<s.method, s.session>>)
    /\ Mirrors(st.equalsIndex, st,
               LAMBDA s : IF Indexable(s) THEN <<Position(s), IndexKey(s)>> ELSE <<>>)
    /\ Mirrors(st.unindexed, st,
               LAMBDA s : IF Indexable(s) THEN <<>> ELSE <<Position(s), Global>>)
    /\ \A session \in Sessions :
         SessionCount(st, session) =
           Cardinality({s \in Stored(st) : s.session = session})

SortedSet(S, stubs) ==
  /\ Range(stubs) = S /\ Len(stubs) = Cardinality(S)
  /\ IsSorted(stubs, Precedes)

\* What a search reads is what is stored: for every service, method and
\* session the merged buckets are the visible stubs of the full and of the
\* package-stripped service, each once, in priority order; the method
\* fallback and the listing likewise; and the resolution fails exactly when no
\* session has a stub there, which is when a search that is not strict falls back
\* to the method.  The buckets are sorted at write time only, by
\* batch (resortTouched), and the reads trust that (storage_sort.go:80).
ReadsExact ==
  \A service \in Services, method \in Methods :
    LET found == PosByPN(external, service, method)
        here  == {s \in Stored(external) :
                    s.service \in {service, Truncated[service]} /\ s.method = method}
    IN  /\ (found.err = "ok") <=> (here # {})
        /\ SortedSet(here, YieldSortedValues(external, found.indexes))
        /\ \A session \in Sessions \cup {Global} :
             LET seen == {s \in Stored(external) :
                            s.method = method /\ VisibleTo(s, session)}
             IN  /\ SortedSet(here \cap seen,
                      CollectAvailableSorted(external, found.indexes, session))
                 /\ SortedSet(seen, FindByMethodAvailable(external, method, session))
                 /\ HasMethodAvailable(external, method, session) <=> (seen # {})
                 /\ \A strict \in BOOLEAN :
                      SortedSet(IF here # {} THEN here \cap seen
                                ELSE IF strict THEN {} ELSE seen,
                        ResolveSearchCandidates(external, service, method, session, strict))

----------------------------------------------------------------------------
(* The storage implements the table of stubs a user of the API has in mind. *)

\* The table as searches see it: read off the search buckets, not off
\* itemsByID.
SearchTable(st) ==
  LET buckets == st.itemSorted
      stubs   == {buckets[e[1]][e[2]][e[3]] : e \in Entries(buckets)}
  IN  [id \in {s.id : s \in stubs} |-> CHOOSE s \in stubs : s.id = id]

\* Each deletion takes out of what searches find exactly what it names, and
\* nothing of another session: DeleteSession reads itemsByID and deletes
\* through five structures (storage_mutation.go:104).
DeletesExact ==
  /\ \A ids \in SUBSET Ids :
       SearchTable(Del(external, ids)) =
         Restrict(SearchTable(external), DOMAIN SearchTable(external) \ ids)
  /\ \A session \in Sessions :
       SearchTable(DelBySession(external, session)) =
         RestrictValues(SearchTable(external), LAMBDA s : s.session # session)

NamedStubs ==
  UNION {IF s.id = NilId THEN {[s EXCEPT !.id = id] : id \in FreshIds} ELSE {s} :
         s \in Catalog}

Table == INSTANCE StubTable WITH table <- SearchTable(external), Stubs <- NamedStubs

\* Every operation changes what searches can find in one step, as an operation
\* of the table does: a put replaces the IDs of its batch and nothing else, the
\* others only remove.
ImplementsTable == Table!Spec
=============================================================================
