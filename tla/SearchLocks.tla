---------------------------- MODULE SearchLocks ----------------------------
(***************************************************************************)
(* The locks of the searcher (internal/infra/stuber): searcher.mu over the *)
(* match counters, searcher.lookupMu over the lookup cache, storage.mu and *)
(* the mutex of the internal storage.  Every operation of the searcher is  *)
(* the sequence of lock calls on its longest path; the data is Search's.   *)
(*                                                                         *)
(* A sync.RWMutex prefers writers: once a Lock call waits, later RLock     *)
(* calls wait behind it, and the readers it kept waiting are let in        *)
(* together when it unlocks.                                               *)
(***************************************************************************)
EXTENDS Naturals, FiniteSets, Sequences

CONSTANTS
  Goroutines,
  Operations   \* Operations[g]: what g may call, of the operations listed below

Locks == {"search", "lookup", "storage", "internal"}

R(lock) == [mode |-> "RLock", lock |-> lock]
W(lock) == [mode |-> "Lock",  lock |-> lock]
U(lock) == [mode |-> "Unlock", lock |-> lock]

Read(lock)  == <<R(lock), U(lock)>>
Write(lock) == <<W(lock), U(lock)>>

----------------------------------------------------------------------------
(* The lock calls of the operations.                                       *)

tryReserve == Write("search")

\* Tests one candidate per call.
isVisibleAndNotExhausted == Read("search")

\* posByPN calls posByN, once per form of the service name.
posByPN == Read("storage") \o Read("storage")

visibleIndexedCandidates ==
  posByPN \o Read("storage") \o isVisibleAndNotExhausted

\* The loop over findAllAvailable runs inside its iterator, under storage.mu.
bestSimilarStub ==
  posByPN \o <<R("storage")>> \o isVisibleAndNotExhausted \o isVisibleAndNotExhausted
  \o <<U("storage")>>

\* lookup, cached or not, and the iterator of filterNotExhaustedSeq, which
\* holds searcher.mu around the storage iterator it filters.
resolveSearchCandidates(cached) ==
  Read("lookup") \o (IF cached THEN <<>> ELSE Write("lookup"))
  \o posByPN \o <<R("search")>> \o Read("storage") \o <<U("search")>>

matchInternalStubs == Read("internal") \o Read("internal") \o Read("internal")

\* Fault: the counters are unlocked before the stubs go.
delInTwoSteps == Write("search") \o Write("storage")

\* Fault: the locks in the order of the iterators' callers.
delStorageFirst == <<W("storage")>> \o Write("search") \o <<U("storage")>>

del == <<W("search")>> \o Write("storage") \o <<U("search")>>

clear ==
  <<W("search")>> \o Write("lookup") \o Write("storage") \o Write("internal")
  \o <<U("search")>>

Program == [
  \* a hit through the equals index
  find_indexed |-> visibleIndexedCandidates \o tryReserve,
  \* an index miss, then no similar stub or a full scan
  find_similar |-> visibleIndexedCandidates \o bestSimilarStub
                   \o resolveSearchCandidates(TRUE) \o tryReserve,
  \* a position the equals index does not know
  find_scan    |-> posByPN \o Read("storage") \o resolveSearchCandidates(FALSE) \o tryReserve,
  find_by_id   |-> posByPN \o Read("lookup") \o Read("storage")
                   \o isVisibleAndNotExhausted \o tryReserve,
  find_health  |-> matchInternalStubs,
  upsert       |-> Write("storage"),
  put_internal |-> Write("internal"),
  del          |-> del,
  clear        |-> clear,
  used         |-> <<R("search")>> \o Read("storage") \o <<U("search")>>,
  unused       |-> Read("search") \o Read("storage")]

ASSUME OperationsAssumption == Operations \in [Goroutines -> SUBSET DOMAIN Program]

----------------------------------------------------------------------------
VARIABLES
  op,       \* the operation a goroutine runs, or "none"
  at,       \* how many of its lock calls have returned
  readers,  \* the goroutines that hold a lock for reading
  queued,   \* the goroutines whose RLock waits behind a writer
  writer    \* the goroutine that holds a lock for writing or is next to, if any

vars == <<op, at, readers, queued, writer>>

Nobody == {}

\* The lock call a goroutine is at.
Call(g) == Program[op[g]][at[g] + 1]
Busy(g) == op[g] # "none"
AtCall(g, mode) == Busy(g) /\ at[g] < Len(Program[op[g]]) /\ Call(g).mode = mode

Advance(g) == at' = [at EXCEPT ![g] = @ + 1] /\ UNCHANGED op

Begin(g) ==
  /\ ~Busy(g)
  /\ \E name \in Operations[g] : op' = [op EXCEPT ![g] = name]
  /\ UNCHANGED <<at, readers, queued, writer>>

End(g) ==
  /\ Busy(g) /\ at[g] = Len(Program[op[g]])
  /\ op' = [op EXCEPT ![g] = "none"] /\ at' = [at EXCEPT ![g] = 0]
  /\ UNCHANGED <<readers, queued, writer>>

\* RLock returns at once unless a writer holds the lock or waits for it.
RLock(g) ==
  /\ AtCall(g, "RLock")
  /\ LET l == Call(g).lock
     IN  /\ g \notin queued[l]
         /\ IF writer[l] = Nobody
            THEN readers' = [readers EXCEPT ![l] = @ \cup {g}] /\ Advance(g) /\ UNCHANGED queued
            ELSE queued' = [queued EXCEPT ![l] = @ \cup {g}] /\ UNCHANGED <<readers, op, at>>
  /\ UNCHANGED writer

\* Lock announces the writer, then waits for the readers to leave.
AnnounceWriter(g) ==
  /\ AtCall(g, "Lock")
  /\ writer[Call(g).lock] = Nobody
  /\ writer' = [writer EXCEPT ![Call(g).lock] = {g}]
  /\ UNCHANGED <<op, at, readers, queued>>

Lock(g) ==
  /\ AtCall(g, "Lock")
  /\ writer[Call(g).lock] = {g} /\ readers[Call(g).lock] = {}
  /\ Advance(g)
  /\ UNCHANGED <<readers, queued, writer>>

\* A writer's Unlock lets the queued readers in: their RLock calls return.
Unlock(g) ==
  /\ AtCall(g, "Unlock")
  /\ LET l == Call(g).lock
     IN  IF g \in readers[l]
         THEN /\ readers' = [readers EXCEPT ![l] = @ \ {g}]
              /\ Advance(g) /\ UNCHANGED <<queued, writer>>
         ELSE /\ writer' = [writer EXCEPT ![l] = Nobody]
              /\ readers' = [readers EXCEPT ![l] = queued[l]]
              /\ queued' = [queued EXCEPT ![l] = {}]
              /\ at' = [h \in Goroutines |->
                          IF h = g \/ h \in queued[l] THEN at[h] + 1 ELSE at[h]]
              /\ UNCHANGED op

Step(g) ==
  \/ RLock(g) \/ AnnounceWriter(g) \/ Lock(g) \/ Unlock(g) \/ End(g)

Init ==
  /\ op = [g \in Goroutines |-> "none"]
  /\ at = [g \in Goroutines |-> 0]
  /\ readers = [l \in Locks |-> {}]
  /\ queued = [l \in Locks |-> {}]
  /\ writer = [l \in Locks |-> Nobody]

Next == \E g \in Goroutines : Begin(g) \/ Step(g)

Spec == Init /\ [][Next]_vars

\* Runnable goroutines run, and sync.Mutex does not starve a waiting writer.
FairSpec == Spec /\ \A g \in Goroutines : SF_vars(Step(g))

----------------------------------------------------------------------------
(* Properties.                                                             *)

\* Type invariant; a goroutine between two operations holds no lock, whichever
\* path its last operation took.
TypeOK ==
  /\ op \in [Goroutines -> DOMAIN Program \cup {"none"}]
  /\ at \in [Goroutines -> Nat]
  /\ readers \in [Locks -> SUBSET Goroutines]
  /\ queued \in [Locks -> SUBSET Goroutines]
  /\ \A l \in Locks :
       /\ \E g \in Goroutines : writer[l] \in {Nobody, {g}}
       /\ \A g \in readers[l] \cup queued[l] \cup writer[l] : Busy(g)

\* The lock calls a goroutine has made and not undone.
Holds(g) ==
  IF ~Busy(g) THEN {}
  ELSE {i \in 1..at[g] :
          /\ Program[op[g]][i].mode # "Unlock"
          /\ \A j \in i + 1..at[g] :
               Program[op[g]][j] # U(Program[op[g]][i].lock)}

HoldsLock(g, lock, mode) ==
  \E i \in Holds(g) : Program[op[g]][i] = [mode |-> mode, lock |-> lock]

\* A deletion is one step to everybody else: while del or clear removes stubs
\* from the storage nobody reads or reserves a match count, which they have
\* wiped already, and nobody reads the storage.  They hold searcher.mu across
\* the storage's own lock for this (search_searcher_runtime.go:21, :68).
DeletesAtomic ==
  \A g \in Goroutines : \A h \in Goroutines \ {g} :
    op[g] \in {"del", "clear"} /\ HoldsLock(g, "storage", "Lock")
      => \A l \in {"search", "storage"}, mode \in {"Lock", "RLock"} : ~HoldsLock(h, l, mode)

\* The goroutines a goroutine waits for.
WaitsFor(g) ==
  IF AtCall(g, "RLock") /\ g \in queued[Call(g).lock] THEN writer[Call(g).lock]
  ELSE IF AtCall(g, "Lock")
  THEN IF writer[Call(g).lock] = {g} THEN readers[Call(g).lock] ELSE writer[Call(g).lock]
  ELSE {}

\* The searcher "supports concurrent access through the use of a read-write
\* mutex" (storage.go:20): among the goroutines that run its operations there
\* is always one that waits for nobody.
NoDeadlock ==
  (\E g \in Goroutines : Busy(g)) => \E g \in Goroutines : Busy(g) /\ WaitsFor(g) = {}

\* Every operation returns, whatever the others do: no writer is kept out by a
\* stream of searches and no search by a stream of writers.
OperationsReturn ==
  \A g \in Goroutines : Busy(g) ~> ~Busy(g)
=============================================================================
