------------------------------ MODULE History ------------------------------
(***************************************************************************)
(* The call history (internal/domain/history/recorder.go, MemoryStore) and *)
(* the purge endpoint over it (internal/app/rest_dashboard.go).            *)
(*                                                                         *)
(* A record carries one message.  A message has the two sizes the code     *)
(* looks at: `json`, its encoded length, which the truncation compares     *)
(* with HISTORY_MESSAGE_MAX_BYTES, and `bytes`, the estimate that is       *)
(* charged to the budget HISTORY_LIMIT.  `encodes` is whether json.Marshal *)
(* accepts it: a NaN or an infinity in a float field makes it refuse.      *)
(***************************************************************************)
EXTENDS Integers, SequencesExt

CONSTANTS
  Sessions, Global,  \* session names; the empty session
  Messages,          \* messages: records with json, encodes, bytes and secret
  Payloads,          \* the messages calls carry
  Redacted,          \* redactMap: the message with its redacted keys masked
  Marker,            \* the truncation marker {"_truncated": true}
  Overhead,          \* what estimateRecordSize adds to the message
  limitBytes,        \* HISTORY_LIMIT, 0 for none
  messageMaxBytes,   \* HISTORY_MESSAGE_MAX_BYTES, 0 for none
  MaxInt,            \* the largest int, above which a sum wraps around
  MaxSlice,          \* the longest slice make() can give
  Operators,         \* clients that purge the history
  MaxCalls           \* bound: calls recorded

ASSUME HistoryAssumption ==
  /\ Global \notin Sessions
  /\ Marker \in Messages /\ Payloads \subseteq Messages
  /\ Redacted \in [Messages -> Messages]
  /\ Messages \subseteq [json : Nat, encodes : BOOLEAN, bytes : Nat, secret : BOOLEAN]
  /\ ~Marker.secret /\ \A m \in Messages : ~Redacted[m].secret
  /\ Overhead \in Nat \ {0} /\ limitBytes \in Nat /\ messageMaxBytes \in Nat
  /\ MaxInt \in Nat /\ MaxSlice \in 0..MaxInt
  /\ MaxCalls \in Nat

VARIABLES
  calls,         \* the stored records, oldest first, each with its size
  currentBytes,  \* what they take of the budget
  recorded,      \* history: how many calls were recorded
  purging        \* the count an operator has read for its answer, or -1

historyVars == <<calls, currentBytes, recorded, purging>>

SessionNames == Sessions \cup {Global}

----------------------------------------------------------------------------
(* Writes: each runs under the store's lock.                               *)

\* A message that cannot be encoded stays as it is.
truncateMessage(m) ==
  IF messageMaxBytes > 0 /\ m.encodes /\ m.json > messageMaxBytes THEN Marker ELSE m

\* Fault: the truncation looks at the message before it is masked.
PreparedTruncatedFirst(call) ==
  [call EXCEPT !.message = Redacted[truncateMessage(@)]]

\* What RecordOwned stores of a call: redacted, then truncated.
Prepared(call) ==
  [call EXCEPT !.message = truncateMessage(Redacted[@])]

estimateRecordSize(call) == Overhead + call.message.bytes

TotalSize(stored) ==
  LET sum[n \in 0..Len(stored)] == IF n = 0 THEN 0 ELSE sum[n - 1] + stored[n].size
  IN  sum[Len(stored)]

\* The records of a sequence that are in a set, in their order.
Selected(stored, wanted) ==
  LET got[n \in 0..Len(stored)] ==
        IF n = 0 THEN <<>>
        ELSE IF stored[n] \in wanted THEN Append(got[n - 1], stored[n]) ELSE got[n - 1]
  IN  got[Len(stored)]

\* Fault: a full budget counts as exceeded.
EvictedAtLimit(stored, bytes) ==
  IF limitBytes = 0 THEN 0
  ELSE CHOOSE n \in 0..Len(stored) - 1 :
         /\ n = Len(stored) - 1 \/ bytes - TotalSize(SubSeq(stored, 1, n)) < limitBytes
         /\ \A k \in 0..n - 1 : bytes - TotalSize(SubSeq(stored, 1, k)) >= limitBytes

\* The eviction loop: how many of the oldest records go.
Evicted(stored, bytes) ==
  IF limitBytes = 0 THEN 0
  ELSE CHOOSE n \in 0..Len(stored) - 1 :
         /\ \/ n = Len(stored) - 1
            \/ bytes - TotalSize(SubSeq(stored, 1, n)) <= limitBytes
         /\ \A k \in 0..n - 1 : bytes - TotalSize(SubSeq(stored, 1, k)) > limitBytes

RecordOwned(call) ==
  LET kept   == Prepared(call)
      stored == Append(calls, [call |-> kept, size |-> estimateRecordSize(kept)])
      bytes  == currentBytes + estimateRecordSize(kept)
      n      == Evicted(stored, bytes)
  IN  /\ calls' = SubSeq(stored, n + 1, Len(stored))
      /\ currentBytes' = bytes - TotalSize(SubSeq(stored, 1, n))

\* Fault: the budget keeps paying for what was deleted.
DeleteSessionUncounted(session) ==
  /\ calls' = Selected(calls, {r \in ToSet(calls) : r.call.session # session})
  /\ UNCHANGED <<currentBytes, recorded, purging>>

DeleteSession(session) ==
  /\ calls' = Selected(calls, {r \in ToSet(calls) : r.call.session # session})
  /\ currentBytes' = TotalSize(calls')
  /\ UNCHANGED <<recorded, purging>>

Clear == calls' = <<>> /\ currentBytes' = 0

Record ==
  /\ recorded < MaxCalls
  /\ \E message \in Payloads, session \in SessionNames, failed \in BOOLEAN :
       RecordOwned([number |-> recorded + 1, session |-> session,
                    failed |-> failed, message |-> message])
  /\ recorded' = recorded + 1
  /\ UNCHANGED purging

\* purgeHistoryRecords without a session: the count and the purge are two
\* critical sections.
PurgeCount(o) ==
  /\ purging[o] = -1
  /\ purging' = [purging EXCEPT ![o] = Len(calls)]
  /\ UNCHANGED <<calls, currentBytes, recorded>>

PurgeClear(o) ==
  /\ purging[o] # -1
  /\ Clear
  /\ purging' = [purging EXCEPT ![o] = -1]
  /\ UNCHANGED recorded

----------------------------------------------------------------------------
(* Reads.                                                                  *)

\* FilterSeq; Global stands for no session in the options.
Filter(opts) ==
  Selected(calls, {r \in ToSet(calls) :
    /\ opts.session = Global \/ r.call.session \in {Global, opts.session}
    /\ opts.errorOnly => r.call.failed})

Larger(a, b) == IF a > b THEN a ELSE b
Smaller(a, b) == IF a < b THEN a ELSE b

\* What limit + offset is in a machine integer.
Wrapped(n) == IF n > MaxInt THEN n - 2 * (MaxInt + 1) ELSE n

\* What a call of FilterWindow that panicked hands over: no page.
Panicked == [page |-> <<>>, total |-> -1]

\* Fault: the offset widens the window without skipping its newest records.
FilterWindowUnskipped(opts, limit, offset) ==
  LET matches == Filter(opts)
      skip    == IF limit <= 0 THEN 0 ELSE Larger(offset, 0)
      first   == IF limit <= 0 THEN 1 ELSE Larger(Len(matches) - limit, 0) + 1
  IN  IF Wrapped(limit + skip) \notin 0..MaxSlice /\ limit > 0 THEN Panicked
      ELSE [page |-> SubSeq(matches, first, Len(matches)), total |-> Len(matches)]

\* FilterWindow: the matches pass through a ring that holds one window; make()
\* panics when the window's size wrapped or is larger than a slice can be.
FilterWindow(opts, limit, offset) ==
  LET matches == Filter(opts)
      total   == Len(matches)
      skip    == Larger(offset, 0)
      size    == Wrapped(limit + skip)
      ring[n \in 0..total] ==
        IF n = 0 THEN [i \in 0..size - 1 |-> "none"]
        ELSE [ring[n - 1] EXCEPT ![(n - 1) % size] = matches[n]]
      kept    == Smaller(total, size)
      ordered == [i \in 1..kept |-> ring[total][(total - kept + (i - 1)) % size]]
      end     == Larger(kept - skip, 0)
  IN  IF limit <= 0
      THEN [page |-> SubSeq(matches, 1, Larger(total - skip, 0)), total |-> total]
      ELSE IF size \notin 0..MaxSlice THEN Panicked
      ELSE [page |-> SubSeq(ordered, Larger(end - limit, 0) + 1, end), total |-> total]

----------------------------------------------------------------------------
HistoryInit ==
  /\ calls = <<>> /\ currentBytes = 0
  /\ recorded = 0
  /\ purging = [o \in Operators |-> -1]

HistoryNext ==
  \/ Record
  \/ \E s \in Sessions : DeleteSession(s)
  \/ \E o \in Operators : PurgeCount(o) \/ PurgeClear(o)

HistorySpec == HistoryInit /\ [][HistoryNext]_historyVars

----------------------------------------------------------------------------
(* Properties.                                                             *)

\* Type invariant; the records keep the order in which they arrived.
TypeOK ==
  /\ \A i \in DOMAIN calls :
       /\ calls[i].call.number \in 1..recorded
       /\ calls[i].call.session \in SessionNames
       /\ calls[i].call.message \in Messages
       /\ calls[i].size = estimateRecordSize(calls[i].call)
       /\ \A j \in 1..i - 1 : calls[j].call.number < calls[i].call.number
  /\ recorded \in 0..MaxCalls
  /\ purging \in [Operators -> -1..MaxCalls]

\* HISTORY_LIMIT: the running total is what the stored records add up to, and
\* it exceeds the budget only through a single record that is larger than it.
BudgetKept ==
  /\ currentBytes = TotalSize(calls)
  /\ limitBytes > 0 /\ Len(calls) > 1 => currentBytes <= limitBytes

\* "The oldest records are evicted first" (docs/guide/api/history.md:100), and
\* only as many as the budget demands: with the newest evicted record kept the
\* total would be over it.
EvictsOldestOnly ==
  [][Record =>
       LET n == Len(calls) + 1 - Len(calls')
       IN  /\ Front(calls') = SubSeq(calls, n + 1, Len(calls))
           /\ n > 0 => TotalSize(calls') + calls[n].size > limitBytes]_historyVars

\* "A secret never reaches the store" (docs/guide/api/history.md:105), nor does a
\* message whose encoding is beyond the limit, whichever of the two the code does
\* first.  A message json.Marshal refuses has no encoding to measure: it is stored
\* whole, however large, and masked all the same.
StoredMessagesClean ==
  \A i \in DOMAIN calls :
    LET m == calls[i].call.message
    IN  /\ ~m.secret
        /\ messageMaxBytes > 0 /\ m.encodes => m = Marker \/ m.json <= messageMaxBytes

Options == [session : SessionNames, errorOnly : BOOLEAN]

\* The newest `limit` of the matches (all when it is not positive) after skipping the
\* newest `skip`.
Newest(matches, limit, skip) ==
  LET end == Larger(Len(matches) - skip, 0)
  IN  SubSeq(matches, IF limit <= 0 THEN 1 ELSE Larger(end - limit, 0) + 1, end)

\* The ring gives the page that slicing all matches would: each of the newest
\* `limit` records after skipping the `offset` newest, once, and the total before
\* paging; a window no slice can hold gives no page at all, never a wrong one.  A page
\* lists them oldest first (filterWindow), not newest first as api/api.yaml:1190 has it.
PagesExact ==
  \A opts \in Options, limit, offset \in -1..MaxInt :
    LET matches == Filter(opts)
        skip    == Larger(offset, 0)
        newest  == Newest(matches, limit, skip)
        window  == FilterWindow(opts, limit, offset)
    IN  IF limit > 0 /\ limit + skip > MaxSlice THEN window = Panicked
        ELSE /\ window.total = Len(matches)
             /\ ToSet(window.page) = ToSet(newest) /\ Len(window.page) = Len(newest)
=============================================================================
