# GripMock in TLA+

GripMock serves mocked gRPC methods. Stubs come from files, from a REST API and
from MCP tools; a call searches them, counts the match, answers, and leaves a
record in the call history. This directory holds a model of the parts of it
that keep state or run concurrently, the TLC runs that check the model on small
instances, and theorems about its components that TLAPS checks for
every instance.

Modules are checked inside this directory with
`tlc -config <run>.cfg <module>` and proved with `tlapm <module>.tla`, where the
module is one of those whose name ends in `Proofs`.
`PROJECT.json` lists the runs, maps every definition to the Go lines it stands
for, gives for every property of a passing run a mutated definition that breaks
it, and lists the hazards the properties are aimed at and the findings.

## The system

| Component | State | Operations | Shared with |
|---|---|---|---|
| Stub storage (`infra/stuber/storage*.go`, `chain_storage.go`, `internal_storage.go`) | five redundant maps per store, plus session counts; an external and an internal store | `upsert`, `del`, `delBySession`, `clear`; reads by position, by method, through the equals index | everything below |
| Searcher (`infra/stuber/searcher.go`, `search_*.go`) | `stubCallCount` per stub and session, a lookup cache | `find` (by ID, indexed, full scan, fallback), `tryReserve`, deletions that wipe counters, `used`/`unused` | calls, REST, files, collectors |
| Bidirectional search (`search_bidi_*.go`) | candidates left per stream | `Next` per message, reservation at the first match | storage, counters |
| Matchers and ranking (`matcher*.go`, `deeply/`) | none (a cache of regular expressions) | match a message, specificity, score | searches, index |
| Call history (`domain/history/recorder.go`) | records, byte total | `Record`, `Filter`, `FilterWindow`, `DeleteSession`, `Clear` | calls, REST, collectors |
| Session tracker and collectors (`infra/session`, `deps/session_gc.go`) | `lastSeen` per session, one ticker per server | `Touch`, `Expired`, `ForgetIfExpired`, a pass | REST and gRPC transport, storage, history |
| Stub file loader (`infra/storage/stubs.go`) | `mapIDsByFile` | initial load, reload per event | storage, watcher |
| File watcher (`infra/watcher/stub.go`) | timers per path, wait group, `closed` | `add`, callback, `stopAll`; a polling variant | file system, loader |
| gRPC mocker (`app/grpc_mocker_*.go`, `grpc_effects.go`) | the state of each call | search, delay, effects, response, record | searcher, storage, history |
| Proxy and capture (`app/grpc_proxy_*.go`, `infra/proxycapture`) | two pumps per stream | forward, fall back, capture a stub | storage, history |
| Health service (`app/health_*.go`) | none: the internal store | Check, Watch | internal store |
| REST and MCP handlers (`app/rest_*.go`) | none | thin calls of the facade | all stores |
| Descriptor registry (`domain/descriptors`, `app/grpc_registration.go`) | descriptors by path and symbol, a generation, a cached view | upload, remove, resolve | calls, REST |
| Process and lifecycle (`deps/`, `infra/lifecycle`) | readiness, shutdown functions | start three servers, tell readiness, stop in reverse order without a deadline | servers, health stubs |
| Gateways (`app/connect_*.go`, `app/grpcweb_*.go`, `deps/gateway_server.go`) | one request | read frames, run the mocker's handlers, write frames | mocker, proxy |
| SDK (`pkg/sdk`) | expectations, queued stubs, IDs to delete, a kept error, a TTL timer | declare, chain, flush, verify, reset, close | a remote or embedded server: storage, history |
| Proto sources, templates, plugins, configuration, telemetry | none that outlives a call | compilation, pure functions, I/O | - |

How they meet: a gRPC call goes through the session interceptor (which touches
the tracker), into `Budgerigar.FindByQuery`, back with a stub whose match has
been counted, through delay, effects and response, and ends with a record.
Stub files reach the same storage through the watcher's channel and one
goroutine per event. REST and MCP put and delete stubs at any moment. Both
servers start a session collector over the same tracker, which deletes from the
storage and the history.

What is hard about it:

* the search takes two locks many times and acts on what it saw before;
* the counters behind `options.times` are guarded by another lock than the
  stubs they count for, and reserved from snapshots;
* five structures describe the same stubs, and buckets are distinguished by
  being absent or empty;
* timers fire late, callbacks outlive their timers, and a channel is closed
  while they may be sending;
* files are read without the lock under which they are applied;
* collectors decide on a snapshot, with the instant of an old tick, twice;
* a byte total, a ring and a budget have boundaries;
* a call that finds no stub goes on upstream with what it has read, and either
  its mock handler or its upstream leg records it, never both;
* the two pumps of a proxied stream end in either order, and one may be left
  behind;
* the SDK's test goroutine, its TTL timer and the calls it provokes meet on a
  server that others share, over requests that fail or lose their answer;
* four goroutines start the process while one of them may already be stopping it.

## Modules

    Inputs <- StubStorage --refines--> StubTable      Search         SearchLocks
      |           |                                     |                |
    Matching <- StubCandidates - MCStubStorage       MCSearch       MCSearchLocks

    MockCalls <- ProxyCalls <- BidiCalls - MCCalls    Gateways - MCGateways \
                                                      History - MCHistory    \
    StubWatcher  \                                                            MCProcess
                  StubReload - MCStubReload           Descriptors - MCDescriptors /
    StubFiles    /                                    Server                 /
    Sdk                                               Sessions

The proofs are in modules of their own: `StorageProofs` (about `StubStorage` and its
refinement of `StubTable`), `SearchProofs`, `LocksProofs` (about
`SearchLocks`), `CallsProofs` (about `BidiCalls` and what it extends),
`WatcherProofs` (about `StubReload`), `SessionsProofs`, `HistoryProofs` and
`ServerProofs` (about `Gateways`, `Descriptors`, `Server` and `Sdk`).

**StubTable** is the promise of the store: a table from IDs to stubs.
`PutMany` writes a batch at once, the last stub of an ID winning; deletions
remove what they name.

**StubStorage** is the Go struct `storage`, once as the external and once as
the internal store. A store is a record with a field per field of the struct; a
Go map is a function on the keys that are present, because several paths tell an
absent bucket from an empty one. Every mutation runs under the write lock from
first read to last write and is one action; reads are operators. The 32-bit
hashes of names are the names (collisions are left out). `ImplementsTable` is a
refinement whose mapping reads the table off the *search* buckets, so that a
stub searches cannot find does not count as stored.

**Inputs** says what the input of a stub and a message are made of and under which
field and text the equals index files a stub. A value is tagged with its type, a
field name is a number in lexical order with its other spellings, so that a name
without a way back (`address_1`, `address1`) can occur.

**Matching** holds pure operators over them: how the matchers of an input (`equals`,
`contains`, `matches`, `glob`, `anyOf`) accept one message and how `deeply` compares
values without regard to the order of lists. A pattern is the set of texts it
accepts.

**StubCandidates** puts storage and matchers together: `IndexCompleteAtUsable`
compares what the matcher accepts with what the index finds, instead of assuming
that both speak of equal texts. It is a module apart because the matchers are
recursive operators, which the prover does not take, and the storage needs none.

**Search** is `find` with one action per critical section: the two look-ups of a
service by its full name and by its name without the package (`posByPN`), the
look-up by ID, the index probe, the exhaustion test of each
indexed candidate, the similar-stub scan, the full scan, the fallback to other
services and every attempt to reserve. Other clients' searches, puts, updates,
deletes and clears run in between. The index probe skips a position that holds no
indexed stub, as the code does. It builds on `StubStorage` in that its
storage is the table and its reads are the exact ones that `ReadsExact` and
`IndexCompleteAtUsable` establish. An update keeps the counters of its stub; a
deletion wipes them. Three history variables only watch: `served` (who got which
match number), `available` (stubs that could have answered during the whole
call) and `skipped` (the positions that the index probe passed over). The similar-stub scan locks searcher.mu per candidate but holds the
storage lock throughout; no operation lowers a counter without then taking that
lock for writing, so its tests act like one.

**SearchLocks** has no data but the lock calls: every operation is the sequence
of `RLock`/`Lock`/`Unlock` on its longest path, over Go's `sync.RWMutex` with its
preference for writers (a waiting `Lock` stops later readers, an unlocking
writer lets in all readers it kept waiting).

**Sessions** is the tracker, the clients that touch sessions and store data for
them, and the collectors: the tick that was received, the snapshot of expired
sessions, `ForgetIfExpired` for each, then two separate deletions.

**History** is `MemoryStore`: redaction, truncation, size estimate, eviction,
deletion, purge (count and clear are two critical sections) and paging through
a ring, with sums that wrap around. A message is its two sizes, whether
`json.Marshal` accepts it, and whether it holds a secret.

**StubWatcher**, **StubFiles** and **StubReload** are the live reload. The
watcher has every timer it ever started, so that a callback can outlive its map
entry; the loader has one process per load, which reads its file before it
locks; `StubReload` joins them by the output channel (`Deliver`), the start-up
and the edits. Its `UpdatedInPlace` looks at the state between the two storage
calls of one reload. A content is the sequence of its stubs' IDs; what `uuid.New`
returns is any choice of IDs that nobody has.

**MockCalls**, **ProxyCalls** and **BidiCalls** are the calls: the handlers of
unary, server-streaming, client-streaming and bidirectional methods from the first
message to the history record. `MockCalls` has the search (one step, as `Search`
opens it up), the effects with their preparation, the deletion in two storage
calls, the responses, cancellation (with the statuses that records give it), the fallback to an
upstream and the record; `ProxyCalls` has the upstream legs and the capture;
`BidiCalls` has the search that narrows from message to message and the two pumps
with the guard that waits for them. A pump that the guard has cancelled still takes,
appends and sends the message it waits for; capture and record take a snapshot each
and wait for the upstream's header. `BidiCalls` composes all three with REST writes and with
clients that leave. The upstream is the environment.

**Gateways** is one HTTP request of Connect or gRPC-Web: the body as frames of
given sizes, the access log that reads the start of it, the checks, the handler
that receives and sends what it likes through the adapter, a proxied stream's
pumps, and the frames of the response in halves, so that two writers could
interleave.

**Server** is the process: the main goroutine that builds and serves gRPC, the
goroutines of REST and of the gateway, the load of the stubs, the two health
stubs, the signal and `Manager.Do`.

**Sdk** is one test with the SDK: the state of `Server` and `remoteMock`, what the
test's goroutine has left to do of its operation (each request is a step), its own
`Flush` and `Close`, the cleanup, the TTL
timer, and of the server the stubs, the counters and the records they lead to, which
other tests may purge. A
request is answered, refused, or carried out while its answer is lost. `mode` and
`session` are chosen at the start. A stub is a builder's number and a link of its
chain; the server part is what `Search` and `History` open up. The history
variables `wanted`, `taken` and `stranded` only watch, like the field `late`.

**Descriptors** is the registry of uploaded descriptors and the resolver that
keeps a view of it with the generation it was built from.

**MCProcess** runs `Gateways`, `Descriptors`, `History` and `Server`, which share no
variable and no property, in one run: one of them moves, the others stay as they
begin. Its specification has the fairness of the part that needs it.

## Runs

| Run | Expect | What it shows | Distinct states |
|---|---|---|---|
| StubStorage | pass | the five structures agree after every operation; reads, merges and deletions are exact; the index misses no stub that the matcher accepts, but for two kinds; lists are compared as bags; the storage refines the table | 1,854 |
| Search | pass | limits, best stub and genuine misses but for what the index passes over, separate sessions, termination, for two interleaved searches over the two positions of a service | 472,182 |
| SearchIndex | violation of `NeverMissed` | what the index passes over is lost: finding below | |
| SearchLocks | pass | deletions atomic across two locks, every operation returns - without the similar-stub scan | 167,760 |
| LocksSimilar | violation of `NoDeadlock` | the finding below | |
| Sessions | pass | only idle sessions are forgotten, only forgotten sessions lose data, idle ones are forgotten | 2,103,646 |
| StubReload | pass | no send on the closed channel, shutdown ends, no event lost, files stored whole, written IDs kept in place | 275,675 |
| Calls | pass | one record per call with the status the client got, effects whole and in time, faithful captures, no message handled twice, calls and pumps end | 1,093,758 |
| CallsDelete | violation of `DeletesKeepSessions` | a delete effect removes a stub of another session: finding below | |
| Process | pass | gateways: responses are whole frames and end once, handlers get the client's messages in order, and an incomplete request passes for complete only where the access log cut it; descriptors: names are resolved from what the registry held during the call; history: the byte total, the budget, eviction, secrets, pages; process: ready only after the load, no request cut off by the shutdown, the shutdown ends | 99,036 |
| Sdk | pass | stubs are on the server, queued or in an error the test gets, and one that is left at the end has a named cause; chains answer in order; the verdict is that of the calls | 5,841,323 |
| SdkCleanup | violation of `CleanupVerifies` | what a test declares after its own verification is never checked: finding below | |

### Bounds, and why they are enough

* *StubStorage*: seven catalogue stubs in which an update of one ID moves it to
  another service, method, session, priority and index key, and whose inputs use
  every matcher, `inputs` and `anyOf`; batches of two (a batch can hold the same ID
  twice, and can touch two buckets); one free ID. Nine queries have fields in either
  spelling that hold texts, a number and lists. There is no bound on the number
  of operations: the state space is closed. `ListsPairOff` compares all
  pairs of lists of up to two of six elements and of three of three; three
  expected elements that overlap are the fewest for which first-come pairing and
  a full assignment differ in more than one way.
* *Search*: two clients and two calls (every pair of searches interleaves),
  three writes (put, exhaust or update or delete, and put back), three IDs: an
  indexed stub of a session, limited to one use; a global stub in two versions, one
  not indexed and with another limit than the indexed one; and one, not indexed, at
  the full name `p.S` of the service that the others name `S`. Queries: at both positions, global and of a
  session and strict; of an unknown service, for the fallback, and internal (not
  counted); by ID. SearchIndex has the same constants.
* *SearchLocks*: three goroutines that call operations again and again (no bound
  on calls); one may call every operation, the others those that bring in a
  second and third lock holder of each kind. Loops over candidates run once or
  twice: more rounds repeat the same lock calls.
* *Sessions*: two clients that put and call again and again, two collectors,
  TTL 2 and four instants, so that a session is fresh, just expired and long
  expired, and was touched between an old tick and the collector's turn; a tick
  may be as old as the clock. One session: nothing in the tracker
  relates two.
* *Process*, history: three calls of five payloads, one of which cannot be encoded; the
  budget of nine holds two or three of them; the ring is smaller than, equal to and
  larger than the matches. `MaxInt` is 5 and a slice holds 4, so that limit and offset
  reach every size below, at and above both.
* *StubReload*: two files, three edits in all and as many timers, contents that
  gain, lose and keep stubs with and without written IDs, are empty or do not
  parse; shutdown at any time.

* *Calls*: two calls, two stub IDs, one session, one REST write. One call is of
  any kind and mode, the other a unary call that competes for the one use of the
  first stub, deletes and puts; a stub's effects delete the stub that another call
  is being served from. Two messages let a stream match, miss and fall back at
  either; one response of the upstream suffices to be before, between and after
  the ends of the pumps and the snapshots. One client stream and one server stream have
  no message. CallsDelete has the same constants.
* *Process*, gateway: the access log keeps three units, frames have one or two: bodies
  end before, at and after the cut, which falls inside a frame or between two. Two
  responses. `Limit` is the real limit plus one, as in the code.
* *Process*, start-up and shutdown: no bound; every server has at most one request in flight at a time.
* *Sdk*: two builders with up to three stubs, so that a chain grows beside another
  expectation and a batch has two sessions; two calls by one caller (one match
  reserved and not yet recorded is enough, reservations being one step), one failing
  request, one reset or `Close` of the test's own (what follows either starts from the
  same state), one purge by another test. Limits of zero (unlimited) and one.
  SdkCleanup has the same constants.
* *Process*, descriptors: three files of which two share a path and two a service, two
  look-ups, three changes, so that one look-up can be overtaken twice.

Deadlock is checked in StubStorage and SearchLocks; elsewhere a bound runs out, a
call or a request is done, a test ends, or the process exits.

### Fairness

* *Search* (`SearchesFinish`): weak fairness of each client's `Step`, a
  goroutine that can run being scheduled by Go. No fairness of writes or starts.
* *SearchLocks* (`OperationsReturn`): strong fairness of each goroutine's
  `Step`. Weak fairness is not enough, as a `Lock` call is enabled and disabled
  by others that come and go; `sync.Mutex` hands itself over to a waiter that has
  waited a millisecond, and `RWMutex` lets waiting readers in before the next
  writer, which is what strong fairness of the calls says. No fairness of
  `Begin`: nobody has to call again.
* *Sessions* (`IdleIsForgotten`): weak fairness of tickers and of the collector
  goroutines. Clients and the clock may stop.
* *StubReload* (`ShutdownEnds`, `EventsLoaded`): weak fairness of the watcher
  goroutine, of every timer with its callback and of every load. Edits and the
  shutdown itself need not happen.
* *Calls* (`CallsEnd`): weak fairness of every handler, the guard's timer included, and
  of a pump's end once its client is gone. Clients and upstreams need not do anything,
  a pump that waits for one of them does not see the guard's cancellation, and the
  property names what a call may wait for, the upstream's header among them.
* *Process* (`ShutdownCompletes`): weak fairness of the main goroutine and of the
  end of each request that is in flight; `GracefulStop` waits for those without a
  deadline. The load of the stubs and the other goroutines may stop for good.

## Findings

`LocksSimilar`: `bestSimilarStub` takes `searcher.mu` inside an iterator that
holds `storage.mu` (`search_runtime_helpers.go:67`); deletions take them in the
other order. Both wait forever.

`SearchIndex`: `indexedCandidates` skips a position that holds no indexed stub before
it adds that position's unindexed ones (`storage_equals_index.go:195`), although the
index "only ever narrows the candidate set, never changes how candidates are matched
or ranked, and the caller falls back to the full set whenever the index cannot answer"
(`:8`). The trace: a stub at `p.S` that matches everything, an indexed one at `S` that
does not match or is exhausted when it is tried, and one more at `S` that is visible.
The search ends with the similar stub (`search_runtime_helpers.go:48`). In the same way
an indexed stub of lower rank answers in place of the one passed over. What the passing
run and the theorems say of misses and ranks therefore leaves out stubs at a position
in `skipped`, and nothing else.

`CallsDelete`: a delete effect looks at the session of a stub and deletes by its ID in a
second call (`grpc_effects.go:185`); a put in between makes it remove another session's
stub, against `docs/guide/stubs/effects.md:50`.

`SdkCleanup`: after one `ExpectationsWereMet` the cleanup verifies nothing, so that
expectations added later are never checked (`server_v2.go:152`), against
`docs/guide/embedded-sdk/best-practices.md:81`. `Reset` makes it check again.

Seen while modelling, and part of the models as the code has it, without a run
of their own:

* The index is looked up by texts and by the spellings of the message's names
  (`storage_equals_index.go:205`). It misses a `matches` stub with an anchored
  literal when the field is a number, which the matcher turns into its digits, and
  a stub whose spelling has no way back from the message's. Against
  `storage_equals_index.go:13-15` ("cannot miss"); when another indexed stub is
  similar, the search ends with a miss. `Overlooked` is exactly these two.
* An expected element of a list takes the first free one it accepts
  (`deeply/common.go:64`), so `contains` and `matches` can refuse a list for which
  an assignment exists. For `equals` they agree (`ListsPairOff`).
* `anyOf` is ignored by a stub of several inputs on a client stream
  (`matcher_stream.go:8`; a stub of one input honours it), and an element of such
  a stub that has only `anyOf` never matches; `glob` and `ignoreArrayOrder` are
  ignored in bidirectional streams (`search_bidi_strategy.go:75`), all against
  `docs/guide/matcher/logic.md:47`.
* The fallback to other services is decided by `posByPN`, which counts stubs of
  every session (`search_runtime_helpers.go:136`), against
  `docs/guide/embedded-sdk/sessions.md:9`.
* What a request stores after `ForgetIfExpired` and before the two deletions is
  deleted (`deps/session_gc.go:59`), against `infra/session/tracker.go:30`.
* `FilterWindow` returns a page oldest first (`recorder.go:483`), against
  `api/api.yaml:1190`; `PagesExact` leaves the order of a page out. It adds limit and
  offset in machine integers (`:471`) and panics where the sum is no length of a slice.
* A message that `json.Marshal` refuses, such as one with a NaN, is stored whole
  (`recorder.go:317`), against `docs/guide/api/history.md:101`.
* `readByFile` reads before it locks (`infra/storage/stubs.go:171`, `:182`): of
  two loads of one file the older content may win and stay until the next edit.
  A file edited between the initial load and the start of the watch is not loaded
  either (`:76`).
* In replay and capture mode a stub's own NotFound, and the end of a
  bidirectional script, go upstream like a miss (`grpc_mocker_stream.go:61`).
* A request body longer than 4 KiB reaches the handler cut to 4 KiB plus one byte
  (`deps/gateway_server.go:273`); a cut exactly between two frames passes for the end of
  the stream. `readConnectFrame` reports a body that ends after a frame's header
  as a clean end (`connect_envelope.go:84`, against `:58`).
* A client stream without messages that a stub answers, a server stream that its
  client closes without a message, which returns OK (`grpc_mocker_stream.go:133`), and
  handlers that end with an error before a match leave no record, against
  `docs/guide/api/history.md:3` ("Every gRPC call GripMock serves is recorded").
* Mocked streams return the bare error of their context
  (`grpc_mocker_stream.go:364`) and record its `status.Code`, Unknown (`:312`), while the
  client gets Canceled or DeadlineExceeded. A delay that is cut short has its status.
* The capture and the record of a proxied stream read the upstream's header, which
  blocks while the upstream is silent (`grpc_proxy_common.go:128`, `:138`), against the
  comment above it ("Header() is non-blocking here"): when the guard has given up the
  stream, only its pumps are cancelled. `CallsEnd` names the wait.
* A pump that the guard has cancelled takes and sends one more message, which may come
  after the capture's snapshot and before the record's (`grpc_proxy_stream.go:431`): the
  captured stub and the record may differ by it (`CaptureFaithful`).
* A gRPC-Web stream that ends with OK before any message has no content type.
* The gateway listens before the stubs are loaded.
* A purge of the stubs clears the internal store too (`chain_storage.go:69`), and
  nothing puts the health stubs back: the readiness answer is gone, or is a user's
  stub, against `docs/guide/stubs/health.md:16` and `:23`.
* SDK: when the TTL timer has popped the stub IDs, `Close` deletes nothing and does
  not wait; if the timer's request then fails, the stubs stay and nobody hears of it
  (`remote.go:39`), nor when the test drops the error of its own `Close`, against
  `docs/guide/embedded-sdk/sessions.md:77`. `StubsAccounted` says that these are the only
  ways to leave a stub behind (`stranded`). After the TTL a
  chain that is extended starts over, its counters being wiped with its stubs.
* SDK: a remote server with a session verifies against the records of that session,
  so that an expectation with another `Session` fails although it was called
  (`remote_verify.go:15`). The embedded mode counts the records of all sessions
  (`server_v2.go:177`), against `sessions.md:97` and `:187`.
* SDK: a `Reset` of another test without a session purges everybody's records; a
  verification can then fail although its calls were made (`VerdictTrue`).
* SDK: deletion goes by IDs and looks at no session (`rest_stubs.go:73`), so that tests
  that pin the same `WithID` share one stub, against
  `docs/guide/embedded-sdk/sessions.md:51`.
* SDK: one failed request, a reading one too, keeps every later stub from being sent
  (`remote.go:156`); the test hears of it when it closes.
* SDK: `ServerStreamBuilder.Send` replaces the output and with it headers, trailers and
  the delay (`expect_v2.go:702`).
* Two uploaded files that clash are dropped in the order of a map
  (`grpc_registration.go:289`).

## Proofs

Every theorem is about the specification that the run checks, for all values of
the constants that the assumptions allow: no bound on clients, goroutines, calls,
sessions, files or writes is used.

| Module | Theorem | States |
|---|---|---|
| `StorageProofs` | `StorageInvariant` | `Spec => []StorageInv` |
| | `StoresAgree` | `Spec => []IndexesAgree` |
| | `DeletionsExact` | `Spec => []DeletesExact` |
| | `StorageImplementsTable` | `Spec => ImplementsTable`, the refinement |
| | `ReadsAreExact` | `Spec => []ReadsExact` |
| `SearchProofs` | `TypeCorrect` | `Spec => []TypeOK` |
| | `NothingIsLost` | `Spec => []NothingLost` |
| | `MissesAreGenuine` | `Spec => []NoFalseMiss` |
| | `BestIsServed` | `Spec => []BestAvailable` |
| | `TimesLimitHolds` | `Spec => []TimesRespected` |
| | `SessionsStaySeparate` | `Spec => []SessionsSeparate` |
| `LocksProofs` | `LocksInvariant` | `Spec => []LocksInv` |
| | `DeletionsAreOneStep` | `Spec => []DeletesAtomic` |
| | `OthersNeverDeadlock` | `Spec => []NoDeadlock`, if nobody searches for similar stubs |
| `CallsProofs` | `CallsInvariant` | `Spec => []CallsInv` |
| | `TypeCorrect` | `Spec => []TypeOK` |
| | `OneRecord` | `Spec => []OneStory` |
| | `AllEffectsOrNone` | `Spec => []EffectsWhole` |
| | `CapturesAreFaithful` | `Spec => []CaptureFaithful` |
| | `NoMessageTwice` | `Spec => []MessagesOnce` |
| `WatcherProofs` | `ChannelClosedLast` | `Spec => []NoSendAfterClose` |
| | `FilesStoredWhole` | `Spec => []WholeContents` |
| | `StubsUpdatedInPlace` | `Spec => UpdatedInPlace` |
| `SessionsProofs` | `TypeCorrect` | `Spec => []TypeOK` |
| | `SweepSparesActive` | `Spec => OnlyIdleSwept` |
| `HistoryProofs` | `HistoryInvariant` | `HistorySpec => []HistoryInv` |
| | `TypeCorrect` | `HistorySpec => []TypeOK` |
| | `BudgetHolds` | `HistorySpec => []BudgetKept` |
| | `StoreStaysClean` | `HistorySpec => []StoredMessagesClean` |
| | `OldestEvictedFirst` | `HistorySpec => EvictsOldestOnly` |
| | `PagesAreExact` | `HistorySpec => []PagesExact` |
| `ServerProofs` (`Gateways`) | `TypeCorrect` | `Spec => []Typed` |
| | `ResponsesFramed` | `Spec => []ResponseFramed` |
| | `RequestsDelivered` | `Spec => []RequestDelivered` |
| (`Descriptors`) | `RegistryTypeCorrect` | `RegistrySpec => []RegistryTyped` |
| | `ViewsAreCurrent` | `RegistrySpec => LookupsCurrent` |
| (`Server`) | `ProcessTypeCorrect` | `ProcessSpec => []ProcessTyped` |
| | `ReadyWhenLoaded` | `ProcessSpec => []ReadyAfterLoad` |
| | `RequestsDrained` | `ProcessSpec => []Drained` |
| (`Sdk`) | `SdkInvariantHolds` | `TestSpec => []SdkInvariant` |
| | `StubsStayAccounted` | `TestSpec => []StubsAccounted` |
| | `ChainsAnswerInOrder` | `TestSpec => ChainInOrder` |
| | `VerdictsAreTrue` | `TestSpec => VerdictTrue` |

### What is assumed of the constants

The assumptions are those of the modules, which TLC evaluates in every run:
`StorageAssumption` (stubs are records of the right shape with a known service,
method and session, IDs are numbers, which stand for the byte order of the UUIDs,
priorities are integers, the IDs given and the IDs fresh are finitely many),
`SearchAssumption` (the catalogue and the queries are records of the right shape,
IDs are numbers, the nil values are not among them), `FiniteInputs` (a stub's input
has finitely many fields: specificity counts them), `OperationsAssumption` (what a
goroutine may call is an operation of the searcher), `CallsAssumption` (scripts are
sequences; a unary call has exactly one message and a server-streaming one at most one,
as gRPC and the gateways deliver it; an upstream may answer at least once), `WatcherAssumption` and
`SessionsAssumption` (there is a file, a session; a TTL is positive and the missing
tick is no instant), `ReloadAssumption` (a readable content is a sequence of IDs, an ID
written in one file is written in no other and is none that `uuid.New` returns: what
the loader warns about and does not handle, see "Not modelled"), `HistoryAssumption`
(a masked message and the marker hold no secret; a record takes at least one byte; a
slice is no longer than an int can say),
`DescriptorsAssumption` (a file has a path and services),
`GatewayAssumption` (a frame has at least its header, and a unary request one message,
as the protocols have it), `SdkAssumption` (finitely many callers, since they are
counted; the three sessions differ; a chain has room for its first stub).

### The storage

A store keeps its stubs five times over, so an invariant about stubs alone says
little. An index is compared with its *filings*, the set of triples
<<stub, position, bucket>> that it should hold: `Itemizes` says that each bucket lists
exactly the stubs filed under it, each once, that no bucket or position is empty and
that none is missing. A mutation of one bucket is then one filing more or less
(`Appended`, `Removed`, `Elsewhere`), whatever index it is; `Removed` is where an ID
that two stubs share would make the code drop the wrong one. `Describes` says it of
the four indexes and the session counters at once, `Agree` ties them to `itemsByID`,
and `StorageInv` is `Agree` of both stores, with every bucket of the external
`itemSorted` in priority order (`InOrderBut` no position). It is inductive: each
iteration of upsert takes the previous stub of the ID out of every index before the
new one enters (`Inserted`), and sorting a bucket loses nothing (`ListsSorted`).
Within a batch the positions touched so far may be out of order, which is the second
argument of `InOrderBut`; the sort at the end of upsert empties it (`Resorted`). The
order is strict because no two stubs of a store share an ID, which breaks ties of
priority.

The loops are recursive functions. The library's induction theorem cannot be used
here, since it takes an operator as a parameter; the induction is made instead from
the well-founded order of the naturals (`LeastElement`, `Induct`), as a fact about a
set of numbers. `Upserted` and `Deleted` follow a loop in this way and also say what
it leaves in `itemsByID`: a batch of n stubs writes at most n, one per ID, over it.

From `StorageInv` the rest is read off. `IndexesAgree` counts entries (`EntriesCount`
gives a bijection between the entries of an index and the stubs it files);
`SearchTable` is `itemsByID` (`TableOf`), so that each step is one of the table's, a
batch without IDs and a health stub being stutters (`TableSteps`).

`ReadsExact` needs the order. The buckets that a read gathers are ordered lists of
disjoint sets (`Parted`: those of one position by session, those of two positions
because they differ), and `Merged` follows the loop of `mergeSortedStubs`: what it has
emitted lists what it has taken of both, in order, and comes before all that is left.
So the merge of the parts lists the union of their sets (`PartsMerged`), and that union
is what the read asks for (`Collected`, `Yielded`, `FoundByMethod`; `Resolved` says which
positions posByPN finds and when it finds none).

### The searcher

`TypeOK` is inductive as it stands because it ties control to data: a client
inside a search has a query, one on the path by ID has an ID, one that found a
stub holds one. The other invariants are proved relative to it.

`TimesRespected` is inductive with `TypeOK`: a reservation adds the number
count + 1 under the same lock that tests the limit, a deletion wipes the counter
and the numbers together, and an update changes neither. That a reservation is
made from a stale snapshot does not matter because the limit tested is the
snapshot's.

`NoFalseMiss` is not inductive: it speaks only of the end of a search. The
strengthening `NothingLost` follows the stubs of `available[c]` through the
search. They are always eligible; while `posByPN` looks the service up their position
is found or still to be looked up (`unresolved`, `at`); while the index candidates are
filtered they are among `pending` and `matches`, while reservations are tried they are
among `matches`, and from the similar-stub scan on the index path, in the fallback and
at a miss there are none. From the index probe on this holds of `Lasting` only, the
stubs that are not at a position the probe passed over: the probe is the one step that
loses a stub (finding `SearchIndex`); when the full scan follows, `skipped` is empty
again. A step drops a stub from `pending` or `matches` only
when it finds it exhausted, hidden or gone, and then the stub is not eligible in
that very state and leaves `available` with the same step. But for the skipped
positions this makes the early return with a similar stub safe: an index answer that
contained every lasting stub and led to no reservation leaves none.

`BestAvailable` needs in addition that what a search tries to reserve is of the
query's service as long as any stub stayed available (`RankInv`): only the fallback
leaves the service, and by `NothingLost` nothing is available there. The stub that
a search reserves is the first of its remaining matches; that a finite set of
stubs has one, and one only, is the lemma about `Outranks`.

`SessionsSeparate` follows from the matches a client holds being visible to its
query on every path; the pending candidates of the index path are not.

### The locks

The programs of the operations are compositions, and the proof follows them:
`Bracketed` says that a program locks only what it does not hold, unlocks only
what it holds and ends with nothing; it is kept by concatenation and by putting a
program between the calls of a lock that it does not use. `LocksInv` then relates
`readers`, `queued` and `writer` to what the programs hold. `DeletesAtomic` follows
from `del` and `clear` being enclosed in `searcher.mu`.

`OthersNeverDeadlock` uses one property more, `Shallow`: no lock but `searcher.mu`
is held across another. Every operation has it except the search for a similar stub
(`SimilarBracketed`). Were everybody waiting, nobody would hold a lock other than
`searcher.mu`, so nobody would wait for one, so nobody would hold `searcher.mu`. The
theorem shows that the iterator of `bestSimilarStub` is all that the finding below
`LocksSimilar` takes to be mended.

### The calls

`CallsInv` is a conjunction over the calls, each conjunct a predicate of that
call's own state: its record, its history, what its upstream received, what it
captured and the effects it carried out. `Placed` says where a handler can be and
that nothing is recorded before it is done; `Story` that a record by the mock
excludes every step upstream, and where a record may say Unknown (`Unknowable`); `Carrying` that the effects carried out and those
still to come are what was prepared; `Capturing` how many messages were taken,
passed on, held in the snapshot and captured, while a pump runs and after it: a pump
that is left behind ends with the next message (`Near`); `Splitting` that a stream's messages are those the stub answered
followed by those that went upstream, and that a miss goes upstream with all that
was read. None of the four properties is inductive: a record at the end is the only
one because no step before it could have written one. A handler's step changes the
state of its call alone, so that each step is first a lemma about a record and its
next version (names in *-ing*), then one about the action (*Kept*).

### The history

`HistoryInv` says that the records charge what they take, keep the order of their
arrival, are masked and, if they can be encoded, cut (`Clean`), and that `BudgetKept` holds. It is inductive
because the total can be computed in parts: `SliceTotal` gives the total of a slice as
a difference of two partial sums, so that what the eviction subtracts is what it drops
(`Recording`); `Selection` finds in what a deletion or a filter leaves an increasing map
into what was there, so that order, sizes and masking survive. `Eviction` shows that the
number of records the loop drops exists (dropping all but the newest always ends it) and
is the least; that it is the least is `EvictsOldestOnly`.

`PagesExact` is about the ring alone. After n matches it holds the last `size` of them,
each at the place of its number (`RingHolds`, by induction over the matches): a new one
overwrites exactly the one that is a round older, since places less than a round apart
differ (`RingPlaces`). The rest is the arithmetic of limit, offset and total
(`PageExact`), for windows that a slice can hold; a larger one wraps to a negative
size or exceeds the longest slice, and there is no page (`NoPage`).

### Files, sessions, gateways, the process, descriptors

* `ChannelClosedLast`: the wait group equals the number of timers that are armed,
  fired or sending (`Balanced`). The watcher closes the channel when it is zero, so
  that no callback is left, those of timers that the map has forgotten included.
* `FilesStoredWhole`: while nobody holds `muMapIDs` for a file, its stubs in the storage
  are those that `mapIDsByFile` lists, of the edit that was applied last; while an
  update holds it between its two calls, what is left is part of what it will put
  (`WholeInv`), and what it will put is the file's or nobody's (`LoadInv`): an ID that a
  reload gives is written in the file, was one of its own (`LeftOver` follows the loop of
  `withoutIDs`) or is fresh (`GivenIDs`). Without the last part a put of one file could
  take over a stub of another. `StubsUpdatedInPlace`: what an update deletes is what the
  file has and the new content, with the IDs it was given, has not (`Replacement`).
* `SweepSparesActive`: nothing of a tracked session is newer than its last touch
  (`TouchedBefore`), instants the collectors decide with are past (`PastTicks`), and
  while a collector deletes, what is left of its session was idle for the TTL when it
  was forgotten or came later (`IdleOrNewer`).
* `ResponsesFramed`: `PumpInv` says when a response pump may write: beside a handler
  that waits for it, or left behind by one that then ends with an error. Without such
  a pump every half is put behind its own first half and no message behind an end
  (`Paired`, `Closed`), because the handler's writes exclude the pump's; with it the
  messages behind an end are the halves of the one it was writing (`LateOf`,
  `FrameInv`). `EndInv` counts the halves of the end by where the handler is.
* `RequestsDelivered`: what a handler has and what is left of the body are the client's
  messages from the first on (`BodyInv`), and all of them, or the request is `Short`:
  the client broke off, or its bytes are more than the log keeps. The latter is the
  one place where sizes count: the prefix that the log keeps is all that has arrived,
  or the next frame would not fit (`WholeIs`), and every frame has bytes (`SizeGrows`,
  by induction over the frames).
* `ReadyWhenLoaded`: past the wait for the stubs they are loaded or a signal came.
  `RequestsDrained`: what is registered when `Do` begins starts with the tracer and
  goes on with servers, and what has been taken off the end has closed its server.
* `ViewsAreCurrent`: a look-up under way that read generation g has seen contents that
  fit any view of generation g, the cached one and those about to be stored
  (`SharedInv`): a change of the contents changes the generation.

### The SDK

None of the three properties is inductive: each speaks of the moment between two
operations, of one call or of the end of the test. `SdkInvariant` says what holds at
every request of an operation.

* What the test's goroutine has left to do, `op`, is a plan (`Planned`): a request to
  send comes first, the deletion next to last, the end last. `Due` asks whether a
  step is still to come, whatever stands before it; so each action adds or removes one
  step and every other stays due; `shut` and `drain` are the embedded server's. `Queued` says where stubs can wait at a step of the
  plan, `Awaited` which do.
* `Chained`: an ID is a builder and a link, and one no later than the current builder
  and its last link (`Known`). Stubs of one builder are in one session, and only the last
  has no limit: that is what `fixFirstUnlimited` keeps by declaring the first stub
  anew. The stubs of the server are among them.
* `Accounted`: what the test wants is stored or awaited, and a link is stored only
  behind the links before it. A commit of one session out of several keeps the latter
  because a builder has one session; a refused request breaks the former, and then an
  error is kept. `ChainInOrder` needs `Accounted` and the counters: the call takes the
  stored stub of the lowest link, so every wanted link below it was exhausted.
* `Owned`: a remote test holds the ID of every stub of its server, or the timer or the
  commit under way does, or it is `stranded`: its deletion failed when nobody read the
  error any more. A commit whose answer is lost stores stubs that nobody holds,
  and keeps an error.
* `Counted`: the counters of the server are the matches made (until the TTL is over),
  and the records of the history are these less the callers that still wait (`Waiting`,
  by cardinality), or fewer once another test has purged some (`Lags`). A deletion wipes counters of stubs that the test no longer wants.
* `Judged`: a check that reported nothing has seen the expectations met that were
  declared before it; for the others see `SdkCleanup`. Totals over the
  sessions that the history shows are at most those over all (`Totals`); equal records
  and no caller that waits are equal matches.

### What is only model-checked

* Liveness (`SearchesFinish`, `OperationsReturn`, `IdleIsForgotten`, `ShutdownEnds`,
  `EventsLoaded`, `CallsEnd`, `ShutdownCompletes`) is out of the prover's reach.
* `IndexCompleteAtUsable` and `ListsPairOff`: the matchers are recursive operators.

## Not modelled

* Of the searches: the parallel matching of large candidate sets, header
  matches, streams of several messages, the ranking of matches and of similar
  stubs (in `Search` a rank is a number of the stub), and the searcher's lookup
  cache, which keeps stateless views (its lock is in `SearchLocks`).
* Of the files: IDs written in two stub files, REST calls on the stubs of files,
  directories created while watching, and the polling watcher, which sends
  without looking at its context (`watcher/stub.go:217`).
* Of the calls: what templates and plugins put into a response, metadata,
  handlers of the embedded SDK, the routes to upstreams and how they are dialled,
  recorded delays.
* Of the SDK: what matchers, outputs and effects of an expectation hold, handlers
  that run in the test (`Run`), the start of a server and its wait for health, a
  test that uses one server from several goroutines (`Flush` reads `pending` without
  the lock, `server_v2.go:334`), builders used again after a reset.
* Of the gateways: compression, base64, GET requests, reflection, the mapping of
  headers.
* Health beyond the internal stubs' status: the forms of an answer, `Watch`
  streams and the proxied check.
* REST and MCP handlers: they call the operations that are actions here; parsing,
  validation and the shapes of answers have no state. A purge of the history counts
  and clears in two sections (`rest_dashboard.go:209`, in `History`).
* Proto sources, templates, plugins, faker, configuration, telemetry, TLS: pure
  functions or sequential I/O with no state across calls.

Most of the implementation by lines is code of those last kinds: generated API
types and server glue, the builders of the SDK's matchers and effects, compilation of
protos, faker and plugin tables, configuration, the terminal output. It has no state to model, which is why the modules
stand for about a sixth of the lines.

## Plan

Every safety property that the runs check and that is no property of the recursive
matchers is proved; what a further theorem could say comes with new modules.

Modules to add: ranking and specificity, client streams of several messages and
the polling watcher as a second source of events for `StubReload`.
