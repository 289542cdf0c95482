------------------------------ MODULE Sessions ------------------------------
(***************************************************************************)
(* Session tracking and garbage collection (internal/infra/session,        *)
(* internal/deps/session_gc.go): requests touch their session when they    *)
(* begin and store stubs or call records for it later; the collectors drop *)
(* what belongs to sessions not touched for TTL.  Both the gRPC and the    *)
(* REST server start a collector (deps/grpc_server.go:18,                  *)
(* deps/rest_server.go:66), over the same tracker and stores.              *)
(*                                                                         *)
(* What is stored is its session and the time the request that stored it   *)
(* touched the session; the collectors do not look at anything else.       *)
(* Requests without a session touch nothing, and nothing of theirs is ever *)
(* collected: they are left out.                                           *)
(***************************************************************************)
EXTENDS Naturals, FiniteSets, Functions

CONSTANTS
  Putters,      \* clients that add stubs over REST
  Callers,      \* clients that call a mocked method
  Collectors,   \* goroutines of StartSessionGC
  SessionIDs,   \* the sessions requests name in X-Gripmock-Session
  TTL,          \* SESSION_GC_TTL
  NoTick,       \* an empty ticker channel
  MaxTime       \* bound: the last instant of the clock

Clients == Putters \cup Callers

ASSUME SessionsAssumption ==
  /\ TTL \in Nat \ {0} /\ MaxTime \in Nat /\ NoTick \notin Nat
  /\ SessionIDs # {}

VARIABLES
  clock,     \* time.Now
  lastSeen,  \* Tracker.lastSeen
  stubs,     \* what DeleteSession of the storage removes
  records,   \* what DeleteSession of the history removes
  request,   \* the request a client has in flight
  tick,      \* the ticker channel of a collector, which holds one instant
  gc,        \* where a collector is in cleanupExpiredSessions
  forgotten  \* history: when a collector forgot the session it is at

gcVars == <<tick, gc, forgotten>>
vars == <<clock, lastSeen, stubs, records, request, tick, gc, forgotten>>

NoRequest == [kind |-> "none", session |-> CHOOSE s \in SessionIDs : TRUE, touched |-> 0]
NoSession == [session |-> CHOOSE s \in SessionIDs : TRUE, at |-> 0]
Idle == [at |-> "idle", now |-> 0, expired |-> {}]

----------------------------------------------------------------------------
(* Tracker.                                                                *)

Without(f, k) == Restrict(f, DOMAIN f \ {k})

Touch(session) ==
  lastSeen' = [s \in DOMAIN lastSeen \cup {session} |->
                 IF s = session THEN clock ELSE lastSeen[s]]

\* Fault: the last instant of the TTL counts as alive.
IsExpiredLate(session, now) == now > lastSeen[session] + TTL

IsExpired(session, now) == now >= lastSeen[session] + TTL

Expired(now) == {s \in DOMAIN lastSeen : IsExpired(s, now)}

\* Fault: the snapshot is trusted.
MayForgetUnchecked(session, now) == session \in DOMAIN lastSeen

\* ForgetIfExpired: whether the session is still expired, tested and removed
\* under the tracker's lock.
MayForget(session, now) == session \in DOMAIN lastSeen /\ IsExpired(session, now)

----------------------------------------------------------------------------
(* Requests.                                                               *)

\* The transport takes the session out of the header and touches it.
Begin(c) ==
  /\ request[c] = NoRequest
  /\ \E s \in SessionIDs :
       /\ request' = [request EXCEPT ![c] =
                        [kind |-> IF c \in Putters THEN "put" ELSE "call",
                         session |-> s, touched |-> clock]]
       /\ Touch(s)
  /\ UNCHANGED <<clock, stubs, records, gcVars>>

Item(c) == [session |-> request[c].session, touched |-> request[c].touched]

\* AddStub gives the stubs the session of the request.
PutStub(c) ==
  /\ request[c].kind = "put"
  /\ stubs' = stubs \cup {Item(c)}
  /\ request' = [request EXCEPT ![c] = NoRequest]
  /\ UNCHANGED <<clock, lastSeen, records, gcVars>>

\* recordCall reads the session from the metadata again, which touches it ...
TouchAgain(c) ==
  /\ request[c].kind = "call"
  /\ Touch(request[c].session)
  /\ request' = [request EXCEPT ![c] = [@ EXCEPT !.kind = "record", !.touched = clock]]
  /\ UNCHANGED <<clock, stubs, records, gcVars>>

\* ... and then hands the record to the history.
Record(c) ==
  /\ request[c].kind = "record"
  /\ records' = records \cup {Item(c)}
  /\ request' = [request EXCEPT ![c] = NoRequest]
  /\ UNCHANGED <<clock, lastSeen, stubs, gcVars>>

----------------------------------------------------------------------------
(* Collectors.                                                             *)

\* The ticker drops an instant when the last one has not been received.
Fire(g) ==
  /\ tick[g] = NoTick
  /\ tick' = [tick EXCEPT ![g] = clock]
  /\ UNCHANGED <<clock, lastSeen, stubs, records, request, gc, forgotten>>

Snapshot(g) ==
  /\ gc[g].at = "idle" /\ tick[g] # NoTick
  /\ gc' = [gc EXCEPT ![g] =
              [at |-> "forget", now |-> tick[g], expired |-> Expired(tick[g])]]
  /\ tick' = [tick EXCEPT ![g] = NoTick]
  /\ UNCHANGED <<clock, lastSeen, stubs, records, request, forgotten>>

\* The sessions of a snapshot are visited one by one; here in any order.
ForgetIfExpired(g) ==
  /\ gc[g].at = "forget"
  /\ \E s \in gc[g].expired :
       IF MayForget(s, gc[g].now)
       THEN /\ lastSeen' = Without(lastSeen, s)
            /\ gc' = [gc EXCEPT ![g] = [@ EXCEPT !.at = "stubs", !.expired = gc[g].expired \ {s}]]
            /\ forgotten' = [forgotten EXCEPT ![g] = [session |-> s, at |-> clock]]
       ELSE /\ gc' = [gc EXCEPT ![g].expired = @ \ {s}]
            /\ UNCHANGED <<lastSeen, forgotten>>
  /\ UNCHANGED <<clock, stubs, records, request, tick>>

DeleteStubs(g) ==
  /\ gc[g].at = "stubs"
  /\ stubs' = {x \in stubs : x.session # forgotten[g].session}
  /\ gc' = [gc EXCEPT ![g].at = "history"]
  /\ UNCHANGED <<clock, lastSeen, records, request, tick, forgotten>>

DeleteHistory(g) ==
  /\ gc[g].at = "history"
  /\ records' = {x \in records : x.session # forgotten[g].session}
  /\ gc' = [gc EXCEPT ![g].at = "forget"]
  /\ UNCHANGED <<clock, lastSeen, stubs, request, tick, forgotten>>

EndPass(g) ==
  /\ gc[g].at = "forget" /\ gc[g].expired = {}
  /\ gc' = [gc EXCEPT ![g] = Idle]
  /\ forgotten' = [forgotten EXCEPT ![g] = NoSession]
  /\ UNCHANGED <<clock, lastSeen, stubs, records, request, tick>>

Collect(g) ==
  \/ Snapshot(g) \/ ForgetIfExpired(g) \/ DeleteStubs(g) \/ DeleteHistory(g) \/ EndPass(g)

Tick ==
  /\ clock < MaxTime
  /\ clock' = clock + 1
  /\ UNCHANGED <<lastSeen, stubs, records, request, gcVars>>

Init ==
  /\ clock = 0
  /\ lastSeen = <<>>
  /\ stubs = {} /\ records = {}
  /\ request = [c \in Clients |-> NoRequest]
  /\ tick = [g \in Collectors |-> NoTick]
  /\ gc = [g \in Collectors |-> Idle]
  /\ forgotten = [g \in Collectors |-> NoSession]

Next ==
  \/ \E c \in Clients : Begin(c) \/ PutStub(c) \/ TouchAgain(c) \/ Record(c)
  \/ \E g \in Collectors : Fire(g) \/ Collect(g)
  \/ Tick

Spec == Init /\ [][Next]_vars

\* The tickers keep firing and the collector goroutines keep being scheduled.
FairSpec == Spec /\ \A g \in Collectors : WF_vars(Fire(g)) /\ WF_vars(Collect(g))

----------------------------------------------------------------------------
(* Properties.                                                             *)

Items == [session : SessionIDs, touched : 0..MaxTime]

\* Type invariant.
TypeOK ==
  /\ clock \in 0..MaxTime
  /\ DOMAIN lastSeen \subseteq SessionIDs
  /\ \A s \in DOMAIN lastSeen : lastSeen[s] \in 0..clock
  /\ stubs \subseteq Items /\ records \subseteq Items
  /\ request \in [Clients -> [kind : {"none", "put", "call", "record"},
                              session : SessionIDs, touched : 0..MaxTime]]
  /\ tick \in [Collectors -> 0..MaxTime \cup {NoTick}]
  /\ gc \in [Collectors -> [at : {"idle", "forget", "stubs", "history"},
                            now : 0..MaxTime, expired : SUBSET SessionIDs]]
  /\ forgotten \in [Collectors -> [session : SessionIDs, at : 0..MaxTime]]

\* A session is forgotten only when nobody has touched it for TTL by the clock
\* of that moment, although the collector decides with the instant of a tick
\* it received before, on a snapshot it took before, next to another collector;
\* and what a collector deletes belongs to a session that was idle when it was
\* forgotten: a request that touched the session before the collector got to
\* it keeps its data (tracker.go:30).
OnlyIdleSwept ==
  [][/\ \A s \in DOMAIN lastSeen \ DOMAIN lastSeen' : clock >= lastSeen[s] + TTL
     /\ \A x \in (stubs \ stubs') \cup (records \ records') :
          \E g \in Collectors :
            /\ forgotten[g].session = x.session /\ gc[g].at \in {"stubs", "history"}
            /\ x.touched >= forgotten[g].at \/ x.touched + TTL <= forgotten[g].at]_vars

\* A session that stays idle is forgotten, whichever ticks were dropped.
IdleIsForgotten ==
  \A s \in SessionIDs :
    (s \in DOMAIN lastSeen /\ clock = MaxTime /\ lastSeen[s] + TTL <= clock)
      ~> (s \notin DOMAIN lastSeen \/ lastSeen[s] + TTL > clock)
=============================================================================
