--------------------------- MODULE SessionsProofs ---------------------------
(***************************************************************************)
(* Proofs about the session tracker and its collectors, for any number of  *)
(* clients, collectors and sessions, any TTL and any span of time.         *)
(***************************************************************************)
EXTENDS Sessions, TLAPS

Active == {c \in Clients : request[c].kind # "none"}

\* What carries the time of a touch: stored stubs and records, and requests
\* that are still to store theirs.
Data == stubs \cup records \cup {Item(c) : c \in Active}

\* Collectors decide with instants of the past.
PastTicks ==
  \A g \in Collectors :
    /\ gc[g].now <= clock
    /\ tick[g] # NoTick => tick[g] <= clock

\* While a session is tracked, nothing of it is newer than its last touch.
TouchedBefore ==
  \A x \in Data :
    /\ x.touched <= clock
    /\ x.session \in DOMAIN lastSeen => x.touched <= lastSeen[x.session]

\* Nothing of a forgotten session is younger than the TTL, but for what came
\* after the collector forgot it.
IdleOrNewer ==
  \A g \in Collectors : gc[g].at \in {"stubs", "history"} =>
    /\ forgotten[g].at <= clock
    /\ \A x \in Data : x.session = forgotten[g].session =>
         x.touched >= forgotten[g].at \/ x.touched + TTL <= forgotten[g].at

SweepInv == PastTicks /\ TouchedBefore /\ IdleOrNewer

----------------------------------------------------------------------------
(* What a step may do.                                                     *)

\* The tracker's two operations.
LEMMA TouchEffect ==
  ASSUME NEW s, Touch(s)
  PROVE  /\ DOMAIN lastSeen' = DOMAIN lastSeen \cup {s}
         /\ lastSeen'[s] = clock
         /\ \A r \in DOMAIN lastSeen \ {s} : lastSeen'[r] = lastSeen[r]
BY DEF Touch

LEMMA TouchTyped ==
  ASSUME TypeOK, NEW s \in SessionIDs, Touch(s)
  PROVE  /\ DOMAIN lastSeen' \subseteq SessionIDs
         /\ \A r \in DOMAIN lastSeen' : lastSeen'[r] \in 0..clock
<1>1. /\ DOMAIN lastSeen' = DOMAIN lastSeen \cup {s} /\ lastSeen'[s] = clock
      /\ \A r \in DOMAIN lastSeen \ {s} : lastSeen'[r] = lastSeen[r]
  BY TouchEffect
<1>2. clock \in 0..clock /\ \A r \in DOMAIN lastSeen : lastSeen[r] \in 0..clock
  BY SessionsAssumption DEF TypeOK
<1>3. DOMAIN lastSeen \subseteq SessionIDs
  BY DEF TypeOK
<1> QED
  BY <1>1, <1>2, <1>3

LEMMA WithoutEffect ==
  ASSUME NEW s, lastSeen' = Without(lastSeen, s)
  PROVE  /\ DOMAIN lastSeen' = DOMAIN lastSeen \ {s}
         /\ \A r \in DOMAIN lastSeen \ {s} : lastSeen'[r] = lastSeen[r]
BY DEF Without, Restrict

\* The values of the history variables and of free clients and collectors.
LEMMA NothingTyped ==
  /\ NoRequest \in [kind : {"none", "put", "call", "record"},
                    session : SessionIDs, touched : 0..MaxTime]
  /\ NoSession \in [session : SessionIDs, at : 0..MaxTime]
  /\ Idle \in [at : {"idle", "forget", "stubs", "history"},
               now : 0..MaxTime, expired : SUBSET SessionIDs]
<1>1. (CHOOSE s \in SessionIDs : TRUE) \in SessionIDs
  BY SessionsAssumption
<1>2. 0 \in 0..MaxTime
  BY SessionsAssumption
<1> QED
  BY <1>1, <1>2 DEF NoRequest, NoSession, Idle

Passes == [at : {"idle", "forget", "stubs", "history"},
           now : 0..MaxTime, expired : SUBSET SessionIDs]

\* A pass over the expired sessions moves on.
LEMMA PassTyped ==
  ASSUME NEW r \in Passes, NEW at \in {"idle", "forget", "stubs", "history"},
         NEW rest \in SUBSET SessionIDs
  PROVE  /\ [r EXCEPT !.at = at] \in Passes
         /\ [r EXCEPT !.expired = rest] \in Passes
         /\ [r EXCEPT !.at = at, !.expired = rest] \in Passes
<1>1. r \in [at : {"idle", "forget", "stubs", "history"},
             now : 0..MaxTime, expired : SUBSET SessionIDs]
  BY DEF Passes
<1>2. [r EXCEPT !.at = at] \in Passes
  BY <1>1 DEF Passes
<1>3. [r EXCEPT !.expired = rest] \in Passes
  BY <1>1 DEF Passes
<1>4. [r EXCEPT !.at = at, !.expired = rest] \in Passes
  BY <1>1 DEF Passes
<1> QED
  BY <1>2, <1>3, <1>4

\* The state of the tracker and of the collectors keeps its type.
THEOREM TypeCorrect == Spec => []TypeOK
<1> USE SessionsAssumption
<1>1. Init => TypeOK
  BY NothingTyped DEF Init, TypeOK
<1>2. TypeOK /\ [Next]_vars => TypeOK'
  <2> SUFFICES ASSUME TypeOK, [Next]_vars PROVE TypeOK'
    OBVIOUS
  <2>n. NoRequest \in [kind : {"none", "put", "call", "record"},
                       session : SessionIDs, touched : 0..MaxTime]
    BY NothingTyped
  <2> USE DEF gcVars
  <2>1. ASSUME NEW c \in Clients, NEW s \in SessionIDs, Begin(c), Touch(s),
               request' = [request EXCEPT ![c] =
                             [kind |-> IF c \in Putters THEN "put" ELSE "call",
                              session |-> s, touched |-> clock]]
        PROVE  TypeOK'
    <3>1. /\ DOMAIN lastSeen' \subseteq SessionIDs
          /\ \A r \in DOMAIN lastSeen' : lastSeen'[r] \in 0..clock
      BY <2>1, TouchTyped
    <3>2. request' \in [Clients -> [kind : {"none", "put", "call", "record"},
                                    session : SessionIDs, touched : 0..MaxTime]]
      BY <2>1 DEF TypeOK
    <3> QED
      BY <2>1, <3>1, <3>2 DEF Begin, TypeOK
  <2>2. ASSUME NEW c \in Clients, PutStub(c) \/ Record(c) PROVE TypeOK'
    <3>1. Item(c) \in Items
      BY DEF Item, Items, TypeOK
    <3> QED
      BY <2>2, <2>n, <3>1 DEF PutStub, Record, TypeOK
  <2>3. ASSUME NEW c \in Clients, TouchAgain(c) PROVE TypeOK'
    <3>1. request[c].session \in SessionIDs
      BY DEF TypeOK
    <3>2. /\ DOMAIN lastSeen' \subseteq SessionIDs
          /\ \A r \in DOMAIN lastSeen' : lastSeen'[r] \in 0..clock
      BY <2>3, <3>1, TouchTyped DEF TouchAgain
    <3>3. request' \in [Clients -> [kind : {"none", "put", "call", "record"},
                                    session : SessionIDs, touched : 0..MaxTime]]
      BY <2>3 DEF TouchAgain, TypeOK
    <3> QED
      BY <2>3, <3>1, <3>2, <3>3 DEF TouchAgain, TypeOK
  <2>4. ASSUME NEW g \in Collectors, Fire(g) PROVE TypeOK'
    BY <2>4 DEF Fire, TypeOK
  <2>5. ASSUME NEW g \in Collectors, Snapshot(g) PROVE TypeOK'
    BY <2>5 DEF Snapshot, TypeOK, Expired
  <2>6. ASSUME NEW g \in Collectors, ForgetIfExpired(g) PROVE TypeOK'
    <3>1. PICK s \in gc[g].expired :
             IF MayForget(s, gc[g].now)
             THEN /\ lastSeen' = Without(lastSeen, s)
                  /\ gc' = [gc EXCEPT ![g] = [@ EXCEPT !.at = "stubs", !.expired = gc[g].expired \ {s}]]
                  /\ forgotten' = [forgotten EXCEPT ![g] = [session |-> s, at |-> clock]]
             ELSE /\ gc' = [gc EXCEPT ![g].expired = @ \ {s}]
                  /\ UNCHANGED <<lastSeen, forgotten>>
      BY <2>6 DEF ForgetIfExpired
    <3>2. s \in SessionIDs
      BY DEF TypeOK
    <3>3. /\ DOMAIN lastSeen' \subseteq SessionIDs
          /\ \A r \in DOMAIN lastSeen' : lastSeen'[r] \in 0..clock
      BY <3>1, WithoutEffect DEF TypeOK
    <3>4. gc' \in [Collectors -> Passes]
      <4>1. gc \in [Collectors -> Passes]
        BY DEF TypeOK, Passes
      <4> DEFINE rest == gc[g].expired \ {s}
      <4>2. rest \in SUBSET SessionIDs
        BY DEF TypeOK
      <4>3. \/ gc' = [gc EXCEPT ![g].expired = rest]
            \/ gc' = [gc EXCEPT ![g] = [gc[g] EXCEPT !.at = "stubs", !.expired = rest]]
        BY <3>1
      <4> HIDE DEF rest
      <4>4. /\ [gc[g] EXCEPT !.expired = rest] \in Passes
            /\ [gc[g] EXCEPT !.at = "stubs", !.expired = rest] \in Passes
        BY <4>1, <4>2, PassTyped
      <4> QED
        BY <4>1, <4>3, <4>4
    <3>5. forgotten' \in [Collectors -> [session : SessionIDs, at : 0..MaxTime]]
      BY <3>1, <3>2 DEF TypeOK
    <3> QED
      BY <2>6, <3>3, <3>4, <3>5 DEF ForgetIfExpired, TypeOK, Passes
  <2>7. ASSUME NEW g \in Collectors, DeleteStubs(g) \/ DeleteHistory(g) PROVE TypeOK'
    <3>1. gc' \in [Collectors -> Passes]
      <4>1. gc \in [Collectors -> Passes]
        BY DEF TypeOK, Passes
      <4>2. PICK at \in {"idle", "forget", "stubs", "history"} :
               gc' = [gc EXCEPT ![g] = [gc[g] EXCEPT !.at = at]]
        BY <2>7 DEF DeleteStubs, DeleteHistory
      <4>3. [gc[g] EXCEPT !.at = at] \in Passes
        BY <4>1, PassTyped
      <4> QED
        BY <4>1, <4>2, <4>3
    <3>2. stubs' \subseteq stubs /\ records' \subseteq records
      BY <2>7 DEF DeleteStubs, DeleteHistory
    <3> QED
      BY <2>7, <3>1, <3>2 DEF DeleteStubs, DeleteHistory, TypeOK, Passes
  <2>8. ASSUME NEW g \in Collectors, EndPass(g) PROVE TypeOK'
    BY <2>8, NothingTyped DEF EndPass, TypeOK
  <2>9. CASE Tick
    BY <2>9 DEF Tick, TypeOK
  <2>10. CASE UNCHANGED vars
    BY <2>10 DEF vars, TypeOK
  <2> QED
    BY <2>1, <2>2, <2>3, <2>4, <2>5, <2>6, <2>7, <2>8, <2>9, <2>10
    DEF Next, Collect, Begin
<1> QED
  BY <1>1, <1>2, PTL DEF Spec

----------------------------------------------------------------------------
(* The sweep.                                                              *)

\* Times of touches and of decisions are instants of the clock.
LEMMA DataTyped == TypeOK => Data \subseteq [session : SessionIDs, touched : Nat]
BY SessionsAssumption DEF TypeOK, Data, Active, Item, Items

\* Data that a step adds was touched by that step.
LEMMA DataStep ==
  ASSUME TypeOK, [Next]_vars, NEW x \in Data'
  PROVE  x \in Data \/ (x.touched = clock /\ clock' = clock /\ lastSeen'[x.session] = clock)
<1> USE DEF gcVars
<1>1. ASSUME NEW c \in Clients, NEW s \in SessionIDs, Begin(c), Touch(s),
             request' = [request EXCEPT ![c] =
                           [kind |-> IF c \in Putters THEN "put" ELSE "call",
                            session |-> s, touched |-> clock]]
      PROVE  x \in Data \/ (x.touched = clock /\ clock' = clock /\ lastSeen'[x.session] = clock)
  <2>1. lastSeen'[s] = clock
    BY <1>1, TouchEffect
  <2>2. stubs' = stubs /\ records' = records /\ clock' = clock
    BY <1>1 DEF Begin
  <2>3. Item(c)' = [session |-> s, touched |-> clock]
    BY <1>1 DEF Item, TypeOK
  <2>4. \A d \in Clients \ {c} : request'[d] = request[d]
    BY <1>1 DEF TypeOK
  <2> QED
    BY <2>1, <2>2, <2>3, <2>4 DEF Data, Active, Item
<1>2. ASSUME NEW c \in Clients, PutStub(c) \/ Record(c) PROVE x \in Data
  <2>1. stubs' \cup records' \subseteq stubs \cup records \cup {Item(c)}
    BY <1>2 DEF PutStub, Record
  <2>2. c \in Active
    BY <1>2 DEF PutStub, Record, Active
  <2>3. request' = [request EXCEPT ![c] = NoRequest]
    BY <1>2 DEF PutStub, Record
  <2>4. Active' = Active \ {c} /\ \A d \in Clients \ {c} : request'[d] = request[d]
    BY <2>3 DEF Active, NoRequest, TypeOK
  <2> QED
    BY <2>1, <2>2, <2>4 DEF Data, Active, Item
<1>3. ASSUME NEW c \in Clients, TouchAgain(c)
      PROVE  x \in Data \/ (x.touched = clock /\ clock' = clock /\ lastSeen'[x.session] = clock)
  <2>1. lastSeen'[request[c].session] = clock
    BY <1>3, TouchEffect DEF TouchAgain
  <2>2. stubs' = stubs /\ records' = records /\ clock' = clock
    BY <1>3 DEF TouchAgain
  <2>3. Item(c)' = [session |-> request[c].session, touched |-> clock]
    BY <1>3 DEF TouchAgain, Item, TypeOK
  <2>4. \A d \in Clients \ {c} : request'[d] = request[d]
    BY <1>3 DEF TouchAgain, TypeOK
  <2> QED
    BY <2>1, <2>2, <2>3, <2>4 DEF Data, Active, Item
<1>4. ASSUME UNCHANGED request, stubs' \subseteq stubs, records' \subseteq records
      PROVE  x \in Data
  BY <1>4 DEF Data, Active, Item
<1>5. ASSUME NEW g \in Collectors, Fire(g) \/ Collect(g) PROVE x \in Data
  BY <1>4, <1>5 DEF Fire, Collect, Snapshot, ForgetIfExpired, DeleteStubs, DeleteHistory, EndPass
<1>6. CASE Tick \/ UNCHANGED vars
  BY <1>4, <1>6 DEF Tick, vars
<1> QED
  BY <1>1, <1>2, <1>3, <1>5, <1>6 DEF Next, Begin

\* Time does not go back, and the tracker only takes note of the present.
LEMMA TrackerStep ==
  ASSUME TypeOK, [Next]_vars
  PROVE  /\ clock' >= clock
         /\ \A s \in DOMAIN lastSeen' :
              lastSeen'[s] = clock \/ (s \in DOMAIN lastSeen /\ lastSeen'[s] = lastSeen[s])
<1> USE SessionsAssumption DEF gcVars
<1>1. ASSUME NEW s, Touch(s), UNCHANGED clock
      PROVE  /\ clock' >= clock
             /\ \A r \in DOMAIN lastSeen' :
                  lastSeen'[r] = clock \/ (r \in DOMAIN lastSeen /\ lastSeen'[r] = lastSeen[r])
  <2>1. DOMAIN lastSeen' = DOMAIN lastSeen \cup {s} /\ lastSeen'[s] = clock
        /\ \A r \in DOMAIN lastSeen \ {s} : lastSeen'[r] = lastSeen[r]
    BY <1>1, TouchEffect
  <2>2. clock' >= clock
    BY <1>1 DEF TypeOK
  <2> QED
    BY <2>1, <2>2
<1>2. ASSUME NEW g \in Collectors, ForgetIfExpired(g)
      PROVE  /\ clock' >= clock
             /\ \A r \in DOMAIN lastSeen' : r \in DOMAIN lastSeen /\ lastSeen'[r] = lastSeen[r]
  <2>1. clock' >= clock
    BY <1>2 DEF ForgetIfExpired, TypeOK
  <2>2. CASE lastSeen' = lastSeen
    BY <2>1, <2>2
  <2>3. CASE \E s : lastSeen' = Without(lastSeen, s)
    BY <2>1, <2>3, WithoutEffect
  <2> QED
    BY <1>2, <2>2, <2>3 DEF ForgetIfExpired
<1>3. CASE Tick
  BY <1>3 DEF Tick, TypeOK
<1>4. CASE UNCHANGED <<clock, lastSeen>>
  BY <1>4 DEF TypeOK
<1>5. ASSUME NEW c \in Clients, PutStub(c) \/ Record(c) PROVE UNCHANGED <<clock, lastSeen>>
  BY <1>5 DEF PutStub, Record
<1>6. ASSUME NEW g \in Collectors,
             Fire(g) \/ Snapshot(g) \/ DeleteStubs(g) \/ DeleteHistory(g) \/ EndPass(g)
      PROVE  UNCHANGED <<clock, lastSeen>>
  BY <1>6 DEF Fire, Snapshot, DeleteStubs, DeleteHistory, EndPass
<1>7. CASE UNCHANGED vars
  BY <1>4, <1>7 DEF vars
<1> QED
  BY <1>1, <1>2, <1>3, <1>4, <1>5, <1>6, <1>7 DEF Next, Collect, Begin, TouchAgain

\* A collector comes to delete by forgetting a session that is expired now.
LEMMA CollectorStep ==
  ASSUME TypeOK, PastTicks, [Next]_vars, NEW g \in Collectors,
         gc'[g].at \in {"stubs", "history"}
  PROVE  \/ gc[g].at \in {"stubs", "history"} /\ forgotten'[g] = forgotten[g]
         \/ /\ forgotten'[g].at = clock
            /\ forgotten'[g].session \in DOMAIN lastSeen
            /\ lastSeen[forgotten'[g].session] + TTL <= clock
<1> USE DEF gcVars
<1>1. ASSUME ForgetIfExpired(g), gc[g].at \notin {"stubs", "history"}
      PROVE  /\ forgotten'[g].at = clock
             /\ forgotten'[g].session \in DOMAIN lastSeen
             /\ lastSeen[forgotten'[g].session] + TTL <= clock
  <2>1. PICK s \in gc[g].expired : MayForget(s, gc[g].now) /\
           forgotten' = [forgotten EXCEPT ![g] = [session |-> s, at |-> clock]]
    BY <1>1 DEF ForgetIfExpired, TypeOK
  <2>2. forgotten'[g] = [session |-> s, at |-> clock]
    BY <2>1 DEF TypeOK
  <2>3. s \in DOMAIN lastSeen /\ gc[g].now >= lastSeen[s] + TTL /\ gc[g].now <= clock
    BY <2>1 DEF MayForget, IsExpired, PastTicks
  <2>4. gc[g].now \in Nat /\ lastSeen[s] \in Nat /\ clock \in Nat /\ TTL \in Nat
    BY <2>3, SessionsAssumption DEF TypeOK
  <2> QED
    BY <2>2, <2>3, <2>4
<1>2. ASSUME NEW h \in Collectors \ {g}, ForgetIfExpired(h)
      PROVE  gc'[g] = gc[g] /\ forgotten'[g] = forgotten[g]
  BY <1>2 DEF ForgetIfExpired, TypeOK
<1>3. ASSUME NEW h \in Collectors, Snapshot(h) \/ DeleteStubs(h) \/ DeleteHistory(h) \/ EndPass(h)
      PROVE  gc[g].at \in {"stubs", "history"} /\ forgotten'[g] = forgotten[g]
  BY <1>3 DEF Snapshot, DeleteStubs, DeleteHistory, EndPass, Idle, TypeOK
<1>4. ASSUME NEW h \in Collectors, Fire(h) PROVE UNCHANGED <<gc, forgotten>>
  BY <1>4 DEF Fire
<1>5. ASSUME NEW c \in Clients, Begin(c) \/ PutStub(c) \/ TouchAgain(c) \/ Record(c)
      PROVE  UNCHANGED <<gc, forgotten>>
  BY <1>5 DEF Begin, PutStub, TouchAgain, Record
<1>6. CASE Tick \/ UNCHANGED vars
  BY <1>6 DEF Tick, vars
<1>7. CASE ForgetIfExpired(g) /\ gc[g].at \in {"stubs", "history"}
  BY <1>7 DEF ForgetIfExpired
<1>8. CASE UNCHANGED <<gc, forgotten>>
  BY <1>8
<1>9. CASE \E h \in Collectors : Collect(h)
  BY <1>1, <1>2, <1>3, <1>7, <1>9 DEF Collect
<1> QED
  BY <1>4, <1>5, <1>6, <1>8, <1>9 DEF Next

\* The three parts of the invariant, through any step.
LEMMA SweepStep ==
  ASSUME TypeOK, SweepInv, [Next]_vars, TypeOK' PROVE SweepInv'
<1> USE SessionsAssumption
<1>c. clock \in Nat /\ clock' \in Nat /\ clock' >= clock /\ TTL \in Nat
  BY TrackerStep DEF TypeOK
<1>d. \A x \in Data \cup Data' : x.touched \in Nat
  <2>1. \A x \in Data : x.touched \in Nat
    BY DataTyped
  <2>2. \A x \in Data' : x \in Data \/ x.touched = clock
    BY DataStep
  <2> QED
    BY <1>c, <2>1, <2>2
<1>1. PastTicks'
  <2> USE DEF gcVars
  <2>1. ASSUME NEW g \in Collectors
        PROVE  /\ gc'[g].now = gc[g].now \/ gc'[g].now = 0
                  \/ (gc'[g].now = tick[g] /\ tick[g] # NoTick)
               /\ tick'[g] = tick[g] \/ tick'[g] = NoTick \/ tick'[g] = clock
    <3>1. ASSUME NEW h \in Collectors, Snapshot(h) \/ Fire(h)
          PROVE  /\ gc'[g].now = gc[g].now \/ (gc'[g].now = tick[g] /\ tick[g] # NoTick)
                 /\ tick'[g] = tick[g] \/ tick'[g] = NoTick \/ tick'[g] = clock
      BY <3>1 DEF Snapshot, Fire, TypeOK
    <3>2. ASSUME NEW h \in Collectors,
                 ForgetIfExpired(h) \/ DeleteStubs(h) \/ DeleteHistory(h) \/ EndPass(h)
          PROVE  gc'[g].now \in {gc[g].now, 0} /\ tick'[g] = tick[g]
      <4>1. CASE ForgetIfExpired(h)
        <5>1. PICK rest : \/ gc' = [gc EXCEPT ![h].expired = rest]
                          \/ gc' = [gc EXCEPT ![h] = [@ EXCEPT !.at = "stubs", !.expired = rest]]
          BY <4>1 DEF ForgetIfExpired
        <5>2. gc'[g].now = gc[g].now
          <6> DEFINE r == gc[h]
          <6>1. r \in [at : {"idle", "forget", "stubs", "history"},
                       now : 0..MaxTime, expired : SUBSET SessionIDs]
            BY DEF TypeOK
          <6>2. /\ [r EXCEPT !.expired = rest].now = r.now
                /\ [r EXCEPT !.at = "stubs", !.expired = rest].now = r.now
            BY <6>1
          <6>3. \/ gc' = [gc EXCEPT ![h] = [r EXCEPT !.expired = rest]]
                \/ gc' = [gc EXCEPT ![h] = [r EXCEPT !.at = "stubs", !.expired = rest]]
            BY <5>1
          <6>4. DOMAIN gc = Collectors
            BY DEF TypeOK
          <6> HIDE DEF r
          <6>5. CASE g = h
            BY <6>2, <6>3, <6>4, <6>5 DEF r
          <6>6. CASE g # h
            BY <6>3, <6>4, <6>6
          <6> QED
            BY <6>5, <6>6
        <5> QED
          BY <4>1, <5>2 DEF ForgetIfExpired
      <4>2. CASE DeleteStubs(h) \/ DeleteHistory(h) \/ EndPass(h)
        BY <4>2 DEF DeleteStubs, DeleteHistory, EndPass, Idle, TypeOK
      <4> QED
        BY <3>2, <4>1, <4>2
    <3>3. ASSUME NEW c \in Clients, Begin(c) \/ PutStub(c) \/ TouchAgain(c) \/ Record(c)
          PROVE  UNCHANGED <<gc, tick>>
      BY <3>3 DEF Begin, PutStub, TouchAgain, Record
    <3>4. CASE Tick \/ UNCHANGED vars
      BY <3>4 DEF Tick, vars
    <3> QED
      BY <3>1, <3>2, <3>3, <3>4 DEF Next, Collect
  <2>2. ASSUME NEW g \in Collectors
        PROVE  gc[g].now <= clock /\ gc[g].now \in Nat /\ (tick[g] # NoTick => tick[g] <= clock)
    BY DEF SweepInv, PastTicks, TypeOK
  <2>3. ASSUME NEW g \in Collectors PROVE tick[g] # NoTick => tick[g] \in Nat
    BY DEF TypeOK
  <2> QED
    BY <1>c, <2>1, <2>2, <2>3 DEF PastTicks
<1>2. TouchedBefore'
  <2> SUFFICES ASSUME NEW x \in Data'
               PROVE  /\ x.touched <= clock'
                      /\ x.session \in DOMAIN lastSeen' => x.touched <= lastSeen'[x.session]
    BY DEF TouchedBefore
  <2>1. CASE x \in Data
    <3>1. x.touched <= clock /\ (x.session \in DOMAIN lastSeen => x.touched <= lastSeen[x.session])
      BY <2>1 DEF SweepInv, TouchedBefore
    <3>2. x.session \in DOMAIN lastSeen' =>
            \/ lastSeen'[x.session] = clock
            \/ x.session \in DOMAIN lastSeen /\ lastSeen'[x.session] = lastSeen[x.session]
      BY TrackerStep
    <3> QED
      BY <1>c, <1>d, <3>1, <3>2
  <2>2. CASE x.touched = clock /\ clock' = clock /\ lastSeen'[x.session] = clock
    BY <1>c, <2>2
  <2> QED
    BY <2>1, <2>2, DataStep
<1>3. IdleOrNewer'
  <2> SUFFICES ASSUME NEW g \in Collectors, gc'[g].at \in {"stubs", "history"}
               PROVE  /\ forgotten'[g].at <= clock'
                      /\ \A x \in Data' : x.session = forgotten'[g].session =>
                           \/ x.touched >= forgotten'[g].at
                           \/ x.touched + TTL <= forgotten'[g].at
    BY DEF IdleOrNewer
  <2>f. forgotten[g].at \in Nat /\ forgotten'[g].at \in Nat
    BY DEF TypeOK
  <2>1. CASE gc[g].at \in {"stubs", "history"} /\ forgotten'[g] = forgotten[g]
    <3>1. /\ forgotten[g].at <= clock
          /\ \A x \in Data : x.session = forgotten[g].session =>
               x.touched >= forgotten[g].at \/ x.touched + TTL <= forgotten[g].at
      BY <2>1 DEF SweepInv, IdleOrNewer
    <3>2. \A x \in Data' : x \in Data \/ x.touched = clock
      BY DataStep
    <3> QED
      BY <1>c, <2>f, <2>1, <3>1, <3>2
  <2>2. CASE /\ forgotten'[g].at = clock
             /\ forgotten'[g].session \in DOMAIN lastSeen
             /\ lastSeen[forgotten'[g].session] + TTL <= clock
    <3>1. ASSUME NEW x \in Data', x.session = forgotten'[g].session
          PROVE  x.touched >= clock \/ x.touched + TTL <= clock
      <4>1. CASE x \in Data
        <5>1. x.touched <= lastSeen[x.session] /\ lastSeen[x.session] + TTL <= clock
          BY <2>2, <3>1, <4>1 DEF SweepInv, TouchedBefore
        <5>2. x.touched \in Nat /\ lastSeen[x.session] \in Nat
          BY <1>d, <2>2, <3>1 DEF TypeOK
        <5> QED
          BY <1>c, <5>1, <5>2
      <4>2. CASE x.touched = clock
        BY <1>c, <4>2
      <4> QED
        BY <4>1, <4>2, DataStep
    <3> QED
      BY <1>c, <2>2, <3>1
  <2> QED
    BY <2>1, <2>2, CollectorStep DEF SweepInv
<1> QED
  BY <1>1, <1>2, <1>3 DEF SweepInv

\* Whatever requests and however many collectors run, a session is forgotten
\* only once it was idle for the TTL, and what is deleted for it was idle then
\* or came after: no request in between loses what it had touched in time.
THEOREM SweepSparesActive == Spec => OnlyIdleSwept
<1> DEFINE Spared ==
      /\ \A s \in DOMAIN lastSeen \ DOMAIN lastSeen' : clock >= lastSeen[s] + TTL
      /\ \A x \in (stubs \ stubs') \cup (records \ records') :
           \E g \in Collectors :
             /\ forgotten[g].session = x.session /\ gc[g].at \in {"stubs", "history"}
             /\ x.touched >= forgotten[g].at \/ x.touched + TTL <= forgotten[g].at
<1>1. Init => SweepInv
  BY SessionsAssumption DEF Init, SweepInv, PastTicks, TouchedBefore, IdleOrNewer,
                            Data, Active, Idle, NoRequest
<1>2. TypeOK /\ SweepInv /\ [Next]_vars /\ TypeOK' => SweepInv'
  BY SweepStep
<1>3. TypeOK /\ SweepInv /\ [Next]_vars => [Spared]_vars
  <2> SUFFICES ASSUME TypeOK, SweepInv, Next PROVE Spared
    OBVIOUS
  <2> USE DEF gcVars
  <2>1. ASSUME NEW s \in DOMAIN lastSeen \ DOMAIN lastSeen' PROVE clock >= lastSeen[s] + TTL
    <3>1. ASSUME NEW r, Touch(r) PROVE FALSE
      BY <2>1, <3>1, TouchEffect
    <3>2. ASSUME NEW g \in Collectors, ForgetIfExpired(g) PROVE clock >= lastSeen[s] + TTL
      <4>1. PICK r \in gc[g].expired : MayForget(r, gc[g].now) /\ lastSeen' = Without(lastSeen, r)
        BY <2>1, <3>2 DEF ForgetIfExpired
      <4>2. s = r
        BY <2>1, <4>1, WithoutEffect
      <4>3. gc[g].now >= lastSeen[s] + TTL /\ gc[g].now <= clock
        BY <4>1, <4>2 DEF MayForget, IsExpired, SweepInv, PastTicks
      <4>4. gc[g].now \in Nat /\ lastSeen[s] \in Nat /\ clock \in Nat /\ TTL \in Nat
        BY SessionsAssumption DEF TypeOK
      <4> QED
        BY <4>3, <4>4
    <3>3. ASSUME NEW c \in Clients, PutStub(c) \/ Record(c) PROVE FALSE
      BY <2>1, <3>3 DEF PutStub, Record
    <3>4. ASSUME NEW g \in Collectors,
                 Fire(g) \/ Snapshot(g) \/ DeleteStubs(g) \/ DeleteHistory(g) \/ EndPass(g)
          PROVE  FALSE
      BY <2>1, <3>4 DEF Fire, Snapshot, DeleteStubs, DeleteHistory, EndPass
    <3>5. CASE Tick
      BY <2>1, <3>5 DEF Tick
    <3> QED
      BY <3>1, <3>2, <3>3, <3>4, <3>5 DEF Next, Collect, Begin, TouchAgain
  <2>2. ASSUME NEW x \in (stubs \ stubs') \cup (records \ records')
        PROVE  \E g \in Collectors :
                 /\ forgotten[g].session = x.session /\ gc[g].at \in {"stubs", "history"}
                 /\ x.touched >= forgotten[g].at \/ x.touched + TTL <= forgotten[g].at
    <3>1. x \in Data
      BY DEF Data
    <3>2. ASSUME NEW g \in Collectors, DeleteStubs(g) \/ DeleteHistory(g)
          PROVE  forgotten[g].session = x.session /\ gc[g].at \in {"stubs", "history"}
      BY <2>2, <3>2 DEF DeleteStubs, DeleteHistory
    <3>3. \E g \in Collectors : DeleteStubs(g) \/ DeleteHistory(g)
      <4>1. ASSUME NEW c \in Clients, Begin(c) \/ PutStub(c) \/ TouchAgain(c) \/ Record(c)
            PROVE  FALSE
        BY <2>2, <4>1 DEF Begin, PutStub, TouchAgain, Record
      <4>2. ASSUME NEW g \in Collectors,
                   Fire(g) \/ Snapshot(g) \/ ForgetIfExpired(g) \/ EndPass(g)
            PROVE  FALSE
        BY <2>2, <4>2 DEF Fire, Snapshot, ForgetIfExpired, EndPass
      <4>3. ~Tick
        BY <2>2 DEF Tick
      <4> QED
        BY <4>1, <4>2, <4>3 DEF Next, Collect
    <3> QED
      BY <3>1, <3>2, <3>3 DEF SweepInv, IdleOrNewer
  <2> QED
    BY <2>1, <2>2
<1> QED
  BY <1>1, <1>2, <1>3, TypeCorrect, PTL DEF Spec, OnlyIdleSwept
=============================================================================
