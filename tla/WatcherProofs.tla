--------------------------- MODULE WatcherProofs ----------------------------
(***************************************************************************)
(* Proofs about the watcher of stub files next to the loader, for any set  *)
(* of files, any number of timers and any edits.                           *)
(***************************************************************************)
EXTENDS StubReload, FiniteSetTheorems, SequenceTheorems, WellFoundedInduction, TLAPS

Moments == {"unused", "armed", "stopped", "fired", "sending", "returned"}

Typed ==
  /\ DOMAIN timers \subseteq Files /\ Range(timers) \subseteq Timers
  /\ timer \in [Timers -> [path : Files, at : Moments]]
  /\ wg \in Nat

\* The wait group counts the callbacks that may still come, those of timers
\* the map has lost included; and none starts once the watcher has ended.
Balanced ==
  /\ IsFiniteSet(InFlight) /\ wg = Cardinality(InFlight)
  /\ pc = "ended" => InFlight = {}

WatcherInv == Typed /\ Balanced

----------------------------------------------------------------------------
(* The set of timers in flight.                                            *)

\* Timers that are stopped, or whose callback returns, leave it.
LEMMA Leaving ==
  ASSUME Balanced, NEW gone \in SUBSET InFlight,
         InFlight' = InFlight \ gone, wg' = wg - Cardinality(gone)
  PROVE  IsFiniteSet(InFlight') /\ wg' = Cardinality(InFlight') /\ wg' \in Nat
<1>1. IsFiniteSet(gone) /\ IsFiniteSet(InFlight \ gone)
  BY FS_Subset DEF Balanced
<1>2. Cardinality(InFlight \ gone) = Cardinality(InFlight) - Cardinality(InFlight \cap gone)
  BY FS_Difference DEF Balanced
<1>3. InFlight \cap gone = gone
  OBVIOUS
<1>4. Cardinality(InFlight \ gone) \in Nat
  BY <1>1, FS_CardinalityType
<1> QED
  BY <1>1, <1>2, <1>3, <1>4 DEF Balanced

\* A callback that returns leaves it alone.
LEMMA Returning ==
  ASSUME WatcherInv, NEW t \in Timers, t \in InFlight, SetTimer(t, "returned"), wg' = wg - 1
  PROVE  /\ InFlight' = InFlight \ {t}
         /\ IsFiniteSet(InFlight') /\ wg' = Cardinality(InFlight') /\ wg' \in Nat
<1>1. InFlight' = InFlight \ {t}
  BY DEF InFlight, SetTimer, WatcherInv, Typed
<1>2. Cardinality({t}) = 1
  BY FS_Singleton
<1> QED
  BY <1>1, <1>2, Leaving DEF WatcherInv

\* A new timer joins when those it replaces have left.
LEMMA Adding ==
  ASSUME WatcherInv, NEW f \in Files, \E t \in Timers : timer[t].at = "unused", add(f)
  PROVE  /\ IsFiniteSet(InFlight') /\ wg' = Cardinality(InFlight') /\ wg' \in Nat
         /\ timer' \in [Timers -> [path : Files, at : Moments]]
         /\ DOMAIN timers' \subseteq Files /\ Range(timers') \subseteq Timers
<1> DEFINE old     == {timers[g] : g \in DOMAIN timers \cap {f}}
           stopped == {t \in old : timer[t].at = "armed"}
           fresh   == CHOOSE t \in Timers : timer[t].at = "unused"
<1>1. fresh \in Timers /\ timer[fresh].at = "unused"
  OBVIOUS
<1>2. /\ timer' = [t \in Timers |->
                     IF t = fresh THEN [path |-> f, at |-> "armed"]
                     ELSE IF t \in stopped THEN [timer[t] EXCEPT !.at = "stopped"]
                     ELSE timer[t]]
      /\ timers' = With(timers, f, fresh)
      /\ wg' = wg + 1 - Cardinality(stopped)
  BY DEF add
<1>3. stopped \subseteq InFlight
  BY DEF InFlight, WatcherInv, Typed, Range
<1> HIDE DEF fresh, stopped
<1>4. InFlight' = (InFlight \ stopped) \cup {fresh} /\ fresh \notin InFlight
  <2>1. \A t \in Timers : timer'[t].at \in {"armed", "fired", "sending"}
          <=> t = fresh \/ (t \in InFlight /\ t \notin stopped)
    BY <1>1, <1>2, <1>3 DEF InFlight, WatcherInv, Typed
  <2> QED
    BY <1>1, <2>1 DEF InFlight
<1>5. IsFiniteSet(InFlight \ stopped) /\ IsFiniteSet(stopped)
  BY <1>3, FS_Subset DEF WatcherInv, Balanced
<1>6. Cardinality(InFlight \ stopped) = Cardinality(InFlight) - Cardinality(stopped)
  <2>1. InFlight \cap stopped = stopped
    BY <1>3
  <2> QED
    BY <2>1, FS_Difference DEF WatcherInv, Balanced
<1>7. /\ IsFiniteSet(InFlight')
      /\ Cardinality(InFlight') = Cardinality(InFlight \ stopped) + 1
  BY <1>4, <1>5, FS_AddElement
<1>8. /\ Cardinality(InFlight) \in Nat /\ Cardinality(stopped) \in Nat
      /\ Cardinality(InFlight \ stopped) \in Nat
  BY <1>5, FS_CardinalityType DEF WatcherInv, Balanced
<1>9. IsFiniteSet(InFlight') /\ wg' = Cardinality(InFlight') /\ wg' \in Nat
  BY <1>2, <1>6, <1>7, <1>8 DEF WatcherInv, Balanced
<1>10. timer' \in [Timers -> [path : Files, at : Moments]]
  BY <1>2 DEF WatcherInv, Typed, Moments
<1>11. DOMAIN timers' \subseteq Files /\ Range(timers') \subseteq Timers
  BY <1>1, <1>2 DEF With, Range, WatcherInv, Typed
<1> QED
  BY <1>9, <1>10, <1>11

----------------------------------------------------------------------------
(* The invariant.                                                          *)

\* A step of the watcher, of a timer or of the server's context.
LEMMA WatcherStepBalanced ==
  ASSUME WatcherInv,
         \/ Watch \/ (\E f \in Files : Notice(f)) \/ StopAll \/ CloseOutput \/ Cancel
         \/ \E t \in Timers : Fire(t) \/ Callback(t) \/ Abort(t) \/ Send(t)
  PROVE  WatcherInv'
<1>1. CASE Watch \/ CloseOutput \/ Cancel
  <2>1. UNCHANGED <<timers, timer, wg>> /\ InFlight' = InFlight
    BY <1>1 DEF Watch, CloseOutput, Cancel, InFlight
  <2>2. pc' = "ended" => pc = "ended" \/ wg = 0
    BY <1>1 DEF Watch, CloseOutput, Cancel
  <2>3. wg = 0 => InFlight = {}
    BY FS_EmptySet DEF WatcherInv, Balanced
  <2> QED
    BY <2>1, <2>2, <2>3 DEF WatcherInv, Typed, Balanced
<1>2. ASSUME NEW f \in Files, Notice(f) PROVE WatcherInv'
  <2>1. pc' = "loop"
    BY <1>2 DEF Notice
  <2> QED
    BY <1>2, <2>1, Adding DEF Notice, WatcherInv, Typed, Balanced
<1>3. CASE StopAll
  <2> DEFINE stopped == {t \in Range(timers) : timer[t].at = "armed"}
  <2>1. stopped \subseteq InFlight
    BY DEF InFlight, WatcherInv, Typed
  <2>2. /\ timer' = [t \in Timers |-> IF t \in stopped
                       THEN [timer[t] EXCEPT !.at = "stopped"] ELSE timer[t]]
        /\ wg' = wg - Cardinality(stopped)
        /\ timers' = <<>> /\ pc' = "waiting"
    BY <1>3 DEF StopAll
  <2> HIDE DEF stopped
  <2>3. \A t \in Timers : timer'[t].at \in {"armed", "fired", "sending"}
          <=> t \in InFlight /\ t \notin stopped
    BY <2>1, <2>2 DEF InFlight, WatcherInv, Typed
  <2>4. InFlight' = InFlight \ stopped
    BY <2>1, <2>3 DEF InFlight
  <2>5. IsFiniteSet(InFlight') /\ wg' = Cardinality(InFlight') /\ wg' \in Nat
    BY <2>1, <2>2, <2>4, Leaving DEF WatcherInv
  <2>6. timer' \in [Timers -> [path : Files, at : Moments]]
    BY <2>2 DEF WatcherInv, Typed, Moments
  <2>7. DOMAIN timers' = {} /\ Range(timers') = {}
    BY <2>2 DEF Range
  <2> QED
    BY <2>2, <2>5, <2>6, <2>7 DEF WatcherInv, Typed, Balanced
<1>4. ASSUME NEW t \in Timers, Fire(t) \/ Callback(t) \/ Abort(t) \/ Send(t)
      PROVE  WatcherInv'
  <2>1. PICK at \in Moments : SetTimer(t, at)
    BY <1>4 DEF Fire, Callback, Abort, Send, Moments
  <2>2. timer' \in [Timers -> [path : Files, at : Moments]]
    BY <2>1 DEF SetTimer, WatcherInv, Typed
  <2>3. t \in InFlight /\ pc' = pc
    BY <1>4 DEF Fire, Callback, Abort, Send, InFlight
  <2>4. DOMAIN timers' \subseteq Files /\ Range(timers') \subseteq Timers
    BY <1>4 DEF Fire, Callback, Abort, Send, Without, Restrict, Range, WatcherInv, Typed
  <2>5. CASE SetTimer(t, "returned") /\ wg' = wg - 1
    BY <2>2, <2>3, <2>4, <2>5, Returning DEF WatcherInv, Typed, Balanced
  <2>6. CASE (SetTimer(t, "fired") \/ SetTimer(t, "sending")) /\ wg' = wg
    <3>1. InFlight' = InFlight
      BY <2>3, <2>6 DEF SetTimer, InFlight, WatcherInv, Typed
    <3> QED
      BY <2>2, <2>3, <2>4, <2>6, <3>1 DEF WatcherInv, Typed, Balanced
  <2> QED
    BY <1>4, <2>5, <2>6 DEF Fire, Callback, Abort, Send
<1> QED
  BY <1>1, <1>2, <1>3, <1>4

\* The invariant of the watcher.
LEMMA WatcherInvariant == Spec => []WatcherInv
<1>1. Init => WatcherInv
  <2> SUFFICES ASSUME Init PROVE WatcherInv
    OBVIOUS
  <2>1. (CHOOSE f \in Files : TRUE) \in Files
    BY WatcherAssumption
  <2>2. Typed
    BY <2>1 DEF Init, WatcherInit, Typed, Moments, Range
  <2>3. InFlight = {}
    BY DEF Init, WatcherInit, InFlight
  <2>4. Balanced
    BY <2>3, FS_EmptySet DEF Init, WatcherInit, Balanced
  <2> QED
    BY <2>2, <2>4 DEF WatcherInv
<1>2. WatcherInv /\ [Next]_vars => WatcherInv'
  <2> SUFFICES ASSUME WatcherInv, [Next]_vars PROVE WatcherInv'
    OBVIOUS
  <2>1. CASE UNCHANGED <<timers, timer, wg, pc>>
    BY <2>1 DEF WatcherInv, Typed, Balanced, InFlight
  <2>2. ASSUME NEW f \in Files, EditFile(f) \/ LoadInitially(f)
        PROVE  UNCHANGED <<timers, timer, wg, pc>>
    BY <2>2 DEF EditFile, LoadInitially, watcherVars
  <2>3. ASSUME NEW l \in Loads, LoadStep(l) PROVE UNCHANGED <<timers, timer, wg, pc>>
    BY <2>3 DEF LoadStep, LoaderOnly, watcherVars
  <2>4. CASE WatcherStep \/ WatcherOnly(Cancel) \/ \E t \in Timers : TimerStep(t)
    BY <2>4, WatcherStepBalanced
    DEF WatcherStep, StartWatching, WatcherOnly, TimerStep, Deliver
  <2>5. CASE UNCHANGED vars
    BY <2>1, <2>5 DEF vars, watcherVars
  <2> QED
    BY <2>1, <2>2, <2>3, <2>4, <2>5 DEF Next
<1> QED
  BY <1>1, <1>2, PTL DEF Spec

\* However timers fire, are replaced and are stopped around a shutdown, and
\* however loads and edits come between, every callback has returned before
\* the watcher closes the channel it would send on.
THEOREM ChannelClosedLast == Spec => []NoSendAfterClose
<1>1. WatcherInv => NoSendAfterClose
  BY DEF WatcherInv, Balanced, NoSendAfterClose
<1> QED
  BY <1>1, WatcherInvariant, PTL

----------------------------------------------------------------------------
(* The loader.                                                             *)

Texts == UNION {Contents[f] : f \in Files}
Mine(f) == OwnIDs(f) \cup NewIds
AllIDs == {NilId} \cup UNION {Mine(f) : f \in Files}
States == {"idle", "reading", "read", "putting"}

\* The stubs of a file in the storage.
Here(f) == {id \in DOMAIN stored : stored[id].file = f}

LoaderTyped ==
  /\ disk \in [Files -> [version : Nat, stubs : Texts]]
  /\ \A f \in Files : disk[f].stubs \in Contents[f]
  /\ load \in [Loads -> [at : States, file : Files, version : Nat, stubs : Texts \cup Seq(AllIDs)]]
  /\ holder \in Loads \cup {Nobody}
  /\ applied \in [Files -> Nat]
  /\ \A id \in DOMAIN stored : stored[id].file \in Files /\ id \in Mine(stored[id].file)
  /\ \A f \in DOMAIN mapIDsByFile : f \in Files /\ mapIDsByFile[f] \in Seq(AllIDs)

\* A load between its two calls of the storage, the one that holds muMapIDs,
\* puts IDs that are its file's or nobody's.
LoadInv ==
  \A l \in Loads :
    /\ load[l].at = "putting" <=> holder = l
    /\ load[l].at = "read" => load[l].stubs \in Contents[load[l].file]
    /\ load[l].at = "putting" =>
         /\ load[l].stubs \in Seq(AllIDs) /\ Range(load[l].stubs) \subseteq Mine(load[l].file)
         /\ \A id \in Range(load[l].stubs) \cap DOMAIN stored : stored[id].file = load[l].file

\* The storage and mapIDsByFile agree on a file but for such a load, which
\* has left only what it will put.
WholeInv ==
  \A f \in Files :
    /\ holder = Nobody \/ load[holder].file # f =>
         /\ Here(f) = Range(loader!Existing(f))
         /\ \A id \in Here(f) : stored[id].version = applied[f]
    /\ holder # Nobody /\ load[holder].file = f => Here(f) \subseteq Range(load[holder].stubs)

LoaderInv == LoaderTyped /\ LoadInv /\ WholeInv

----------------------------------------------------------------------------
(* Sequences of IDs.                                                       *)

\* The loader's operators are the watcher's.
LEMMA SameOperators ==
  /\ \A f : loader!Range(f) = Range(f)
  /\ \A f, S : loader!Restrict(f, S) = Restrict(f, S)
  /\ \A S : loader!Cardinality(S) = Cardinality(S)
BY DEF loader!Range, Range, loader!Restrict, Restrict, loader!Cardinality, Cardinality

\* Every set of naturals with an element has a least one.
LEMMA LeastElement ==
  ASSUME NEW S \in SUBSET Nat, S # {}
  PROVE  \E n \in S : \A m \in S : n <= m
<1> DEFINE Below == {ij \in Nat \X Nat : ij[1] < ij[2]}
<1>1. OpToRel(<, Nat) = Below
  BY DEF OpToRel
<1>2. IsWellFoundedOn(Below, Nat)
  BY NatLessThanWellFounded, <1>1
<1>3. PICK n \in S : \A m \in S : <<m, n>> \notin Below
  <2> HIDE DEF Below
  <2> QED BY <1>2, WFMin
<1>4. ASSUME NEW m \in S PROVE n <= m
  <2>1. <<m, n>> \notin Below
    BY <1>3
  <2>2. m \in Nat /\ n \in Nat
    OBVIOUS
  <2> QED BY <2>1, <2>2
<1> QED BY <1>4

\* Induction over the iterations of a loop, as a fact about sets.
LEMMA Induct ==
  ASSUME NEW S, 0 \in S, \A n \in Nat : n \in S => n + 1 \in S
  PROVE  Nat \subseteq S
<1> SUFFICES ASSUME Nat \ S # {} PROVE FALSE
  OBVIOUS
<1>1. PICK n \in Nat \ S : \A m \in Nat \ S : n <= m
  BY LeastElement
<1>2. n # 0 /\ n - 1 \in Nat
  BY <1>1
<1>3. n - 1 \in S
  BY <1>1, <1>2
<1>4. (n - 1) + 1 \in S
  BY <1>2, <1>3
<1> QED BY <1>1, <1>4

\* What is left of a sequence without some of its elements.
LEMMA LeftOver ==
  ASSUME NEW U, NEW ids \in Seq(U), NEW exclude
  PROVE  /\ loader!WithoutIDs(ids, exclude) \in Seq(U)
         /\ Range(loader!WithoutIDs(ids, exclude)) = Range(ids) \ exclude
<1> DEFINE L == Len(ids)
           More(q, e) == IF e \in exclude THEN q ELSE Append(q, e)
           Is(f, n) == f = [i \in 0..n |-> IF i = 0 THEN <<>> ELSE More(f[i - 1], ids[i])]
           left == CHOOSE f : Is(f, L)
           Good(q, n) == q \in Seq(U) /\ Range(q) = {ids[i] : i \in 1..n} \ exclude
<1>1. L \in Nat /\ \A i \in 1..L : ids[i] \in U
  BY ElementOfSeq, LenProperties
<1>2. loader!WithoutIDs(ids, exclude) = left[L]
  BY DEF loader!WithoutIDs
<1> HIDE DEF More
<1>3. \A n \in Nat : \E f : Is(f, n)
  <2> DEFINE S == {n \in Nat : \E f : Is(f, n)}
  <2>1. 0 \in S
    <3> DEFINE g == [i \in 0..0 |-> <<>>]
    <3>1. \A i \in 0..0 : i = 0
      OBVIOUS
    <3>2. g = [i \in 0..0 |-> IF i = 0 THEN <<>> ELSE More(g[i - 1], ids[i])]
      <4>1. ASSUME NEW i \in 0..0
            PROVE  <<>> = IF i = 0 THEN <<>> ELSE More(g[i - 1], ids[i])
        BY <3>1
      <4> QED BY <4>1, Zenon
    <3>3. \E f : Is(f, 0)
      BY <3>2
    <3> HIDE DEF Is
    <3> QED BY <3>3
  <2>2. ASSUME NEW n \in Nat, n \in S PROVE n + 1 \in S
    <3>1. PICK f : Is(f, n) BY <2>2
    <3> DEFINE g == [i \in 0..n + 1 |-> IF i = n + 1 THEN More(f[n], ids[n + 1]) ELSE f[i]]
    <3>2. Is(g, n + 1) BY <3>1
    <3>3. \E h : Is(h, n + 1)
      <4> HIDE DEF g, Is
      <4> QED BY <3>2
    <3> HIDE DEF Is
    <3> QED BY <3>3
  <2> HIDE DEF S
  <2>3. Nat \subseteq S BY <2>1, <2>2, Induct
  <2> QED BY <2>3 DEF S
<1>4. Is(left, L)
  <2>1. \E f : Is(f, L) BY <1>1, <1>3
  <2> HIDE DEF Is, L
  <2> QED BY <2>1
<1> HIDE DEF left, L
<1>5. \A i \in 0..L : left[i] = IF i = 0 THEN <<>> ELSE More(left[i - 1], ids[i])
  BY <1>4, Zenon
<1>6. /\ left[0] = <<>>
      /\ \A n \in Nat : n + 1 <= L => left[n + 1] = More(left[n], ids[n + 1])
  <2>1. 0 \in 0..L
    BY <1>1
  <2>2. ASSUME NEW n \in Nat, n + 1 <= L
        PROVE  n + 1 \in 0..L /\ n + 1 # 0 /\ (n + 1) - 1 = n
    BY <1>1, <2>2
  <2> HIDE DEF Is
  <2> QED BY <1>5, <2>1, <2>2
<1> HIDE DEF Is
<1>7. \A n \in Nat : n <= L => Good(left[n], n)
  <2> DEFINE S == {n \in Nat : n <= L => Good(left[n], n)}
  <2>1. 0 \in S
    <3>1. Good(<<>>, 0) BY DEF Range
    <3> QED BY <1>6, <3>1
  <2>2. ASSUME NEW n \in Nat, n \in S PROVE n + 1 \in S
    <3> SUFFICES ASSUME n + 1 <= L PROVE Good(left[n + 1], n + 1)
      OBVIOUS
    <3> DEFINE q == left[n]
               e == ids[n + 1]
    <3>1. q \in Seq(U) /\ Range(q) = {ids[i] : i \in 1..n} \ exclude
      BY <1>1, <2>2
    <3>2. e \in U
      BY <1>1
    <3>3. left[n + 1] = More(q, e)
      BY <1>6
    <3>4. {ids[i] : i \in 1..n + 1} = {ids[i] : i \in 1..n} \cup {e}
      OBVIOUS
    <3> HIDE DEF q, e
    <3>5. Append(q, e) \in Seq(U) /\ Range(Append(q, e)) = Range(q) \cup {e}
      <4>1. /\ Append(q, e) \in Seq(U) /\ Len(q) \in Nat /\ Len(Append(q, e)) = Len(q) + 1
            /\ Append(q, e)[Len(q) + 1] = e /\ \A i \in 1..Len(q) : Append(q, e)[i] = q[i]
        BY <3>1, <3>2, AppendProperties, LenProperties
      <4>2. DOMAIN q = 1..Len(q) /\ DOMAIN Append(q, e) = 1..Len(q) + 1
        BY <3>1, <4>1, LenProperties
      <4> HIDE DEF Good
      <4> QED BY <4>1, <4>2 DEF Range
    <3> QED BY <3>1, <3>3, <3>4, <3>5 DEF More
  <2> HIDE DEF S
  <2>3. Nat \subseteq S BY <2>1, <2>2, Induct
  <2> QED BY <2>3 DEF S
<1>8. Good(left[L], L)
  <2>1. L <= L
    BY <1>1
  <2> HIDE DEF Good
  <2> QED BY <1>1, <1>7, <2>1
<1>9. Range(ids) = {ids[i] : i \in 1..L}
  <2>1. DOMAIN ids = 1..L
    BY LenProperties DEF L
  <2> QED BY <2>1 DEF Range
<1> QED BY <1>2, <1>8, <1>9

\* The IDs of a file are not those of another.
LEMMA IDsApart ==
  ASSUME NEW f \in Files, NEW g \in Files, f # g, NEW id \in OwnIDs(f)
  PROVE  id \notin Mine(g)
BY ReloadAssumption DEF Mine

\* The IDs that a reload gives are the file's own, some it had, or nobody's.
LEMMA GivenIDs ==
  ASSUME LoaderInv, NEW l \in Loads, load[l].at = "read", load[l].stubs # Unreadable,
         loader!FreshIDs(load[l].stubs) # {},
         NEW unused \in Seq(AllIDs), Range(unused) \subseteq Here(load[l].file),
         NEW ids, ids = loader!GenerateNewIDs(load[l].stubs, unused)
  PROVE  /\ ids \in Seq(AllIDs) /\ Range(ids) \subseteq Mine(load[l].file)
         /\ \A id \in Range(ids) \cap DOMAIN stored : stored[id].file = load[l].file
<1> DEFINE c == load[l].stubs
           f == load[l].file
           n == Len(c)
           fresh == CHOOSE new \in loader!FreshIDs(c) : TRUE
           blank(i) == loader!Cardinality({j \in 1..i : c[j] = NilId})
           Fits(id) == id \in Mine(f) /\ (id \in DOMAIN stored => stored[id].file = f)
<1>1. f \in Files /\ c \in Contents[f] /\ c \in Seq(Range(c))
  BY ReloadAssumption DEF LoaderInv, LoaderTyped, LoadInv
<1>2. n \in Nat /\ DOMAIN c = 1..n
  BY <1>1, LenProperties
<1>3. ids = [i \in DOMAIN c |->
         IF c[i] # NilId THEN c[i]
         ELSE IF blank(i) <= Len(unused) THEN unused[blank(i)] ELSE fresh[i]]
  BY DEF loader!GenerateNewIDs
<1>4. fresh \in [DOMAIN c -> NewIds \ DOMAIN stored]
  <2>1. fresh \in loader!FreshIDs(c)
    OBVIOUS
  <2> HIDE DEF fresh
  <2> QED BY <2>1 DEF loader!FreshIDs
<1>5. \A i \in 1..n : c[i] = NilId => blank(i) \in Nat /\ blank(i) > 0
  <2>1. ASSUME NEW i \in 1..n, c[i] = NilId PROVE blank(i) \in Nat /\ blank(i) # 0
    <3> DEFINE S == {j \in 1..i : c[j] = NilId}
    <3>1. i \in Nat /\ i \in S
      BY <1>2, <2>1
    <3>2. IsFiniteSet(1..i)
      BY <3>1, FS_Interval
    <3>3. IsFiniteSet(S)
      BY <3>2, FS_Subset
    <3>4. Cardinality(S) \in Nat /\ Cardinality(S) # 0
      BY <3>1, <3>3, FS_CardinalityType, FS_EmptySet
    <3>5. blank(i) = Cardinality(S)
      BY SameOperators
    <3> HIDE DEF S, blank
    <3> QED BY <3>4, <3>5
  <2> HIDE DEF blank
  <2> QED BY <2>1
<1>6. \A id \in Range(c) \ {NilId} : Fits(id)
  <2>1. ASSUME NEW id \in Range(c) \ {NilId} PROVE Fits(id)
    <3>1. id \in OwnIDs(f)
      BY <1>1 DEF OwnIDs
    <3>2. id \in DOMAIN stored => stored[id].file \in Files /\ id \in Mine(stored[id].file)
      BY DEF LoaderInv, LoaderTyped
    <3> HIDE DEF f
    <3> QED BY <1>1, <3>1, <3>2, IDsApart DEF Mine
  <2> QED BY <2>1
<1>7. \A i \in 1..Len(unused) : Fits(unused[i])
  <2>1. DOMAIN unused = 1..Len(unused)
    BY LenProperties
  <2>2. \A id \in Range(unused) : id \in DOMAIN stored /\ stored[id].file = f
    BY DEF Here
  <2> QED BY <2>1, <2>2 DEF LoaderInv, LoaderTyped, Range
<1>8. \A i \in 1..n : Fits(fresh[i])
  BY <1>2, <1>4 DEF Mine
<1>9. \A i \in 1..n : c[i] \in Range(c)
  BY <1>2 DEF Range
<1>10. Len(unused) \in Nat
  BY LenProperties
<1> HIDE DEF Fits, blank, fresh, n
<1>11. \A i \in 1..n : Fits(ids[i])
  <2>1. ASSUME NEW i \in 1..n PROVE Fits(ids[i])
    <3>1. CASE c[i] # NilId
      <4>1. ids[i] = c[i]
        BY <1>2, <1>3, <3>1
      <4> QED BY <1>6, <1>9, <3>1, <4>1
    <3>2. CASE c[i] = NilId /\ blank(i) <= Len(unused)
      <4>1. ids[i] = unused[blank(i)]
        BY <1>2, <1>3, <3>2
      <4>2. blank(i) \in 1..Len(unused)
        BY <1>5, <1>10, <3>2
      <4> QED BY <1>7, <4>1, <4>2
    <3>3. CASE c[i] = NilId /\ ~(blank(i) <= Len(unused))
      <4>1. ids[i] = fresh[i]
        BY <1>2, <1>3, <3>3
      <4> QED BY <1>8, <4>1
    <3> QED BY <3>1, <3>2, <3>3
  <2> QED BY <2>1
<1>12. DOMAIN ids = 1..n /\ ids = [i \in 1..n |-> ids[i]]
  BY <1>2, <1>3
<1>13. \A i \in 1..n : ids[i] \in AllIDs
  BY <1>1, <1>11 DEF AllIDs, Fits
<1>14. ids \in Seq(AllIDs)
  <2>1. ids \in [1..n -> AllIDs]
    BY <1>12, <1>13
  <2> QED BY <1>2, <2>1, SeqDef
<1> QED BY <1>11, <1>12, <1>14 DEF Fits, Range

----------------------------------------------------------------------------
(* The calls of the storage.                                               *)

\* PutMany of what a file has from now on.
LEMMA PutStep ==
  ASSUME LoaderInv, NEW l \in Loads, NEW f \in Files, f = load[l].file,
         NEW ids \in Seq(AllIDs), Range(ids) \subseteq Mine(f), Here(f) \subseteq Range(ids),
         \A id \in Range(ids) \cap DOMAIN stored : stored[id].file = f,
         stored' = loader!Put(l, ids)
  PROVE  /\ Here(f)' = Range(ids)
         /\ \A id \in Range(ids) : stored'[id].version = load[l].version
         /\ \A g \in Files \ {f} : Here(g)' = Here(g) /\ \A id \in Here(g) : stored'[id] = stored[id]
         /\ \A id \in DOMAIN stored' : stored'[id].file \in Files /\ id \in Mine(stored'[id].file)
<1>1. /\ DOMAIN stored' = DOMAIN stored \cup Range(ids)
      /\ \A id \in Range(ids) : stored'[id] = [file |-> f, version |-> load[l].version]
      /\ \A id \in DOMAIN stored \ Range(ids) : stored'[id] = stored[id]
  BY SameOperators DEF loader!Put
<1>2. \A id \in DOMAIN stored : stored[id].file \in Files /\ id \in Mine(stored[id].file)
  BY DEF LoaderInv, LoaderTyped
<1>3. \A id \in Range(ids) : stored'[id].file = f /\ stored'[id].version = load[l].version
  BY <1>1
<1>4. Here(f)' = Range(ids)
  BY <1>1, <1>3 DEF Here
<1>5. ASSUME NEW g \in Files \ {f}
      PROVE  Here(g)' = Here(g) /\ \A id \in Here(g) : stored'[id] = stored[id]
  <2>1. \A id \in Here(g) : id \in DOMAIN stored \ Range(ids)
    BY DEF Here
  <2>2. \A id \in DOMAIN stored' : stored'[id].file = g => id \in DOMAIN stored \ Range(ids)
    BY <1>1, <1>3
  <2> QED BY <1>1, <2>1, <2>2 DEF Here
<1>6. \A id \in DOMAIN stored' : stored'[id].file \in Files /\ id \in Mine(stored'[id].file)
  BY <1>1, <1>2, <1>3
<1> QED BY <1>3, <1>4, <1>5, <1>6

\* DeleteByID of some of a file's stubs.
LEMMA DeleteStep ==
  ASSUME LoaderInv, NEW f \in Files, NEW ids, Range(ids) \subseteq Here(f),
         stored' = loader!DeleteByID(ids)
  PROVE  /\ Here(f)' = Here(f) \ Range(ids)
         /\ DOMAIN stored' = DOMAIN stored \ Range(ids)
         /\ \A id \in DOMAIN stored' : stored'[id] = stored[id]
         /\ \A g \in Files \ {f} : Here(g)' = Here(g) /\ \A id \in Here(g) : stored'[id] = stored[id]
         /\ \A id \in DOMAIN stored' : stored'[id].file \in Files /\ id \in Mine(stored'[id].file)
<1>1. /\ DOMAIN stored' = DOMAIN stored \ Range(ids)
      /\ \A id \in DOMAIN stored' : stored'[id] = stored[id]
  BY SameOperators DEF loader!DeleteByID, Restrict
<1>2. \A id \in DOMAIN stored : stored[id].file \in Files /\ id \in Mine(stored[id].file)
  BY DEF LoaderInv, LoaderTyped
<1>3. \A id \in Range(ids) : id \in DOMAIN stored /\ stored[id].file = f
  BY DEF Here
<1>4. Here(f)' = Here(f) \ Range(ids)
  BY <1>1 DEF Here
<1>5. \A g \in Files \ {f} : Here(g)' = Here(g) /\ \A id \in Here(g) : stored'[id] = stored[id]
  BY <1>1, <1>3 DEF Here
<1> QED BY <1>1, <1>2, <1>4, <1>5

----------------------------------------------------------------------------
(* The steps of a load.                                                    *)

\* A load that has finished leaves its file whole and the others alone.
LEMMA AppliedStep ==
  ASSUME LoaderInv, NEW l \in Loads, NEW f \in Files, f = load[l].file,
         holder \in {Nobody, l}, holder' = Nobody, loader!Applied(l), UNCHANGED disk,
         \A id \in DOMAIN stored' : stored'[id].file \in Files /\ id \in Mine(stored'[id].file),
         \A g \in DOMAIN mapIDsByFile' : g \in Files /\ mapIDsByFile'[g] \in Seq(AllIDs),
         Here(f)' = Range(loader!Existing(f)'),
         \A id \in Here(f)' : stored'[id].version = load[l].version,
         \A g \in Files \ {f} :
           /\ Here(g)' = Here(g) /\ loader!Existing(g)' = loader!Existing(g)
           /\ \A id \in Here(g) : stored'[id] = stored[id]
  PROVE  LoaderInv'
<1>1. /\ load' = [load EXCEPT ![l] = loader!NoLoad]
      /\ applied' = [applied EXCEPT ![f] = load[l].version]
  BY DEF loader!Applied
<1>2. load \in [Loads -> [at : States, file : Files, version : Nat, stubs : Texts \cup Seq(AllIDs)]]
  BY DEF LoaderInv, LoaderTyped
<1>3. applied \in [Files -> Nat] /\ holder \in Loads \cup {Nobody} /\ Nobody \notin Loads
  BY ReloadAssumption DEF LoaderInv, LoaderTyped, Loads
<1>4. loader!NoLoad \in [at : States, file : Files, version : Nat, stubs : Texts \cup Seq(AllIDs)]
  <2>1. (CHOOSE g \in Files : TRUE) \in Files
    BY WatcherAssumption
  <2>2. <<>> \in Seq(AllIDs)
    OBVIOUS
  <2> QED BY <2>1, <2>2 DEF loader!NoLoad, States
<1>5. loader!NoLoad.at = "idle"
  BY DEF loader!NoLoad
<1> HIDE DEF loader!NoLoad
<1>6. /\ load' \in [Loads -> [at : States, file : Files, version : Nat, stubs : Texts \cup Seq(AllIDs)]]
      /\ applied' \in [Files -> Nat]
  BY <1>1, <1>2, <1>3, <1>4
<1>7. LoaderTyped'
  BY <1>6 DEF LoaderInv, LoaderTyped
<1>8. load'[l].at = "idle" /\ \A m \in Loads \ {l} : load'[m] = load[m] /\ holder # m
  BY <1>1, <1>2, <1>3, <1>5
<1>9. LoadInv'
  BY <1>3, <1>8 DEF LoaderInv, LoadInv
<1>10. WholeInv'
  <2>1. \A id \in Here(f)' : stored'[id].version = applied'[f]
    BY <1>1, <1>3
  <2>2. ASSUME NEW g \in Files \ {f}
        PROVE  /\ Here(g)' = Range(loader!Existing(g)')
               /\ \A id \in Here(g)' : stored'[id].version = applied'[g]
    <3>1. holder = Nobody \/ load[holder].file # g
      OBVIOUS
    <3>2. Here(g) = Range(loader!Existing(g)) /\ \A id \in Here(g) : stored[id].version = applied[g]
      BY <3>1 DEF LoaderInv, WholeInv
    <3>3. applied'[g] = applied[g]
      BY <1>1, <1>3
    <3>4. Here(g)' = Here(g) /\ loader!Existing(g)' = loader!Existing(g)
      OBVIOUS
    <3> QED BY <3>2, <3>3, <3>4
  <2>3. ASSUME NEW g \in Files
        PROVE  /\ Here(g)' = Range(loader!Existing(g)')
               /\ \A id \in Here(g)' : stored'[id].version = applied'[g]
    <3>1. CASE g = f
      BY <2>1, <3>1
    <3>2. CASE g # f
      BY <2>2, <3>2
    <3> QED BY <3>1, <3>2
  <2> QED BY <2>3 DEF WholeInv
<1> QED BY <1>7, <1>9, <1>10 DEF LoaderInv
\* A load that only begins, or reads its file, has no stubs to put.
LEMMA StartStep ==
  ASSUME LoaderInv, NEW l \in Loads, load[l].at # "putting",
         NEW r \in [at : {"reading", "read"}, file : Files, version : Nat, stubs : Texts \cup Seq(AllIDs)],
         r.at = "read" => r.stubs \in Contents[r.file],
         load' = [load EXCEPT ![l] = r],
         UNCHANGED <<disk, stored, mapIDsByFile, holder, applied>>
  PROVE  LoaderInv'
<1>1. load \in [Loads -> [at : States, file : Files, version : Nat, stubs : Texts \cup Seq(AllIDs)]]
  BY DEF LoaderInv, LoaderTyped
<1>2. r \in [at : States, file : Files, version : Nat, stubs : Texts \cup Seq(AllIDs)]
  BY DEF States
<1>3. LoaderTyped'
  BY <1>1, <1>2 DEF LoaderInv, LoaderTyped
<1>4. r.at # "putting" /\ holder # l
  BY DEF LoaderInv, LoadInv
<1>5. load'[l] = r /\ \A m \in Loads \ {l} : load'[m] = load[m]
  BY <1>1
<1>6. LoadInv'
  <2> SUFFICES ASSUME NEW m \in Loads
               PROVE  /\ load'[m].at = "putting" <=> holder = m
                      /\ load'[m].at = "read" => load'[m].stubs \in Contents[load'[m].file]
                      /\ load'[m].at = "putting" =>
                           /\ load'[m].stubs \in Seq(AllIDs)
                           /\ Range(load'[m].stubs) \subseteq Mine(load'[m].file)
                           /\ \A id \in Range(load'[m].stubs) \cap DOMAIN stored :
                                stored[id].file = load'[m].file
    BY DEF LoadInv
  <2>1. CASE m = l
    BY <1>4, <1>5, <2>1
  <2>2. CASE m # l
    BY <1>5, <2>2 DEF LoaderInv, LoadInv
  <2> QED BY <2>1, <2>2
<1>7. holder \in Loads => load'[holder] = load[holder]
  BY <1>4, <1>5
<1>8. holder = Nobody \/ holder \in Loads
  BY DEF LoaderInv, LoaderTyped
<1>9. WholeInv'
  BY <1>7, <1>8 DEF LoaderInv, WholeInv, Here, loader!Existing
<1> QED BY <1>3, <1>6, <1>9 DEF LoaderInv

LEMMA ReadStep ==
  ASSUME LoaderInv, NEW l \in Loads, loader!ReadStub(l), UNCHANGED disk
  PROVE  LoaderInv'
<1> DEFINE r == [at |-> "read", file |-> load[l].file, version |-> disk[load[l].file].version,
                 stubs |-> disk[load[l].file].stubs]
<1>1. load[l].at # "putting" /\ load' = [load EXCEPT ![l] = r]
      /\ UNCHANGED <<stored, mapIDsByFile, holder, applied>>
  BY DEF loader!ReadStub
<1>2. load[l].file \in Files
  BY DEF LoaderInv, LoaderTyped
<1>3. disk[load[l].file].version \in Nat /\ disk[load[l].file].stubs \in Contents[load[l].file]
      /\ disk[load[l].file].stubs \in Texts
  BY <1>2 DEF LoaderInv, LoaderTyped
<1>4. /\ r \in [at : {"reading", "read"}, file : Files, version : Nat, stubs : Texts \cup Seq(AllIDs)]
      /\ r.at = "read" => r.stubs \in Contents[r.file]
  BY <1>2, <1>3
<1> HIDE DEF r
<1> QED BY <1>1, <1>4, StartStep

LEMMA BeginStep ==
  ASSUME LoaderInv, NEW l \in Loads, NEW f \in Files, loader!Begin(l, f), UNCHANGED disk
  PROVE  LoaderInv'
<1> DEFINE r == [at |-> "reading", file |-> f, version |-> 0, stubs |-> <<>>]
<1>1. load[l].at # "putting" /\ load' = [load EXCEPT ![l] = r]
      /\ UNCHANGED <<stored, mapIDsByFile, holder, applied>>
  BY DEF loader!Begin
<1>2. <<>> \in Seq(AllIDs)
  OBVIOUS
<1>3. /\ r \in [at : {"reading", "read"}, file : Files, version : Nat, stubs : Texts \cup Seq(AllIDs)]
      /\ r.at = "read" => r.stubs \in Contents[r.file]
  BY <1>2
<1> HIDE DEF r
<1> QED BY <1>1, <1>3, StartStep

\* A file that cannot be read takes its stubs with it.
LEMMA ErrorStep ==
  ASSUME LoaderInv, NEW l \in Loads, loader!HandleFileReadError(l), UNCHANGED disk
  PROVE  LoaderInv'
<1>1. PICK f \in Files : f = load[l].file
  BY DEF LoaderInv, LoaderTyped
<1> DEFINE ids == loader!Existing(f)
<1>2. /\ holder = Nobody /\ holder' = Nobody /\ loader!Applied(l)
      /\ stored' = loader!DeleteByID(ids)
  BY <1>1 DEF loader!HandleFileReadError
<1>3. /\ DOMAIN mapIDsByFile' = DOMAIN mapIDsByFile \ {f}
      /\ \A g \in DOMAIN mapIDsByFile' : mapIDsByFile'[g] = mapIDsByFile[g]
  BY <1>1, SameOperators DEF loader!HandleFileReadError, Restrict
<1>4. Here(f) = Range(ids)
  BY <1>2 DEF LoaderInv, WholeInv
<1>5. /\ Here(f)' = Here(f) \ Range(ids)
      /\ \A g \in Files \ {f} : Here(g)' = Here(g) /\ \A id \in Here(g) : stored'[id] = stored[id]
      /\ \A id \in DOMAIN stored' : stored'[id].file \in Files /\ id \in Mine(stored'[id].file)
  <2> HIDE DEF ids
  <2> QED BY <1>2, <1>4, DeleteStep
<1>6. loader!Existing(f)' = <<>>
  BY <1>3 DEF loader!Existing
<1>7. Here(f)' = {}
  BY <1>4, <1>5
<1>8. Here(f)' = Range(loader!Existing(f)')
  <2>1. Range(<<>>) = {}
    BY DEF Range
  <2> QED BY <1>6, <1>7, <2>1
<1>9. \A id \in Here(f)' : stored'[id].version = load[l].version
  BY <1>7
<1>10. \A g \in Files \ {f} : loader!Existing(g)' = loader!Existing(g)
  BY <1>3 DEF loader!Existing
<1>11. \A g \in DOMAIN mapIDsByFile' : g \in Files /\ mapIDsByFile'[g] \in Seq(AllIDs)
  BY <1>3 DEF LoaderInv, LoaderTyped
<1> HIDE DEF ids
<1> QED BY <1>1, <1>2, <1>5, <1>8, <1>9, <1>10, <1>11, AppliedStep

\* What a put makes of a file, and of mapIDsByFile.
LEMMA FiledStep ==
  ASSUME LoaderInv, NEW l \in Loads, NEW f \in Files, f = load[l].file,
         holder \in {Nobody, l}, holder' = Nobody, loader!Applied(l), UNCHANGED disk,
         NEW ids \in Seq(AllIDs), Range(ids) \subseteq Mine(f), Here(f) \subseteq Range(ids),
         \A id \in Range(ids) \cap DOMAIN stored : stored[id].file = f,
         stored' = loader!Put(l, ids),
         loader!Existing(f)' = ids,
         \A g \in Files \ {f} : loader!Existing(g)' = loader!Existing(g),
         \A g \in DOMAIN mapIDsByFile' : g \in Files /\ mapIDsByFile'[g] \in Seq(AllIDs)
  PROVE  LoaderInv'
<1>1. /\ Here(f)' = Range(ids)
      /\ \A id \in Range(ids) : stored'[id].version = load[l].version
      /\ \A g \in Files \ {f} : Here(g)' = Here(g) /\ \A id \in Here(g) : stored'[id] = stored[id]
      /\ \A id \in DOMAIN stored' : stored'[id].file \in Files /\ id \in Mine(stored'[id].file)
  BY PutStep
<1>2. Here(f)' = Range(loader!Existing(f)')
  BY <1>1
<1>3. \A id \in Here(f)' : stored'[id].version = load[l].version
  BY <1>1
<1> QED BY <1>1, <1>2, <1>3, AppliedStep

LEMMA FirstStep ==
  ASSUME LoaderInv, NEW l \in Loads, loader!HandleFirstTimeLoad(l), UNCHANGED disk
  PROVE  LoaderInv'
<1>1. PICK f \in Files : f = load[l].file
  BY DEF LoaderInv, LoaderTyped
<1> DEFINE ids == loader!GenerateNewIDs(load[l].stubs, <<>>)
<1>2. /\ load[l].at = "read" /\ load[l].stubs # Unreadable
      /\ loader!FreshIDs(load[l].stubs) # {}
      /\ holder = Nobody /\ holder' = Nobody /\ loader!Applied(l)
      /\ f \notin DOMAIN mapIDsByFile
      /\ stored' = loader!Put(l, ids) /\ mapIDsByFile' = loader!Filed(f, ids)
  BY <1>1 DEF loader!HandleFirstTimeLoad
<1>3. Range(<<>>) = {} /\ <<>> \in Seq(AllIDs)
  BY DEF Range
<1>4. /\ ids \in Seq(AllIDs) /\ Range(ids) \subseteq Mine(f)
      /\ \A id \in Range(ids) \cap DOMAIN stored : stored[id].file = f
  BY <1>1, <1>2, <1>3, GivenIDs
<1> HIDE DEF ids
<1>5. Here(f) = {}
  <2>1. loader!Existing(f) = <<>>
    BY <1>2 DEF loader!Existing
  <2>2. Here(f) = Range(loader!Existing(f))
    BY <1>2 DEF LoaderInv, WholeInv
  <2> QED BY <1>3, <2>1, <2>2
<1>6. /\ DOMAIN mapIDsByFile' = DOMAIN mapIDsByFile \cup {f} /\ mapIDsByFile'[f] = ids
      /\ \A g \in DOMAIN mapIDsByFile' \ {f} : mapIDsByFile'[g] = mapIDsByFile[g]
  BY <1>2 DEF loader!Filed
<1>7. /\ loader!Existing(f)' = ids
      /\ \A g \in Files \ {f} : loader!Existing(g)' = loader!Existing(g)
  BY <1>6 DEF loader!Existing
<1>8. \A g \in DOMAIN mapIDsByFile' : g \in Files /\ mapIDsByFile'[g] \in Seq(AllIDs)
  BY <1>4, <1>6 DEF LoaderInv, LoaderTyped
<1> QED BY <1>1, <1>2, <1>4, <1>5, <1>7, <1>8, FiledStep

LEMMA PutUpdateStep ==
  ASSUME LoaderInv, NEW l \in Loads, loader!PutUpdate(l), UNCHANGED disk
  PROVE  LoaderInv'
<1>1. PICK f \in Files : f = load[l].file
  BY DEF LoaderInv, LoaderTyped
<1> DEFINE ids == load[l].stubs
<1>2. /\ load[l].at = "putting" /\ holder' = Nobody /\ loader!Applied(l)
      /\ stored' = loader!Put(l, ids)
      /\ mapIDsByFile' = IF ids = <<>> THEN loader!Restrict(mapIDsByFile, DOMAIN mapIDsByFile \ {f})
                         ELSE loader!Filed(f, ids)
  BY <1>1 DEF loader!PutUpdate
<1>3. /\ ids \in Seq(AllIDs) /\ Range(ids) \subseteq Mine(f)
      /\ \A id \in Range(ids) \cap DOMAIN stored : stored[id].file = f
      /\ holder = l
  BY <1>1, <1>2 DEF LoaderInv, LoadInv
<1>4. Here(f) \subseteq Range(ids)
  <2>1. holder # Nobody /\ load[holder].file = f
    BY <1>1, <1>3, ReloadAssumption DEF Loads
  <2> QED BY <1>3, <2>1 DEF LoaderInv, WholeInv
<1> HIDE DEF ids
<1>5. CASE ids = <<>>
  <2>1. /\ DOMAIN mapIDsByFile' = DOMAIN mapIDsByFile \ {f}
        /\ \A g \in DOMAIN mapIDsByFile' : mapIDsByFile'[g] = mapIDsByFile[g]
    BY <1>2, <1>5, SameOperators DEF Restrict
  <2>2. /\ loader!Existing(f)' = ids
        /\ \A g \in Files \ {f} : loader!Existing(g)' = loader!Existing(g)
    BY <1>5, <2>1 DEF loader!Existing
  <2>3. \A g \in DOMAIN mapIDsByFile' : g \in Files /\ mapIDsByFile'[g] \in Seq(AllIDs)
    BY <2>1 DEF LoaderInv, LoaderTyped
  <2> QED BY <1>1, <1>2, <1>3, <1>4, <2>2, <2>3, FiledStep
<1>6. CASE ids # <<>>
  <2>1. /\ DOMAIN mapIDsByFile' = DOMAIN mapIDsByFile \cup {f} /\ mapIDsByFile'[f] = ids
        /\ \A g \in DOMAIN mapIDsByFile' \ {f} : mapIDsByFile'[g] = mapIDsByFile[g]
    BY <1>2, <1>6 DEF loader!Filed
  <2>2. /\ loader!Existing(f)' = ids
        /\ \A g \in Files \ {f} : loader!Existing(g)' = loader!Existing(g)
    BY <2>1 DEF loader!Existing
  <2>3. \A g \in DOMAIN mapIDsByFile' : g \in Files /\ mapIDsByFile'[g] \in Seq(AllIDs)
    BY <1>3, <2>1 DEF LoaderInv, LoaderTyped
  <2> QED BY <1>1, <1>2, <1>3, <1>4, <2>2, <2>3, FiledStep
<1> QED BY <1>5, <1>6

\* What an update will put, and what it deletes before: the stubs of the file
\* that the new content has no use for.
LEMMA Replacement ==
  ASSUME LoaderInv, NEW l \in Loads, loader!HandleExistingFileUpdate(l),
         NEW f \in Files, f = load[l].file, NEW ids, ids = loader!NewIDsOf(l)
  PROVE  /\ ids \in Seq(AllIDs) /\ Range(ids) \subseteq Mine(f)
         /\ \A id \in Range(ids) \cap DOMAIN stored : stored[id].file = f
         /\ Here(f)' = Here(f) \cap Range(ids)
         /\ DOMAIN stored \ DOMAIN stored' = Here(f) \ Range(ids)
         /\ \A g \in Files \ {f} : Here(g)' = Here(g) /\ \A id \in Here(g) : stored'[id] = stored[id]
         /\ \A id \in DOMAIN stored' : id \in DOMAIN stored /\ stored'[id] = stored[id]
<1> DEFINE old == loader!Existing(f)
           unused == loader!WithoutIDs(old, loader!Written(l))
           gone == loader!WithoutIDs(old, Range(ids))
<1>1. /\ load[l].at = "read" /\ load[l].stubs # Unreadable /\ holder = Nobody
      /\ loader!FreshIDs(load[l].stubs) # {} /\ f \in DOMAIN mapIDsByFile
      /\ stored' = loader!DeleteByID(gone)
  BY SameOperators DEF loader!HandleExistingFileUpdate
<1>2. old \in Seq(AllIDs)
  BY <1>1 DEF LoaderInv, LoaderTyped, loader!Existing
<1>3. Here(f) = Range(old)
  BY <1>1 DEF LoaderInv, WholeInv
<1>4. ids = loader!GenerateNewIDs(load[l].stubs, unused)
  BY DEF loader!NewIDsOf
<1> HIDE DEF old
<1>5. unused \in Seq(AllIDs) /\ Range(unused) \subseteq Here(f)
  BY <1>2, <1>3, LeftOver
<1>6. Range(gone) = Here(f) \ Range(ids)
  BY <1>2, <1>3, LeftOver
<1> HIDE DEF unused, gone
<1>7. /\ ids \in Seq(AllIDs) /\ Range(ids) \subseteq Mine(f)
      /\ \A id \in Range(ids) \cap DOMAIN stored : stored[id].file = f
  BY <1>1, <1>4, <1>5, GivenIDs
<1>8. /\ Here(f)' = Here(f) \ Range(gone)
      /\ DOMAIN stored' = DOMAIN stored \ Range(gone)
      /\ \A id \in DOMAIN stored' : stored'[id] = stored[id]
      /\ \A g \in Files \ {f} : Here(g)' = Here(g) /\ \A id \in Here(g) : stored'[id] = stored[id]
  BY <1>1, <1>6, DeleteStep
<1>9. Here(f) \subseteq DOMAIN stored
  BY DEF Here
<1> QED BY <1>6, <1>7, <1>8, <1>9

LEMMA UpdateStep ==
  ASSUME LoaderInv, NEW l \in Loads, loader!HandleExistingFileUpdate(l), UNCHANGED disk
  PROVE  LoaderInv'
<1>1. PICK f \in Files : f = load[l].file
  BY DEF LoaderInv, LoaderTyped
<1>2. PICK ids : ids = loader!NewIDsOf(l)
  OBVIOUS
<1>3. /\ ids \in Seq(AllIDs) /\ Range(ids) \subseteq Mine(f)
      /\ \A id \in Range(ids) \cap DOMAIN stored : stored[id].file = f
      /\ Here(f)' = Here(f) \cap Range(ids)
      /\ \A g \in Files \ {f} : Here(g)' = Here(g) /\ \A id \in Here(g) : stored'[id] = stored[id]
      /\ \A id \in DOMAIN stored' : id \in DOMAIN stored /\ stored'[id] = stored[id]
  BY <1>1, <1>2, Replacement
<1>4. /\ holder = Nobody /\ holder' = l /\ UNCHANGED <<mapIDsByFile, applied>>
      /\ load' = [load EXCEPT ![l].at = "putting", ![l].stubs = ids]
  BY <1>2 DEF loader!HandleExistingFileUpdate
<1>5. load \in [Loads -> [at : States, file : Files, version : Nat, stubs : Texts \cup Seq(AllIDs)]]
  BY DEF LoaderInv, LoaderTyped
<1>6. /\ load' \in [Loads -> [at : States, file : Files, version : Nat, stubs : Texts \cup Seq(AllIDs)]]
      /\ load'[l].at = "putting" /\ load'[l].file = f /\ load'[l].stubs = ids
      /\ \A m \in Loads \ {l} : load'[m] = load[m]
  BY <1>1, <1>3, <1>4, <1>5 DEF States
<1>7. \A id \in DOMAIN stored : stored[id].file \in Files /\ id \in Mine(stored[id].file)
  BY DEF LoaderInv, LoaderTyped
<1>8. LoaderTyped'
  BY <1>3, <1>4, <1>6, <1>7 DEF LoaderInv, LoaderTyped
<1>9. LoadInv'
  <2>1. \A m \in Loads : load[m].at # "putting"
    BY <1>4, ReloadAssumption DEF LoaderInv, LoadInv, Loads
  <2> SUFFICES ASSUME NEW m \in Loads
               PROVE  /\ load'[m].at = "putting" <=> holder' = m
                      /\ load'[m].at = "read" => load'[m].stubs \in Contents[load'[m].file]
                      /\ load'[m].at = "putting" =>
                           /\ load'[m].stubs \in Seq(AllIDs)
                           /\ Range(load'[m].stubs) \subseteq Mine(load'[m].file)
                           /\ \A id \in Range(load'[m].stubs) \cap DOMAIN stored' :
                                stored'[id].file = load'[m].file
    BY DEF LoadInv, Range
  <2>2. CASE m = l
    BY <1>3, <1>4, <1>6, <2>2
  <2>3. CASE m # l
    BY <1>4, <1>6, <2>1, <2>3 DEF LoaderInv, LoadInv
  <2> QED BY <2>2, <2>3
<1>10. WholeInv'
  <2>1. \A g \in Files : Here(g) = Range(loader!Existing(g)) /\ \A id \in Here(g) : stored[id].version = applied[g]
    BY <1>4 DEF LoaderInv, WholeInv
  <2>2. \A g \in Files \ {f} : Here(g)' = Range(loader!Existing(g)') /\ \A id \in Here(g)' : stored'[id].version = applied'[g]
    BY <1>3, <1>4, <2>1 DEF loader!Existing
  <2>3. Here(f)' \subseteq Range(load'[holder'].stubs) /\ load'[holder'].file = f /\ holder' # Nobody
    BY <1>3, <1>4, <1>6, ReloadAssumption DEF Loads
  <2> QED BY <2>2, <2>3 DEF WholeInv
<1> QED BY <1>8, <1>9, <1>10 DEF LoaderInv

\* An edit of a file does not touch the loads.
LEMMA EditStep ==
  ASSUME LoaderInv, NEW f \in Files, loader!Edit(f)
  PROVE  LoaderInv'
<1>1. PICK stubs \in Contents[f] :
        disk' = [disk EXCEPT ![f] = [version |-> @.version + 1, stubs |-> stubs]]
  BY DEF loader!Edit
<1>2. UNCHANGED <<load, stored, mapIDsByFile, holder, applied>>
  BY DEF loader!Edit, loader!loaderVars
<1>3. disk \in [Files -> [version : Nat, stubs : Texts]] /\ stubs \in Texts
      /\ \A g \in Files : disk[g].stubs \in Contents[g]
  BY DEF LoaderInv, LoaderTyped, Texts
<1>4. disk' \in [Files -> [version : Nat, stubs : Texts]] /\ \A g \in Files : disk'[g].stubs \in Contents[g]
  BY <1>1, <1>3
<1>5. LoaderTyped'
  BY <1>2, <1>4 DEF LoaderInv, LoaderTyped
<1>6. LoadInv' /\ WholeInv'
  BY <1>2 DEF LoaderInv, LoadInv, WholeInv, Here, loader!Existing
<1> QED BY <1>5, <1>6 DEF LoaderInv

----------------------------------------------------------------------------
(* The steps of the reload.                                                *)

\* Between the calls of an update no ID is missing that will be there again.
InPlace ==
  \A l \in Loads : load[l].at = "read" /\ load'[l].at = "putting" =>
    (DOMAIN stored \ DOMAIN stored') \cap Range(load'[l].stubs) = {}

\* Only an update leaves a load between two calls.
LEMMA OtherSteps ==
  ASSUME LoaderInv, NEW l \in Loads, NEW r, r.at # "putting", load' = [load EXCEPT ![l] = r]
  PROVE  InPlace
<1>1. load \in [Loads -> [at : States, file : Files, version : Nat, stubs : Texts \cup Seq(AllIDs)]]
  BY DEF LoaderInv, LoaderTyped
<1>2. load'[l] = r /\ \A m \in Loads \ {l} : load'[m] = load[m]
  BY <1>1
<1> QED BY <1>2 DEF InPlace

LEMMA UpdateInPlace ==
  ASSUME LoaderInv, NEW l \in Loads, loader!HandleExistingFileUpdate(l)
  PROVE  InPlace
<1>1. PICK f \in Files : f = load[l].file
  BY DEF LoaderInv, LoaderTyped
<1>2. PICK ids : ids = loader!NewIDsOf(l)
  OBVIOUS
<1>3. DOMAIN stored \ DOMAIN stored' = Here(f) \ Range(ids)
  BY <1>1, <1>2, Replacement
<1>4. load' = [load EXCEPT ![l].at = "putting", ![l].stubs = ids]
  BY <1>2 DEF loader!HandleExistingFileUpdate
<1>5. load \in [Loads -> [at : States, file : Files, version : Nat, stubs : Texts \cup Seq(AllIDs)]]
  BY DEF LoaderInv, LoaderTyped
<1>6. load'[l].stubs = ids /\ \A m \in Loads \ {l} : load'[m] = load[m]
  BY <1>4, <1>5
<1>7. ASSUME NEW m \in Loads, load[m].at = "read", load'[m].at = "putting"
      PROVE  (DOMAIN stored \ DOMAIN stored') \cap Range(load'[m].stubs) = {}
  <2>1. m = l
    BY <1>6, <1>7
  <2>2. Range(load'[m].stubs) = Range(ids)
    BY <1>6, <2>1
  <2> QED BY <1>3, <2>2
<1> QED BY <1>7 DEF InPlace

\* Steps of the watcher alone.
LEMMA Elsewhere ==
  ASSUME LoaderInv, UNCHANGED <<disk, loaderVars>>
  PROVE  LoaderInv' /\ InPlace
<1>1. UNCHANGED <<disk, load, stored, mapIDsByFile, holder, applied>>
  BY DEF loaderVars
<1>2. LoaderInv'
  BY <1>1 DEF LoaderInv, LoaderTyped, LoadInv, WholeInv, Here, loader!Existing
<1>3. InPlace
  BY <1>1 DEF InPlace
<1> QED BY <1>2, <1>3

LEMMA LoadStepKeeps ==
  ASSUME LoaderInv, NEW l \in Loads, LoadStep(l)
  PROVE  LoaderInv' /\ InPlace
<1>1. UNCHANGED disk
  BY DEF LoadStep, LoaderOnly
<1>2. \/ loader!ReadStub(l) \/ loader!HandleFileReadError(l) \/ loader!HandleFirstTimeLoad(l)
      \/ loader!HandleExistingFileUpdate(l) \/ loader!PutUpdate(l)
  BY DEF LoadStep, LoaderOnly, loader!Apply
<1>3. CASE loader!ReadStub(l)
  <2> DEFINE r == [at |-> "read", file |-> load[l].file, version |-> disk[load[l].file].version,
                   stubs |-> disk[load[l].file].stubs]
  <2>1. r.at # "putting" /\ load' = [load EXCEPT ![l] = r]
    BY <1>3 DEF loader!ReadStub
  <2> HIDE DEF r
  <2> QED BY <1>1, <1>3, <2>1, ReadStep, OtherSteps
<1>4. ASSUME loader!Applied(l) PROVE InPlace
  <2>1. loader!NoLoad.at # "putting" /\ load' = [load EXCEPT ![l] = loader!NoLoad]
    BY <1>4 DEF loader!Applied, loader!NoLoad
  <2> QED BY <2>1, OtherSteps
<1>5. CASE loader!HandleFileReadError(l)
  BY <1>1, <1>4, <1>5, ErrorStep DEF loader!HandleFileReadError
<1>6. CASE loader!HandleFirstTimeLoad(l)
  BY <1>1, <1>4, <1>6, FirstStep DEF loader!HandleFirstTimeLoad
<1>7. CASE loader!HandleExistingFileUpdate(l)
  BY <1>1, <1>7, UpdateStep, UpdateInPlace
<1>8. CASE loader!PutUpdate(l)
  BY <1>1, <1>4, <1>8, PutUpdateStep DEF loader!PutUpdate
<1> QED BY <1>2, <1>3, <1>5, <1>6, <1>7, <1>8

LEMMA BeginKeeps ==
  ASSUME LoaderInv, NEW l \in Loads, NEW f \in Files, loader!Begin(l, f), UNCHANGED disk
  PROVE  LoaderInv' /\ InPlace
<1> DEFINE r == [at |-> "reading", file |-> f, version |-> 0, stubs |-> <<>>]
<1>1. r.at # "putting" /\ load' = [load EXCEPT ![l] = r]
  BY DEF loader!Begin
<1> HIDE DEF r
<1> QED BY <1>1, BeginStep, OtherSteps

LEMMA EditKeeps ==
  ASSUME LoaderInv, NEW f \in Files, EditFile(f)
  PROVE  LoaderInv' /\ InPlace
<1>1. loader!Edit(f) /\ UNCHANGED load
  BY DEF EditFile, loader!Edit, loader!loaderVars
<1>2. InPlace
  BY <1>1 DEF InPlace
<1> QED BY <1>1, <1>2, EditStep

LEMMA ReloadStep ==
  ASSUME WatcherInv, LoaderInv, [Next]_vars
  PROVE  LoaderInv' /\ InPlace
<1>1. CASE UNCHANGED vars
  BY <1>1, Elsewhere DEF vars
<1>2. ASSUME NEW f \in Files, EditFile(f) PROVE LoaderInv' /\ InPlace
  BY <1>2, EditKeeps
<1>3. ASSUME NEW f \in Files, LoadInitially(f) PROVE LoaderInv' /\ InPlace
  BY <1>3, BeginKeeps DEF LoadInitially, Loads
<1>4. CASE WatcherStep \/ WatcherOnly(Cancel)
  BY <1>4, Elsewhere DEF WatcherStep, StartWatching, WatcherOnly
<1>5. ASSUME NEW t \in Timers, TimerStep(t) PROVE LoaderInv' /\ InPlace
  <2>1. CASE Deliver(t)
    <3>1. timer[t].path \in Files
      BY DEF WatcherInv, Typed
    <3>2. loader!Begin(t, timer[t].path) /\ UNCHANGED disk
      BY <2>1 DEF Deliver
    <3> QED BY <3>1, <3>2, BeginKeeps DEF Loads
  <2>2. CASE ~Deliver(t)
    BY <1>5, <2>2, Elsewhere DEF TimerStep, WatcherOnly
  <2> QED BY <2>1, <2>2
<1>6. ASSUME NEW l \in Loads, LoadStep(l) PROVE LoaderInv' /\ InPlace
  BY <1>6, LoadStepKeeps
<1> QED BY <1>1, <1>2, <1>3, <1>4, <1>5, <1>6 DEF Next

\* No file has been loaded.
LEMMA LoaderStarts == Init => LoaderInv
<1> SUFFICES ASSUME Init PROVE LoaderInv
  OBVIOUS
<1>1. /\ disk \in [Files -> [version : {1}, stubs : Texts]]
      /\ \A f \in Files : disk[f].stubs \in Contents[f]
      /\ load = [l \in Loads |-> loader!NoLoad]
      /\ stored = <<>> /\ mapIDsByFile = <<>> /\ holder = Nobody
      /\ applied = [f \in Files |-> 0]
  BY DEF Init, loader!FilesInit, Texts, Loads
<1>2. loader!NoLoad \in [at : {"idle"}, file : Files, version : Nat, stubs : Texts \cup Seq(AllIDs)]
  <2>1. (CHOOSE g \in Files : TRUE) \in Files
    BY WatcherAssumption
  <2>2. <<>> \in Seq(AllIDs)
    OBVIOUS
  <2> QED BY <2>1, <2>2 DEF loader!NoLoad
<1> HIDE DEF loader!NoLoad
<1>3. DOMAIN stored = {} /\ DOMAIN mapIDsByFile = {}
  BY <1>1
<1>4. LoaderTyped
  BY <1>1, <1>2, <1>3 DEF LoaderTyped, States
<1>5. LoadInv
  BY <1>1, <1>2, ReloadAssumption DEF LoadInv, Loads
<1>6. \A f \in Files : Here(f) = {} /\ Range(loader!Existing(f)) = {}
  BY <1>1, <1>3 DEF Here, loader!Existing, Range
<1>7. WholeInv
  BY <1>1, <1>6 DEF WholeInv
<1> QED BY <1>4, <1>5, <1>7 DEF LoaderInv

\* Whatever loads run in whatever order, the storage holds for each file the
\* stubs of one of its contents, which mapIDsByFile knows: muMapIDs is held
\* across the two calls of an update, and the IDs that are given belong to the
\* file or to nobody (stubs.go handleExistingFileUpdate).
THEOREM FilesStoredWhole == Spec => []WholeContents
<1>1. Init => LoaderInv
  BY LoaderStarts
<1>2. WatcherInv /\ LoaderInv /\ [Next]_vars => LoaderInv'
  BY ReloadStep
<1>3. LoaderInv => WholeContents
  BY SameOperators DEF LoaderInv, WholeInv, Here, WholeContents, loader!WholeContents
<1>4. Spec => []WatcherInv
  BY WatcherInvariant
<1> QED BY <1>1, <1>2, <1>3, <1>4, PTL DEF Spec

\* A stub that stays in its file is never missing while the file is reloaded:
\* what an update deletes is disjoint from what it puts, the IDs that it hands
\* on to stubs without one included.
THEOREM StubsUpdatedInPlace == Spec => UpdatedInPlace
<1>1. Init => LoaderInv
  BY LoaderStarts
<1>2. WatcherInv /\ LoaderInv /\ [Next]_vars => LoaderInv'
  BY ReloadStep
<1>3. WatcherInv /\ LoaderInv /\ [Next]_vars =>
        [\A l \in Loads : load[l].at = "read" /\ load'[l].at = "putting" =>
           (DOMAIN stored \ DOMAIN stored') \cap loader!Range(load'[l].stubs) = {}]_loader!filesVars
  BY ReloadStep, SameOperators DEF InPlace
<1>4. Spec => []WatcherInv
  BY WatcherInvariant
<1> QED BY <1>1, <1>2, <1>3, <1>4, PTL DEF Spec, UpdatedInPlace, loader!UpdatedInPlace, Loads
=============================================================================
