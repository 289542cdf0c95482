---------------------------- MODULE LocksProofs ----------------------------
(***************************************************************************)
(* Proofs about the locks of the searcher, for any number of goroutines    *)
(* and any choice of operations for each.                                  *)
(***************************************************************************)
EXTENDS SearchLocks, SequenceTheorems, TLAPS

Modes == {"RLock", "Lock"}
Calls == [mode : Modes \cup {"Unlock"}, lock : Locks]

\* After its first i calls the program p holds the lock in the mode.
Has(p, i, lock, mode) ==
  \E k \in 1..i :
    /\ p[k] = [mode |-> mode, lock |-> lock]
    /\ \A j \in k + 1..i : p[j] # U(lock)

\* A program locks only what it does not hold, in whatever mode, unlocks only
\* what it holds, and holds nothing at its end.
Bracketed(p) ==
  /\ p \in Seq(Calls)
  /\ \A i \in 1..Len(p), mode \in Modes :
       p[i].mode \in Modes => ~Has(p, i - 1, p[i].lock, mode)
  /\ \A i \in 1..Len(p) :
       p[i].mode = "Unlock" => \E mode \in Modes : Has(p, i - 1, p[i].lock, mode)
  /\ \A lock \in Locks, mode \in Modes : ~Has(p, Len(p), lock, mode)

\* Only searcher.mu is held across another lock.
Shallow(p) ==
  \A i \in 1..Len(p), lock \in Locks \ {"search"}, mode \in Modes :
    Has(p, i - 1, lock, mode) => p[i] = U(lock)

Avoids(p, lock) == \A i \in 1..Len(p) : p[i].lock # lock

\* The program p between taking the lock in the mode and releasing it.
Around(mode, lock, p) == <<[mode |-> mode, lock |-> lock]>> \o p \o <<U(lock)>>

----------------------------------------------------------------------------
(* What a program holds, call by call.                                     *)

\* Nothing is held before the first call.
LEMMA HoldsNothing ==
  ASSUME NEW p, NEW lock, NEW mode
  PROVE  ~Has(p, 0, lock, mode)
BY DEF Has

\* What a call does to the locks its program holds.
LEMMA HoldsStep ==
  ASSUME NEW p \in Seq(Calls), NEW i \in 0..Len(p) - 1, NEW lock \in Locks, NEW mode \in Modes
  PROVE  Has(p, i + 1, lock, mode) <=>
           \/ p[i + 1] = [mode |-> mode, lock |-> lock]
           \/ Has(p, i, lock, mode) /\ p[i + 1] # U(lock)
<1>1. [mode |-> mode, lock |-> lock] # U(lock)
  BY DEF U, Modes
<1>2. CASE p[i + 1] = [mode |-> mode, lock |-> lock]
  BY <1>2 DEF Has
<1>3. CASE p[i + 1] # [mode |-> mode, lock |-> lock]
  <2>1. ASSUME Has(p, i + 1, lock, mode)
        PROVE  Has(p, i, lock, mode) /\ p[i + 1] # U(lock)
    <3>1. PICK k \in 1..i + 1 : /\ p[k] = [mode |-> mode, lock |-> lock]
                                /\ \A j \in k + 1..i + 1 : p[j] # U(lock)
      BY <2>1 DEF Has
    <3>2. k \in 1..i
      BY <3>1, <1>3
    <3> QED
      BY <3>1, <3>2 DEF Has
  <2>2. ASSUME Has(p, i, lock, mode), p[i + 1] # U(lock)
        PROVE  Has(p, i + 1, lock, mode)
    <3>1. PICK k \in 1..i : /\ p[k] = [mode |-> mode, lock |-> lock]
                            /\ \A j \in k + 1..i : p[j] # U(lock)
      BY <2>2 DEF Has
    <3>2. \A j \in k + 1..i + 1 : p[j] # U(lock)
      BY <3>1, <2>2
    <3> QED
      BY <3>1, <3>2 DEF Has
  <2> QED
    BY <1>3, <2>1, <2>2
<1> QED
  BY <1>2, <1>3

\* What a program holds depends on the calls it has made only.
LEMMA HoldsPrefix ==
  ASSUME NEW p, NEW q, NEW i \in Nat, NEW lock, NEW mode, \A k \in 1..i : p[k] = q[k]
  PROVE  Has(p, i, lock, mode) <=> Has(q, i, lock, mode)
<1>1. \A k \in 1..i : \A j \in k + 1..i : j \in 1..i
  OBVIOUS
<1> QED
  BY <1>1 DEF Has

----------------------------------------------------------------------------
(* Programs one after the other.                                           *)

\* What two programs in a row hold: the first leaves nothing to the second.
LEMMA ConcatHolds ==
  ASSUME NEW p, NEW q, Bracketed(p), Bracketed(q), NEW lock \in Locks, NEW mode \in Modes
  PROVE  /\ \A i \in 0..Len(p) : Has(p \o q, i, lock, mode) <=> Has(p, i, lock, mode)
         /\ \A i \in 0..Len(q) : Has(p \o q, Len(p) + i, lock, mode) <=> Has(q, i, lock, mode)
<1> DEFINE r == p \o q
<1>1. p \in Seq(Calls) /\ q \in Seq(Calls) /\ Len(p) \in Nat /\ Len(q) \in Nat
  BY DEF Bracketed
<1>2. /\ r \in Seq(Calls) /\ Len(r) = Len(p) + Len(q)
      /\ \A i \in 1..Len(p) : r[i] = p[i]
      /\ \A i \in 1..Len(q) : r[Len(p) + i] = q[i]
  BY <1>1, ConcatProperties
<1> HIDE DEF r
<1>3. \A i \in 0..Len(p) : Has(r, i, lock, mode) <=> Has(p, i, lock, mode)
  <2> TAKE i \in 0..Len(p)
  <2>1. i \in Nat /\ \A k \in 1..i : r[k] = p[k]
    BY <1>1, <1>2
  <2> QED
    BY <2>1, HoldsPrefix
<1>4. ASSUME NEW i \in 0..Len(q)
      PROVE  Has(r, Len(p) + i, lock, mode) <=> Has(q, i, lock, mode)
  <2>1. ASSUME Has(q, i, lock, mode) PROVE Has(r, Len(p) + i, lock, mode)
    <3>1. PICK k \in 1..i : /\ q[k] = [mode |-> mode, lock |-> lock]
                            /\ \A j \in k + 1..i : q[j] # U(lock)
      BY <2>1 DEF Has
    <3>2. Len(p) + k \in 1..Len(p) + i /\ r[Len(p) + k] = [mode |-> mode, lock |-> lock]
      BY <3>1, <1>1, <1>2
    <3>3. ASSUME NEW j \in Len(p) + k + 1..Len(p) + i PROVE r[j] # U(lock)
      <4>1. j - Len(p) \in k + 1..i /\ j - Len(p) \in 1..Len(q) /\ j = Len(p) + (j - Len(p))
        BY <1>1
      <4> QED
        BY <4>1, <3>1, <1>2
    <3> QED
      BY <3>2, <3>3 DEF Has
  <2>2. ASSUME Has(r, Len(p) + i, lock, mode) PROVE Has(q, i, lock, mode)
    <3>1. PICK k \in 1..Len(p) + i : /\ r[k] = [mode |-> mode, lock |-> lock]
                                     /\ \A j \in k + 1..Len(p) + i : r[j] # U(lock)
      BY <2>2 DEF Has
    <3>2. CASE k <= Len(p)
      <4>1. k \in 1..Len(p) /\ p[k] = [mode |-> mode, lock |-> lock]
        BY <3>1, <3>2, <1>1, <1>2
      <4>2. \A j \in k + 1..Len(p) : p[j] # U(lock)
        BY <3>1, <3>2, <1>1, <1>2
      <4> QED
        BY <4>1, <4>2 DEF Has, Bracketed
    <3>3. CASE k > Len(p)
      <4>1. k - Len(p) \in 1..i /\ k - Len(p) \in 1..Len(q) /\ k = Len(p) + (k - Len(p))
        BY <3>3, <1>1
      <4>2. q[k - Len(p)] = [mode |-> mode, lock |-> lock]
        BY <4>1, <3>1, <1>2
      <4>3. ASSUME NEW j \in (k - Len(p)) + 1..i PROVE q[j] # U(lock)
        <5>1. Len(p) + j \in k + 1..Len(p) + i /\ j \in 1..Len(q)
          BY <1>1, <4>1
        <5> QED
          BY <5>1, <3>1, <1>2
      <4> QED
        BY <4>1, <4>2, <4>3 DEF Has
    <3> QED
      BY <3>2, <3>3, <1>1
  <2> QED
    BY <2>1, <2>2
<1> QED
  BY <1>3, <1>4 DEF r

\* A call of two programs in a row is a call of one, made with the same locks.
LEMMA ConcatCalls ==
  ASSUME NEW p, NEW q, Bracketed(p), Bracketed(q), NEW i \in 1..Len(p \o q)
  PROVE  \/ /\ i \in 1..Len(p) /\ (p \o q)[i] = p[i]
            /\ \A lock \in Locks, mode \in Modes :
                 Has(p \o q, i - 1, lock, mode) <=> Has(p, i - 1, lock, mode)
         \/ /\ i - Len(p) \in 1..Len(q) /\ (p \o q)[i] = q[i - Len(p)]
            /\ \A lock \in Locks, mode \in Modes :
                 Has(p \o q, i - 1, lock, mode) <=> Has(q, i - Len(p) - 1, lock, mode)
<1>1. p \in Seq(Calls) /\ q \in Seq(Calls) /\ Len(p) \in Nat /\ Len(q) \in Nat
  BY DEF Bracketed
<1>2. /\ Len(p \o q) = Len(p) + Len(q)
      /\ \A j \in 1..Len(p) + Len(q) :
           (p \o q)[j] = IF j <= Len(p) THEN p[j] ELSE q[j - Len(p)]
  BY <1>1, ConcatProperties
<1>3. CASE i <= Len(p)
  <2>1. i \in 1..Len(p) /\ (p \o q)[i] = p[i] /\ i - 1 \in 0..Len(p)
    BY <1>1, <1>2, <1>3
  <2> QED
    BY <2>1, ConcatHolds
<1>4. CASE i > Len(p)
  <2>1. /\ i - Len(p) \in 1..Len(q) /\ (p \o q)[i] = q[i - Len(p)]
        /\ i - Len(p) - 1 \in 0..Len(q) /\ i - 1 = Len(p) + (i - Len(p) - 1)
    BY <1>1, <1>2, <1>4
  <2> QED
    BY <2>1, ConcatHolds
<1> QED
  BY <1>1, <1>2, <1>3, <1>4

\* Bracketed programs in a row are a bracketed program.
LEMMA ConcatBracketed ==
  ASSUME NEW p, NEW q, Bracketed(p), Bracketed(q)
  PROVE  Bracketed(p \o q)
<1>1. p \in Seq(Calls) /\ q \in Seq(Calls) /\ Len(p) \in Nat /\ Len(q) \in Nat
  BY DEF Bracketed
<1>2. p \o q \in Seq(Calls) /\ Len(p \o q) = Len(p) + Len(q)
  BY <1>1, ConcatProperties
<1>3. ASSUME NEW i \in 1..Len(p \o q), NEW mode \in Modes, (p \o q)[i].mode \in Modes
      PROVE  ~Has(p \o q, i - 1, (p \o q)[i].lock, mode)
  <2>1. (p \o q)[i] \in Calls
    BY <1>2
  <2>2. (p \o q)[i].lock \in Locks
    BY <2>1 DEF Calls
  <2>3. CASE /\ i \in 1..Len(p) /\ (p \o q)[i] = p[i]
             /\ \A lock \in Locks, m \in Modes : Has(p \o q, i - 1, lock, m) <=> Has(p, i - 1, lock, m)
    BY <1>3, <2>2, <2>3 DEF Bracketed
  <2>4. CASE /\ i - Len(p) \in 1..Len(q) /\ (p \o q)[i] = q[i - Len(p)]
             /\ \A lock \in Locks, m \in Modes :
                  Has(p \o q, i - 1, lock, m) <=> Has(q, i - Len(p) - 1, lock, m)
    BY <1>3, <2>2, <2>4 DEF Bracketed
  <2> QED
    BY <2>3, <2>4, ConcatCalls
<1>4. ASSUME NEW i \in 1..Len(p \o q), (p \o q)[i].mode = "Unlock"
      PROVE  \E mode \in Modes : Has(p \o q, i - 1, (p \o q)[i].lock, mode)
  <2>1. (p \o q)[i] \in Calls
    BY <1>2
  <2>2. (p \o q)[i].lock \in Locks
    BY <2>1 DEF Calls
  <2>3. CASE /\ i \in 1..Len(p) /\ (p \o q)[i] = p[i]
             /\ \A lock \in Locks, m \in Modes : Has(p \o q, i - 1, lock, m) <=> Has(p, i - 1, lock, m)
    BY <1>4, <2>2, <2>3 DEF Bracketed
  <2>4. CASE /\ i - Len(p) \in 1..Len(q) /\ (p \o q)[i] = q[i - Len(p)]
             /\ \A lock \in Locks, m \in Modes :
                  Has(p \o q, i - 1, lock, m) <=> Has(q, i - Len(p) - 1, lock, m)
    BY <1>4, <2>2, <2>4 DEF Bracketed
  <2> QED
    BY <2>3, <2>4, ConcatCalls
<1>5. ASSUME NEW lock \in Locks, NEW mode \in Modes
      PROVE  ~Has(p \o q, Len(p \o q), lock, mode)
  <2>1. Len(q) \in 0..Len(q) /\ Len(p \o q) = Len(p) + Len(q)
    BY <1>1, <1>2
  <2>2. Has(p \o q, Len(p) + Len(q), lock, mode) <=> Has(q, Len(q), lock, mode)
    BY <2>1, ConcatHolds
  <2> QED
    BY <2>1, <2>2 DEF Bracketed
<1> QED
  BY <1>2, <1>3, <1>4, <1>5 DEF Bracketed

\* And hold no second lock but under searcher.mu if neither does.
LEMMA ConcatShallow ==
  ASSUME NEW p, NEW q, Bracketed(p), Bracketed(q), Shallow(p), Shallow(q)
  PROVE  Shallow(p \o q)
<1> SUFFICES ASSUME NEW i \in 1..Len(p \o q), NEW lock \in Locks \ {"search"}, NEW mode \in Modes,
                    Has(p \o q, i - 1, lock, mode)
             PROVE  (p \o q)[i] = U(lock)
  BY DEF Shallow
<1> QED
  BY ConcatCalls DEF Shallow

\* Programs in a row avoid the locks that each of them avoids.
LEMMA ConcatAvoids ==
  ASSUME NEW p, NEW q, Bracketed(p), Bracketed(q), NEW lock, Avoids(p, lock), Avoids(q, lock)
  PROVE  Avoids(p \o q, lock)
<1> SUFFICES ASSUME NEW i \in 1..Len(p \o q)
             PROVE  (p \o q)[i].lock # lock
  BY DEF Avoids
<1> QED
  BY ConcatCalls DEF Avoids

----------------------------------------------------------------------------
(* A program between the Lock and the Unlock of a lock it does not use.    *)

\* Such a program is bracketed too, and holds its lock from its first call to
\* its last; nothing else is held at the last.
LEMMA Enclosed ==
  ASSUME NEW p, Bracketed(p), NEW lock \in Locks, NEW mode \in Modes, Avoids(p, lock)
  PROVE  /\ Bracketed(Around(mode, lock, p)) /\ Len(Around(mode, lock, p)) = Len(p) + 2
         /\ \A i \in 1..Len(p) + 1 : Has(Around(mode, lock, p), i, lock, mode)
         /\ \A i \in 1..Len(p) + 1, l \in Locks \ {lock}, m \in Modes :
              Has(Around(mode, lock, p), i, l, m) <=> Has(p, i - 1, l, m)
         /\ \A i \in 1..Len(p) : Around(mode, lock, p)[i + 1] = p[i]
         /\ \A l \in Locks : l # lock /\ Avoids(p, l) => Avoids(Around(mode, lock, p), l)
<1> DEFINE r == Around(mode, lock, p)
           call == [mode |-> mode, lock |-> lock]
<1>1. p \in Seq(Calls) /\ Len(p) \in Nat
  BY DEF Bracketed
<1>2. call \in Calls /\ U(lock) \in Calls /\ call # U(lock) /\ call.mode \in Modes
      /\ U(lock).mode = "Unlock" /\ call.lock = lock /\ U(lock).lock = lock
      /\ "Unlock" \notin Modes
  BY DEF Calls, U, Modes
<1>3. /\ r \in Seq(Calls) /\ Len(r) = Len(p) + 2
      /\ r[1] = call /\ r[Len(p) + 2] = U(lock)
      /\ \A i \in 1..Len(p) : r[i + 1] = p[i]
  <2>0. r = <<call>> \o p \o <<U(lock)>>
    BY DEF Around
  <2> HIDE DEF call, r
  <2>1. <<call>> \in Seq(Calls) /\ <<U(lock)>> \in Seq(Calls)
        /\ Len(<<call>>) = 1 /\ Len(<<U(lock)>>) = 1
        /\ <<call>>[1] = call /\ <<U(lock)>>[1] = U(lock)
    BY <1>2
  <2>2. /\ <<call>> \o p \in Seq(Calls) /\ Len(<<call>> \o p) = Len(p) + 1
        /\ (<<call>> \o p)[1] = call
        /\ \A i \in 1..Len(p) : (<<call>> \o p)[i + 1] = p[i]
    BY <1>1, <2>1, ConcatProperties
  <2> QED
    BY <1>1, <2>0, <2>1, <2>2, ConcatProperties
<1> HIDE DEF call, r
<1>4. \A i \in 1..Len(p) : p[i] \in Calls /\ p[i] # call /\ p[i] # U(lock)
  BY <1>1, <1>2 DEF Avoids
<1>5. ASSUME NEW i \in 1..Len(p) + 1 PROVE Has(r, i, lock, mode)
  <2>1. 1 \in 1..i /\ r[1] = [mode |-> mode, lock |-> lock]
    BY <1>1, <1>3 DEF call
  <2>2. ASSUME NEW j \in 2..i PROVE r[j] # U(lock)
    <3>1. j - 1 \in 1..Len(p) /\ j = (j - 1) + 1
      BY <1>1
    <3> QED
      BY <3>1, <1>3, <1>4
  <2> QED
    BY <2>1, <2>2 DEF Has
<1>6. ASSUME NEW i \in 0..Len(p), NEW l \in Locks, NEW m \in Modes, [mode |-> m, lock |-> l] # call
      PROVE  Has(r, i + 1, l, m) <=> Has(p, i, l, m)
  <2>1. ASSUME Has(r, i + 1, l, m) PROVE Has(p, i, l, m)
    <3>1. PICK k \in 1..i + 1 : /\ r[k] = [mode |-> m, lock |-> l]
                                /\ \A j \in k + 1..i + 1 : r[j] # U(l)
      BY <2>1 DEF Has
    <3>2. k - 1 \in 1..i /\ k - 1 \in 1..Len(p) /\ k = (k - 1) + 1
      BY <3>1, <1>3, <1>6, <1>1
    <3>3. \A j \in k..i : j \in 1..Len(p) /\ j + 1 \in k + 1..i + 1
      BY <3>2, <1>1
    <3>4. p[k - 1] = [mode |-> m, lock |-> l] /\ \A j \in (k - 1) + 1..i : p[j] # U(l)
      BY <3>1, <3>2, <3>3, <1>3
    <3> QED
      BY <3>2, <3>4 DEF Has
  <2>2. ASSUME Has(p, i, l, m) PROVE Has(r, i + 1, l, m)
    <3>1. PICK k \in 1..i : /\ p[k] = [mode |-> m, lock |-> l]
                            /\ \A j \in k + 1..i : p[j] # U(l)
      BY <2>2 DEF Has
    <3>2. k + 1 \in 1..i + 1 /\ r[k + 1] = [mode |-> m, lock |-> l]
      BY <3>1, <1>1, <1>3
    <3>3. ASSUME NEW j \in (k + 1) + 1..i + 1 PROVE r[j] # U(l)
      <4>1. j - 1 \in k + 1..i /\ j - 1 \in 1..Len(p) /\ j = (j - 1) + 1
        BY <1>1
      <4> QED
        BY <4>1, <3>1, <1>3
    <3> QED
      BY <3>2, <3>3 DEF Has
  <2> QED
    BY <2>1, <2>2
<1>7. \A i \in 0..Len(p), m \in Modes : ~Has(p, i, lock, m)
  BY <1>1, <1>2 DEF Has, Avoids
<1>8. Bracketed(r)
  <2>1. ASSUME NEW i \in 1..Len(r), NEW m \in Modes, r[i].mode \in Modes
        PROVE  ~Has(r, i - 1, r[i].lock, m)
    <3>1. CASE i = 1
      BY <3>1, HoldsNothing
    <3>2. CASE i \in 2..Len(p) + 1
      <4>1. i - 1 \in 1..Len(p) /\ i = (i - 1) + 1 /\ i - 2 \in 0..Len(p) /\ i - 1 = (i - 2) + 1
            /\ (i - 1) - 1 = i - 2
        BY <3>2, <1>1
      <4>2. r[i] = p[i - 1] /\ p[i - 1] \in Calls /\ r[i].lock \in Locks /\ r[i].lock # lock
        BY <4>1, <1>3, <1>4 DEF Calls, Avoids
      <4>3. ~Has(p, i - 2, r[i].lock, m)
        BY <4>1, <4>2, <2>1 DEF Bracketed
      <4>4. [mode |-> m, lock |-> r[i].lock] # call
        BY <4>2 DEF call
      <4> QED
        BY <4>1, <4>2, <4>3, <4>4, <1>6
    <3>3. CASE i = Len(p) + 2
      BY <3>3, <1>2, <1>3, <2>1
    <3> QED
      BY <3>1, <3>2, <3>3, <1>1, <1>3
  <2>2. ASSUME NEW i \in 1..Len(r), r[i].mode = "Unlock"
        PROVE  \E m \in Modes : Has(r, i - 1, r[i].lock, m)
    <3>1. CASE i = 1
      BY <3>1, <1>2, <1>3, <2>2
    <3>2. CASE i \in 2..Len(p) + 1
      <4>1. i - 1 \in 1..Len(p) /\ i = (i - 1) + 1 /\ i - 2 \in 0..Len(p) /\ i - 1 = (i - 2) + 1
            /\ (i - 1) - 1 = i - 2
        BY <3>2, <1>1
      <4>2. r[i] = p[i - 1] /\ p[i - 1] \in Calls /\ r[i].lock \in Locks /\ r[i].lock # lock
        BY <4>1, <1>3, <1>4 DEF Calls, Avoids
      <4>3. PICK m \in Modes : Has(p, i - 2, r[i].lock, m)
        BY <4>1, <4>2, <2>2 DEF Bracketed
      <4>4. [mode |-> m, lock |-> r[i].lock] # call
        BY <4>2 DEF call
      <4> QED
        BY <4>1, <4>2, <4>3, <4>4, <1>6
    <3>3. CASE i = Len(p) + 2
      <4>1. i - 1 \in 1..Len(p) + 1 /\ r[i].lock = lock
        BY <3>3, <1>1, <1>2, <1>3
      <4> QED
        BY <4>1, <1>5
    <3> QED
      BY <3>1, <3>2, <3>3, <1>1, <1>3
  <2>3. ASSUME NEW l \in Locks, NEW m \in Modes PROVE ~Has(r, Len(r), l, m)
    <3>1. Len(p) + 1 \in 0..Len(r) - 1 /\ Len(r) = (Len(p) + 1) + 1 /\ Len(p) \in 0..Len(p)
          /\ r[Len(r)] = U(lock)
      BY <1>1, <1>3
    <3>2. Has(r, Len(r), l, m) => /\ Has(r, Len(p) + 1, l, m) /\ l # lock
      <4>0. Has(r, (Len(p) + 1) + 1, l, m) =>
              \/ r[(Len(p) + 1) + 1] = [mode |-> m, lock |-> l]
              \/ Has(r, Len(p) + 1, l, m) /\ r[(Len(p) + 1) + 1] # U(l)
        <5> DEFINE i == Len(p) + 1
        <5>1. i \in 0..Len(r) - 1
          BY <3>1
        <5> HIDE DEF i
        <5>2. Has(r, i + 1, l, m) => \/ r[i + 1] = [mode |-> m, lock |-> l]
                                     \/ Has(r, i, l, m) /\ r[i + 1] # U(l)
          BY <5>1, <1>3, HoldsStep
        <5> QED
          BY <5>2 DEF i
      <4>1. Has(r, Len(r), l, m) => \/ r[Len(r)] = [mode |-> m, lock |-> l]
                                    \/ Has(r, Len(p) + 1, l, m) /\ r[Len(r)] # U(l)
        BY <4>0, <3>1
      <4>2. U(lock) # [mode |-> m, lock |-> l]
        BY DEF U, Modes
      <4> QED
        BY <4>1, <4>2, <3>1
    <3>3. l # lock => (Has(r, Len(p) + 1, l, m) <=> Has(p, Len(p), l, m))
      BY <3>1, <1>6 DEF call
    <3> QED
      BY <3>2, <3>3 DEF Bracketed
  <2> QED
    BY <2>1, <2>2, <2>3, <1>3 DEF Bracketed
<1>9. ASSUME NEW i \in 1..Len(p) + 1, NEW l \in Locks \ {lock}, NEW m \in Modes
      PROVE  Has(r, i, l, m) <=> Has(p, i - 1, l, m)
  <2>1. i - 1 \in 0..Len(p) /\ i = (i - 1) + 1
    BY <1>1, <1>3
  <2>2. [mode |-> m, lock |-> l] # call
    BY DEF call
  <2> QED
    BY <2>1, <2>2, <1>6
<1>10. ASSUME NEW l \in Locks, l # lock, Avoids(p, l) PROVE Avoids(r, l)
  <2> SUFFICES ASSUME NEW i \in 1..Len(r) PROVE r[i].lock # l
    BY DEF Avoids
  <2>1. i = 1 \/ i = Len(p) + 2 \/ (i - 1 \in 1..Len(p) /\ i = (i - 1) + 1)
    BY <1>1, <1>3
  <2> QED
    BY <2>1, <1>2, <1>3, <1>10 DEF Avoids
<1> QED
  BY <1>3, <1>5, <1>8, <1>9, <1>10 DEF r, call

\* What searcher.mu encloses may hold one lock at a time.
LEMMA EnclosedShallow ==
  ASSUME NEW p, Bracketed(p), Shallow(p), NEW mode \in Modes, Avoids(p, "search")
  PROVE  Shallow(Around(mode, "search", p))
<1> DEFINE r == Around(mode, "search", p)
<1>0. "search" \in Locks
  BY DEF Locks
<1>1. /\ Len(r) = Len(p) + 2
      /\ \A i \in 1..Len(p) + 1, l \in Locks \ {"search"}, m \in Modes :
           Has(r, i, l, m) <=> Has(p, i - 1, l, m)
      /\ \A i \in 1..Len(p) : r[i + 1] = p[i]
  BY <1>0, Enclosed
<1>2. Len(p) \in Nat
  BY DEF Bracketed
<1> HIDE DEF r
<1>3. ASSUME NEW i \in 1..Len(r), NEW l \in Locks \ {"search"}, NEW m \in Modes, Has(r, i - 1, l, m)
      PROVE  r[i] = U(l)
  <2>1. CASE i = 1
    BY <2>1, <1>3, HoldsNothing
  <2>2. CASE i \in 2..Len(p) + 2
    <3>1. i - 2 = (i - 1) - 1 /\ i = (i - 1) + 1 /\ i - 1 \in 1..Len(p) + 1
      BY <2>2, <1>1, <1>2
    <3>2. Has(p, i - 2, l, m)
      BY <3>1, <1>1, <1>3
    <3>3. i - 1 # Len(p) + 1
      <4> SUFFICES ASSUME i - 1 = Len(p) + 1 PROVE FALSE
        OBVIOUS
      <4>1. i - 2 = Len(p)
        BY <1>2
      <4> QED
        BY <4>1, <3>2 DEF Bracketed
    <3>4. i - 1 \in 1..Len(p)
      BY <3>1, <3>3, <1>2
    <3> QED
      BY <3>1, <3>2, <3>4, <1>1 DEF Shallow
  <2> QED
    BY <2>1, <2>2, <1>1, <1>2
<1> QED
  BY <1>3 DEF Shallow, r

----------------------------------------------------------------------------
(* The programs of the operations.                                         *)

\* One lock after the other.
LEMMA SingleLock ==
  ASSUME NEW lock \in Locks
  PROVE  /\ Bracketed(Read(lock)) /\ Shallow(Read(lock))
         /\ Bracketed(Write(lock)) /\ Shallow(Write(lock))
         /\ \A other \in Locks \ {lock} : Avoids(Read(lock), other) /\ Avoids(Write(lock), other)
<1>1. ASSUME NEW mode \in Modes, NEW p, p = <<[mode |-> mode, lock |-> lock], U(lock)>>
      PROVE  Bracketed(p) /\ Shallow(p) /\ \A other \in Locks \ {lock} : Avoids(p, other)
  <2> DEFINE call == [mode |-> mode, lock |-> lock]
  <2>1. call \in Calls /\ U(lock) \in Calls /\ call # U(lock) /\ call.mode \in Modes
        /\ U(lock).mode = "Unlock" /\ call.lock = lock /\ U(lock).lock = lock
        /\ "Unlock" \notin Modes
    BY <1>1 DEF Calls, U, Modes
  <2>2. p = <<call, U(lock)>>
    BY <1>1
  <2>3. \A l, m : [mode |-> m, lock |-> l] = call => l = lock /\ m = mode
    OBVIOUS
  <2>4. \A l : \A m \in Modes : [mode |-> m, lock |-> l] # U(lock)
    BY DEF U, Modes
  <2> HIDE DEF call
  <2>5. p \in Seq(Calls) /\ Len(p) = 2 /\ p[1] = call /\ p[2] = U(lock)
    BY <2>1, <2>2
  <2>6. ASSUME NEW l \in Locks, NEW m \in Modes
        PROVE  /\ ~Has(p, 0, l, m) /\ ~Has(p, 2, l, m)
               /\ Has(p, 1, l, m) <=> l = lock /\ m = mode
    <3>1. ~Has(p, 0, l, m)
      BY HoldsNothing
    <3>2. Has(p, 1, l, m) <=> p[1] = [mode |-> m, lock |-> l]
      BY DEF Has
    <3>3. Has(p, 2, l, m) => p[1] = [mode |-> m, lock |-> l] /\ p[2] # U(l)
      <4> SUFFICES ASSUME NEW k \in 1..2, p[k] = [mode |-> m, lock |-> l],
                          \A n \in k + 1..2 : p[n] # U(l)
                   PROVE  p[1] = [mode |-> m, lock |-> l] /\ p[2] # U(l)
        BY DEF Has
      <4>1. k # 2
        BY <2>4, <2>5
      <4> QED
        BY <4>1
    <3>4. call = [mode |-> mode, lock |-> lock]
      BY DEF call
    <3> QED
      BY <3>1, <3>2, <3>3, <3>4, <2>3, <2>4, <2>5
  <2>7. \A i \in 1..Len(p) : i = 1 \/ i = 2
    BY <2>5
  <2>8. 1 - 1 = 0 /\ 2 - 1 = 1
    OBVIOUS
  <2>9. Bracketed(p)
    <3>1. ASSUME NEW i \in 1..Len(p), NEW m \in Modes, p[i].mode \in Modes
          PROVE  ~Has(p, i - 1, p[i].lock, m)
      BY <3>1, <2>1, <2>5, <2>6, <2>7, <2>8
    <3>2. ASSUME NEW i \in 1..Len(p), p[i].mode = "Unlock"
          PROVE  \E m \in Modes : Has(p, i - 1, p[i].lock, m)
      BY <3>2, <2>1, <2>5, <2>6, <2>7, <2>8
    <3> QED
      BY <3>1, <3>2, <2>5, <2>6 DEF Bracketed
  <2>10. Shallow(p)
    BY <2>5, <2>6, <2>7, <2>8 DEF Shallow
  <2>11. \A other \in Locks \ {lock} : Avoids(p, other)
    BY <2>1, <2>5, <2>7 DEF Avoids
  <2> QED
    BY <2>9, <2>10, <2>11
<1>2. "RLock" \in Modes /\ "Lock" \in Modes
  BY DEF Modes
<1>3. Read(lock) = <<[mode |-> "RLock", lock |-> lock], U(lock)>>
  BY DEF Read, R
<1>4. Write(lock) = <<[mode |-> "Lock", lock |-> lock], U(lock)>>
  BY DEF Write, W
<1> QED
  BY <1>1, <1>2, <1>3, <1>4

\* A program that may run while searcher.mu is held, or is asked for.
Fine(p) == Bracketed(p) /\ Shallow(p)

\* Fine programs in a row are fine.
LEMMA FineConcat ==
  ASSUME NEW p, NEW q, Fine(p), Fine(q)
  PROVE  Fine(p \o q)
BY ConcatBracketed, ConcatShallow DEF Fine

\* The empty program, of a look-up that finds its view in the cache, is fine.
LEMMA FineEmpty == Fine(<<>>)
<1>1. <<>> \in Seq(Calls) /\ Len(<<>>) = 0 /\ 1..0 = {}
  OBVIOUS
<1> QED
  BY <1>1, HoldsNothing DEF Fine, Bracketed, Shallow

\* A fine program between the Lock and the Unlock of searcher.mu is fine.
LEMMA FineEnclosed ==
  ASSUME NEW p, Fine(p), Avoids(p, "search"), NEW mode \in Modes
  PROVE  Fine(Around(mode, "search", p))
<1>1. "search" \in Locks
  BY DEF Locks
<1> QED
  BY <1>1, Enclosed, EnclosedShallow DEF Fine

\* A program that goes on with locked calls is one followed by the other.
LEMMA AroundAfter ==
  ASSUME NEW x \in Seq(Calls), NEW p \in Seq(Calls), NEW mode \in Modes, NEW lock \in Locks
  PROVE  x \o <<[mode |-> mode, lock |-> lock]>> \o p \o <<U(lock)>> = x \o Around(mode, lock, p)
<1> DEFINE a == <<[mode |-> mode, lock |-> lock]>>
           d == <<U(lock)>>
<1>1. a \in Seq(Calls) /\ d \in Seq(Calls)
  BY DEF Calls, U
<1>2. Around(mode, lock, p) = a \o p \o d
  BY DEF Around
<1> HIDE DEF a, d
<1>3. x \o a \o p = x \o (a \o p) /\ a \o p \in Seq(Calls) /\ x \o a \in Seq(Calls)
  BY <1>1, ConcatAssociative, ConcatProperties
<1>4. (x \o (a \o p)) \o d = x \o ((a \o p) \o d)
  BY <1>1, <1>3, ConcatAssociative
<1> QED
  BY <1>2, <1>3, <1>4 DEF a, d

\* The programs of the searcher's parts, and what encloses nothing but reads.
LEMMA PartsFine ==
  /\ \A lock \in Locks : Fine(Read(lock)) /\ Fine(Write(lock))
  /\ Fine(tryReserve) /\ Fine(isVisibleAndNotExhausted) /\ Fine(posByPN)
  /\ Fine(visibleIndexedCandidates) /\ Fine(matchInternalStubs)
  /\ Avoids(Read("storage"), "search")
<1>1. \A lock \in Locks : Fine(Read(lock)) /\ Fine(Write(lock))
  BY SingleLock DEF Fine
<1>2. Fine(tryReserve) /\ Fine(isVisibleAndNotExhausted)
  BY <1>1 DEF tryReserve, isVisibleAndNotExhausted, Locks
<1>3. Fine(posByPN)
  BY <1>1, FineConcat DEF posByPN, Locks
<1>4. Fine(visibleIndexedCandidates)
  BY <1>1, <1>2, <1>3, FineConcat DEF visibleIndexedCandidates, Locks
<1>5. Fine(matchInternalStubs)
  BY <1>1, FineConcat DEF matchInternalStubs, Locks
<1>6. Avoids(Read("storage"), "search")
  BY SingleLock DEF Locks
<1> QED
  BY <1>1, <1>2, <1>3, <1>4, <1>5, <1>6

\* The full scan holds searcher.mu around the storage's lock, and no other two.
LEMMA ScanFine == \A cached \in BOOLEAN : Fine(resolveSearchCandidates(cached))
<1> TAKE cached \in BOOLEAN
<1> DEFINE missing == IF cached THEN <<>> ELSE Write("lookup")
           x == Read("lookup") \o missing \o posByPN
<1>1. "RLock" \in Modes /\ "search" \in Locks /\ "storage" \in Locks /\ "lookup" \in Locks
  BY DEF Modes, Locks
<1>2. Fine(missing)
  BY <1>1, FineEmpty, PartsFine
<1> HIDE DEF missing
<1>3. Fine(x)
  BY <1>1, <1>2, PartsFine, FineConcat
<1>4. Fine(Around("RLock", "search", Read("storage")))
  BY <1>1, PartsFine, FineEnclosed
<1>5. Fine(x \o Around("RLock", "search", Read("storage")))
  BY <1>3, <1>4, FineConcat
<1>6. resolveSearchCandidates(cached) =
        x \o <<[mode |-> "RLock", lock |-> "search"]>> \o Read("storage") \o <<U("search")>>
  BY DEF resolveSearchCandidates, R, x, missing
<1>7. x \in Seq(Calls) /\ Read("storage") \in Seq(Calls)
  BY <1>1, <1>3, PartsFine DEF Fine, Bracketed
<1> HIDE DEF x
<1> QED
  BY <1>1, <1>5, <1>6, <1>7, AroundAfter

\* The search for a similar stub asks for searcher.mu while it holds the
\* storage's lock: bracketed, and not fine.
LEMMA SimilarBracketed == Bracketed(bestSimilarStub)
<1> DEFINE iv == isVisibleAndNotExhausted
<1>1. "RLock" \in Modes /\ "search" \in Locks /\ "storage" \in Locks
  BY DEF Modes, Locks
<1>2. Bracketed(iv) /\ Bracketed(posByPN) /\ Avoids(iv, "storage")
  BY <1>1, PartsFine, SingleLock DEF Fine, isVisibleAndNotExhausted
<1>3. bestSimilarStub = posByPN \o <<[mode |-> "RLock", lock |-> "storage"]>> \o iv \o iv \o <<U("storage")>>
  BY DEF bestSimilarStub, R
<1> HIDE DEF iv
<1>4. Bracketed(iv \o iv) /\ Avoids(iv \o iv, "storage")
  BY <1>2, ConcatBracketed, ConcatAvoids
<1>5. Bracketed(Around("RLock", "storage", iv \o iv))
  BY <1>1, <1>4, Enclosed
<1>6. Bracketed(posByPN \o Around("RLock", "storage", iv \o iv))
  BY <1>2, <1>5, ConcatBracketed
<1>7. posByPN \in Seq(Calls) /\ iv \in Seq(Calls) /\ iv \o iv \in Seq(Calls)
  BY <1>2, <1>4 DEF Bracketed
<1> DEFINE y == posByPN \o <<[mode |-> "RLock", lock |-> "storage"]>>
<1>8. y \in Seq(Calls)
  <2> DEFINE a == <<[mode |-> "RLock", lock |-> "storage"]>>
  <2>1. a \in Seq(Calls)
    BY <1>1 DEF Calls
  <2> HIDE DEF a
  <2>2. posByPN \o a \in Seq(Calls)
    BY <2>1, <1>7, ConcatProperties
  <2> QED
    BY <2>2 DEF a
<1> HIDE DEF y
<1>9. y \o iv \o iv = y \o (iv \o iv)
  BY <1>7, <1>8, ConcatAssociative
<1>10. bestSimilarStub = posByPN \o <<[mode |-> "RLock", lock |-> "storage"]>> \o (iv \o iv) \o <<U("storage")>>
  BY <1>3, <1>9 DEF y
<1> QED
  BY <1>1, <1>6, <1>7, <1>10, AroundAfter

\* Clear wipes everything while it holds searcher.mu.
LEMMA ClearEncloses ==
  LET p == Write("lookup") \o Write("storage") \o Write("internal")
  IN  clear = Around("Lock", "search", p) /\ Fine(p) /\ Avoids(p, "search")
<1> DEFINE a == <<W("search")>>
           b == Write("lookup")
           c == Write("storage")
           d == Write("internal")
           e == <<U("search")>>
<1>1. clear = a \o b \o c \o d \o e
  BY DEF clear
<1>2. Around("Lock", "search", b \o c \o d) = a \o (b \o c \o d) \o e
  BY DEF Around, W
<1>3. a \in Seq(Calls)
  BY DEF W, Calls, Modes, Locks
<1>4. Fine(b) /\ Fine(c) /\ Fine(d)
  BY PartsFine DEF Locks
<1>5. Avoids(b, "search") /\ Avoids(c, "search") /\ Avoids(d, "search")
  BY SingleLock DEF Locks
<1> HIDE DEF a, b, c, d, e
<1>6. Fine(b \o c) /\ Fine(b \o c \o d)
  BY <1>4, FineConcat
<1>7. Avoids(b \o c, "search")
  BY <1>4, <1>5, ConcatAvoids DEF Fine
<1>8. Avoids(b \o c \o d, "search")
  BY <1>4, <1>5, <1>6, <1>7, ConcatAvoids DEF Fine
<1>9. b \in Seq(Calls) /\ c \in Seq(Calls) /\ d \in Seq(Calls) /\ b \o c \in Seq(Calls)
  BY <1>4, <1>6 DEF Fine, Bracketed
<1>10. a \o b \o c = a \o (b \o c)
  BY <1>3, <1>9, ConcatAssociative
<1>11. a \o (b \o c) \o d = a \o (b \o c \o d)
  <2> DEFINE bc == b \o c
  <2>1. bc \in Seq(Calls)
    BY <1>9
  <2> HIDE DEF bc
  <2>2. (a \o bc) \o d = a \o (bc \o d)
    BY <2>1, <1>3, <1>9, ConcatAssociative
  <2> QED
    BY <2>2 DEF bc
<1>12. clear = Around("Lock", "search", b \o c \o d)
  BY <1>1, <1>2, <1>10, <1>11
<1> QED
  BY <1>6, <1>8, <1>12 DEF b, c, d

\* Del wipes the counters and the stubs while it holds searcher.mu.
LEMMA DelEncloses ==
  /\ del = Around("Lock", "search", Write("storage"))
  /\ Fine(Write("storage")) /\ Avoids(Write("storage"), "search")
<1>1. del = Around("Lock", "search", Write("storage"))
  BY DEF del, Around, W
<1>2. Fine(Write("storage")) /\ Avoids(Write("storage"), "search")
  BY SingleLock DEF Locks, Fine
<1> QED
  BY <1>1, <1>2

\* Every operation but the search for a similar stub is fine.
LEMMA ProgramsFine == \A name \in DOMAIN Program \ {"find_similar"} : Fine(Program[name])
<1>0. "Lock" \in Modes /\ "RLock" \in Modes
  BY DEF Modes
<1>1. Fine(del) /\ Fine(clear)
  BY <1>0, DelEncloses, ClearEncloses, FineEnclosed
<1>2. \A lock \in Locks : Fine(Read(lock)) /\ Fine(Write(lock))
  BY PartsFine
<1>3. Fine(visibleIndexedCandidates \o tryReserve)
  BY PartsFine, FineConcat
<1>4. Fine(posByPN \o Read("storage") \o resolveSearchCandidates(FALSE) \o tryReserve)
  <2>1. Fine(posByPN \o Read("storage"))
    BY <1>2, PartsFine, FineConcat DEF Locks
  <2>2. Fine(resolveSearchCandidates(FALSE))
    BY ScanFine
  <2> QED
    BY <2>1, <2>2, PartsFine, FineConcat
<1>5. Fine(posByPN \o Read("lookup") \o Read("storage") \o isVisibleAndNotExhausted \o tryReserve)
  <2>1. Fine(posByPN \o Read("lookup") \o Read("storage"))
    BY <1>2, PartsFine, FineConcat DEF Locks
  <2> QED
    BY <2>1, PartsFine, FineConcat
<1>6. Fine(<<R("search")>> \o Read("storage") \o <<U("search")>>)
  <2>1. Fine(Around("RLock", "search", Read("storage")))
    BY <1>0, PartsFine, FineEnclosed DEF Locks
  <2> QED
    BY <2>1 DEF Around, R
<1>7. Fine(Read("search") \o Read("storage"))
  BY <1>2, FineConcat DEF Locks
<1>8. Fine(Write("storage")) /\ Fine(Write("internal")) /\ Fine(matchInternalStubs)
  BY <1>2, PartsFine DEF Locks
<1>9. DOMAIN Program = {"find_indexed", "find_similar", "find_scan", "find_by_id", "find_health",
                        "upsert", "put_internal", "del", "clear", "used", "unused"}
  BY DEF Program
<1>10. /\ Program["find_indexed"] = visibleIndexedCandidates \o tryReserve
       /\ Program["find_scan"] =
            posByPN \o Read("storage") \o resolveSearchCandidates(FALSE) \o tryReserve
       /\ Program["find_by_id"] =
            posByPN \o Read("lookup") \o Read("storage") \o isVisibleAndNotExhausted \o tryReserve
       /\ Program["find_health"] = matchInternalStubs
  BY DEF Program
<1>11. /\ Program["upsert"] = Write("storage") /\ Program["put_internal"] = Write("internal")
       /\ Program["del"] = del /\ Program["clear"] = clear
       /\ Program["used"] = <<R("search")>> \o Read("storage") \o <<U("search")>>
       /\ Program["unused"] = Read("search") \o Read("storage")
  BY DEF Program
<1> QED
  BY <1>1, <1>3, <1>4, <1>5, <1>6, <1>7, <1>8, <1>9, <1>10, <1>11

\* Every operation is bracketed.
LEMMA ProgramsBracketed == \A name \in DOMAIN Program : Bracketed(Program[name])
<1>1. Bracketed(visibleIndexedCandidates \o bestSimilarStub
                \o resolveSearchCandidates(TRUE) \o tryReserve)
  <2>1. Bracketed(visibleIndexedCandidates \o bestSimilarStub)
    BY PartsFine, SimilarBracketed, ConcatBracketed DEF Fine
  <2>2. Bracketed(resolveSearchCandidates(TRUE)) /\ Bracketed(tryReserve)
    BY PartsFine, ScanFine DEF Fine
  <2> QED
    BY <2>1, <2>2, ConcatBracketed
<1>2. Bracketed(Program["find_similar"])
  BY <1>1 DEF Program
<1> QED
  BY <1>2, ProgramsFine DEF Fine

\* A deletion holds searcher.mu for writing as long as it holds the storage's.
LEMMA DeletionsEnclose ==
  ASSUME NEW name \in {"del", "clear"}, NEW i \in 0..Len(Program[name]), NEW mode \in Modes,
         Has(Program[name], i, "storage", mode)
  PROVE  Has(Program[name], i, "search", "Lock")
<1>1. PICK p : Program[name] = Around("Lock", "search", p) /\ Fine(p) /\ Avoids(p, "search")
  BY DelEncloses, ClearEncloses DEF Program
<1>2. "Lock" \in Modes /\ "search" \in Locks /\ "storage" \in Locks
  BY DEF Modes, Locks
<1>3. /\ Len(Program[name]) = Len(p) + 2
      /\ \A j \in 1..Len(p) + 1 : Has(Program[name], j, "search", "Lock")
      /\ Bracketed(Program[name])
  BY <1>1, <1>2, Enclosed DEF Fine
<1>4. i # 0 /\ i # Len(Program[name])
  BY <1>2, <1>3, HoldsNothing DEF Bracketed
<1>5. Len(p) \in Nat
  BY <1>1 DEF Fine, Bracketed
<1> QED
  BY <1>3, <1>4, <1>5

----------------------------------------------------------------------------
(* The goroutines and the locks.                                           *)

\* The goroutine holds the lock in the mode.
Held(g, lock, mode) == Busy(g) /\ Has(Program[op[g]], at[g], lock, mode)

\* The goroutine is at the call, which has not returned.
Making(g, call) == Busy(g) /\ at[g] < Len(Program[op[g]]) /\ Call(g) = call

Typed ==
  /\ op \in [Goroutines -> DOMAIN Program \cup {"none"}]
  /\ at \in [Goroutines -> Nat]
  /\ readers \in [Locks -> SUBSET Goroutines]
  /\ queued \in [Locks -> SUBSET Goroutines]
  /\ writer \in [Locks -> SUBSET Goroutines]

\* A goroutine is inside an operation that it may call, or before all.
Placed ==
  \A g \in Goroutines :
    IF Busy(g) THEN op[g] \in Operations[g] /\ at[g] <= Len(Program[op[g]]) ELSE at[g] = 0

\* The readers of a lock are the goroutines that hold it for reading.
ReadersHold ==
  \A lock \in Locks, g \in Goroutines : g \in readers[lock] <=> Held(g, lock, "RLock")

\* A lock that is held for writing is held by one goroutine, which is its writer.
WriterAlone ==
  \A lock \in Locks, g \in Goroutines :
    Held(g, lock, "Lock") => writer[lock] = {g} /\ readers[lock] = {}

\* A lock has one writer at most, which holds it or waits in its Lock call.
WriterHoldsOrAsks ==
  \A lock \in Locks : \A g \in writer[lock] :
    writer[lock] = {g} /\ (Held(g, lock, "Lock") \/ Making(g, W(lock)))

\* Readers queue only behind a writer.
QueuedBehindWriter ==
  \A lock \in Locks : \A g \in queued[lock] : writer[lock] # Nobody /\ Making(g, R(lock))

LocksInv ==
  Typed /\ Placed /\ ReadersHold /\ WriterAlone /\ WriterHoldsOrAsks /\ QueuedBehindWriter

----------------------------------------------------------------------------
(* What a step of one goroutine does to what it holds.                     *)

\* A goroutine at no operation is told from one that is.
LEMMA NoneIsNoOperation == "none" \notin DOMAIN Program
BY DEF Program

\* A call is an RLock, a Lock or an Unlock of a lock.
LEMMA CallForms ==
  ASSUME Typed, Placed, NEW g \in Goroutines, Busy(g), at[g] < Len(Program[op[g]])
  PROVE  /\ Program[op[g]] \in Seq(Calls) /\ Bracketed(Program[op[g]])
         /\ at[g] + 1 \in 1..Len(Program[op[g]])
         /\ at[g] \in 0..Len(Program[op[g]]) - 1
         /\ Call(g).lock \in Locks
         /\ Call(g).mode = "RLock" => Call(g) = R(Call(g).lock)
         /\ Call(g).mode = "Lock" => Call(g) = W(Call(g).lock)
         /\ Call(g).mode = "Unlock" => Call(g) = U(Call(g).lock)
<1>1. op[g] \in DOMAIN Program /\ at[g] \in Nat
  BY DEF Typed, Busy
<1>2. Bracketed(Program[op[g]]) /\ Program[op[g]] \in Seq(Calls)
  BY <1>1, ProgramsBracketed DEF Bracketed
<1>3. at[g] + 1 \in 1..Len(Program[op[g]]) /\ at[g] \in 0..Len(Program[op[g]]) - 1
  BY <1>1, <1>2
<1>4. Call(g) \in Calls
  BY <1>2, <1>3 DEF Call
<1> QED
  BY <1>2, <1>3, <1>4 DEF Calls, R, W, U

\* A goroutine that does not move holds what it held and is where it was.
LEMMA Staying ==
  ASSUME NEW g, op'[g] = op[g], at'[g] = at[g]
  PROVE  /\ Busy(g)' <=> Busy(g)
         /\ \A lock, mode : Held(g, lock, mode)' <=> Held(g, lock, mode)
         /\ \A call : Making(g, call)' <=> Making(g, call)
BY DEF Busy, Held, Making, Call

\* A goroutine whose call returns holds what the call takes, not what it releases.
LEMMA Returning ==
  ASSUME Typed, Placed, NEW g \in Goroutines, Busy(g), at[g] < Len(Program[op[g]]),
         op'[g] = op[g], at'[g] = at[g] + 1
  PROVE  /\ Busy(g)' /\ at'[g] \in Nat /\ at'[g] <= Len(Program[op'[g]])
         /\ \A lock \in Locks, mode \in Modes :
              Held(g, lock, mode)' <=>
                \/ Call(g) = [mode |-> mode, lock |-> lock]
                \/ Held(g, lock, mode) /\ Call(g) # U(lock)
<1>1. /\ Program[op[g]] \in Seq(Calls) /\ at[g] \in 0..Len(Program[op[g]]) - 1
  BY CallForms
<1>2. ASSUME NEW lock \in Locks, NEW mode \in Modes
      PROVE  Has(Program[op[g]], at[g] + 1, lock, mode) <=>
               \/ Call(g) = [mode |-> mode, lock |-> lock]
               \/ Has(Program[op[g]], at[g], lock, mode) /\ Call(g) # U(lock)
  BY <1>1, HoldsStep DEF Call
<1> QED
  BY <1>1, <1>2 DEF Busy, Held

\* What a goroutine asks for it does not hold, in either mode, and what it
\* releases it holds in one.
LEMMA AskingIsNotHolding ==
  ASSUME Typed, Placed, NEW g \in Goroutines, NEW lock \in Locks
  PROVE  /\ Making(g, R(lock)) \/ Making(g, W(lock)) =>
              \A mode \in Modes : ~Held(g, lock, mode)
         /\ Making(g, U(lock)) => \E mode \in Modes : Held(g, lock, mode)
<1>1. R(lock).mode \in Modes /\ W(lock).mode \in Modes /\ U(lock).mode = "Unlock"
      /\ R(lock).lock = lock /\ W(lock).lock = lock /\ U(lock).lock = lock
  BY DEF R, W, U, Modes
<1>2. ASSUME NEW call, Making(g, call)
      PROVE  /\ Bracketed(Program[op[g]]) /\ at[g] + 1 \in 1..Len(Program[op[g]])
             /\ Program[op[g]][at[g] + 1] = call /\ (at[g] + 1) - 1 = at[g]
  BY <1>2, CallForms DEF Making, Call, Typed
<1>3. ASSUME NEW call, Making(g, call), call.mode \in Modes, call.lock = lock, NEW mode \in Modes
      PROVE  ~Held(g, lock, mode)
  BY <1>2, <1>3 DEF Bracketed, Held
<1>4. ASSUME Making(g, U(lock)) PROVE \E mode \in Modes : Held(g, lock, mode)
  <2>1. Busy(g)
    BY <1>4 DEF Making
  <2> QED
    BY <1>1, <1>2, <1>4, <2>1 DEF Bracketed, Held
<1> QED
  BY <1>1, <1>3, <1>4

\* A goroutine makes one call at a time.
LEMMA CallsDiffer ==
  ASSUME NEW a, NEW b
  PROVE  /\ R(a) # W(b) /\ R(a) # U(b) /\ W(a) # U(b)
         /\ (R(a) = R(b) => a = b) /\ (W(a) = W(b) => a = b) /\ (U(a) = U(b) => a = b)
         /\ R(a) = [mode |-> "RLock", lock |-> a] /\ W(a) = [mode |-> "Lock", lock |-> a]
         /\ "RLock" \in Modes /\ "Lock" \in Modes
         /\ \A mode \in Modes : U(a) # [mode |-> mode, lock |-> b]
         /\ \A mode \in Modes : mode = "RLock" \/ mode = "Lock"
<1>1. "RLock" # "Lock" /\ "RLock" # "Unlock" /\ "Lock" # "Unlock"
  OBVIOUS
<1> QED
  BY <1>1 DEF R, W, U, Modes

----------------------------------------------------------------------------
(* The invariant holds at the start and after every step.                  *)

\* At the start no goroutine runs an operation.
LEMMA LocksInit == Init => LocksInv
<1> SUFFICES ASSUME Init PROVE LocksInv
  OBVIOUS
<1>1. \A g \in Goroutines : ~Busy(g)
  BY DEF Init, Busy
<1>2. Typed
  BY DEF Init, Typed, Nobody
<1>3. Placed
  BY <1>1 DEF Init, Placed
<1> QED
  BY <1>1, <1>2, <1>3
     DEF Init, LocksInv, ReadersHold, WriterAlone, WriterHoldsOrAsks, QueuedBehindWriter, Held, Nobody

\* Begin: a goroutine that held nothing is before the first call.
LEMMA BeginKeeps ==
  ASSUME LocksInv, NEW g \in Goroutines, Begin(g)
  PROVE  LocksInv'
<1> USE DEF LocksInv
<1>1. PICK name \in Operations[g] : op' = [op EXCEPT ![g] = name]
  BY DEF Begin
<1>2. name \in DOMAIN Program /\ name # "none"
  BY OperationsAssumption, NoneIsNoOperation
<1>3. ~Busy(g) /\ at[g] = 0 /\ UNCHANGED <<at, readers, queued, writer>>
  BY DEF Begin, Placed
<1>4. op'[g] = name /\ Busy(g)' /\ \A h \in Goroutines \ {g} : op'[h] = op[h] /\ at'[h] = at[h]
  BY <1>1, <1>2, <1>3 DEF Typed, Busy
<1>5. \A lock, mode : ~Held(g, lock, mode) /\ ~Held(g, lock, mode)'
  BY <1>3, <1>4, HoldsNothing DEF Held
<1>6. \A h \in Goroutines \ {g} :
        /\ Busy(h)' <=> Busy(h)
        /\ \A lock, mode : Held(h, lock, mode)' <=> Held(h, lock, mode)
        /\ \A call : Making(h, call)' <=> Making(h, call)
  BY <1>4, Staying
<1>7. \A call : ~Making(g, call)
  BY <1>3 DEF Making
<1>8. Typed'
  BY <1>1, <1>2, <1>3 DEF Typed
<1>9. Placed'
  <2>1. Len(Program[name]) \in Nat
    BY <1>2, ProgramsBracketed DEF Bracketed
  <2> QED
    BY <1>3, <1>4, <1>6, <2>1 DEF Placed
<1>10. ReadersHold' /\ WriterAlone'
  BY <1>3, <1>5, <1>6 DEF ReadersHold, WriterAlone
<1>11. WriterHoldsOrAsks'
  BY <1>3, <1>5, <1>6, <1>7 DEF WriterHoldsOrAsks, Typed
<1>12. QueuedBehindWriter'
  BY <1>3, <1>6, <1>7 DEF QueuedBehindWriter, Typed
<1> QED
  BY <1>8, <1>9, <1>10, <1>11, <1>12

\* End: a program holds nothing at its end.
LEMMA EndKeeps ==
  ASSUME LocksInv, NEW g \in Goroutines, End(g)
  PROVE  LocksInv'
<1> USE DEF LocksInv
<1>1. Busy(g) /\ at[g] = Len(Program[op[g]]) /\ UNCHANGED <<readers, queued, writer>>
      /\ op' = [op EXCEPT ![g] = "none"] /\ at' = [at EXCEPT ![g] = 0]
  BY DEF End
<1>2. ~Busy(g)' /\ at'[g] = 0 /\ \A h \in Goroutines \ {g} : op'[h] = op[h] /\ at'[h] = at[h]
  BY <1>1 DEF Typed, Busy
<1>3. Bracketed(Program[op[g]]) /\ Len(Program[op[g]]) \in Nat
  BY <1>1, ProgramsBracketed DEF Typed, Busy, Bracketed
<1>4. \A lock \in Locks, mode \in Modes : ~Held(g, lock, mode)
  BY <1>1, <1>3 DEF Held, Bracketed
<1>5. \A lock, mode : ~Held(g, lock, mode)'
  BY <1>2 DEF Held
<1>6. \A h \in Goroutines \ {g} :
        /\ Busy(h)' <=> Busy(h)
        /\ \A lock, mode : Held(h, lock, mode)' <=> Held(h, lock, mode)
        /\ \A call : Making(h, call)' <=> Making(h, call)
  BY <1>2, Staying
<1>7. \A call : ~Making(g, call)
  BY <1>1, <1>3 DEF Making
<1>8. Typed'
  BY <1>1 DEF Typed
<1>9. Placed'
  BY <1>2, <1>6 DEF Placed
<1>10. ReadersHold' /\ WriterAlone'
  BY <1>1, <1>4, <1>5, <1>6, CallsDiffer DEF ReadersHold, WriterAlone
<1>11. WriterHoldsOrAsks'
  BY <1>1, <1>4, <1>6, <1>7, CallsDiffer DEF WriterHoldsOrAsks, Typed
<1>12. QueuedBehindWriter'
  BY <1>1, <1>6, <1>7 DEF QueuedBehindWriter, Typed
<1> QED
  BY <1>8, <1>9, <1>10, <1>11, <1>12

\* RLock of a lock that has no writer: one reader more.
LEMMA JoinKeeps ==
  ASSUME LocksInv, NEW g \in Goroutines, NEW l \in Locks, Making(g, R(l)),
         g \notin queued[l], writer[l] = Nobody,
         readers' = [readers EXCEPT ![l] = @ \cup {g}], Advance(g), UNCHANGED <<queued, writer>>
  PROVE  LocksInv'
<1> USE DEF LocksInv
<1>1. Busy(g) /\ at[g] < Len(Program[op[g]]) /\ Call(g) = R(l)
  BY DEF Making
<1>2. op' = op /\ at'[g] = at[g] + 1 /\ \A h \in Goroutines \ {g} : at'[h] = at[h]
  BY DEF Advance, Typed
<1>3. /\ Busy(g)' /\ at'[g] \in Nat /\ at'[g] <= Len(Program[op'[g]])
      /\ \A k \in Locks, mode \in Modes :
           Held(g, k, mode)' <=> \/ Call(g) = [mode |-> mode, lock |-> k]
                                 \/ Held(g, k, mode) /\ Call(g) # U(k)
  BY <1>1, <1>2, Returning
<1>4. ASSUME NEW k \in Locks
      PROVE  /\ Held(g, k, "RLock")' <=> (k = l \/ Held(g, k, "RLock"))
             /\ Held(g, k, "Lock")' <=> Held(g, k, "Lock")
  <2>1. R(l) # U(k) /\ R(l) # [mode |-> "Lock", lock |-> k]
    BY CallsDiffer
  <2>2. R(l) = [mode |-> "RLock", lock |-> k] <=> k = l
    BY CallsDiffer
  <2> QED
    BY <1>1, <1>3, <2>1, <2>2, CallsDiffer
<1>5. \A h \in Goroutines \ {g} :
        /\ Busy(h)' <=> Busy(h)
        /\ \A k, mode : Held(h, k, mode)' <=> Held(h, k, mode)
        /\ \A call : Making(h, call)' <=> Making(h, call)
  BY <1>2, Staying
<1>6. Typed'
  BY <1>2, <1>3 DEF Typed, Advance
<1>7. Placed'
  BY <1>1, <1>2, <1>3, <1>5 DEF Placed
<1>8. ReadersHold'
  BY <1>4, <1>5 DEF ReadersHold, Typed
<1>9. WriterAlone'
  BY <1>4, <1>5 DEF WriterAlone, Typed, Nobody
<1>10. WriterHoldsOrAsks'
  <2> SUFFICES ASSUME NEW k \in Locks, NEW h \in writer'[k]
               PROVE  writer'[k] = {h} /\ (Held(h, k, "Lock")' \/ Making(h, W(k))')
    BY DEF WriterHoldsOrAsks
  <2>1. h \in Goroutines /\ writer'[k] = writer[k]
    BY DEF Typed
  <2>2. writer[k] = {h} /\ (Held(h, k, "Lock") \/ Making(h, W(k)))
    BY <2>1 DEF WriterHoldsOrAsks
  <2>3. CASE h = g
    BY <2>1, <2>2, <2>3, <1>1, <1>4, CallsDiffer DEF Making
  <2>4. CASE h # g
    BY <2>1, <2>2, <2>4, <1>5
  <2> QED
    BY <2>3, <2>4
<1>11. QueuedBehindWriter'
  <2> SUFFICES ASSUME NEW k \in Locks, NEW h \in queued'[k]
               PROVE  writer'[k] # Nobody /\ Making(h, R(k))'
    BY DEF QueuedBehindWriter
  <2>1. h \in Goroutines /\ writer'[k] = writer[k] /\ h \in queued[k]
    BY DEF Typed
  <2>2. writer[k] # Nobody /\ Making(h, R(k))
    BY <2>1 DEF QueuedBehindWriter
  <2>3. k # l
    BY <2>2
  <2>4. h # g
    BY <2>2, <2>3, <1>1, CallsDiffer DEF Making
  <2> QED
    BY <2>1, <2>2, <2>4, <1>5
<1> QED
  BY <1>6, <1>7, <1>8, <1>9, <1>10, <1>11

\* RLock of a lock that has a writer: the goroutine queues and holds nothing new.
LEMMA QueueKeeps ==
  ASSUME LocksInv, NEW g \in Goroutines, NEW l \in Locks, Making(g, R(l)), writer[l] # Nobody,
         queued' = [queued EXCEPT ![l] = @ \cup {g}], UNCHANGED <<op, at, readers, writer>>
  PROVE  LocksInv'
<1> USE DEF LocksInv
<1>1. \A h \in Goroutines :
        /\ Busy(h)' <=> Busy(h)
        /\ \A k, mode : Held(h, k, mode)' <=> Held(h, k, mode)
        /\ \A call : Making(h, call)' <=> Making(h, call)
  BY Staying
<1>2. Typed'
  BY DEF Typed
<1>3. Placed' /\ ReadersHold' /\ WriterAlone'
  BY <1>1 DEF Placed, ReadersHold, WriterAlone
<1>4. WriterHoldsOrAsks'
  BY <1>1 DEF WriterHoldsOrAsks, Typed
<1>5. QueuedBehindWriter'
  BY <1>1 DEF QueuedBehindWriter, Typed
<1> QED
  BY <1>2, <1>3, <1>4, <1>5

\* A writer announces itself where there is none.
LEMMA AnnounceKeeps ==
  ASSUME LocksInv, NEW g \in Goroutines, NEW l \in Locks, Making(g, W(l)), writer[l] = Nobody,
         writer' = [writer EXCEPT ![l] = {g}], UNCHANGED <<op, at, readers, queued>>
  PROVE  LocksInv'
<1> USE DEF LocksInv
<1>1. \A h \in Goroutines :
        /\ Busy(h)' <=> Busy(h)
        /\ \A k, mode : Held(h, k, mode)' <=> Held(h, k, mode)
        /\ \A call : Making(h, call)' <=> Making(h, call)
  BY Staying
<1>2. Typed'
  BY DEF Typed
<1>3. Placed' /\ ReadersHold'
  BY <1>1 DEF Placed, ReadersHold
<1>4. WriterAlone'
  BY <1>1 DEF WriterAlone, Typed, Nobody
<1>5. WriterHoldsOrAsks'
  BY <1>1 DEF WriterHoldsOrAsks, Typed
<1>6. QueuedBehindWriter'
  BY <1>1 DEF QueuedBehindWriter, Typed, Nobody
<1> QED
  BY <1>2, <1>3, <1>4, <1>5, <1>6

\* Lock returns when the readers have left.
LEMMA LockKeeps ==
  ASSUME LocksInv, NEW g \in Goroutines, NEW l \in Locks, Making(g, W(l)), writer[l] = {g},
         readers[l] = {}, Advance(g), UNCHANGED <<readers, queued, writer>>
  PROVE  LocksInv'
<1> USE DEF LocksInv
<1>1. Busy(g) /\ at[g] < Len(Program[op[g]]) /\ Call(g) = W(l)
  BY DEF Making
<1>2. op' = op /\ at'[g] = at[g] + 1 /\ \A h \in Goroutines \ {g} : at'[h] = at[h]
  BY DEF Advance, Typed
<1>3. /\ Busy(g)' /\ at'[g] \in Nat /\ at'[g] <= Len(Program[op'[g]])
      /\ \A k \in Locks, mode \in Modes :
           Held(g, k, mode)' <=> \/ Call(g) = [mode |-> mode, lock |-> k]
                                 \/ Held(g, k, mode) /\ Call(g) # U(k)
  BY <1>1, <1>2, Returning
<1>4. ASSUME NEW k \in Locks
      PROVE  /\ Held(g, k, "RLock")' <=> Held(g, k, "RLock")
             /\ Held(g, k, "Lock")' <=> (k = l \/ Held(g, k, "Lock"))
  <2>1. /\ W(l) # U(k) /\ W(l) # [mode |-> "RLock", lock |-> k]
        /\ W(l) = [mode |-> "Lock", lock |-> k] <=> k = l
    BY CallsDiffer
  <2> QED
    BY <1>1, <1>3, <2>1, CallsDiffer
<1>5. \A h \in Goroutines \ {g} :
        /\ Busy(h)' <=> Busy(h)
        /\ \A k, mode : Held(h, k, mode)' <=> Held(h, k, mode)
        /\ \A call : Making(h, call)' <=> Making(h, call)
  BY <1>2, Staying
<1>6. Typed'
  BY <1>2, <1>3 DEF Typed, Advance
<1>7. Placed'
  BY <1>1, <1>2, <1>3, <1>5 DEF Placed
<1>8. ReadersHold' /\ WriterAlone'
  BY <1>4, <1>5 DEF ReadersHold, WriterAlone
<1>9. WriterHoldsOrAsks'
  <2> SUFFICES ASSUME NEW k \in Locks, NEW h \in writer'[k]
               PROVE  writer'[k] = {h} /\ (Held(h, k, "Lock")' \/ Making(h, W(k))')
    BY DEF WriterHoldsOrAsks
  <2>1. h \in Goroutines /\ writer'[k] = writer[k]
    BY DEF Typed
  <2>2. writer[k] = {h} /\ (Held(h, k, "Lock") \/ Making(h, W(k)))
    BY <2>1 DEF WriterHoldsOrAsks
  <2>3. CASE h = g
    BY <2>1, <2>2, <2>3, <1>1, <1>4, CallsDiffer DEF Making
  <2>4. CASE h # g
    BY <2>1, <2>2, <2>4, <1>5
  <2> QED
    BY <2>3, <2>4
<1>10. QueuedBehindWriter'
  <2> SUFFICES ASSUME NEW k \in Locks, NEW h \in queued'[k]
               PROVE  writer'[k] # Nobody /\ Making(h, R(k))'
    BY DEF QueuedBehindWriter
  <2>1. h \in Goroutines /\ writer'[k] = writer[k] /\ queued'[k] = queued[k]
    BY DEF Typed
  <2>2. writer[k] # Nobody /\ Making(h, R(k))
    BY <2>1 DEF QueuedBehindWriter
  <2>3. h # g
    BY <2>1, <2>2, <1>1, CallsDiffer DEF Making
  <2> QED
    BY <2>1, <2>2, <2>3, <1>5
<1> QED
  BY <1>6, <1>7, <1>8, <1>9, <1>10

\* RUnlock: one reader less.
LEMMA LeaveKeeps ==
  ASSUME LocksInv, NEW g \in Goroutines, NEW l \in Locks, Making(g, U(l)), g \in readers[l],
         readers' = [readers EXCEPT ![l] = @ \ {g}], Advance(g), UNCHANGED <<queued, writer>>
  PROVE  LocksInv'
<1> USE DEF LocksInv
<1>1. Busy(g) /\ at[g] < Len(Program[op[g]]) /\ Call(g) = U(l)
  BY DEF Making
<1>2. op' = op /\ at'[g] = at[g] + 1 /\ \A h \in Goroutines \ {g} : at'[h] = at[h]
  BY DEF Advance, Typed
<1>3. /\ Busy(g)' /\ at'[g] \in Nat /\ at'[g] <= Len(Program[op'[g]])
      /\ \A k \in Locks, mode \in Modes :
           Held(g, k, mode)' <=> \/ Call(g) = [mode |-> mode, lock |-> k]
                                 \/ Held(g, k, mode) /\ Call(g) # U(k)
  BY <1>1, <1>2, Returning
<1>4. ASSUME NEW k \in Locks, NEW mode \in Modes
      PROVE  Held(g, k, mode)' <=> (k # l /\ Held(g, k, mode))
  <2>1. U(l) # [mode |-> mode, lock |-> k] /\ (U(l) = U(k) <=> l = k)
    BY CallsDiffer
  <2> QED
    BY <1>1, <1>3, <2>1
<1>5. \A h \in Goroutines \ {g} :
        /\ Busy(h)' <=> Busy(h)
        /\ \A k, mode : Held(h, k, mode)' <=> Held(h, k, mode)
        /\ \A call : Making(h, call)' <=> Making(h, call)
  BY <1>2, Staying
<1>6. Typed'
  BY <1>2, <1>3 DEF Typed, Advance
<1>7. Placed'
  BY <1>1, <1>2, <1>3, <1>5 DEF Placed
<1>8. ReadersHold'
  BY <1>4, <1>5, CallsDiffer DEF ReadersHold, Typed
<1>9. WriterAlone'
  BY <1>4, <1>5, CallsDiffer DEF WriterAlone, Typed
<1>10. ~Held(g, l, "Lock")
  BY DEF WriterAlone
<1>11. WriterHoldsOrAsks'
  <2> SUFFICES ASSUME NEW k \in Locks, NEW h \in writer'[k]
               PROVE  writer'[k] = {h} /\ (Held(h, k, "Lock")' \/ Making(h, W(k))')
    BY DEF WriterHoldsOrAsks
  <2>1. h \in Goroutines /\ writer'[k] = writer[k]
    BY DEF Typed
  <2>2. writer[k] = {h} /\ (Held(h, k, "Lock") \/ Making(h, W(k)))
    BY <2>1 DEF WriterHoldsOrAsks
  <2>3. CASE h = g
    BY <2>1, <2>2, <2>3, <1>1, <1>4, <1>10, CallsDiffer DEF Making
  <2>4. CASE h # g
    BY <2>1, <2>2, <2>4, <1>5
  <2> QED
    BY <2>3, <2>4
<1>12. QueuedBehindWriter'
  <2> SUFFICES ASSUME NEW k \in Locks, NEW h \in queued'[k]
               PROVE  writer'[k] # Nobody /\ Making(h, R(k))'
    BY DEF QueuedBehindWriter
  <2>1. h \in Goroutines /\ writer'[k] = writer[k] /\ queued'[k] = queued[k]
    BY DEF Typed
  <2>2. writer[k] # Nobody /\ Making(h, R(k))
    BY <2>1 DEF QueuedBehindWriter
  <2>3. h # g
    BY <2>1, <2>2, <1>1, CallsDiffer DEF Making
  <2> QED
    BY <2>1, <2>2, <2>3, <1>5
<1> QED
  BY <1>6, <1>7, <1>8, <1>9, <1>11, <1>12

\* A writer's Unlock: the goroutines that queued are the readers.
LEMMA HandOverKeeps ==
  ASSUME LocksInv, NEW g \in Goroutines, NEW l \in Locks, Making(g, U(l)), g \notin readers[l],
         writer' = [writer EXCEPT ![l] = Nobody],
         readers' = [readers EXCEPT ![l] = queued[l]],
         queued' = [queued EXCEPT ![l] = {}],
         at' = [h \in Goroutines |-> IF h = g \/ h \in queued[l] THEN at[h] + 1 ELSE at[h]],
         UNCHANGED op
  PROVE  LocksInv'
<1> USE DEF LocksInv
<1> DEFINE in == queued[l]
<1>1. Busy(g) /\ at[g] < Len(Program[op[g]]) /\ Call(g) = U(l)
  BY DEF Making
<1>2. writer[l] = {g} /\ readers[l] = {} /\ Held(g, l, "Lock")
  BY AskingIsNotHolding, CallsDiffer DEF ReadersHold, WriterAlone
<1>3. ASSUME NEW h \in in
      PROVE  h \in Goroutines /\ h # g /\ Making(h, R(l))
  <2>1. h \in Goroutines /\ Making(h, R(l))
    BY DEF QueuedBehindWriter, Typed
  <2>2. h # g
    BY <2>1, <1>1, CallsDiffer DEF Making
  <2> QED
    BY <2>1, <2>2
<1>4. \A h \in in : Busy(h) /\ at[h] < Len(Program[op[h]]) /\ Call(h) = R(l)
  BY <1>3 DEF Making
<1> HIDE DEF in
<1>5. /\ op' = op /\ at'[g] = at[g] + 1 /\ \A h \in in : at'[h] = at[h] + 1
      /\ \A h \in Goroutines : h # g /\ h \notin in => at'[h] = at[h]
  BY <1>3 DEF in
<1>6. /\ Busy(g)' /\ at'[g] \in Nat /\ at'[g] <= Len(Program[op'[g]])
      /\ \A k \in Locks, mode \in Modes :
           Held(g, k, mode)' <=> \/ Call(g) = [mode |-> mode, lock |-> k]
                                 \/ Held(g, k, mode) /\ Call(g) # U(k)
  BY <1>1, <1>5, Returning
<1>7. ASSUME NEW h \in in
      PROVE  /\ Busy(h)' /\ at'[h] \in Nat /\ at'[h] <= Len(Program[op'[h]])
             /\ \A k \in Locks, mode \in Modes :
                  Held(h, k, mode)' <=> \/ Call(h) = [mode |-> mode, lock |-> k]
                                        \/ Held(h, k, mode) /\ Call(h) # U(k)
  BY <1>3, <1>4, <1>5, Returning
<1>8. ASSUME NEW k \in Locks, NEW mode \in Modes
      PROVE  Held(g, k, mode)' <=> (k # l /\ Held(g, k, mode))
  <2>1. U(l) # [mode |-> mode, lock |-> k] /\ (U(l) = U(k) <=> l = k)
    BY CallsDiffer
  <2> QED
    BY <1>1, <1>6, <2>1
<1>9. ASSUME NEW h \in in, NEW k \in Locks
      PROVE  /\ Held(h, k, "RLock")' <=> (k = l \/ Held(h, k, "RLock"))
             /\ Held(h, k, "Lock")' <=> Held(h, k, "Lock")
  <2>1. Call(h) = R(l) /\ R(l) # U(k) /\ R(l) # [mode |-> "Lock", lock |-> k]
    BY <1>4, CallsDiffer
  <2>2. R(l) = [mode |-> "RLock", lock |-> k] <=> k = l
    BY CallsDiffer
  <2> QED
    BY <1>7, <2>1, <2>2, CallsDiffer
<1>10. \A h \in Goroutines : h # g /\ h \notin in =>
         /\ Busy(h)' <=> Busy(h)
         /\ \A k, mode : Held(h, k, mode)' <=> Held(h, k, mode)
         /\ \A call : Making(h, call)' <=> Making(h, call)
  BY <1>5, Staying
<1>11. Typed'
  <2>1. at' \in [Goroutines -> Nat]
    BY DEF Typed
  <2> QED
    BY <2>1 DEF Typed, Nobody
<1>12. Placed'
  <2>1. \A h \in Goroutines : op[h] = op'[h]
    BY <1>5
  <2> QED
    BY <1>1, <1>3, <1>4, <1>5, <1>6, <1>7, <1>10, <2>1 DEF Placed
<1>13. ReadersHold'
  <2> SUFFICES ASSUME NEW k \in Locks, NEW h \in Goroutines
               PROVE  h \in readers'[k] <=> Held(h, k, "RLock")'
    BY DEF ReadersHold
  <2>1. readers'[k] = IF k = l THEN in ELSE readers[k]
    BY DEF Typed, in
  <2>2. h \in readers[k] <=> Held(h, k, "RLock")
    BY DEF ReadersHold
  <2>3. CASE h = g
    BY <2>1, <2>2, <2>3, <1>3, <1>8, CallsDiffer
  <2>4. CASE h \in in
    BY <2>1, <2>2, <2>4, <1>9
  <2>5. CASE h # g /\ h \notin in
    BY <2>1, <2>2, <2>5, <1>2, <1>10
  <2> QED
    BY <2>3, <2>4, <2>5
<1>14. WriterAlone'
  <2> SUFFICES ASSUME NEW k \in Locks, NEW h \in Goroutines, Held(h, k, "Lock")'
               PROVE  writer'[k] = {h} /\ readers'[k] = {}
    BY DEF WriterAlone
  <2>1. Held(h, k, "Lock") /\ (h = g => k # l)
    BY <1>3, <1>8, <1>9, <1>10, CallsDiffer
  <2>2. k # l
    BY <2>1, <1>2 DEF WriterAlone
  <2> QED
    BY <2>1, <2>2 DEF WriterAlone, Typed
<1>15. WriterHoldsOrAsks'
  <2> SUFFICES ASSUME NEW k \in Locks, NEW h \in writer'[k]
               PROVE  writer'[k] = {h} /\ (Held(h, k, "Lock")' \/ Making(h, W(k))')
    BY DEF WriterHoldsOrAsks
  <2>1. k # l /\ writer'[k] = writer[k] /\ h \in Goroutines
    BY DEF Typed, Nobody
  <2>2. writer[k] = {h} /\ (Held(h, k, "Lock") \/ Making(h, W(k)))
    BY <2>1 DEF WriterHoldsOrAsks
  <2>3. CASE h = g
    BY <2>1, <2>2, <2>3, <1>1, <1>8, CallsDiffer DEF Making
  <2>4. CASE h \in in
    BY <2>1, <2>2, <2>4, <1>4, <1>9, CallsDiffer DEF Making
  <2>5. CASE h # g /\ h \notin in
    BY <2>1, <2>2, <2>5, <1>10
  <2> QED
    BY <2>3, <2>4, <2>5
<1>16. QueuedBehindWriter'
  <2> SUFFICES ASSUME NEW k \in Locks, NEW h \in queued'[k]
               PROVE  writer'[k] # Nobody /\ Making(h, R(k))'
    BY DEF QueuedBehindWriter
  <2>1. k # l /\ writer'[k] = writer[k] /\ h \in queued[k] /\ h \in Goroutines
    BY DEF Typed
  <2>2. writer[k] # Nobody /\ Making(h, R(k))
    BY <2>1 DEF QueuedBehindWriter
  <2>3. h # g /\ h \notin in
    BY <2>1, <2>2, <1>1, <1>4, CallsDiffer DEF Making
  <2> QED
    BY <2>1, <2>2, <2>3, <1>10
<1> QED
  BY <1>11, <1>12, <1>13, <1>14, <1>15, <1>16

\* Every step keeps the invariant.
LEMMA LocksStep == LocksInv /\ [Next]_vars => LocksInv'
<1> SUFFICES ASSUME LocksInv, [Next]_vars PROVE LocksInv'
  OBVIOUS
<1>1. CASE UNCHANGED vars
  <2>1. \A g \in Goroutines :
          /\ Busy(g)' <=> Busy(g)
          /\ \A lock, mode : Held(g, lock, mode)' <=> Held(g, lock, mode)
          /\ \A call : Making(g, call)' <=> Making(g, call)
    BY <1>1, Staying DEF vars
  <2>2. Typed' /\ Placed' /\ ReadersHold' /\ WriterAlone'
    BY <1>1, <2>1 DEF vars, LocksInv, Typed, Placed, ReadersHold, WriterAlone
  <2>3. WriterHoldsOrAsks' /\ QueuedBehindWriter'
    BY <1>1, <2>1 DEF vars, LocksInv, Typed, WriterHoldsOrAsks, QueuedBehindWriter
  <2> QED
    BY <2>2, <2>3 DEF LocksInv
<1>2. CASE Next
  <2>1. PICK g \in Goroutines : Begin(g) \/ Step(g)
    BY <1>2 DEF Next
  <2>2. Typed /\ Placed
    BY DEF LocksInv
  <2>3. CASE Begin(g)
    BY <2>3, BeginKeeps
  <2>4. CASE End(g)
    BY <2>4, EndKeeps
  <2> DEFINE l == Call(g).lock
  <2>5. CASE RLock(g)
    <3>1. l \in Locks /\ Making(g, R(l))
      BY <2>2, <2>5, CallForms DEF RLock, AtCall, Making
    <3>2. g \notin queued[l] /\ UNCHANGED writer
      BY <2>5 DEF RLock
    <3>3. CASE writer[l] = Nobody
      BY <2>5, <3>1, <3>2, <3>3, JoinKeeps DEF RLock
    <3>4. CASE writer[l] # Nobody
      BY <2>5, <3>1, <3>2, <3>4, QueueKeeps DEF RLock
    <3> QED
      BY <3>3, <3>4
  <2>6. CASE AnnounceWriter(g)
    <3>1. l \in Locks /\ Making(g, W(l))
      BY <2>2, <2>6, CallForms DEF AnnounceWriter, AtCall, Making
    <3> QED
      BY <2>6, <3>1, AnnounceKeeps DEF AnnounceWriter
  <2>7. CASE Lock(g)
    <3>1. l \in Locks /\ Making(g, W(l))
      BY <2>2, <2>7, CallForms DEF Lock, AtCall, Making
    <3> QED
      BY <2>7, <3>1, LockKeeps DEF Lock
  <2>8. CASE Unlock(g)
    <3>1. l \in Locks /\ Making(g, U(l))
      BY <2>2, <2>8, CallForms DEF Unlock, AtCall, Making
    <3>2. CASE g \in readers[l]
      BY <2>8, <3>1, <3>2, LeaveKeeps DEF Unlock
    <3>3. CASE g \notin readers[l]
      BY <2>8, <3>1, <3>3, HandOverKeeps DEF Unlock
    <3> QED
      BY <3>2, <3>3
  <2> QED
    BY <2>1, <2>3, <2>4, <2>5, <2>6, <2>7, <2>8 DEF Step
<1> QED
  BY <1>1, <1>2

\* The locks work as sync.RWMutex promises, for programs that are bracketed:
\* who is past a Lock call is alone with the lock, and the readers of a lock
\* are the goroutines between their RLock and RUnlock calls.
THEOREM LocksInvariant == Spec => []LocksInv
BY LocksInit, LocksStep, PTL DEF Spec

----------------------------------------------------------------------------
(* Deletions.                                                              *)

\* The calls that Holds collects are those Has finds.
LEMMA HoldsAsHeld ==
  ASSUME Typed, Placed, NEW g \in Goroutines, NEW lock \in Locks, NEW mode \in Modes
  PROVE  HoldsLock(g, lock, mode) <=> Held(g, lock, mode)
<1>1. [mode |-> mode, lock |-> lock].mode # "Unlock" /\ [mode |-> mode, lock |-> lock].lock = lock
  BY DEF Modes
<1> QED
  BY <1>1 DEF HoldsLock, Holds, Held, Has

\* While a deletion has the storage locked it has searcher.mu locked, and two
\* goroutines do not have one lock when one of them writes.
LEMMA DeletesAreAlone == LocksInv => DeletesAtomic
<1> SUFFICES ASSUME LocksInv,
                    NEW g \in Goroutines, NEW h \in Goroutines \ {g},
                    op[g] \in {"del", "clear"}, HoldsLock(g, "storage", "Lock"),
                    NEW l \in {"search", "storage"}, NEW mode \in {"Lock", "RLock"},
                    HoldsLock(h, l, mode)
             PROVE  FALSE
  BY DEF DeletesAtomic
<1>1. Typed /\ Placed /\ l \in Locks /\ mode \in Modes /\ "storage" \in Locks /\ "search" \in Locks
      /\ "Lock" \in Modes
  BY DEF LocksInv, Locks, Modes
<1>2. Held(g, "storage", "Lock") /\ Held(h, l, mode)
  BY <1>1, HoldsAsHeld
<1>3. at[g] \in 0..Len(Program[op[g]])
  <2>1. Len(Program[op[g]]) \in Nat
    BY <1>1, <1>2, ProgramsBracketed DEF Typed, Held, Busy, Bracketed
  <2> QED
    BY <1>1, <1>2, <2>1 DEF Typed, Placed, Held
<1>4. Held(g, "search", "Lock")
  BY <1>1, <1>2, <1>3, DeletionsEnclose DEF Held
<1>5. writer[l] = {g} /\ readers[l] = {}
  BY <1>1, <1>2, <1>4 DEF LocksInv, WriterAlone
<1>6. CASE mode = "Lock"
  BY <1>1, <1>2, <1>5, <1>6 DEF LocksInv, WriterAlone
<1>7. CASE mode = "RLock"
  BY <1>1, <1>2, <1>5, <1>7 DEF LocksInv, ReadersHold
<1> QED
  BY <1>6, <1>7

\* del and clear are one step to every other operation, however many goroutines
\* call which operations: searcher.mu and the storage's lock are theirs alone
\* from the first counter they wipe to the last stub they remove.
THEOREM DeletionsAreOneStep == Spec => []DeletesAtomic
<1>1. LocksInv => DeletesAtomic
  BY DeletesAreAlone
<1> QED
  BY <1>1, LocksInvariant, PTL

----------------------------------------------------------------------------
(* Deadlock.                                                               *)

\* Where the goroutines that run an operation all wait, none waits for a lock
\* that nobody holds: its writer would go on.
LEMMA FreeLockLetsIn ==
  ASSUME LocksInv, \A g \in Goroutines : Busy(g) => WaitsFor(g) # {},
         NEW l \in Locks, \A g \in Goroutines, mode \in Modes : ~Held(g, l, mode),
         NEW g \in Goroutines, Busy(g)
  PROVE  Call(g).lock # l
<1> USE DEF LocksInv
<1>1. readers[l] = {}
  BY CallsDiffer DEF ReadersHold, Typed
<1>2. writer[l] = {}
  <2> SUFFICES ASSUME NEW h \in writer[l] PROVE FALSE
    OBVIOUS
  <2>1. h \in Goroutines /\ writer[l] = {h} /\ Making(h, W(l))
    BY CallsDiffer DEF WriterHoldsOrAsks, Typed
  <2>2. Busy(h) /\ AtCall(h, "Lock") /\ ~AtCall(h, "RLock") /\ Call(h).lock = l
    BY <2>1 DEF Making, AtCall, W
  <2>3. WaitsFor(h) = {}
    BY <1>1, <2>1, <2>2 DEF WaitsFor
  <2> QED
    BY <2>1, <2>2, <2>3
<1> QED
  BY <1>1, <1>2 DEF WaitsFor

\* Without the search for a similar stub somebody can always go on: who holds
\* another lock than searcher.mu releases it next, and who holds searcher.mu
\* asks for one of those.
LEMMA NobodyWaitsForAll ==
  ASSUME LocksInv, \A g \in Goroutines : "find_similar" \notin Operations[g]
  PROVE  NoDeadlock
<1> USE DEF LocksInv
<1> SUFFICES ASSUME NEW g \in Goroutines, Busy(g),
                    \A h \in Goroutines : Busy(h) => WaitsFor(h) # {}
             PROVE  FALSE
  BY DEF NoDeadlock
<1>1. ASSUME NEW h \in Goroutines, NEW l \in Locks, NEW mode \in Modes, Held(h, l, mode)
      PROVE  /\ Busy(h) /\ at[h] < Len(Program[op[h]])
             /\ l # "search" => Call(h) = U(l)
  <2>1. Busy(h) /\ Has(Program[op[h]], at[h], l, mode)
    BY <1>1 DEF Held
  <2>2. Fine(Program[op[h]]) /\ at[h] \in Nat /\ at[h] <= Len(Program[op[h]])
    BY <2>1, ProgramsFine DEF Typed, Placed, Busy
  <2>3. at[h] < Len(Program[op[h]])
    BY <2>1, <2>2 DEF Fine, Bracketed
  <2>4. at[h] + 1 \in 1..Len(Program[op[h]]) /\ (at[h] + 1) - 1 = at[h]
    BY <2>2, <2>3 DEF Fine, Bracketed
  <2> QED
    BY <2>1, <2>2, <2>3, <2>4 DEF Fine, Shallow, Call
<1>2. ASSUME NEW h \in Goroutines, Busy(h)
      PROVE  Making(h, R(Call(h).lock)) \/ Making(h, W(Call(h).lock))
  <2>1. AtCall(h, "RLock") \/ AtCall(h, "Lock")
    BY <1>2 DEF WaitsFor
  <2> QED
    BY <1>2, <2>1, CallForms DEF AtCall, Making
<1>3. \A h \in Goroutines, l \in Locks \ {"search"}, mode \in Modes : ~Held(h, l, mode)
  <2> SUFFICES ASSUME NEW h \in Goroutines, NEW l \in Locks \ {"search"}, NEW mode \in Modes,
                      Held(h, l, mode)
               PROVE  FALSE
    OBVIOUS
  <2>1. Busy(h) /\ Call(h) = U(l)
    BY <1>1
  <2>2. Call(h) = R(Call(h).lock) \/ Call(h) = W(Call(h).lock)
    BY <1>2, <2>1 DEF Making
  <2> QED
    BY <2>1, <2>2, CallsDiffer
<1>4. \A h \in Goroutines : Busy(h) => Call(h).lock \in {"search"}
  <2> SUFFICES ASSUME NEW h \in Goroutines, Busy(h) PROVE Call(h).lock = "search"
    OBVIOUS
  <2>1. Call(h).lock \in Locks
    BY <1>2, CallForms DEF Making
  <2> QED
    BY <1>3, <2>1, FreeLockLetsIn
<1>5. \A h \in Goroutines, mode \in Modes : ~Held(h, "search", mode)
  <2> SUFFICES ASSUME NEW h \in Goroutines, NEW mode \in Modes, Held(h, "search", mode) PROVE FALSE
    OBVIOUS
  <2>1. "search" \in Locks /\ Busy(h)
    BY DEF Locks, Held
  <2>2. Making(h, R("search")) \/ Making(h, W("search"))
    BY <1>2, <1>4, <2>1
  <2> QED
    BY <2>1, <2>2, AskingIsNotHolding
<1>6. "search" \in Locks
  BY DEF Locks
<1> QED
  BY <1>4, <1>5, <1>6, FreeLockLetsIn

\* However many goroutines call the searcher's other operations, they never all
\* wait for each other: the iterator of bestSimilarStub, which takes searcher.mu
\* inside storage.mu, is the only cause of the deadlock of NoDeadlock.
THEOREM OthersNeverDeadlock ==
  (\A g \in Goroutines : "find_similar" \notin Operations[g]) => (Spec => []NoDeadlock)
<1> SUFFICES ASSUME \A g \in Goroutines : "find_similar" \notin Operations[g]
             PROVE  Spec => []NoDeadlock
  OBVIOUS
<1>1. LocksInv => NoDeadlock
  BY NobodyWaitsForAll
<1> QED
  BY <1>1, LocksInvariant, PTL

=============================================================================
