---------------------------- MODULE HistoryProofs ----------------------------
(***************************************************************************)
(* Proofs about the call history, for any sessions, messages, limits and   *)
(* number of calls.                                                        *)
(***************************************************************************)
EXTENDS History, SequenceTheorems, WellFoundedInduction, TLAPS

Calls == [number : Nat, session : SessionNames, failed : BOOLEAN, message : Messages]

\* What the store holds: a call with what it charges.
Records == {r \in [call : Calls, size : Nat] : r.size = estimateRecordSize(r.call)}

----------------------------------------------------------------------------
(* Sums of sizes.                                                          *)

\* Every set of naturals with an element has a least one.
LEMMA LeastElement ==
  ASSUME NEW S \in SUBSET Nat, S # {}
  PROVE  \E n \in S : \A m \in S : n <= m
<1> DEFINE Below == {ij \in Nat \X Nat : ij[1] < ij[2]}
<1>1. OpToRel(<, Nat) = Below
  BY DEF OpToRel
<1>2. IsWellFoundedOn(Below, Nat)
  BY NatLessThanWellFounded, <1>1
<1>3. PICK n \in S : \A m \in S : <<m, n>> \notin Below
  <2> HIDE DEF Below
  <2> QED BY <1>2, WFMin
<1>4. ASSUME NEW m \in S PROVE n <= m
  <2>1. <<m, n>> \notin Below
    BY <1>3
  <2>2. m \in Nat /\ n \in Nat
    OBVIOUS
  <2> QED BY <2>1, <2>2
<1> QED BY <1>4

\* Induction over the iterations of a loop, as a fact about sets.
LEMMA Induct ==
  ASSUME NEW S, 0 \in S, \A n \in Nat : n \in S => n + 1 \in S
  PROVE  Nat \subseteq S
<1> SUFFICES ASSUME Nat \ S # {} PROVE FALSE
  OBVIOUS
<1>1. PICK n \in Nat \ S : \A m \in Nat \ S : n <= m
  BY LeastElement
<1>2. n # 0 /\ n - 1 \in Nat
  BY <1>1
<1>3. n - 1 \in S
  BY <1>1, <1>2
<1>4. (n - 1) + 1 \in S
  BY <1>2, <1>3
<1> QED BY <1>1, <1>4

\* The sums of the sizes of the first records.
Sums(f, s) ==
  /\ f \in [0..Len(s) -> Nat] /\ f[0] = 0
  /\ \A n \in 1..Len(s) : f[n] = f[n - 1] + s[n].size

\* The partial sums of the sizes exist, and the last of them is the total.
LEMMA SumsExist ==
  ASSUME NEW s \in Seq(Records)
  PROVE  \E f : Sums(f, s) /\ TotalSize(s) = f[Len(s)]
<1> DEFINE L == Len(s)
           Is(f, n) == f = [i \in 0..n |-> IF i = 0 THEN 0 ELSE f[i - 1] + s[i].size]
           sum == CHOOSE f : Is(f, L)
<1>1. L \in Nat /\ \A i \in 1..L : s[i].size \in Nat
  <2>1. \A i \in 1..L : s[i] \in Records
    BY ElementOfSeq
  <2> QED BY <2>1, LenProperties DEF Records
<1>2. TotalSize(s) = sum[L]
  BY DEF TotalSize
<1>3. \A n \in Nat : \E f : Is(f, n)
  <2> DEFINE S == {n \in Nat : \E f : Is(f, n)}
  <2>1. 0 \in S
    <3> DEFINE g == [i \in 0..0 |-> 0]
    <3>1. g = [i \in 0..0 |-> IF i = 0 THEN 0 ELSE g[i - 1] + s[i].size]
      OBVIOUS
    <3>2. \E f : Is(f, 0)
      BY <3>1
    <3> HIDE DEF Is
    <3> QED BY <3>2
  <2>2. ASSUME NEW n \in Nat, n \in S PROVE n + 1 \in S
    <3>1. PICK f : Is(f, n)
      BY <2>2
    <3> DEFINE g == [i \in 0..n + 1 |-> IF i = n + 1 THEN f[n] + s[n + 1].size ELSE f[i]]
    <3>2. Is(g, n + 1)
      BY <3>1
    <3>3. \E h : Is(h, n + 1)
      <4> HIDE DEF g, Is
      <4> QED BY <3>2
    <3> HIDE DEF Is
    <3> QED BY <3>3
  <2> HIDE DEF S
  <2>3. Nat \subseteq S
    BY <2>1, <2>2, Induct
  <2> QED BY <2>3 DEF S
<1>4. Is(sum, L)
  <2>1. \E f : Is(f, L)
    BY <1>1, <1>3
  <2> HIDE DEF Is, L
  <2> QED BY <2>1
<1> HIDE DEF sum, L
<1>5. \A i \in 0..L : sum[i] = IF i = 0 THEN 0 ELSE sum[i - 1] + s[i].size
  BY <1>4, Zenon
<1>6. DOMAIN sum = 0..L /\ sum = [i \in 0..L |-> sum[i]]
  BY <1>4
<1> HIDE DEF Is
<1>7. sum[0] = 0 /\ \A i \in 1..L : sum[i] = sum[i - 1] + s[i].size
  BY <1>1, <1>5
<1>8. \A n \in Nat : n <= L => sum[n] \in Nat
  <2> DEFINE S == {n \in Nat : n <= L => sum[n] \in Nat}
  <2>1. 0 \in S
    BY <1>7
  <2>2. ASSUME NEW n \in Nat, n \in S PROVE n + 1 \in S
    <3> SUFFICES ASSUME n + 1 <= L PROVE sum[n + 1] \in Nat
      OBVIOUS
    <3>1. sum[n] \in Nat /\ n + 1 \in 1..L /\ (n + 1) - 1 = n
      BY <1>1, <2>2
    <3> HIDE DEF S
    <3> QED BY <1>1, <1>7, <3>1
  <2> HIDE DEF S
  <2>3. Nat \subseteq S
    BY <2>1, <2>2, Induct
  <2> QED BY <2>3 DEF S
<1>9. sum \in [0..L -> Nat]
  BY <1>1, <1>6, <1>8
<1> QED BY <1>2, <1>7, <1>9 DEF Sums, L

\* A total is a natural number.
LEMMA TotalNat ==
  ASSUME NEW s \in Seq(Records)
  PROVE  TotalSize(s) \in Nat
<1>1. PICK f : Sums(f, s) /\ TotalSize(s) = f[Len(s)]
  BY SumsExist
<1>2. Len(s) \in 0..Len(s)
  BY LenProperties
<1> QED BY <1>1, <1>2 DEF Sums

\* The records between two places of a sequence add up to a difference.
LEMMA SliceTotal ==
  ASSUME NEW s \in Seq(Records), NEW f, Sums(f, s),
         NEW m \in 0..Len(s), NEW n \in m..Len(s)
  PROVE  /\ SubSeq(s, m + 1, n) \in Seq(Records)
         /\ TotalSize(SubSeq(s, m + 1, n)) = f[n] - f[m] /\ f[m] <= f[n]
<1> DEFINE t == SubSeq(s, m + 1, n)
<1>1. Len(s) \in Nat /\ \A i \in 1..Len(s) : s[i] \in Records
  BY ElementOfSeq, LenProperties
<1>2. t \in Seq(Records) /\ Len(t) = n - m /\ \A i \in 1..n - m : t[i] = s[m + i]
  <2>1. \A i \in m + 1..n : s[i] \in Records
    BY <1>1
  <2>2. t \in Seq(Records) /\ Len(t) = n - m
    BY <1>1, <2>1, SubSeqProperties
  <2>3. \A i \in 1..n - m : t[i] = s[m + i]
    BY <1>1, SubSeqProperties
  <2> QED BY <2>2, <2>3
<1>3. PICK g : Sums(g, t) /\ TotalSize(t) = g[Len(t)]
  BY <1>2, SumsExist
<1> HIDE DEF t
<1>4. \A k \in Nat : k <= n - m => g[k] = f[m + k] - f[m] /\ f[m] <= f[m + k]
  <2> DEFINE S == {k \in Nat : k <= n - m => g[k] = f[m + k] - f[m] /\ f[m] <= f[m + k]}
  <2>1. 0 \in S
    <3>1. g[0] = 0
      BY <1>3 DEF Sums
    <3>2. f[m] \in Nat /\ m + 0 = m
      BY <1>1 DEF Sums
    <3> QED BY <3>1, <3>2
  <2>2. ASSUME NEW k \in Nat, k \in S PROVE k + 1 \in S
    <3> SUFFICES ASSUME k + 1 <= n - m
                 PROVE  g[k + 1] = f[m + (k + 1)] - f[m] /\ f[m] <= f[m + (k + 1)]
      OBVIOUS
    <3>1. g[k] = f[m + k] - f[m] /\ f[m] <= f[m + k]
      BY <1>1, <2>2
    <3> HIDE DEF S
    <3>2. k + 1 \in 1..Len(t) /\ (k + 1) - 1 = k /\ m + (k + 1) \in 1..Len(s)
          /\ (m + (k + 1)) - 1 = m + k /\ m + k \in 0..Len(s)
      BY <1>1, <1>2
    <3>3. g[k + 1] = g[k] + t[k + 1].size
      BY <1>3, <3>2 DEF Sums
    <3>4. f[m + (k + 1)] = f[m + k] + s[m + (k + 1)].size
      BY <3>2 DEF Sums
    <3>5. t[k + 1] = s[m + (k + 1)] /\ s[m + (k + 1)].size \in Nat
      BY <1>1, <1>2, <3>2 DEF Records
    <3>6. f[m] \in Nat /\ f[m + k] \in Nat
      BY <3>2 DEF Sums
    <3> QED BY <3>1, <3>3, <3>4, <3>5, <3>6
  <2> HIDE DEF S
  <2>3. Nat \subseteq S
    BY <2>1, <2>2, Induct
  <2> QED BY <2>3 DEF S
<1>5. n - m \in Nat /\ m + (n - m) = n
  BY <1>1
<1>6. g[n - m] = f[n] - f[m] /\ f[m] <= f[n]
  BY <1>4, <1>5
<1> QED BY <1>2, <1>3, <1>6 DEF t

\* A record added at the end adds its size to the total.
LEMMA TotalAppend ==
  ASSUME NEW s \in Seq(Records), NEW e \in Records
  PROVE  /\ TotalSize(Append(s, e)) = TotalSize(s) + e.size
         /\ TotalSize(s) \in Nat /\ e.size \in Nat
<1> DEFINE t == Append(s, e)
<1>1. /\ t \in Seq(Records) /\ Len(s) \in Nat /\ Len(t) = Len(s) + 1 /\ t[Len(s) + 1] = e
      /\ SubSeq(t, 0 + 1, Len(s)) = s
  <2>1. /\ t \in Seq(Records) /\ Len(s) \in Nat /\ Len(t) = Len(s) + 1 /\ t[Len(s) + 1] = e
        /\ \A i \in 1..Len(s) : t[i] = s[i]
    BY AppendProperties, LenProperties
  <2>2. SubSeq(t, 1, Len(s)) = [i \in 1..Len(s) |-> t[i]]
    BY <2>1
  <2>3. s = [i \in 1..Len(s) |-> s[i]]
    BY LenProperties
  <2> QED BY <2>1, <2>2, <2>3
<1> HIDE DEF t
<1>2. PICK f : Sums(f, t) /\ TotalSize(t) = f[Len(t)]
  BY <1>1, SumsExist
<1>3. TotalSize(SubSeq(t, 0 + 1, Len(s))) = f[Len(s)] - f[0]
  BY <1>1, <1>2, SliceTotal
<1>4. f[0] = 0 /\ f[Len(s)] \in Nat /\ f[Len(s) + 1] = f[Len(s)] + e.size
  BY <1>1, <1>2 DEF Sums
<1>5. TotalSize(s) = f[Len(s)]
  <2>1. TotalSize(s) = f[Len(s)] - f[0]
    BY <1>1, <1>3, Zenon
  <2> QED BY <1>4, <2>1
<1> QED BY <1>1, <1>2, <1>4, <1>5 DEF t, Records

----------------------------------------------------------------------------
(* Selections, evictions and the ring.                                     *)

\* What is selected is part of a sequence in its order, and charges no more.
LEMMA Selection ==
  ASSUME NEW s \in Seq(Records), NEW wanted, NEW q, q = Selected(s, wanted)
  PROVE  /\ q \in Seq(Records) /\ Len(q) <= Len(s) /\ TotalSize(q) <= TotalSize(s)
         /\ \E at \in [1..Len(q) -> 1..Len(s)] :
              /\ \A i \in 1..Len(q) : q[i] = s[at[i]]
              /\ \A i, j \in 1..Len(q) : i < j => at[i] < at[j]
<1> DEFINE L == Len(s)
           More(p, e) == IF e \in wanted THEN Append(p, e) ELSE p
           Is(f, n) == f = [i \in 0..n |-> IF i = 0 THEN <<>> ELSE More(f[i - 1], s[i])]
           got == CHOOSE f : Is(f, L)
           Part(p, n) ==
             \E at \in [1..Len(p) -> 1..n] :
               /\ \A i \in 1..Len(p) : p[i] = s[at[i]]
               /\ \A i, j \in 1..Len(p) : i < j => at[i] < at[j]
           Good(p, n) == p \in Seq(Records) /\ Len(p) <= n /\ Part(p, n)
<1>1. L \in Nat /\ \A i \in 1..L : s[i] \in Records
  BY ElementOfSeq, LenProperties
<1>2. q = got[L]
  BY DEF Selected
<1> HIDE DEF More
<1>3. \A n \in Nat : \E f : Is(f, n)
  <2> DEFINE S == {n \in Nat : \E f : Is(f, n)}
  <2>1. 0 \in S
    <3> DEFINE g == [i \in 0..0 |-> <<>>]
    <3>1. g = [i \in 0..0 |-> IF i = 0 THEN <<>> ELSE More(g[i - 1], s[i])]
      <4>1. ASSUME NEW i \in 0..0
            PROVE  <<>> = IF i = 0 THEN <<>> ELSE More(g[i - 1], s[i])
        OBVIOUS
      <4> QED BY <4>1, Zenon
    <3>2. \E f : Is(f, 0)
      BY <3>1
    <3> HIDE DEF Is
    <3> QED BY <3>2
  <2>2. ASSUME NEW n \in Nat, n \in S PROVE n + 1 \in S
    <3>1. PICK f : Is(f, n)
      BY <2>2
    <3> DEFINE g == [i \in 0..n + 1 |-> IF i = n + 1 THEN More(f[n], s[n + 1]) ELSE f[i]]
    <3>2. Is(g, n + 1)
      BY <3>1
    <3>3. \E h : Is(h, n + 1)
      <4> HIDE DEF g, Is
      <4> QED BY <3>2
    <3> HIDE DEF Is
    <3> QED BY <3>3
  <2> HIDE DEF S
  <2>3. Nat \subseteq S
    BY <2>1, <2>2, Induct
  <2> QED BY <2>3 DEF S
<1>4. Is(got, L)
  <2>1. \E f : Is(f, L)
    BY <1>1, <1>3
  <2> HIDE DEF Is, L
  <2> QED BY <2>1
<1> HIDE DEF got, L
<1>5. \A i \in 0..L : got[i] = IF i = 0 THEN <<>> ELSE More(got[i - 1], s[i])
  BY <1>4, Zenon
<1> HIDE DEF Is
<1>6. got[0] = <<>> /\ \A n \in Nat : n + 1 <= L => got[n + 1] = More(got[n], s[n + 1])
  <2>1. 0 \in 0..L
    BY <1>1
  <2>2. ASSUME NEW n \in Nat, n + 1 <= L
        PROVE  n + 1 \in 0..L /\ n + 1 # 0 /\ (n + 1) - 1 = n
    BY <1>1, <2>2
  <2> QED BY <1>5, <2>1, <2>2
\* One more record is taken from behind what has been taken.
<1>7. ASSUME NEW p, NEW n \in Nat, n + 1 <= L, Good(p, n)
      PROVE  Good(Append(p, s[n + 1]), n + 1) /\ Good(p, n + 1)
  <2>1. PICK at \in [1..Len(p) -> 1..n] :
          /\ \A i \in 1..Len(p) : p[i] = s[at[i]]
          /\ \A i, j \in 1..Len(p) : i < j => at[i] < at[j]
    BY <1>7
  <2> DEFINE e == s[n + 1]
             r == Append(p, e)
             on == [i \in 1..Len(p) + 1 |-> IF i = Len(p) + 1 THEN n + 1 ELSE at[i]]
  <2>2. /\ r \in Seq(Records) /\ Len(p) \in Nat /\ Len(r) = Len(p) + 1
        /\ r[Len(p) + 1] = e /\ \A i \in 1..Len(p) : r[i] = p[i]
    <3>1. e \in Records /\ p \in Seq(Records)
      BY <1>1, <1>7
    <3> HIDE DEF e
    <3> QED BY <3>1, AppendProperties, LenProperties
  <2> HIDE DEF r
  <2>3. on \in [1..Len(r) -> 1..n + 1]
    BY <2>1, <2>2
  <2>4. \A i \in 1..Len(r) : r[i] = s[on[i]]
    BY <2>1, <2>2
  <2>5. ASSUME NEW i \in 1..Len(r), NEW j \in 1..Len(r), i < j PROVE on[i] < on[j]
    <3>1. i \in 1..Len(p) /\ on[i] = at[i] /\ at[i] \in 1..n
      BY <2>1, <2>2, <2>5
    <3>2. CASE j = Len(p) + 1
      <4>1. on[j] = n + 1
        BY <2>2, <3>2
      <4> HIDE DEF on
      <4> QED BY <3>1, <4>1
    <3>3. CASE j # Len(p) + 1
      <4>1. j \in 1..Len(p) /\ on[j] = at[j]
        BY <2>2, <3>3
      <4> HIDE DEF on
      <4> QED BY <2>1, <2>5, <3>1, <4>1
    <3> QED BY <3>2, <3>3
  <2>6. Part(r, n + 1)
    <3> HIDE DEF on
    <3> QED BY <2>3, <2>4, <2>5
  <2>7. at \in [1..Len(p) -> 1..n + 1]
    BY <2>1
  <2>8. Part(p, n + 1)
    BY <2>1, <2>7
  <2> HIDE DEF Part
  <2> QED BY <1>7, <2>2, <2>6, <2>8 DEF r
<1>8. \A n \in Nat : n <= L => Good(got[n], n)
  <2> DEFINE S == {n \in Nat : n <= L => Good(got[n], n)}
  <2>1. 0 \in S
    <3> DEFINE none == <<>>
               at == [i \in 1..0 |-> 0]
    <3>1. none \in Seq(Records) /\ Len(none) = 0
      OBVIOUS
    <3> HIDE DEF none
    <3>2. Part(none, 0)
      <4>1. at \in [1..Len(none) -> 1..0] /\ 1..Len(none) = {}
        BY <3>1
      <4> HIDE DEF at
      <4> QED BY <4>1
    <3>3. Good(none, 0)
      <4> HIDE DEF Part
      <4> QED BY <3>1, <3>2
    <3> HIDE DEF Good
    <3>4. got[0] = none
      BY <1>6 DEF none
    <3> QED BY <3>3, <3>4
  <2>2. ASSUME NEW n \in Nat, n \in S PROVE n + 1 \in S
    <3> SUFFICES ASSUME n + 1 <= L PROVE Good(got[n + 1], n + 1)
      OBVIOUS
    <3>1. Good(got[n], n)
      BY <1>1, <2>2
    <3> HIDE DEF S, Good
    <3>2. got[n + 1] = More(got[n], s[n + 1])
      BY <1>6
    <3>3. Good(Append(got[n], s[n + 1]), n + 1) /\ Good(got[n], n + 1)
      BY <1>7, <3>1
    <3> QED BY <3>2, <3>3 DEF More
  <2> HIDE DEF S
  <2>3. Nat \subseteq S
    BY <2>1, <2>2, Induct
  <2> QED BY <2>3 DEF S
<1>9. Good(q, L)
  <2>1. L <= L
    BY <1>1
  <2> HIDE DEF Good
  <2> QED BY <1>1, <1>2, <1>8, <2>1
\* The sums of what is selected stay behind those of the sequence.
<1>10. PICK f : Sums(f, s) /\ TotalSize(s) = f[L]
  BY SumsExist DEF L
<1>11. \A n \in Nat : n <= L => TotalSize(got[n]) <= f[n]
  <2> DEFINE S == {n \in Nat : n <= L => TotalSize(got[n]) <= f[n]}
  <2>1. 0 \in S
    <3> DEFINE none == <<>>
    <3>1. none \in Seq(Records) /\ Len(none) = 0
      OBVIOUS
    <3>2. got[0] = none
      BY <1>6
    <3> HIDE DEF none
    <3>3. PICK g : Sums(g, none) /\ TotalSize(none) = g[Len(none)]
      BY <3>1, SumsExist
    <3>4. TotalSize(none) = 0 /\ f[0] = 0
      BY <1>10, <3>1, <3>3 DEF Sums
    <3> QED BY <3>2, <3>4
  <2>2. ASSUME NEW n \in Nat, n \in S PROVE n + 1 \in S
    <3> SUFFICES ASSUME n + 1 <= L PROVE TotalSize(got[n + 1]) <= f[n + 1]
      OBVIOUS
    <3> DEFINE p == got[n]
               e == s[n + 1]
    <3>1. TotalSize(p) <= f[n] /\ p \in Seq(Records)
      BY <1>1, <1>8, <2>2
    <3>2. e \in Records /\ got[n + 1] = More(p, e)
      BY <1>1, <1>6
    <3>3. n + 1 \in 1..Len(s) /\ (n + 1) - 1 = n /\ n \in 0..Len(s)
      BY <1>1 DEF L
    <3>4. f[n + 1] = f[n] + e.size /\ f[n] \in Nat
      BY <1>10, <3>3 DEF Sums
    <3> HIDE DEF p, e, S, Good
    <3>5. /\ TotalSize(Append(p, e)) = TotalSize(p) + e.size
          /\ TotalSize(p) \in Nat /\ e.size \in Nat
      BY <3>1, <3>2, TotalAppend
    <3>6. CASE got[n + 1] = Append(p, e)
      BY <3>1, <3>4, <3>5, <3>6
    <3>7. CASE got[n + 1] = p
      BY <3>1, <3>4, <3>5, <3>7
    <3> QED BY <3>2, <3>6, <3>7 DEF More
  <2> HIDE DEF S
  <2>3. Nat \subseteq S
    BY <2>1, <2>2, Induct
  <2> QED BY <2>3 DEF S
<1>12. TotalSize(q) <= TotalSize(s)
  BY <1>1, <1>2, <1>10, <1>11
<1> QED BY <1>9, <1>12 DEF L

\* The eviction takes the fewest of the oldest records that bring the rest
\* within the budget, and never the newest.
LEMMA Eviction ==
  ASSUME NEW s \in Seq(Records), Len(s) > 0, NEW f, Sums(f, s), TotalSize(s) = f[Len(s)],
         NEW n, n = Evicted(s, TotalSize(s))
  PROVE  /\ n \in 0..Len(s) - 1
         /\ limitBytes = 0 => n = 0
         /\ limitBytes > 0 => /\ n = Len(s) - 1 \/ f[Len(s)] - f[n] <= limitBytes
                              /\ \A k \in 0..n - 1 : f[Len(s)] - f[k] > limitBytes
<1> DEFINE L == Len(s)
           Over(k) == f[L] - TotalSize(SubSeq(s, 1, k))
           Left(k) == f[L] - f[k]
           Ends(k) == k = L - 1 \/ Left(k) <= limitBytes
           Fits(k) == k \in 0..L - 1 /\ Ends(k) /\ \A j \in 0..k - 1 : Left(j) > limitBytes
<1>1. L \in Nat /\ L > 0
  BY LenProperties
<1>2. \A k \in 0..L : Over(k) = Left(k) /\ Left(k) \in Int
  <2> SUFFICES ASSUME NEW k \in 0..L PROVE Over(k) = Left(k) /\ Left(k) \in Int
    OBVIOUS
  <2>1. TotalSize(SubSeq(s, 0 + 1, k)) = f[k] - f[0]
    <3>1. 0 \in 0..Len(s) /\ k \in 0..Len(s)
      BY <1>1
    <3> QED BY <3>1, SliceTotal
  <2>2. f[0] = 0 /\ f[k] \in Nat /\ f[L] \in Nat
    BY <1>1 DEF Sums
  <2>3. 0 + 1 = 1
    OBVIOUS
  <2>4. TotalSize(SubSeq(s, 1, k)) = f[k] - f[0]
    BY <2>1, <2>3, Zenon
  <2> QED BY <2>2, <2>4
<1>3. CASE limitBytes = 0
  BY <1>1, <1>3 DEF Evicted
<1>4. CASE limitBytes # 0
  <2> HIDE DEF L, Over, Left
  <2>1. n = CHOOSE k \in 0..L - 1 : /\ k = L - 1 \/ Over(k) <= limitBytes
                                    /\ \A j \in 0..k - 1 : Over(j) > limitBytes
    BY <1>4 DEF Evicted, L, Over
  <2>2. \E k \in 0..L - 1 : Fits(k)
    <3> DEFINE S == {k \in 0..L - 1 : Ends(k)}
    <3>1. L - 1 \in S /\ S \in SUBSET Nat
      <4>1. L - 1 \in 0..L - 1 /\ 0..L - 1 \subseteq Nat
        BY <1>1
      <4> QED BY <4>1
    <3>2. PICK k \in S : \A j \in S : k <= j
      <4> HIDE DEF S
      <4> QED BY <3>1, LeastElement
    <3>3. \A j \in 0..k - 1 : Left(j) > limitBytes
      <4> SUFFICES ASSUME NEW j \in 0..k - 1 PROVE Left(j) > limitBytes
        OBVIOUS
      <4>1. j \in 0..L - 1 /\ j < k /\ Left(j) \in Int
        BY <1>1, <1>2, <3>2
      <4>2. ~(Left(j) <= limitBytes)
        BY <3>2, <4>1
      <4> QED BY <4>1, <4>2, HistoryAssumption
    <3> QED BY <3>2, <3>3
  <2>3. \A k \in 0..L - 1 :
          (/\ k = L - 1 \/ Over(k) <= limitBytes
           /\ \A j \in 0..k - 1 : Over(j) > limitBytes) <=> Fits(k)
    BY <1>1, <1>2
  <2>4. Fits(n)
    <3> HIDE DEF Fits
    <3> QED BY <2>1, <2>2, <2>3
  <2> QED BY <1>4, <2>4, HistoryAssumption DEF Left, L
<1> QED BY <1>3, <1>4

----------------------------------------------------------------------------
(* The invariant.                                                          *)

Clean(m) ==
  ~m.secret /\ (messageMaxBytes > 0 /\ m.encodes => m = Marker \/ m.json <= messageMaxBytes)

HistoryInv ==
  /\ calls \in Seq(Records) /\ Len(calls) <= recorded
  /\ \A i \in 1..Len(calls) :
       /\ calls[i].call.number \in 1..recorded /\ Clean(calls[i].call.message)
       /\ \A j \in 1..i - 1 : calls[j].call.number < calls[i].call.number
  /\ recorded \in 0..MaxCalls /\ purging \in [Operators -> -1..MaxCalls]
  /\ BudgetKept

\* What is stored of a call has been masked and cut.
LEMMA Preparing ==
  ASSUME NEW call \in Calls
  PROVE  /\ Prepared(call) \in Calls /\ Prepared(call).number = call.number
         /\ Clean(Prepared(call).message)
<1> DEFINE m == truncateMessage(Redacted[call.message])
<1>1. call.message \in Messages
  BY DEF Calls
<1>2. Redacted[call.message] \in Messages /\ ~Redacted[call.message].secret
      /\ Redacted[call.message].json \in Nat /\ Redacted[call.message].encodes \in BOOLEAN
  BY <1>1, HistoryAssumption
<1>3. m \in Messages /\ Clean(m)
  BY <1>2, HistoryAssumption DEF truncateMessage, Clean
<1>4. Prepared(call) = [call EXCEPT !.message = m]
  BY DEF Prepared
<1> HIDE DEF m
<1> QED BY <1>3, <1>4 DEF Calls

\* A record enters the store and the eviction takes the oldest: the invariant holds of
\* what is left.
LEMMA Recording ==
  ASSUME HistoryInv, NEW call \in Calls, RecordOwned(call)
  PROVE  \E r \in Records, n \in 0..Len(calls) :
           /\ r.call.number = call.number /\ Clean(r.call.message)
           /\ calls' \in Seq(Records) /\ Len(calls') = (Len(calls) + 1) - n
           /\ \A i \in 1..Len(calls') :
                calls'[i] = IF n + i = Len(calls) + 1 THEN r ELSE calls[n + i]
           /\ currentBytes' = TotalSize(calls')
           /\ limitBytes > 0 /\ Len(calls') > 1 => TotalSize(calls') <= limitBytes
           /\ n > 0 => TotalSize(calls') + calls[n].size > limitBytes
<1> DEFINE kept == Prepared(call)
           r == [call |-> kept, size |-> estimateRecordSize(kept)]
           stored == Append(calls, r)
           bytes == currentBytes + estimateRecordSize(kept)
           n == Evicted(stored, bytes)
           L == Len(calls)
<1>1. kept \in Calls /\ kept.number = call.number /\ Clean(kept.message)
  BY Preparing
<1> HIDE DEF kept
<1>2. r \in Records /\ r.call = kept /\ r.size = estimateRecordSize(kept)
  <2>1. estimateRecordSize(kept) \in Nat
    BY <1>1, HistoryAssumption DEF estimateRecordSize, Calls
  <2> QED BY <1>1, <2>1 DEF Records
<1>3. /\ calls' = SubSeq(stored, n + 1, Len(stored))
      /\ currentBytes' = bytes - TotalSize(SubSeq(stored, 1, n))
  BY DEF RecordOwned, kept
<1> HIDE DEF r
<1>4. calls \in Seq(Records) /\ currentBytes = TotalSize(calls) /\ L \in Nat
  BY LenProperties DEF HistoryInv, BudgetKept
<1>5. /\ stored \in Seq(Records) /\ Len(stored) = L + 1 /\ stored[L + 1] = r
      /\ \A i \in 1..L : stored[i] = calls[i]
  BY <1>2, <1>4, AppendProperties
<1>6. bytes = TotalSize(stored)
  BY <1>2, <1>4, TotalAppend
<1> HIDE DEF stored, bytes
<1>7. PICK f : Sums(f, stored) /\ TotalSize(stored) = f[L + 1]
  BY <1>5, SumsExist
<1>8. /\ n \in 0..L
      /\ limitBytes = 0 => n = 0
      /\ limitBytes > 0 => /\ n = L \/ f[L + 1] - f[n] <= limitBytes
                           /\ \A k \in 0..n - 1 : f[L + 1] - f[k] > limitBytes
  <2>1. n = Evicted(stored, TotalSize(stored)) /\ Len(stored) > 0 /\ (L + 1) - 1 = L
    BY <1>4, <1>5, <1>6
  <2> HIDE DEF n, L
  <2>2. /\ n \in 0..Len(stored) - 1
        /\ limitBytes = 0 => n = 0
        /\ limitBytes > 0 => /\ n = Len(stored) - 1 \/ f[Len(stored)] - f[n] <= limitBytes
                             /\ \A k \in 0..n - 1 : f[Len(stored)] - f[k] > limitBytes
    BY <1>5, <1>7, <2>1, Eviction
  <2> QED BY <1>5, <2>1, <2>2
<1> HIDE DEF n
<1>9. /\ n \in 0..Len(stored) /\ L + 1 \in n..Len(stored) /\ 0 \in 0..Len(stored)
      /\ n \in 0..Len(stored)
  BY <1>4, <1>5, <1>8
<1>10. /\ SubSeq(stored, n + 1, L + 1) \in Seq(Records)
       /\ TotalSize(SubSeq(stored, n + 1, L + 1)) = f[L + 1] - f[n]
  BY <1>5, <1>7, <1>9, SliceTotal
<1>11. TotalSize(SubSeq(stored, 1, n)) = f[n]
  <2>1. TotalSize(SubSeq(stored, 0 + 1, n)) = f[n] - f[0]
    <3>1. n \in 0..n
      BY <1>8
    <3> QED BY <1>5, <1>7, <1>9, <3>1, SliceTotal
  <2>2. 0 + 1 = 1
    OBVIOUS
  <2>3. TotalSize(SubSeq(stored, 1, n)) = f[n] - f[0]
    BY <2>1, <2>2, Zenon
  <2>4. f[0] = 0 /\ f[n] \in Nat
    BY <1>7, <1>9 DEF Sums
  <2> QED BY <2>3, <2>4
<1>12. calls' \in Seq(Records) /\ TotalSize(calls') = f[L + 1] - f[n]
  BY <1>3, <1>5, <1>10
<1>13. currentBytes' = TotalSize(calls')
  BY <1>3, <1>6, <1>7, <1>11, <1>12
<1>14. /\ Len(calls') = (L + 1) - n
       /\ \A i \in 1..Len(calls') : calls'[i] = stored[n + i]
  <2>1. \A i \in n + 1..L + 1 : stored[i] \in Records
    BY <1>4, <1>5, <1>8, ElementOfSeq
  <2>2. n + 1 \in 1..Len(stored) + 1 /\ L + 1 \in n + 1 - 1..Len(stored)
    BY <1>4, <1>5, <1>8
  <2> QED BY <1>3, <1>4, <1>5, <1>8, <2>1, <2>2, SubSeqProperties
<1>15. ASSUME NEW i \in 1..Len(calls')
       PROVE  calls'[i] = IF n + i = L + 1 THEN r ELSE calls[n + i]
  <2>1. calls'[i] = stored[n + i] /\ (n + i = L + 1 \/ n + i \in 1..L)
    <3>1. i \in 1..(L + 1) - n /\ calls'[i] = stored[n + i]
      BY <1>14
    <3>2. n + i = L + 1 \/ n + i \in 1..L
      BY ONLY <1>4, <1>8, <3>1
    <3> QED BY <3>1, <3>2
  <2> QED BY <1>5, <2>1
<1>16. limitBytes > 0 /\ Len(calls') > 1 => TotalSize(calls') <= limitBytes
  BY <1>4, <1>8, <1>12, <1>14
<1>17. n > 0 => TotalSize(calls') + calls[n].size > limitBytes
  <2> SUFFICES ASSUME n > 0 PROVE TotalSize(calls') + calls[n].size > limitBytes
    OBVIOUS
  <2>1. n \in 1..Len(stored) /\ n \in 1..L /\ n - 1 \in 0..n - 1 /\ n - 1 \in 0..Len(stored)
    BY <1>8, <1>9
  <2>2. f[n] = f[n - 1] + calls[n].size
    BY <1>5, <1>7, <2>1 DEF Sums
  <2>3. f[L + 1] - f[n - 1] > limitBytes
    BY <1>8, <2>1, HistoryAssumption
  <2>4. f[n] \in Nat /\ f[n - 1] \in Nat /\ f[L + 1] \in Nat
    BY <1>7, <1>9, <2>1 DEF Sums
  <2>5. calls[n].size \in Nat
    BY <1>4, <2>1, ElementOfSeq DEF Records
  <2> QED BY <1>12, <2>2, <2>3, <2>4, <2>5
<1> QED BY <1>1, <1>2, <1>8, <1>12, <1>13, <1>14, <1>15, <1>16, <1>17

\* The empty history.
LEMMA HistoryStarts == HistoryInit => HistoryInv
<1> SUFFICES ASSUME HistoryInit PROVE HistoryInv
  OBVIOUS
<1>1. calls = <<>> /\ currentBytes = 0 /\ recorded = 0 /\ purging = [o \in Operators |-> -1]
  BY DEF HistoryInit
<1>2. calls \in Seq(Records) /\ Len(calls) = 0
  BY <1>1
<1>3. PICK f : Sums(f, calls) /\ TotalSize(calls) = f[Len(calls)]
  BY <1>2, SumsExist
<1>4. TotalSize(calls) = 0
  BY <1>2, <1>3 DEF Sums
<1> QED BY <1>1, <1>2, <1>4, HistoryAssumption DEF HistoryInv, BudgetKept

\* Each operation keeps the invariant.
LEMMA HistoryStep == HistoryInv /\ [HistoryNext]_historyVars => HistoryInv'
<1> SUFFICES ASSUME HistoryInv, [HistoryNext]_historyVars PROVE HistoryInv'
  OBVIOUS
<1>1. /\ calls \in Seq(Records) /\ Len(calls) \in Nat /\ Len(calls) <= recorded
      /\ recorded \in 0..MaxCalls /\ purging \in [Operators -> -1..MaxCalls]
  BY LenProperties DEF HistoryInv
<1>2. CASE UNCHANGED historyVars
  BY <1>2 DEF historyVars, HistoryInv, BudgetKept, TotalSize
<1>3. CASE Record
  <2>1. PICK call \in Calls : call.number = recorded + 1 /\ RecordOwned(call)
    <3>1. PICK message \in Payloads, session \in SessionNames, failed \in BOOLEAN :
            RecordOwned([number |-> recorded + 1, session |-> session,
                         failed |-> failed, message |-> message])
      BY <1>3 DEF Record
    <3> DEFINE call == [number |-> recorded + 1, session |-> session,
                        failed |-> failed, message |-> message]
    <3>2. call \in Calls /\ call.number = recorded + 1
      BY <1>1, HistoryAssumption DEF Calls
    <3> HIDE DEF call
    <3>3. RecordOwned(call)
      BY <3>1 DEF call
    <3> QED BY <3>2, <3>3
  <2>2. PICK r \in Records, n \in 0..Len(calls) :
           /\ r.call.number = call.number /\ Clean(r.call.message)
           /\ calls' \in Seq(Records) /\ Len(calls') = (Len(calls) + 1) - n
           /\ \A i \in 1..Len(calls') :
                calls'[i] = IF n + i = Len(calls) + 1 THEN r ELSE calls[n + i]
           /\ currentBytes' = TotalSize(calls')
           /\ limitBytes > 0 /\ Len(calls') > 1 => TotalSize(calls') <= limitBytes
    BY <2>1, Recording
  <2>3. recorded' = recorded + 1 /\ purging' = purging /\ recorded < MaxCalls
    BY <1>3 DEF Record
  <2>4. ASSUME NEW i \in 1..Len(calls')
        PROVE  /\ calls'[i].call.number \in 1..recorded' /\ Clean(calls'[i].call.message)
               /\ \A j \in 1..i - 1 : calls'[j].call.number < calls'[i].call.number
    <3>1. \A j \in 1..i : n + j \in 1..Len(calls) + 1
      BY <1>1, <2>2
    <3>2. \A j \in 1..i : j \in 1..Len(calls')
      BY <2>4, <2>2
    <3>3. CASE n + i = Len(calls) + 1
      <4>1. calls'[i] = r
        BY <2>2, <3>3
      <4>2. \A j \in 1..i - 1 : calls'[j] = calls[n + j] /\ n + j \in 1..Len(calls)
        BY <1>1, <2>2, <3>1, <3>2, <3>3
      <4>3. \A j \in 1..i - 1 : calls'[j].call.number \in 1..recorded
        BY <4>2 DEF HistoryInv
      <4> QED BY <1>1, <2>1, <2>2, <2>3, <4>1, <4>3
    <3>4. CASE n + i # Len(calls) + 1
      <4>1. n + i \in 1..Len(calls) /\ calls'[i] = calls[n + i]
        BY <1>1, <2>2, <3>1, <3>4
      <4>2. ASSUME NEW j \in 1..i - 1
            PROVE  calls'[j] = calls[n + j] /\ n + j \in 1..(n + i) - 1
        BY <1>1, <2>2, <3>2, <4>1
      <4>3. \A j \in 1..(n + i) - 1 : calls[j].call.number < calls[n + i].call.number
        BY <4>1 DEF HistoryInv
      <4>4. calls[n + i].call.number \in 1..recorded /\ Clean(calls[n + i].call.message)
        BY <4>1 DEF HistoryInv
      <4> QED BY <1>1, <2>3, <4>1, <4>2, <4>3, <4>4
    <3> QED BY <3>3, <3>4
  <2>5. Len(calls') <= recorded' /\ recorded' \in 0..MaxCalls
    BY <1>1, <2>2, <2>3, HistoryAssumption
  <2>6. BudgetKept'
    BY <2>2 DEF BudgetKept, TotalSize
  <2> QED BY <1>1, <2>2, <2>3, <2>4, <2>5, <2>6 DEF HistoryInv
<1>4. ASSUME NEW session \in Sessions, DeleteSession(session) PROVE HistoryInv'
  <2> DEFINE wanted == {r \in ToSet(calls) : r.call.session # session}
  <2>1. calls' = Selected(calls, wanted) /\ currentBytes' = TotalSize(calls')
        /\ UNCHANGED <<recorded, purging>>
    BY <1>4 DEF DeleteSession
  <2> HIDE DEF wanted
  <2>2. /\ calls' \in Seq(Records) /\ Len(calls') <= Len(calls)
        /\ TotalSize(calls') <= TotalSize(calls)
        /\ \E at \in [1..Len(calls') -> 1..Len(calls)] :
             /\ \A i \in 1..Len(calls') : calls'[i] = calls[at[i]]
             /\ \A i, j \in 1..Len(calls') : i < j => at[i] < at[j]
    BY <1>1, <2>1, Selection
  <2>3. PICK at \in [1..Len(calls') -> 1..Len(calls)] :
             /\ \A i \in 1..Len(calls') : calls'[i] = calls[at[i]]
             /\ \A i, j \in 1..Len(calls') : i < j => at[i] < at[j]
    BY <2>2
  <2>4. Len(calls') \in Nat
    BY <2>2, LenProperties
  <2>5. ASSUME NEW i \in 1..Len(calls')
        PROVE  /\ calls'[i].call.number \in 1..recorded' /\ Clean(calls'[i].call.message)
               /\ \A j \in 1..i - 1 : calls'[j].call.number < calls'[i].call.number
    <3>1. at[i] \in 1..Len(calls) /\ calls'[i] = calls[at[i]]
      BY <2>3
    <3>2. \A j \in 1..i - 1 : at[j] \in 1..at[i] - 1 /\ calls'[j] = calls[at[j]]
      BY <1>1, <2>3, <2>4, <3>1
    <3> QED BY <2>1, <3>1, <3>2 DEF HistoryInv
  <2>6. BudgetKept'
    <3>1. limitBytes > 0 /\ Len(calls') > 1 => TotalSize(calls') <= limitBytes
      <4>1. TotalSize(calls) \in Nat /\ TotalSize(calls') \in Nat
        BY <1>1, <2>2, TotalNat
      <4>2. limitBytes > 0 /\ Len(calls) > 1 => TotalSize(calls) <= limitBytes
        BY DEF HistoryInv, BudgetKept
      <4> QED BY <1>1, <2>2, <2>4, <4>1, <4>2, HistoryAssumption
    <3> QED BY <2>1, <3>1 DEF BudgetKept, TotalSize
  <2>7. Len(calls') <= recorded
    BY <1>1, <2>2, <2>4
  <2> QED BY <1>1, <2>1, <2>2, <2>5, <2>6, <2>7 DEF HistoryInv
<1>5. ASSUME NEW o \in Operators, PurgeCount(o) PROVE HistoryInv'
  <2>1. UNCHANGED <<calls, currentBytes, recorded>> /\ purging' \in [Operators -> -1..MaxCalls]
    <3>1. Len(calls) \in -1..MaxCalls
      BY <1>1, HistoryAssumption
    <3> QED BY <1>1, <1>5, <3>1 DEF PurgeCount
  <2> QED BY <2>1 DEF HistoryInv, BudgetKept, TotalSize
<1>6. ASSUME NEW o \in Operators, PurgeClear(o) PROVE HistoryInv'
  <2>1. calls' = <<>> /\ currentBytes' = 0 /\ recorded' = recorded
        /\ purging' \in [Operators -> -1..MaxCalls]
    <3>1. -1 \in -1..MaxCalls
      BY HistoryAssumption
    <3> QED BY <1>1, <1>6, <3>1 DEF PurgeClear, Clear
  <2>2. calls' \in Seq(Records) /\ Len(calls') = 0
    BY <2>1
  <2>3. PICK f : Sums(f, calls') /\ TotalSize(calls') = f[Len(calls')]
    BY <2>2, SumsExist
  <2>4. TotalSize(calls') = 0
    BY <2>2, <2>3 DEF Sums
  <2>5. BudgetKept'
    BY <2>1, <2>2, <2>4 DEF BudgetKept, TotalSize
  <2> QED BY <1>1, <2>1, <2>2, <2>5 DEF HistoryInv
<1> QED BY <1>2, <1>3, <1>4, <1>5, <1>6 DEF HistoryNext

\* The store's invariant.
THEOREM HistoryInvariant == HistorySpec => []HistoryInv
BY HistoryStarts, HistoryStep, PTL DEF HistorySpec

\* The records keep the order in which they arrived and what they charge.
THEOREM TypeCorrect == HistorySpec => []TypeOK
<1>1. HistoryInv => TypeOK
  <2> SUFFICES ASSUME HistoryInv PROVE TypeOK
    OBVIOUS
  <2>1. DOMAIN calls = 1..Len(calls) /\ \A i \in 1..Len(calls) : calls[i] \in Records
    BY ElementOfSeq, LenProperties DEF HistoryInv
  <2> QED BY <2>1 DEF HistoryInv, TypeOK, Records, Calls
<1> QED BY <1>1, HistoryInvariant, PTL

\* Whatever is recorded, evicted, deleted and purged, the running total is what
\* the records add up to (DeleteSession adds it up anew, RecordOwned goes on from
\* it), and only a single record can exceed the budget.
THEOREM BudgetHolds == HistorySpec => []BudgetKept
<1>1. HistoryInv => BudgetKept
  BY DEF HistoryInv
<1> QED BY <1>1, HistoryInvariant, PTL

\* No message with a secret is stored, and none whose encoding is over the limit but
\* the marker: the truncation looks at what the masking left.  What cannot be encoded
\* is masked, whatever its size.
THEOREM StoreStaysClean == HistorySpec => []StoredMessagesClean
<1>1. HistoryInv => StoredMessagesClean
  <2> SUFFICES ASSUME HistoryInv PROVE StoredMessagesClean
    OBVIOUS
  <2>1. DOMAIN calls = 1..Len(calls)
    BY LenProperties DEF HistoryInv
  <2> QED BY <2>1 DEF HistoryInv, Clean, StoredMessagesClean
<1> QED BY <1>1, HistoryInvariant, PTL

\* A record that enters a full history drives out the oldest only, and no more of
\* them than the budget demands.
THEOREM OldestEvictedFirst == HistorySpec => EvictsOldestOnly
<1>1. HistoryInv /\ [HistoryNext]_historyVars =>
        [Record =>
           LET n == Len(calls) + 1 - Len(calls')
           IN  /\ Front(calls') = SubSeq(calls, n + 1, Len(calls))
               /\ n > 0 => TotalSize(calls') + calls[n].size > limitBytes]_historyVars
  <2> SUFFICES ASSUME HistoryInv, Record
               PROVE  LET n == Len(calls) + 1 - Len(calls')
                      IN  /\ Front(calls') = SubSeq(calls, n + 1, Len(calls))
                          /\ n > 0 => TotalSize(calls') + calls[n].size > limitBytes
    OBVIOUS
  <2>1. PICK call \in Calls : RecordOwned(call)
    <3>1. PICK message \in Payloads, session \in SessionNames, failed \in BOOLEAN :
            RecordOwned([number |-> recorded + 1, session |-> session,
                         failed |-> failed, message |-> message])
      BY DEF Record
    <3> DEFINE call == [number |-> recorded + 1, session |-> session,
                        failed |-> failed, message |-> message]
    <3>2. call \in Calls
      BY HistoryAssumption DEF Calls, HistoryInv
    <3> HIDE DEF call
    <3>3. RecordOwned(call)
      BY <3>1 DEF call
    <3> QED BY <3>2, <3>3
  <2>2. PICK r \in Records, n \in 0..Len(calls) :
           /\ calls' \in Seq(Records) /\ Len(calls') = (Len(calls) + 1) - n
           /\ \A i \in 1..Len(calls') :
                calls'[i] = IF n + i = Len(calls) + 1 THEN r ELSE calls[n + i]
           /\ n > 0 => TotalSize(calls') + calls[n].size > limitBytes
    BY <2>1, Recording
  <2>3. Len(calls) \in Nat
    BY LenProperties DEF HistoryInv
  <2>4. Len(calls) + 1 - Len(calls') = n
    BY <2>2, <2>3
  <2>5. Front(calls') = [i \in 1..Len(calls) - n |-> calls'[i]]
    BY <2>2, <2>3 DEF Front
  <2>6. SubSeq(calls, n + 1, Len(calls)) = [i \in 1..Len(calls) - n |-> calls[n + i]]
    BY <2>3 DEF HistoryInv
  <2>7. \A i \in 1..Len(calls) - n : calls'[i] = calls[n + i]
    BY <2>2, <2>3
  <2> QED BY <2>2, <2>4, <2>5, <2>6, <2>7
<1> QED BY <1>1, HistoryInvariant, PTL DEF HistorySpec, EvictsOldestOnly

----------------------------------------------------------------------------
(* The pages.                                                              *)

\* Places of the ring less than a round apart are different.
LEMMA RingPlaces ==
  ASSUME NEW size \in Nat \ {0}, NEW a \in Nat, NEW b \in Nat, a < b, b < a + size
  PROVE  a % size # b % size
<1> DEFINE p == a \div size
           q == b \div size
<1>1. p \in Int /\ q \in Int /\ a = size * p + (a % size) /\ b = size * q + (b % size)
  OBVIOUS
<1> HIDE DEF p, q
<1>2. SUFFICES ASSUME a % size = b % size PROVE FALSE
  OBVIOUS
<1>3. size * q - size * p = b - a
  BY <1>1, <1>2
<1>4. size * q - size * p = size * (q - p)
  BY <1>1
<1>5. CASE q - p <= 0
  BY <1>1, <1>3, <1>4, <1>5
<1>6. CASE q - p >= 1
  BY <1>1, <1>3, <1>4, <1>6
<1> QED BY <1>1, <1>5, <1>6

\* The ring holds the last of the matches, each in its place.
Ring(matches, size) ==
  LET ring[n \in 0..Len(matches)] ==
        IF n = 0 THEN [i \in 0..size - 1 |-> "none"]
        ELSE [ring[n - 1] EXCEPT ![(n - 1) % size] = matches[n]]
  IN  ring[Len(matches)]

\* The ring holds the newest of the sequence, as many as it has places, each at the
\* place of its number.
LEMMA RingHolds ==
  ASSUME NEW matches \in Seq(Records), NEW size \in Nat \ {0}
  PROVE  \A k \in 1..Len(matches) : k > Len(matches) - size =>
           Ring(matches, size)[(k - 1) % size] = matches[k]
<1> DEFINE L == Len(matches)
           ring == CHOOSE f : f = [n \in 0..Len(matches) |->
                     IF n = 0 THEN [i \in 0..size - 1 |-> "none"]
                     ELSE [f[n - 1] EXCEPT ![(n - 1) % size] = matches[n]]]
           empty == [i \in 0..size - 1 |-> "none"]
           Place(k) == (k - 1) % size
           More(h, n) == [h EXCEPT ![Place(n)] = matches[n]]
           Is(f, n) == f = [i \in 0..n |-> IF i = 0 THEN empty ELSE More(f[i - 1], i)]
           Good(h, n) == /\ DOMAIN h = 0..size - 1
                         /\ \A k \in 1..n : k > n - size => h[Place(k)] = matches[k]
<1>1. L \in Nat
  BY LenProperties
<1>2. ring = (CHOOSE f : Is(f, L)) /\ Ring(matches, size) = ring[L]
  BY DEF Ring
<1> HIDE DEF ring
<1>3. \A k \in Nat \ {0} : Place(k) \in 0..size - 1
  OBVIOUS
<1>4. ASSUME NEW k \in Nat \ {0}, NEW n \in Nat \ {0}, k < n, n < k + size
       PROVE  Place(k) # Place(n)
  <2>1. k - 1 \in Nat /\ n - 1 \in Nat /\ k - 1 < n - 1 /\ n - 1 < (k - 1) + size
    BY <1>4
  <2> QED BY <2>1, RingPlaces
<1> HIDE DEF More, empty, Place
<1>5. \A n \in Nat : \E f : Is(f, n)
  <2> DEFINE S == {n \in Nat : \E f : Is(f, n)}
  <2>1. 0 \in S
    <3> DEFINE g == [i \in 0..0 |-> empty]
    <3>1. g = [i \in 0..0 |-> IF i = 0 THEN empty ELSE More(g[i - 1], i)]
      <4>1. ASSUME NEW i \in 0..0
            PROVE  empty = IF i = 0 THEN empty ELSE More(g[i - 1], i)
        OBVIOUS
      <4> QED BY <4>1, Zenon
    <3>2. \E f : Is(f, 0)
      BY <3>1
    <3> HIDE DEF Is
    <3> QED BY <3>2
  <2>2. ASSUME NEW n \in Nat, n \in S PROVE n + 1 \in S
    <3>1. PICK f : Is(f, n)
      BY <2>2
    <3> DEFINE g == [i \in 0..n + 1 |-> IF i = n + 1 THEN More(f[n], n + 1) ELSE f[i]]
    <3>2. Is(g, n + 1)
      BY <3>1
    <3>3. \E h : Is(h, n + 1)
      <4> HIDE DEF g, Is
      <4> QED BY <3>2
    <3> HIDE DEF Is
    <3> QED BY <3>3
  <2> HIDE DEF S
  <2>3. Nat \subseteq S
    BY <2>1, <2>2, Induct
  <2> QED BY <2>3 DEF S
<1>6. Is(ring, L)
  <2>1. \E f : Is(f, L)
    BY <1>1, <1>5
  <2> HIDE DEF Is, L
  <2> QED BY <1>2, <2>1
<1> HIDE DEF L
<1>7. \A i \in 0..L : ring[i] = IF i = 0 THEN empty ELSE More(ring[i - 1], i)
  BY <1>6, Zenon
<1> HIDE DEF Is
<1>8. ring[0] = empty /\ \A n \in Nat : n + 1 <= L => ring[n + 1] = More(ring[n], n + 1)
  <2>1. 0 \in 0..L
    BY <1>1
  <2>2. ASSUME NEW n \in Nat, n + 1 <= L
        PROVE  n + 1 \in 0..L /\ n + 1 # 0 /\ (n + 1) - 1 = n
    BY <1>1, <2>2
  <2> QED BY <1>7, <2>1, <2>2
<1>9. \A n \in Nat : n <= L => Good(ring[n], n)
  <2> DEFINE S == {n \in Nat : n <= L => Good(ring[n], n)}
  <2>1. 0 \in S
    <3>1. DOMAIN empty = 0..size - 1
      BY DEF empty
    <3> QED BY <1>8, <3>1
  <2>2. ASSUME NEW n \in Nat, n \in S PROVE n + 1 \in S
    <3> SUFFICES ASSUME n + 1 <= L PROVE Good(ring[n + 1], n + 1)
      OBVIOUS
    <3> DEFINE h == ring[n]
    <3>1. DOMAIN h = 0..size - 1 /\ \A k \in 1..n : k > n - size => h[Place(k)] = matches[k]
      BY <1>1, <2>2
    <3>2. ring[n + 1] = More(h, n + 1)
      BY <1>8
    <3> HIDE DEF h
    <3>3. /\ DOMAIN ring[n + 1] = DOMAIN h
          /\ \A x \in DOMAIN h : ring[n + 1][x] = IF x = Place(n + 1) THEN matches[n + 1] ELSE h[x]
      BY <3>2 DEF More
    <3>4. ASSUME NEW k \in 1..n + 1, k > (n + 1) - size
          PROVE  ring[n + 1][Place(k)] = matches[k]
      <4>1. Place(k) \in DOMAIN h
        BY <1>3, <3>1
      <4>2. CASE k = n + 1
        BY <3>3, <4>1, <4>2
      <4>3. CASE k # n + 1
        <5>1. k \in 1..n /\ k > n - size /\ k < n + 1 /\ n + 1 < k + size
          BY <3>4, <4>3
        <5>2. Place(k) # Place(n + 1)
          BY <1>4, <5>1
        <5> QED BY <3>1, <3>3, <4>1, <5>1, <5>2
      <4> QED BY <4>2, <4>3
    <3> QED BY <3>1, <3>3, <3>4
  <2> HIDE DEF S
  <2>3. Nat \subseteq S
    BY <2>1, <2>2, Induct
  <2> QED BY <2>3 DEF S
<1>10. Good(ring[L], L)
  <2>1. L <= L
    BY <1>1
  <2> HIDE DEF Good
  <2> QED BY <1>1, <1>9, <2>1
<1> QED BY <1>2, <1>10 DEF L, Place

\* The larger of an integer and 0 is natural.
LEMMA LargerNat == ASSUME NEW a \in Int PROVE Larger(a, 0) \in Nat
BY DEF Larger

\* What the ring hands over as a page.
RingPage(matches, limit, skip, size) ==
  LET total   == Len(matches)
      kept    == Smaller(total, size)
      ordered == [i \in 1..kept |-> Ring(matches, size)[(total - kept + (i - 1)) % size]]
      end     == Larger(kept - skip, 0)
  IN  [page |-> SubSeq(ordered, Larger(end - limit, 0) + 1, end), total |-> total]

\* The page that slicing all matches would give, when a slice can hold the window.
ExactPage(opts, limit, offset) ==
  FilterWindow(opts, limit, offset)
    = [page  |-> Newest(Filter(opts), limit, Larger(offset, 0)),
       total |-> Len(Filter(opts))]

\* The window and the page are as long and as far from the newest.
LEMMA PageExact ==
  ASSUME NEW opts, NEW limit \in Nat \ {0}, NEW given, NEW offset \in Nat,
         offset = Larger(given, 0), limit + offset <= MaxSlice, Filter(opts) \in Seq(Records)
  PROVE  ExactPage(opts, limit, given)
<1>1. PICK matches \in Seq(Records) : matches = Filter(opts)
  OBVIOUS
<1>2. PICK total \in Nat : total = Len(matches) /\ \A i \in 1..total : matches[i] \in Records
  BY ElementOfSeq, LenProperties
<1>4. ~(limit <= 0)
  OBVIOUS
<1>5. ExactPage(opts, limit, given)
  <2>1. PICK size \in Nat \ {0} : size = limit + offset /\ size \in 0..MaxSlice
                                 /\ size = Wrapped(limit + offset)
    <3>1. limit + offset \in Nat \ {0} /\ limit + offset \in 0..MaxSlice
      BY HistoryAssumption
    <3>2. Wrapped(limit + offset) = limit + offset
      BY <3>1, HistoryAssumption DEF Wrapped
    <3> QED BY <3>1, <3>2
  <2>2. PICK kept \in Nat : kept = Smaller(total, size)
    BY <1>2, <2>1 DEF Smaller
  <2>3. PICK stop \in Nat : stop = Larger(kept - offset, 0)
    <3>1. kept - offset \in Int
      OBVIOUS
    <3>2. Larger(kept - offset, 0) \in Nat
      BY <3>1, LargerNat
    <3> QED BY <3>2
  <2>4. PICK from \in Nat : from = Larger(stop - limit, 0)
    <3>1. stop - limit \in Int
      OBVIOUS
    <3>2. Larger(stop - limit, 0) \in Nat
      BY <3>1, LargerNat
    <3> QED BY <3>2
  <2>5. PICK end \in Nat : end = Larger(total - offset, 0)
    <3>1. total - offset \in Int
      OBVIOUS
    <3>2. Larger(total - offset, 0) \in Nat
      BY <3>1, LargerNat
    <3> QED BY <3>2
  <2>6. PICK skip \in Nat : skip = Larger(end - limit, 0)
    <3>1. end - limit \in Int
      OBVIOUS
    <3>2. Larger(end - limit, 0) \in Nat
      BY <3>1, LargerNat
    <3> QED BY <3>2
  <2>7. PICK ring : ring = Ring(matches, size)
    OBVIOUS
  <2> DEFINE ordered == [i \in 1..kept |-> ring[(total - kept + (i - 1)) % size]]
  <2>8. FilterWindow(opts, limit, given)
          = [page |-> SubSeq(ordered, from + 1, stop), total |-> total]
    <3>1. size \in 0..MaxSlice /\ Wrapped(limit + Larger(given, 0)) = size
      BY <2>1
    <3>2. FilterWindow(opts, limit, given) = RingPage(matches, limit, offset, size)
      <4>1. Wrapped(limit + Larger(given, 0)) \in 0..MaxSlice
        BY ONLY <3>1
      <4>2. FilterWindow(opts, limit, given)
              = RingPage(Filter(opts), limit, Larger(given, 0), Wrapped(limit + Larger(given, 0)))
        BY ONLY <1>4, <4>1 DEF FilterWindow, RingPage, Ring
      <4> QED BY ONLY <1>1, <3>1, <4>2, offset = Larger(given, 0)
    <3>3. RingPage(matches, limit, offset, size)
            = [page |-> SubSeq(ordered, from + 1, stop), total |-> total]
      BY ONLY <1>2, <2>2, <2>3, <2>4, <2>7 DEF RingPage
    <3> QED BY <3>2, <3>3
  <2>9. ExactPage(opts, limit, given) <=>
          FilterWindow(opts, limit, given)
            = [page |-> SubSeq(matches, skip + 1, end), total |-> total]
    BY <1>1, <1>2, <1>4, <2>5, <2>6 DEF ExactPage, Newest
  <2>10. \A k \in 1..total : k > total - size => ring[(k - 1) % size] = matches[k]
    BY <1>2, <2>1, <2>7, RingHolds
  <2>11. kept \in 0..total /\ kept <= size
    BY <1>2, <2>1, <2>2 DEF Smaller
  <2>12. ASSUME NEW i \in 1..kept
         PROVE  ordered[i] = matches[(total - kept) + i] /\ (total - kept) + i \in 1..total
    <3>1. ordered[i] = ring[(total - kept + (i - 1)) % size]
      OBVIOUS
    <3> HIDE DEF ordered
    <3>2. (total - kept) + i \in 1..total /\ (total - kept) + i > total - size
          /\ ((total - kept) + i) - 1 = total - kept + (i - 1)
      BY <2>2, <2>11 DEF Smaller
    <3> QED BY <2>10, <3>1, <3>2
  <2>13. ordered \in Seq(Records) /\ Len(ordered) = kept
    <3>1. ordered = [i \in 1..kept |-> ordered[i]]
      OBVIOUS
    <3> HIDE DEF ordered
    <3>2. \A i \in 1..kept : ordered[i] \in Records
      BY <1>2, <2>12
    <3>3. ordered \in [1..kept -> Records]
      BY <3>1, <3>2
    <3> QED BY <3>3, SeqDef, LenProperties
  <2> HIDE DEF ordered
  <2>14. /\ stop <= kept /\ from <= stop /\ end <= total /\ skip <= end
         /\ stop - from = end - skip
         /\ stop > from => (total - kept) + from = skip
    <3>1. CASE total <= size
      <4>1. kept = total
        BY <2>2, <3>1 DEF Smaller
      <4>2. stop = end /\ from = skip
        BY <2>3, <2>4, <2>5, <2>6, <4>1
      <4>3. end <= total /\ skip <= end
        BY <2>5, <2>6 DEF Larger
      <4> QED BY <4>1, <4>2, <4>3
    <3>2. CASE total > size
      <4>1. kept = limit + offset /\ total > limit + offset
        BY <2>1, <2>2, <3>2 DEF Smaller
      <4>2. stop = limit /\ end = total - offset
        BY <2>3, <2>5, <4>1 DEF Larger
      <4>3. from = 0
        BY <2>4, <4>2 DEF Larger
      <4>4. skip = end - limit
        BY <2>6, <4>1, <4>2 DEF Larger
      <4>5. limit + 0 <= kept /\ 0 <= limit /\ kept = limit + offset
        BY <4>1
      <4> QED BY ONLY <1>2, <4>1, <4>2, <4>3, <4>4, <4>5, limit \in Nat, offset \in Nat
    <3> QED BY <3>1, <3>2
  <2>15. SubSeq(ordered, from + 1, stop) = [j \in 1..stop - from |-> ordered[from + j]]
    BY <2>13
  <2>16. SubSeq(matches, skip + 1, end) = [j \in 1..end - skip |-> matches[skip + j]]
    OBVIOUS
  <2>17. ASSUME NEW j \in 1..stop - from PROVE ordered[from + j] = matches[skip + j]
    <3>1. from + j \in 1..kept /\ (total - kept) + (from + j) = skip + j
      BY <2>11, <2>14
    <3> QED BY <2>12, <3>1
  <2>18. SubSeq(ordered, from + 1, stop) = SubSeq(matches, skip + 1, end)
    <3>1. 1..stop - from = 1..end - skip
      BY <2>14
    <3> QED BY <2>15, <2>16, <2>17, <3>1
  <2> QED BY <2>8, <2>9, <2>18
<1> QED BY <1>5

\* A window whose size wraps around, or that no slice can hold, gives no page.
LEMMA NoPage ==
  ASSUME NEW opts, NEW limit \in 1..MaxInt, NEW given \in -1..MaxInt,
         limit + Larger(given, 0) > MaxSlice
  PROVE  FilterWindow(opts, limit, given) = Panicked
<1> PICK offset \in 0..MaxInt : offset = Larger(given, 0)
  BY HistoryAssumption DEF Larger
<1>1. limit \in Nat /\ ~(limit <= 0)
  BY HistoryAssumption
<1>2. Wrapped(limit + offset) \notin 0..MaxSlice
  BY <1>1, HistoryAssumption DEF Wrapped
<1> QED BY <1>1, <1>2 DEF FilterWindow

\* The ring pages as slicing all matches would, for every limit and offset an int
\* holds: the newest that it holds are those that a page can reach, and a window that
\* no slice can hold gives no page.
THEOREM PagesAreExact == HistorySpec => []PagesExact
<1>1. HistoryInv => PagesExact
  <2> SUFFICES ASSUME HistoryInv, NEW opts \in Options,
                      NEW limit \in -1..MaxInt, NEW offset \in -1..MaxInt
               PROVE  IF limit > 0 /\ limit + Larger(offset, 0) > MaxSlice
                      THEN FilterWindow(opts, limit, offset) = Panicked
                      ELSE LET newest == Newest(Filter(opts), limit, Larger(offset, 0))
                               window == FilterWindow(opts, limit, offset)
                           IN  /\ window.total = Len(Filter(opts))
                               /\ ToSet(window.page) = ToSet(newest)
                               /\ Len(window.page) = Len(newest)
    BY DEF PagesExact
  <2>1. limit \in Int /\ offset \in Int /\ limit <= MaxInt
    BY HistoryAssumption
  <2> DEFINE wanted == {r \in ToSet(calls) :
                          /\ opts.session = Global \/ r.call.session \in {Global, opts.session}
                          /\ opts.errorOnly => r.call.failed}
  <2>2. Filter(opts) = Selected(calls, wanted) /\ calls \in Seq(Records)
    BY DEF Filter, HistoryInv
  <2> HIDE DEF wanted
  <2>3. Filter(opts) \in Seq(Records)
    BY <2>2, Selection
  <2>4. CASE limit > 0 /\ limit + Larger(offset, 0) > MaxSlice
    <3>1. limit \in 1..MaxInt
      BY <2>1, <2>4
    <3>2. FilterWindow(opts, limit, offset) = Panicked
      BY <2>4, <3>1, NoPage
    <3> QED BY <2>4, <3>2
  <2>5. CASE ~(limit > 0 /\ limit + Larger(offset, 0) > MaxSlice)
    <3>1. Larger(offset, 0) \in Nat /\ MaxSlice \in Int
      BY <2>1, LargerNat, HistoryAssumption
    <3>2. limit > 0 => limit + Larger(offset, 0) <= MaxSlice
      BY <2>1, <2>5, <3>1
    <3>3. ExactPage(opts, limit, offset)
      <4>1. CASE limit <= 0
        BY <4>1 DEF FilterWindow, ExactPage, Newest
      <4>2. CASE ~(limit <= 0)
        <5>1. limit \in Nat \ {0} /\ limit > 0
          BY <2>1, <4>2
        <5> QED BY <2>3, <3>1, <3>2, <5>1, PageExact
      <4> QED BY <4>1, <4>2
    <3> QED BY <2>5, <3>3 DEF ExactPage
  <2> QED BY <2>4, <2>5
<1> QED BY <1>1, HistoryInvariant, PTL
=============================================================================
