--------------------------- MODULE StorageProofs ---------------------------
(***************************************************************************)
(* Proofs about the stub storage, for every catalog of stubs, every        *)
(* service, method, session and ID, and batches of any size: the five      *)
(* structures of a store always describe the same stubs, deletions remove  *)
(* exactly what they name, the storage implements StubTable, and every     *)
(* read lists exactly the stubs it asks for, in priority order.            *)
(*                                                                         *)
(* The argument.  An index is compared with its filings, the set of        *)
(* triples <<stub, position, bucket>> it should hold (Itemizes): a         *)
(* mutation of one bucket adds or drops one filing (Appended, Removed).    *)
(* Describes says it of the four indexes and of the session counters at    *)
(* once, Agree ties them to itemsByID, and StorageInv, the inductive       *)
(* invariant, is Agree of both stores with every bucket of the external    *)
(* itemSorted in priority order (InOrderBut).  The loops of upsert and     *)
(* delete, recursive functions in the model, are followed by an induction  *)
(* on the number of iterations (Induct), which is derived from the         *)
(* well-founded order of the naturals.                                     *)
(*                                                                         *)
(* The reads rest on the order: the buckets a read gathers are ordered     *)
(* lists of disjoint sets (Parted), and mergeSortedStubs, whose loop keeps *)
(* what it has emitted before what is left of both lists, makes one        *)
(* ordered list of them (Merged, PartsMerged).                             *)
(***************************************************************************)
EXTENDS StubStorage, FiniteSetTheorems, SequenceTheorems, WellFoundedInduction, TLAPS

\* Every set of naturals with an element has a least one.
LEMMA LeastElement ==
  ASSUME NEW S \in SUBSET Nat, S # {}
  PROVE  \E n \in S : \A m \in S : n <= m
<1> DEFINE Below == {ij \in Nat \X Nat : ij[1] < ij[2]}
<1>1. OpToRel(<, Nat) = Below
  BY DEF OpToRel
<1>2. IsWellFoundedOn(Below, Nat)
  BY NatLessThanWellFounded, <1>1
<1>3. PICK n \in S : \A m \in S : <<m, n>> \notin Below
  <2> HIDE DEF Below
  <2> QED BY <1>2, WFMin
<1>4. ASSUME NEW m \in S PROVE n <= m
  <2>1. <<m, n>> \notin Below
    BY <1>3
  <2>2. m \in Nat /\ n \in Nat
    OBVIOUS
  <2> QED BY <2>1, <2>2
<1> QED BY <1>4

\* Induction over the iterations of a loop, as a fact about sets.
LEMMA Induct ==
  ASSUME NEW S, 0 \in S, \A n \in Nat : n \in S => n + 1 \in S
  PROVE  Nat \subseteq S
<1> SUFFICES ASSUME Nat \ S # {} PROVE FALSE
  OBVIOUS
<1>1. PICK n \in Nat \ S : \A m \in Nat \ S : n <= m
  BY LeastElement
<1>2. n # 0 /\ n - 1 \in Nat
  BY <1>1
<1>3. n - 1 \in S
  BY <1>1, <1>2
<1>4. (n - 1) + 1 \in S
  BY <1>2, <1>3
<1> QED BY <1>1, <1>4

----------------------------------------------------------------------------
\* A sequence lists a set: each element once, and nothing else.
Lists(q, T) ==
  /\ q \in Seq(T)
  /\ \A i, j \in DOMAIN q : q[i] = q[j] => i = j
  /\ \A x \in T : \E i \in DOMAIN q : q[i] = x

\* A bucket is empty exactly when it should list nothing; upsert and
\* delete drop a bucket when it empties.
LEMMA ListsOfNone ==
  ASSUME NEW q, NEW T, Lists(q, T)
  PROVE  q = <<>> <=> T = {}
<1>1. q \in Seq(T) /\ DOMAIN q = 1..Len(q) /\ Len(q) \in Nat
  BY LenProperties DEF Lists
<1>2. CASE T = {}
  <2>1. Len(q) = 0
    BY <1>1, <1>2, ElementOfSeq
  <2> QED BY <1>1, <1>2, <2>1, EmptySeq
<1>3. CASE T # {}
  BY <1>1, <1>3, EmptySeq DEF Lists
<1> QED BY <1>2, <1>3

\* The empty bucket lists nothing.
LEMMA NoneListed == Lists(<<>>, {})
  BY EmptySeq DEF Lists

\* append of a stub a bucket does not hold (storage_mutation.go:60).
LEMMA ListsAppended ==
  ASSUME NEW q, NEW T, Lists(q, T), NEW x, x \notin T
  PROVE  Lists(Append(q, x), T \cup {x})
<1>1. q \in Seq(T \cup {x}) /\ DOMAIN q = 1..Len(q) /\ Len(q) \in Nat
  BY LenProperties, SeqMonotonic DEF Lists
<1>2. \A i \in 1..Len(q) : q[i] \in T
  BY ElementOfSeq DEF Lists
<1>3. /\ Append(q, x) \in Seq(T \cup {x})
      /\ DOMAIN Append(q, x) = 1..Len(q) + 1
      /\ \A i \in 1..Len(q) : Append(q, x)[i] = q[i]
      /\ Append(q, x)[Len(q) + 1] = x
  BY <1>1
<1> DEFINE r == Append(q, x)
<1> HIDE DEF r
<1>4. \A i, j \in DOMAIN r : r[i] = r[j] => i = j
  BY <1>1, <1>2, <1>3 DEF r, Lists
<1>5. \A y \in T \cup {x} : \E i \in DOMAIN r : r[i] = y
  BY <1>1, <1>3 DEF r, Lists
<1> QED BY <1>3, <1>4, <1>5 DEF r, Lists

\* slices.Insert, position by position.
LEMMA InsertedAt ==
  ASSUME NEW U, NEW q \in Seq(U), NEW x \in U, NEW n \in 1..Len(q) + 1
  PROVE  /\ InsertAt(q, n, x) \in Seq(U) /\ Len(InsertAt(q, n, x)) = Len(q) + 1
         /\ \A i \in 1..n - 1 : InsertAt(q, n, x)[i] = q[i]
         /\ InsertAt(q, n, x)[n] = x
         /\ \A i \in n + 1..Len(q) + 1 : InsertAt(q, n, x)[i] = q[i - 1]
<1> DEFINE a == SubSeq(q, 1, n - 1)
           b == SubSeq(q, n, Len(q))
           r == (a \o <<x>>) \o b
<1>1. Len(q) \in Nat /\ n \in Nat \ {0} /\ n <= Len(q) + 1
  BY LenProperties
<1>2. \A i \in 1..Len(q) : q[i] \in U
  BY ElementOfSeq
<1>3. /\ a \in Seq(U) /\ Len(a) = n - 1
      /\ \A i \in 1..n - 1 : a[i] = q[i]
  <2>1. \A i \in 1..n - 1 : q[i] \in U BY <1>1, <1>2
  <2> QED BY <1>1, <2>1, SubSeqProperties
<1>4. /\ b \in Seq(U) /\ Len(b) = Len(q) + 1 - n
      /\ \A i \in 1..Len(q) + 1 - n : b[i] = q[n + i - 1]
  <2>1. \A i \in n..Len(q) : q[i] \in U BY <1>1, <1>2
  <2> QED BY <1>1, <2>1, SubSeqProperties
<1> HIDE DEF a, b
<1> DEFINE c == a \o <<x>>
<1>5. /\ c \in Seq(U) /\ Len(c) = n
      /\ \A i \in 1..n - 1 : c[i] = q[i]
      /\ c[n] = x
  <2> DEFINE e == <<x>>
  <2>1. e \in Seq(U) /\ Len(e) = 1 /\ e[1] = x
    OBVIOUS
  <2> HIDE DEF e
  <2>2. /\ a \o e \in Seq(U) /\ Len(a \o e) = Len(a) + Len(e)
        /\ \A i \in 1..Len(a) + Len(e) : (a \o e)[i] = IF i <= Len(a) THEN a[i] ELSE e[i - Len(a)]
    BY ONLY <1>3, <2>1, ConcatProperties
  <2>3. a \o e \in Seq(U) /\ Len(a \o e) = n
    BY <1>1, <1>3, <2>1, <2>2
  <2>4. \A i \in 1..n - 1 : (a \o e)[i] = q[i]
    BY <1>1, <1>3, <2>1, <2>2
  <2>5. (a \o e)[n] = x
    BY <1>1, <1>3, <2>1, <2>2
  <2> QED BY <2>3, <2>4, <2>5 DEF e
<1> HIDE DEF c
<1>6. /\ r \in Seq(U) /\ Len(r) = Len(q) + 1
      /\ \A i \in 1..n - 1 : r[i] = q[i]
      /\ r[n] = x
      /\ \A i \in n + 1..Len(q) + 1 : r[i] = q[i - 1]
  <2>1. /\ c \o b \in Seq(U) /\ Len(c \o b) = Len(c) + Len(b)
        /\ \A i \in 1..Len(c) + Len(b) : (c \o b)[i] = IF i <= Len(c) THEN c[i] ELSE b[i - Len(c)]
    BY <1>4, <1>5, ConcatProperties
  <2>2. r = c \o b
    BY DEF c
  <2> HIDE DEF r
  <2>3. Len(c) + Len(b) = Len(q) + 1
    BY <1>1, <1>4, <1>5
  <2>4. \A i \in n + 1..Len(q) + 1 : r[i] = q[i - 1]
    <3> TAKE i \in n + 1..Len(q) + 1
    <3>1. r[i] = b[i - n] BY <1>1, <1>5, <2>1, <2>2, <2>3
    <3>2. i - n \in 1..Len(q) + 1 - n BY <1>1
    <3>3. n + (i - n) - 1 = i - 1 BY <1>1
    <3> QED BY <1>4, <3>1, <3>2, <3>3
  <2> QED BY <1>1, <1>5, <2>1, <2>2, <2>3, <2>4
<1>7. r = InsertAt(q, n, x)
  BY DEF InsertAt, a, b
<1> QED BY <1>6, <1>7

\* One stub per ID.
Unique(S) == \A y, z \in S : y.id = z.id => y = z

\* Stubs that Precedes orders totally.
Ranked(T) ==
  /\ \A s \in T : s.id \in Nat /\ s.priority \in Int
  /\ Unique(T)

\* What ReadsExact calls sorted.
Ordered(q) == \A i, j \in DOMAIN q : i < j => Precedes(q[i], q[j])

\* compareStubsByPriorityAndID is a total order of stubs with distinct IDs.
LEMMA PrecedesOrders ==
  ASSUME NEW T, Ranked(T)
  PROVE  /\ \A x, y \in T : x # y => Precedes(x, y) \/ Precedes(y, x)
         /\ \A x, y \in T : ~(Precedes(x, y) /\ Precedes(y, x))
         /\ \A x, y, z \in T : Precedes(x, y) /\ Precedes(y, z) => Precedes(x, z)
BY DEF Ranked, Unique, Precedes

\* slices.Insert at the place of an element.
LEMMA OrderInserted ==
  ASSUME NEW U, Ranked(U), NEW q \in Seq(U), NEW x \in U, NEW n \in 1..Len(q) + 1,
         Ordered(q), \A i \in 1..n - 1 : Precedes(q[i], x),
         n <= Len(q) => Precedes(x, q[n])
  PROVE  Ordered(InsertAt(q, n, x))
<1> DEFINE r == InsertAt(q, n, x)
<1>1. /\ Len(q) \in Nat /\ DOMAIN q = 1..Len(q) /\ n \in Nat \ {0} /\ n <= Len(q) + 1
      /\ \A i \in 1..Len(q) : q[i] \in U
  BY LenProperties, ElementOfSeq
<1>2. /\ r \in Seq(U) /\ Len(r) = Len(q) + 1
      /\ \A i \in 1..n - 1 : r[i] = q[i]
      /\ r[n] = x
      /\ \A i \in n + 1..Len(q) + 1 : r[i] = q[i - 1]
  BY InsertedAt
<1> HIDE DEF r
<1>3. DOMAIN r = 1..Len(q) + 1
  BY <1>2, LenProperties
<1>4. \A i \in n..Len(q) : Precedes(x, q[i])
  <2> TAKE i \in n..Len(q)
  <2>1. n \in 1..Len(q) /\ i \in 1..Len(q)
    BY <1>1
  <2>2. CASE i = n
    BY <2>1, <2>2
  <2>3. CASE i # n
    <3>1. Precedes(x, q[n]) /\ Precedes(q[n], q[i])
      BY <1>1, <2>1, <2>3 DEF Ordered
    <3> QED BY <1>1, <2>1, <3>1, PrecedesOrders
  <2> QED BY <2>2, <2>3
<1>5. ASSUME NEW i \in 1..Len(q) + 1, NEW j \in 1..Len(q) + 1, i < j
      PROVE  Precedes(r[i], r[j])
  <2>1. CASE j < n
    <3>1. i \in 1..n - 1 /\ j \in 1..n - 1 /\ i \in 1..Len(q) /\ j \in 1..Len(q)
      BY <1>1, <1>5, <2>1
    <3> QED BY <1>1, <1>2, <1>5, <3>1 DEF Ordered
  <2>2. CASE j = n
    <3>1. i \in 1..n - 1
      BY <1>1, <1>5, <2>2
    <3> QED BY <1>2, <2>2, <3>1
  <2>3. CASE j > n
    <3>1. /\ j \in n + 1..Len(q) + 1 /\ r[j] = q[j - 1]
          /\ j - 1 \in n..Len(q) /\ j - 1 \in 1..Len(q)
      BY <1>1, <1>2, <2>3
    <3>2. CASE i < n
      <4>1. i \in 1..n - 1 /\ i \in 1..Len(q) /\ i < j - 1
        BY <1>1, <2>3, <3>2
      <4> QED BY <1>1, <1>2, <3>1, <4>1 DEF Ordered
    <3>3. CASE i = n
      BY <1>2, <1>4, <3>1, <3>3
    <3>4. CASE i > n
      <4>1. i \in n + 1..Len(q) + 1 /\ i - 1 \in 1..Len(q) /\ i - 1 < j - 1
        BY <1>1, <1>5, <3>4
      <4> QED BY <1>1, <1>2, <3>1, <4>1 DEF Ordered
    <3> QED BY <1>1, <3>2, <3>3, <3>4
  <2> QED BY <1>1, <2>1, <2>2, <2>3
<1>6. Ordered(r)
  BY <1>3, <1>5 DEF Ordered
<1> QED BY <1>6 DEF r

\* slices.Insert of an element a list does not hold.
LEMMA ListsInserted ==
  ASSUME NEW q, NEW T, Lists(q, T), NEW x, x \notin T, NEW n \in 1..Len(q) + 1
  PROVE  Lists(InsertAt(q, n, x), T \cup {x})
<1> DEFINE U == T \cup {x}
           r == InsertAt(q, n, x)
<1>1. q \in Seq(U) /\ DOMAIN q = 1..Len(q) /\ Len(q) \in Nat /\ n \in Nat \ {0} /\ n <= Len(q) + 1
  BY LenProperties, SeqMonotonic DEF Lists
<1>2. \A i \in 1..Len(q) : q[i] \in T /\ q[i] # x
  BY ElementOfSeq DEF Lists
<1>6. /\ r \in Seq(U) /\ Len(r) = Len(q) + 1
      /\ \A i \in 1..n - 1 : r[i] = q[i]
      /\ r[n] = x
      /\ \A i \in n + 1..Len(q) + 1 : r[i] = q[i - 1]
  <2>1. x \in U
    OBVIOUS
  <2>2. q \in Seq(U) /\ n \in 1..Len(q) + 1
    BY <1>1
  <2> HIDE DEF U
  <2> QED BY ONLY <2>1, <2>2, InsertedAt
<1> HIDE DEF r
<1>8. DOMAIN r = 1..Len(q) + 1
  BY <1>1, <1>6, LenProperties
<1>9. \A i, j \in DOMAIN r : r[i] = r[j] => i = j
  <2>1. \A i, j \in 1..Len(q) : q[i] = q[j] => i = j BY <1>1 DEF Lists
  <2>2. \A i \in DOMAIN r : \/ i < n /\ i \in 1..n - 1 /\ i \in 1..Len(q)
                            \/ i = n
                            \/ i > n /\ i \in n + 1..Len(q) + 1 /\ i - 1 \in 1..Len(q)
    BY <1>1, <1>8
  <2> QED BY <1>1, <1>2, <1>6, <2>1, <2>2
<1>10. \A y \in U : \E i \in DOMAIN r : r[i] = y
  <2> TAKE y \in U
  <2>1. CASE y = x BY <1>1, <1>6, <1>8, <2>1
  <2>2. CASE y # x
    <3>1. PICK i \in 1..Len(q) : q[i] = y BY <1>1, <2>2 DEF Lists
    <3>2. CASE i < n
      <4>1. i \in 1..n - 1 /\ i \in DOMAIN r BY <1>1, <1>8, <3>2
      <4> QED BY <1>6, <3>1, <4>1
    <3>3. CASE i >= n
      <4>1. i + 1 \in n + 1..Len(q) + 1 /\ i + 1 \in DOMAIN r /\ (i + 1) - 1 = i BY <1>1, <1>8, <3>3
      <4> QED BY <1>6, <3>1, <4>1
    <3> QED BY <1>1, <3>2, <3>3
  <2> QED BY <2>1, <2>2
<1> QED BY <1>6, <1>9, <1>10 DEF Lists, r

\* slices.Delete, position by position.
LEMMA RemovedAt ==
  ASSUME NEW U, NEW q, NEW T, q \in Seq(T), NEW n \in 1..Len(q),
         \A i \in 1..Len(q) : i # n => q[i] \in U
  PROVE  /\ RemoveAt(q, n) \in Seq(U) /\ Len(RemoveAt(q, n)) = Len(q) - 1
         /\ \A i \in 1..n - 1 : RemoveAt(q, n)[i] = q[i]
         /\ \A i \in n..Len(q) - 1 : RemoveAt(q, n)[i] = q[i + 1]
<1> DEFINE a == SubSeq(q, 1, n - 1)
           b == SubSeq(q, n + 1, Len(q))
           r == a \o b
<1>1. Len(q) \in Nat /\ n \in Nat \ {0} /\ n <= Len(q)
  BY LenProperties
<1>2. \A i \in 1..Len(q) : i # n => q[i] \in U
  OBVIOUS
<1>3. /\ a \in Seq(U) /\ Len(a) = n - 1
      /\ \A i \in 1..n - 1 : a[i] = q[i]
  <2>1. \A i \in 1..n - 1 : q[i] \in U BY <1>1, <1>2
  <2> QED BY <1>1, <2>1, SubSeqProperties
<1>4. /\ b \in Seq(U) /\ Len(b) = Len(q) - n
      /\ \A i \in 1..Len(q) - n : b[i] = q[n + i]
  <2>1. \A i \in n + 1..Len(q) : q[i] \in U BY <1>1, <1>2
  <2>2. /\ b \in Seq(U) /\ Len(b) = IF n + 1 <= Len(q) THEN Len(q) - (n + 1) + 1 ELSE 0
        /\ \A i \in 1..Len(q) - (n + 1) + 1 : b[i] = q[(n + 1) + i - 1]
    BY <1>1, <2>1, SubSeqProperties
  <2> HIDE DEF b
  <2>3. Len(b) = Len(q) - n
    <3>1. n \in Int /\ Len(q) \in Int /\ n <= Len(q)
      BY <1>1
    <3>2. Len(b) = IF n + 1 <= Len(q) THEN Len(q) - (n + 1) + 1 ELSE 0
      BY <2>2
    <3> QED BY <3>1, <3>2
  <2>4. ASSUME NEW i \in 1..Len(q) - n PROVE b[i] = q[n + i]
    <3>1. (n + 1) + i - 1 = n + i /\ i \in 1..Len(q) - (n + 1) + 1 BY <1>1
    <3> QED BY <2>2, <3>1
  <2> QED BY <2>2, <2>3, <2>4
<1> HIDE DEF a, b
<1>5. /\ r \in Seq(U) /\ Len(r) = Len(q) - 1
      /\ \A i \in 1..n - 1 : r[i] = q[i]
      /\ \A i \in n..Len(q) - 1 : r[i] = q[i + 1]
  <2>1. /\ a \o b \in Seq(U) /\ Len(a \o b) = Len(a) + Len(b)
        /\ \A i \in 1..Len(a) + Len(b) : (a \o b)[i] = IF i <= Len(a) THEN a[i] ELSE b[i - Len(a)]
    BY <1>3, <1>4, ConcatProperties
  <2>2. r = a \o b
    OBVIOUS
  <2> HIDE DEF r
  <2>3. Len(a) + Len(b) = Len(q) - 1
    BY <1>1, <1>3, <1>4
  <2>4. \A i \in n..Len(q) - 1 : r[i] = q[i + 1]
    <3> TAKE i \in n..Len(q) - 1
    <3>1. r[i] = b[i - (n - 1)] BY <1>1, <1>3, <2>1, <2>2, <2>3
    <3>2. i - (n - 1) \in 1..Len(q) - n BY <1>1
    <3>3. n + (i - (n - 1)) = i + 1 BY <1>1
    <3> QED BY <1>4, <3>1, <3>2, <3>3
  <2>5. \A i \in 1..n - 1 : r[i] = q[i]
    <3> TAKE i \in 1..n - 1
    <3>1. i \in 1..Len(q) - 1 /\ i <= Len(a) BY <1>1, <1>3
    <3> QED BY <1>3, <2>1, <2>2, <2>3, <3>1
  <2> QED BY <2>1, <2>2, <2>3, <2>4, <2>5
<1>6. r = RemoveAt(q, n)
  BY DEF RemoveAt, a, b
<1> QED BY <1>5, <1>6

\* slices.Delete of one position of a list drops that element only.
LEMMA ListsRemoved ==
  ASSUME NEW q, NEW T, Lists(q, T), NEW n \in 1..Len(q)
  PROVE  Lists(RemoveAt(q, n), T \ {q[n]})
<1> DEFINE U == T \ {q[n]}
           r == RemoveAt(q, n)
<1>1. q \in Seq(T) /\ DOMAIN q = 1..Len(q) /\ Len(q) \in Nat /\ n \in Nat \ {0} /\ n <= Len(q)
  BY LenProperties DEF Lists
<1>2. \A i \in 1..Len(q) : i # n => q[i] \in U
  BY <1>1, ElementOfSeq DEF Lists
<1>5. /\ r \in Seq(U) /\ Len(r) = Len(q) - 1
      /\ \A i \in 1..n - 1 : r[i] = q[i]
      /\ \A i \in n..Len(q) - 1 : r[i] = q[i + 1]
  <2> HIDE DEF U
  <2>1. q \in Seq(T) /\ n \in 1..Len(q) /\ \A i \in 1..Len(q) : i # n => q[i] \in U
    BY <1>1, <1>2
  <2> QED BY ONLY <2>1, RemovedAt
<1> HIDE DEF r
<1>7. DOMAIN r = 1..Len(q) - 1
  BY <1>1, <1>5, LenProperties
<1>8. \A i, j \in DOMAIN r : r[i] = r[j] => i = j
  <2>1. \A i, j \in 1..Len(q) : q[i] = q[j] => i = j BY <1>1 DEF Lists
  <2>2. \A i \in DOMAIN r : \/ i < n /\ i \in 1..n - 1 /\ i \in 1..Len(q)
                            \/ i >= n /\ i \in n..Len(q) - 1 /\ i + 1 \in 1..Len(q)
    BY <1>1, <1>7
  <2> QED BY <1>1, <1>5, <2>1, <2>2
<1>9. \A y \in U : \E i \in DOMAIN r : r[i] = y
  <2> TAKE y \in U
  <2>1. PICK i \in 1..Len(q) : q[i] = y BY <1>1 DEF Lists
  <2>2. i # n BY <2>1
  <2>3. CASE i < n
    <3>1. i \in 1..n - 1 /\ i \in DOMAIN r BY <1>1, <1>7, <2>3
    <3> QED BY <1>5, <2>1, <3>1
  <2>4. CASE i > n
    <3>1. i - 1 \in n..Len(q) - 1 /\ i - 1 \in DOMAIN r /\ (i - 1) + 1 = i BY <1>1, <1>7, <2>4
    <3> QED BY <1>5, <2>1, <3>1
  <2> QED BY <1>1, <2>2, <2>3, <2>4
<1> QED BY <1>5, <1>8, <1>9 DEF Lists, r

\* The first stub with an ID that is its own is the only one.
LEMMA DeletedAt ==
  ASSUME NEW q, NEW T, Lists(q, T), NEW x \in T,
         \A y \in T : y.id = x.id => y = x
  PROVE  \E n \in 1..Len(q) : q[n] = x /\ RemoveSortedStubByID(q, x.id) = RemoveAt(q, n)
<1> DEFINE I == {i \in 1..Len(q) : q[i].id = x.id}
<1>1. q \in Seq(T) /\ DOMAIN q = 1..Len(q) /\ Len(q) \in Nat /\ \A i \in 1..Len(q) : q[i] \in T
  BY LenProperties, ElementOfSeq DEF Lists
<1>2. PICK n \in 1..Len(q) : q[n] = x
  BY <1>1 DEF Lists
<1>3. \A i \in 1..Len(q) : q[i].id = x.id <=> i = n
  BY <1>1, <1>2 DEF Lists
<1>4. I = {n}
  BY <1>2, <1>3
<1>5. Min({n}) = n
  <2>1. \A m \in {n} : (\A k \in {n} : m <= k) <=> m = n
    BY <1>1
  <2> QED BY <2>1 DEF Min
<1>6. SelectInSeq(q, LAMBDA s : s.id = x.id) = n
  BY <1>4, <1>5 DEF SelectInSeq
<1>7. RemoveSortedStubByID(q, x.id) = RemoveAt(q, n)
  BY <1>2, <1>6 DEF RemoveSortedStubByID, RemoveFirstMatch
<1> QED BY <1>2, <1>7

\* removeSortedStubByID drops the stub of an ID when the ID is its own.
LEMMA ListsDeleted ==
  ASSUME NEW q, NEW T, Lists(q, T), NEW x \in T,
         \A y \in T : y.id = x.id => y = x
  PROVE  Lists(RemoveSortedStubByID(q, x.id), T \ {x})
BY DeletedAt, ListsRemoved

\* removeSortedStubByID leaves the rest of a bucket in its order.
LEMMA OrderDeleted ==
  ASSUME NEW q, NEW T, Lists(q, T), Ordered(q), NEW x \in T,
         \A y \in T : y.id = x.id => y = x
  PROVE  Ordered(RemoveSortedStubByID(q, x.id))
<1>1. q \in Seq(T) /\ DOMAIN q = 1..Len(q) /\ Len(q) \in Nat
      /\ \A i \in 1..Len(q) : q[i] \in T
  BY LenProperties, ElementOfSeq DEF Lists
<1>2. PICK n \in 1..Len(q) : RemoveSortedStubByID(q, x.id) = RemoveAt(q, n)
  BY DeletedAt
<1> DEFINE r == RemoveAt(q, n)
<1>3. /\ r \in Seq(T) /\ Len(r) = Len(q) - 1
      /\ \A i \in 1..n - 1 : r[i] = q[i]
      /\ \A i \in n..Len(q) - 1 : r[i] = q[i + 1]
  <2>1. q \in Seq(T) /\ n \in 1..Len(q) /\ \A i \in 1..Len(q) : i # n => q[i] \in T
    BY <1>1
  <2> QED BY ONLY <2>1, RemovedAt
<1> HIDE DEF r
<1>4. DOMAIN r = 1..Len(q) - 1
  BY <1>1, <1>3, LenProperties
<1>5. \A i \in DOMAIN r : \/ i < n /\ i \in 1..Len(q) /\ r[i] = q[i]
                          \/ i >= n /\ i + 1 \in 1..Len(q) /\ r[i] = q[i + 1]
  BY <1>1, <1>3, <1>4
<1>6. Ordered(r)
  <2> SUFFICES ASSUME NEW i \in DOMAIN r, NEW j \in DOMAIN r, i < j
               PROVE  Precedes(r[i], r[j])
    BY DEF Ordered
  <2>1. i \in Nat /\ j \in Nat /\ n \in Nat
    BY <1>1, <1>4
  <2> QED BY <1>1, <1>5, <2>1 DEF Ordered
<1> QED BY <1>2, <1>6 DEF r

\* Sorting a bucket (resortTouched) loses and duplicates no stub, and puts
\* stubs with distinct IDs in order.
LEMMA ListsSorted ==
  ASSUME NEW q, NEW T, Lists(q, T)
  PROVE  /\ Lists(Sorted(q), T)
         /\ Ranked(T) => Ordered(Sorted(q))
<1> DEFINE place(ordered, stub) ==
             CHOOSE n \in 1..Len(ordered) + 1 :
               /\ \A i \in 1..n - 1 : ~Precedes(stub, ordered[i])
               /\ n <= Len(ordered) => Precedes(stub, ordered[n])
           into(ordered, stub) == InsertAt(ordered, place(ordered, stub), stub)
           Goes(f, n) == f = [i \in 0..n |-> IF i = 0 THEN <<>> ELSE into(f[i - 1], q[i])]
<1>1. q \in Seq(T) /\ DOMAIN q = 1..Len(q) /\ Len(q) \in Nat /\ \A i \in 1..Len(q) : q[i] \in T
  BY LenProperties, ElementOfSeq DEF Lists
<1>2. ASSUME NEW r, NEW U, Lists(r, U), NEW x, x \notin U
      PROVE  /\ Lists(into(r, x), U \cup {x})
             /\ Ranked(U \cup {x}) /\ Ordered(r) => Ordered(into(r, x))
  <2> DEFINE N == {n \in 1..Len(r) + 1 : n <= Len(r) => Precedes(x, r[n])}
  <2>1. Len(r) \in Nat
    BY <1>2, LenProperties DEF Lists
  <2>2. PICK n \in N : \A m \in N : n <= m
    <3>1. N \in SUBSET Nat /\ Len(r) + 1 \in N
      BY <2>1
    <3> HIDE DEF N
    <3> QED BY <3>1, LeastElement
  <2>3. /\ \A i \in 1..n - 1 : ~Precedes(x, r[i])
        /\ n <= Len(r) => Precedes(x, r[n])
    BY <2>1, <2>2
  <2> DEFINE p == place(r, x)
  <2>4. /\ p \in 1..Len(r) + 1
        /\ \A i \in 1..p - 1 : ~Precedes(x, r[i])
        /\ p <= Len(r) => Precedes(x, r[p])
    BY <2>3
  <2>5. into(r, x) = InsertAt(r, p, x)
    OBVIOUS
  <2> HIDE DEF place, into, p
  <2>6. Lists(into(r, x), U \cup {x})
    BY <1>2, <2>4, <2>5, ListsInserted
  <2>7. ASSUME Ranked(U \cup {x}), Ordered(r) PROVE Ordered(into(r, x))
    <3> DEFINE V == U \cup {x}
    <3>1. Ranked(V) /\ r \in Seq(V) /\ x \in V
      BY <1>2, <2>7, SeqMonotonic DEF Lists
    <3>2. \A i \in 1..p - 1 : r[i] \in U /\ r[i] # x
      <4>1. \A i \in 1..p - 1 : i \in 1..Len(r)
        BY <2>1, <2>4
      <4>2. \A i \in 1..Len(r) : r[i] \in U
        BY <1>2, ElementOfSeq DEF Lists
      <4> QED BY <1>2, <4>1, <4>2
    <3>3. \A i \in 1..p - 1 : Precedes(r[i], x)
      <4>1. \A y \in U : y # x => Precedes(y, x) \/ Precedes(x, y)
        <5>1. \A y, z \in V : y # z => Precedes(y, z) \/ Precedes(z, y)
          <6> HIDE DEF V
          <6> QED BY <3>1, PrecedesOrders
        <5> QED BY <5>1
      <4> QED BY <2>4, <3>2, <4>1
    <3> HIDE DEF V
    <3> QED BY <2>4, <2>5, <2>7, <3>1, <3>3, OrderInserted
  <2> QED BY <2>6, <2>7
<1> HIDE DEF into
<1>3. \A n \in Nat : \E f : Goes(f, n)
  <2> DEFINE S == {n \in Nat : \E f : Goes(f, n)}
  <2>1. 0 \in S
    <3>1. Goes([i \in 0..0 |-> <<>>], 0) OBVIOUS
    <3> QED BY <3>1
  <2>2. ASSUME NEW n \in Nat, n \in S PROVE n + 1 \in S
    <3>1. PICK f : Goes(f, n) BY <2>2
    <3> DEFINE g == [i \in 0..n + 1 |-> IF i = n + 1 THEN into(f[n], q[n + 1]) ELSE f[i]]
    <3>2. Goes(g, n + 1) BY <3>1
    <3>3. \E h : Goes(h, n + 1)
      <4> HIDE DEF g, Goes
      <4> QED BY <3>2
    <3> HIDE DEF Goes
    <3> QED BY <3>3
  <2> HIDE DEF S
  <2>3. Nat \subseteq S BY <2>1, <2>2, Induct
  <2> QED BY <2>3 DEF S
<1> DEFINE ordered == CHOOSE f : Goes(f, Len(q))
<1>4. Goes(ordered, Len(q))
  <2>1. \E f : Goes(f, Len(q)) BY <1>1, <1>3
  <2> HIDE DEF Goes
  <2> QED BY <2>1
<1>5. Sorted(q) = ordered[Len(q)]
  BY DEF Sorted, into
<1> HIDE DEF ordered
<1>6. /\ ordered[0] = <<>>
      /\ \A n \in Nat : n + 1 <= Len(q) => ordered[n + 1] = into(ordered[n], q[n + 1])
  BY <1>1, <1>4
<1> DEFINE First(n) == {q[i] : i \in 1..n}
           Good(n) == /\ Lists(ordered[n], First(n))
                      /\ Ranked(T) => Ordered(ordered[n])
           S == {n \in Nat : n <= Len(q) => Good(n)}
<1>7. 0 \in S
  <2>1. First(0) = {} OBVIOUS
  <2>2. Ordered(<<>>)
    BY DEF Ordered
  <2> QED BY <1>6, <2>1, <2>2, NoneListed
<1>8. ASSUME NEW n \in Nat, n \in S PROVE n + 1 \in S
  <2>1. SUFFICES ASSUME n + 1 <= Len(q) PROVE Good(n + 1)
    OBVIOUS
  <2>2. Good(n)
    BY <1>1, <1>8, <2>1
  <2>3. q[n + 1] \notin First(n)
    BY <1>1, <2>1 DEF Lists
  <2>4. First(n + 1) = First(n) \cup {q[n + 1]}
    <3>1. 1..n + 1 = (1..n) \cup {n + 1} OBVIOUS
    <3> QED BY <3>1
  <2>5. First(n + 1) \subseteq T
    BY <1>1, <2>1
  <2>6. Ranked(T) => Ranked(First(n + 1))
    BY <2>5 DEF Ranked, Unique
  <2> HIDE DEF First
  <2> QED BY <1>2, <1>6, <2>1, <2>2, <2>3, <2>4, <2>6
<1>9. Good(Len(q))
  <2> HIDE DEF S, Good
  <2>1. Nat \subseteq S BY <1>7, <1>8, Induct
  <2> QED BY <1>1, <2>1 DEF S
<1>10. First(Len(q)) = T
  BY <1>1 DEF Lists
<1> QED BY <1>5, <1>9, <1>10

----------------------------------------------------------------------------
\* The stubs filed under a bucket of a position.
At(S, F, pos, b) == {s \in S : <<s, pos, b>> \in F}

\* An index follows its filings F, triples <<stub, position, bucket>> of the
\* stubs of S.
Itemizes(map, S, F) ==
  /\ NoEmptyBuckets(map)
  /\ \A pos \in DOMAIN map : \A b \in DOMAIN map[pos] :
       Lists(map[pos][b], At(S, F, pos, b))
  /\ \A t \in F : t[2] \in DOMAIN map /\ t[3] \in DOMAIN map[t[2]]

\* A bucket that is absent from an index lists what is filed there: nothing.
LEMMA BucketListed ==
  ASSUME NEW map, NEW S, NEW F, Itemizes(map, S, F), NEW pos, NEW b
  PROVE  Lists(Bucket(map, pos, b), At(S, F, pos, b))
<1>1. CASE pos \in DOMAIN map /\ b \in DOMAIN map[pos]
  BY <1>1 DEF Bucket, Itemizes
<1>2. CASE ~(pos \in DOMAIN map /\ b \in DOMAIN map[pos])
  <2>1. \A s : <<s, pos, b>> \notin F
    BY <1>2 DEF Itemizes
  <2>2. At(S, F, pos, b) = {}
    BY <2>1 DEF At
  <2>3. Bucket(map, pos, b) = <<>>
    BY <1>2 DEF Bucket
  <2> QED BY <2>2, <2>3, NoneListed
<1> QED BY <1>1, <1>2

\* An index follows its filings when one bucket is replaced, whether the
\* bucket, or its position, existed before or not.
LEMMA Refiled ==
  ASSUME NEW map, NEW S, NEW F, Itemizes(map, S, F),
         NEW S2, NEW F2, NEW pos, NEW b, NEW q, q # <<>>,
         Lists(q, At(S2, F2, pos, b)),
         \A p, c : p # pos \/ c # b => At(S2, F2, p, c) = At(S, F, p, c),
         \A t \in F2 : t \in F \/ (t[2] = pos /\ t[3] = b)
  PROVE  Itemizes(WithBucket(map, pos, b, q), S2, F2)
<1> DEFINE old == IF pos \in DOMAIN map THEN map[pos] ELSE <<>>
           m == WithBucket(map, pos, b, q)
<1>1. /\ DOMAIN m = DOMAIN map \cup {pos}
      /\ \A p \in DOMAIN map : p # pos => m[p] = map[p]
      /\ m[pos] = With(old, b, q)
  BY DEF WithBucket, With
<1>2. /\ DOMAIN With(old, b, q) = DOMAIN old \cup {b}
      /\ With(old, b, q)[b] = q
      /\ \A c \in DOMAIN old : c # b => With(old, b, q)[c] = old[c]
  BY DEF With
<1>3. pos \notin DOMAIN map => DOMAIN old = {}
  OBVIOUS
<1>4. pos \in DOMAIN map => old = map[pos]
  OBVIOUS
<1> HIDE DEF m, old
<1>5. ASSUME NEW p \in DOMAIN m
      PROVE  /\ DOMAIN m[p] # {}
             /\ \A c \in DOMAIN m[p] : m[p][c] # <<>> /\ Lists(m[p][c], At(S2, F2, p, c))
  <2>1. CASE p # pos
    <3>1. p \in DOMAIN map /\ m[p] = map[p]
      BY <1>1, <1>5, <2>1
    <3>2. /\ DOMAIN map[p] # {}
          /\ \A c \in DOMAIN map[p] : map[p][c] # <<>> /\ Lists(map[p][c], At(S, F, p, c))
      BY <3>1 DEF Itemizes, NoEmptyBuckets
    <3>3. \A c : At(S2, F2, p, c) = At(S, F, p, c)
      BY <2>1
    <3> QED BY <3>1, <3>2, <3>3
  <2>2. CASE p = pos
    <3>1. m[p] = With(old, b, q)
      BY <1>1, <2>2
    <3>2. DOMAIN m[p] # {}
      BY <1>2, <3>1
    <3>3. ASSUME NEW c \in DOMAIN m[p]
          PROVE  m[p][c] # <<>> /\ Lists(m[p][c], At(S2, F2, p, c))
      <4>1. CASE c = b
        BY <1>2, <2>2, <3>1, <4>1
      <4>2. CASE c # b
        <5>1. c \in DOMAIN old /\ m[p][c] = old[c]
          BY <1>2, <3>1, <3>3, <4>2
        <5>2. pos \in DOMAIN map /\ c \in DOMAIN map[pos] /\ m[p][c] = map[pos][c]
          BY <1>3, <1>4, <5>1
        <5>3. map[pos][c] # <<>> /\ Lists(map[pos][c], At(S, F, pos, c))
          BY <5>2 DEF Itemizes, NoEmptyBuckets
        <5>4. At(S2, F2, pos, c) = At(S, F, pos, c)
          BY <4>2
        <5> QED BY <2>2, <5>2, <5>3, <5>4
      <4> QED BY <4>1, <4>2
    <3> QED BY <3>2, <3>3
  <2> QED BY <2>1, <2>2
<1>6. ASSUME NEW t \in F2
      PROVE  t[2] \in DOMAIN m /\ t[3] \in DOMAIN m[t[2]]
  <2>1. CASE t \in F
    <3>1. t[2] \in DOMAIN map /\ t[3] \in DOMAIN map[t[2]]
      BY <2>1 DEF Itemizes
    <3>2. CASE t[2] # pos
      BY <1>1, <3>1, <3>2
    <3>3. CASE t[2] = pos
      BY <1>1, <1>2, <1>4, <3>1, <3>3
    <3> QED BY <3>2, <3>3
  <2>2. CASE t[2] = pos /\ t[3] = b
    BY <1>1, <1>2, <2>2
  <2> QED BY <1>6, <2>1, <2>2
<1>7. Itemizes(m, S2, F2)
  BY <1>5, <1>6 DEF Itemizes, NoEmptyBuckets
<1> QED BY <1>7 DEF m

\* addToIndexes: appending a stub to one bucket adds one filing.
LEMMA Appended ==
  ASSUME NEW map, NEW S, NEW F, Itemizes(map, S, F),
         NEW x, x \notin S, \A p, c : <<x, p, c>> \notin F, NEW pos, NEW b
  PROVE  Itemizes(AppendTo(map, pos, b, x), S \cup {x}, F \cup {<<x, pos, b>>})
<1> DEFINE S2 == S \cup {x}
           F2 == F \cup {<<x, pos, b>>}
           q == Append(Bucket(map, pos, b), x)
<1>1. Lists(Bucket(map, pos, b), At(S, F, pos, b))
  BY BucketListed
<1>2. x \notin At(S, F, pos, b) /\ At(S2, F2, pos, b) = At(S, F, pos, b) \cup {x}
  BY DEF At
<1>3. Lists(q, At(S2, F2, pos, b))
  BY <1>1, <1>2, ListsAppended
<1>4. q # <<>>
  BY <1>2, <1>3, ListsOfNone
<1>5. \A p, c : p # pos \/ c # b => At(S2, F2, p, c) = At(S, F, p, c)
  BY DEF At
<1>6. \A t \in F2 : t \in F \/ (t[2] = pos /\ t[3] = b)
  OBVIOUS
<1> HIDE DEF S2, F2, q
<1>7. Itemizes(WithBucket(map, pos, b, q), S2, F2)
  BY <1>3, <1>4, <1>5, <1>6, Refiled
<1> QED BY <1>7 DEF AppendTo, S2, F2, q

\* An index that does not file a stub ignores its coming and going: the
\* equals index and the unindexed stubs never change together.
LEMMA Elsewhere ==
  ASSUME NEW map, NEW S, NEW F, Itemizes(map, S, F), NEW x, \A p, c : <<x, p, c>> \notin F
  PROVE  Itemizes(map, S \cup {x}, F) /\ Itemizes(map, S \ {x}, F)
<1>1. \A p, c : At(S \cup {x}, F, p, c) = At(S, F, p, c) /\ At(S \ {x}, F, p, c) = At(S, F, p, c)
  BY DEF At
<1> QED BY <1>1 DEF Itemizes

\* An index files x under one bucket only.
FiledOnce(F, S, x, pos, b) ==
  /\ <<x, pos, b>> \in F
  /\ \A p, c : <<x, p, c>> \in F => p = pos /\ c = b
  /\ \A t \in F : t = <<t[1], t[2], t[3]>> /\ t[1] \in S

Unfiled(F, x, pos, b) == F \ {<<x, pos, b>>}

Less(S, x) == S \ {x}

\* removeFromIndexes: dropping a stub by its ID from its bucket, the emptied
\* bucket and the emptied position with it, drops one filing.
LEMMA Removed ==
  ASSUME NEW map, NEW S, NEW F, Itemizes(map, S, F), Unique(S),
         NEW x \in S, NEW pos, NEW b, FiledOnce(F, S, x, pos, b)
  PROVE  Itemizes(RemoveFrom(map, pos, b, x.id), Less(S, x), Unfiled(F, x, pos, b))
<1> DEFINE S2 == S \ {x}
           F2 == F \ {<<x, pos, b>>}
           left == RemoveSortedStubByID(Bucket(map, pos, b), x.id)
           kept == IF left = <<>> THEN Without(map[pos], b) ELSE With(map[pos], b, left)
           m == RemoveFrom(map, pos, b, x.id)
<1> USE DEF Unique, FiledOnce
<1>1. pos \in DOMAIN map /\ b \in DOMAIN map[pos]
  BY DEF Itemizes
<1>2. m = IF DOMAIN kept = {} THEN Without(map, pos) ELSE With(map, pos, kept)
  BY <1>1 DEF RemoveFrom
<1>3. Lists(left, At(S2, F2, pos, b))
  <2>1. Lists(Bucket(map, pos, b), At(S, F, pos, b))
    BY BucketListed
  <2>2. x \in At(S, F, pos, b) /\ At(S2, F2, pos, b) = At(S, F, pos, b) \ {x}
    BY DEF At
  <2>3. \A y \in At(S, F, pos, b) : y.id = x.id => y = x
    BY DEF At
  <2> DEFINE T == At(S, F, pos, b)
             q == Bucket(map, pos, b)
  <2>4. Lists(q, T) /\ x \in T /\ \A y \in T : y.id = x.id => y = x
    BY <2>1, <2>2, <2>3
  <2> HIDE DEF q, T
  <2>5. Lists(RemoveSortedStubByID(q, x.id), T \ {x})
    BY <2>4, ListsDeleted
  <2> QED BY <2>2, <2>5 DEF q, T
<1>4. \A p, c : p # pos \/ c # b => At(S2, F2, p, c) = At(S, F, p, c)
  BY DEF At
<1>5. left = <<>> => \A y \in S : <<y, pos, b>> \notin F2
  BY <1>3, ListsOfNone DEF At
<1>6. left # <<>> =>
        /\ DOMAIN kept = DOMAIN map[pos] /\ kept[b] = left
        /\ \A c \in DOMAIN kept : c # b => kept[c] = map[pos][c]
  BY <1>1 DEF With
<1>7. left = <<>> =>
        /\ DOMAIN kept = DOMAIN map[pos] \ {b}
        /\ \A c \in DOMAIN kept : kept[c] = map[pos][c]
  BY <1>1 DEF Without, Restrict
<1>8. DOMAIN kept # {} =>
        /\ DOMAIN m = DOMAIN map /\ m[pos] = kept
        /\ \A p \in DOMAIN m : p # pos => m[p] = map[p]
  BY <1>1, <1>2 DEF With
<1>9. DOMAIN kept = {} =>
        /\ DOMAIN m = DOMAIN map \ {pos}
        /\ \A p \in DOMAIN m : m[p] = map[p]
  BY <1>1, <1>2 DEF Without, Restrict
<1> HIDE DEF m, kept, left, S2, F2
<1>10. ASSUME NEW p \in DOMAIN m
       PROVE  /\ DOMAIN m[p] # {}
              /\ \A c \in DOMAIN m[p] : m[p][c] # <<>> /\ Lists(m[p][c], At(S2, F2, p, c))
  <2>1. CASE p # pos
    <3>1. p \in DOMAIN map /\ m[p] = map[p]
      BY <1>8, <1>9, <1>10, <2>1
    <3>2. /\ DOMAIN map[p] # {}
          /\ \A c \in DOMAIN map[p] : map[p][c] # <<>> /\ Lists(map[p][c], At(S, F, p, c))
      BY <3>1 DEF Itemizes, NoEmptyBuckets
    <3>3. \A c : At(S2, F2, p, c) = At(S, F, p, c)
      BY <1>4, <2>1
    <3> QED BY <3>1, <3>2, <3>3
  <2>2. CASE p = pos
    <3>1. DOMAIN kept # {} /\ m[p] = kept
      BY <1>8, <1>9, <1>10, <2>2
    <3>2. ASSUME NEW c \in DOMAIN kept
          PROVE  kept[c] # <<>> /\ Lists(kept[c], At(S2, F2, pos, c))
      <4>1. CASE c = b
        <5>1. left # <<>> /\ kept[c] = left
          BY <1>6, <1>7, <3>2, <4>1
        <5> QED BY <1>3, <4>1, <5>1
      <4>2. CASE c # b
        <5>1. c \in DOMAIN map[pos] /\ kept[c] = map[pos][c]
          BY <1>6, <1>7, <3>2, <4>2
        <5>2. map[pos][c] # <<>> /\ Lists(map[pos][c], At(S, F, pos, c))
          BY <1>1, <5>1 DEF Itemizes, NoEmptyBuckets
        <5>3. At(S2, F2, pos, c) = At(S, F, pos, c)
          BY <1>4, <4>2
        <5> QED BY <5>1, <5>2, <5>3
      <4> QED BY <4>1, <4>2
    <3> QED BY <2>2, <3>1, <3>2
  <2> QED BY <2>1, <2>2
<1>11. ASSUME NEW t \in F2
       PROVE  t[2] \in DOMAIN m /\ t[3] \in DOMAIN m[t[2]]
  <2>1. t \in F /\ t[1] \in S /\ t = <<t[1], t[2], t[3]>>
    BY <1>11 DEF F2
  <2>2. t[2] \in DOMAIN map /\ t[3] \in DOMAIN map[t[2]]
    BY <2>1 DEF Itemizes
  <2>3. CASE t[2] # pos
    BY <1>8, <1>9, <2>2, <2>3
  <2>4. CASE t[2] = pos
    <3>1. left = <<>> => t[3] # b
      BY <1>5, <1>11, <2>1, <2>4
    <3>2. t[3] \in DOMAIN kept
      BY <1>6, <1>7, <2>2, <2>4, <3>1
    <3> QED BY <1>1, <1>8, <2>4, <3>2
  <2> QED BY <2>3, <2>4
<1>12. Itemizes(m, S2, F2)
  BY <1>10, <1>11 DEF Itemizes, NoEmptyBuckets
<1> QED BY <1>12 DEF m, S2, F2, Unfiled, Less

\* Every bucket of an index is in order, but for those D names.
InOrderBut(map, D) ==
  \A pos \in DOMAIN map : \A b \in DOMAIN map[pos] :
    <<pos, b>> \in D \/ Ordered(map[pos][b])

\* append leaves one bucket to be sorted, the one it appends to.
LEMMA OrderAppended ==
  ASSUME NEW map, NEW D, InOrderBut(map, D), NEW pos, NEW b, NEW x
  PROVE  InOrderBut(AppendTo(map, pos, b, x), D \cup {<<pos, b>>})
<1> DEFINE q == Append(Bucket(map, pos, b), x)
           old == IF pos \in DOMAIN map THEN map[pos] ELSE <<>>
           m == WithBucket(map, pos, b, q)
<1>1. /\ DOMAIN m = DOMAIN map \cup {pos}
      /\ \A p \in DOMAIN map : p # pos => m[p] = map[p]
      /\ m[pos] = With(old, b, q)
  BY DEF WithBucket, With
<1>2. /\ DOMAIN With(old, b, q) = DOMAIN old \cup {b}
      /\ \A c \in DOMAIN old : c # b => With(old, b, q)[c] = old[c]
  BY DEF With
<1>3. /\ pos \notin DOMAIN map => DOMAIN old = {}
      /\ pos \in DOMAIN map => old = map[pos]
  OBVIOUS
<1>4. AppendTo(map, pos, b, x) = m
  BY DEF AppendTo
<1> HIDE DEF m, old, q
<1>5. ASSUME NEW p \in DOMAIN m, NEW c \in DOMAIN m[p], <<p, c>> # <<pos, b>>
      PROVE  <<p, c>> \in D \/ Ordered(m[p][c])
  <2>1. p \in DOMAIN map /\ c \in DOMAIN map[p] /\ m[p][c] = map[p][c]
    BY <1>1, <1>2, <1>3, <1>5
  <2> QED BY <2>1 DEF InOrderBut
<1> QED BY <1>4, <1>5 DEF InOrderBut

\* removeFromIndexes keeps every bucket in its order.
LEMMA OrderRemoved ==
  ASSUME NEW map, NEW S, NEW F, Itemizes(map, S, F), Unique(S), NEW D, InOrderBut(map, D),
         NEW x \in S, NEW pos, NEW b, FiledOnce(F, S, x, pos, b)
  PROVE  InOrderBut(RemoveFrom(map, pos, b, x.id), D)
<1> DEFINE q == Bucket(map, pos, b)
           left == RemoveSortedStubByID(q, x.id)
           kept == IF left = <<>> THEN Without(map[pos], b) ELSE With(map[pos], b, left)
           m == RemoveFrom(map, pos, b, x.id)
<1>1. pos \in DOMAIN map /\ b \in DOMAIN map[pos]
  BY DEF Itemizes, FiledOnce
<1>2. m = IF DOMAIN kept = {} THEN Without(map, pos) ELSE With(map, pos, kept)
  BY <1>1 DEF RemoveFrom
<1>3. <<pos, b>> \in D \/ Ordered(left)
  <2> DEFINE T == At(S, F, pos, b)
  <2>1. Lists(q, T) /\ x \in T /\ \A y \in T : y.id = x.id => y = x
    BY BucketListed DEF At, Unique, FiledOnce
  <2>2. <<pos, b>> \in D \/ Ordered(q)
    BY <1>1 DEF InOrderBut, Bucket
  <2> HIDE DEF q, T
  <2> QED BY <2>1, <2>2, OrderDeleted
<1>4. /\ DOMAIN kept \subseteq DOMAIN map[pos]
      /\ \A c \in DOMAIN kept : c # b => kept[c] = map[pos][c]
      /\ b \in DOMAIN kept => kept[b] = left
  BY <1>1 DEF With, Without, Restrict
<1>5. /\ DOMAIN m \subseteq DOMAIN map
      /\ \A p \in DOMAIN m : p # pos => m[p] = map[p]
      /\ pos \in DOMAIN m => m[pos] = kept
  BY <1>1, <1>2 DEF With, Without, Restrict
<1> HIDE DEF m, kept, left
<1>6. ASSUME NEW p \in DOMAIN m, NEW c \in DOMAIN m[p]
      PROVE  <<p, c>> \in D \/ Ordered(m[p][c])
  <2>1. CASE p = pos /\ c = b
    BY <1>3, <1>4, <1>5, <1>6, <2>1
  <2>2. CASE ~(p = pos /\ c = b)
    <3>1. p \in DOMAIN map /\ c \in DOMAIN map[p] /\ m[p][c] = map[p][c]
      BY <1>4, <1>5, <1>6, <2>2
    <3> QED BY <3>1 DEF InOrderBut
  <2> QED BY <2>1, <2>2
<1>7. InOrderBut(m, D)
  BY <1>6 DEF InOrderBut
<1> QED BY <1>7 DEF m

----------------------------------------------------------------------------
\* What each index should file.
ByPosition(S) == {<<s, Position(s), s.session>> : s \in S}
ByMethod(S)   == {<<s, s.method, s.session>> : s \in S}
ByKey(S)      == {<<s, Position(s), IndexKey(s)>> : s \in {x \in S : Indexable(x)}}
Unkeyed(S)    == {<<s, Position(s), Global>> : s \in {x \in S : ~Indexable(x)}}

Fields == {"lefts", "methodSorted", "itemSorted", "equalsIndex", "unindexed",
           "itemsByID", "sessions"}

\* The session counters count the stubs of S, Global's left out.
Counts(sessions, S) ==
  /\ DOMAIN sessions \subseteq Sessions
  /\ \A session \in DOMAIN sessions : sessions[session] \in Nat \ {0}
  /\ \A session \in Sessions :
       (IF session \in DOMAIN sessions THEN sessions[session] ELSE 0) =
         Cardinality({s \in S : s.session = session})

\* The redundant structures of a store describe the stubs of S.
Describes(st, S) ==
  /\ DOMAIN st = Fields
  /\ Itemizes(st.itemSorted, S, ByPosition(S))
  /\ Itemizes(st.methodSorted, S, ByMethod(S))
  /\ Itemizes(st.equalsIndex, S, ByKey(S))
  /\ Itemizes(st.unindexed, S, Unkeyed(S))
  /\ Counts(st.sessions, S)

\* A new stub adds one filing to each index, to the equals index or to the
\* unindexed stubs but not to both.
LEMMA FilingsGrow ==
  ASSUME NEW S, NEW x, x \notin S
  PROVE  /\ ByPosition(S \cup {x}) = ByPosition(S) \cup {<<x, Position(x), x.session>>}
         /\ ByMethod(S \cup {x}) = ByMethod(S) \cup {<<x, x.method, x.session>>}
         /\ Indexable(x) =>
              /\ ByKey(S \cup {x}) = ByKey(S) \cup {<<x, Position(x), IndexKey(x)>>}
              /\ Unkeyed(S \cup {x}) = Unkeyed(S)
         /\ ~Indexable(x) =>
              /\ ByKey(S \cup {x}) = ByKey(S)
              /\ Unkeyed(S \cup {x}) = Unkeyed(S) \cup {<<x, Position(x), Global>>}
         /\ \A p, c : /\ <<x, p, c>> \notin ByPosition(S)
                      /\ <<x, p, c>> \notin ByMethod(S)
                      /\ <<x, p, c>> \notin ByKey(S)
                      /\ <<x, p, c>> \notin Unkeyed(S)
<1>1. ByPosition(S \cup {x}) = ByPosition(S) \cup {<<x, Position(x), x.session>>}
  BY DEF ByPosition
<1>2. ByMethod(S \cup {x}) = ByMethod(S) \cup {<<x, x.method, x.session>>}
  BY DEF ByMethod
<1>3. Indexable(x) =>
        /\ ByKey(S \cup {x}) = ByKey(S) \cup {<<x, Position(x), IndexKey(x)>>}
        /\ Unkeyed(S \cup {x}) = Unkeyed(S)
  BY DEF ByKey, Unkeyed
<1>4. ~Indexable(x) =>
        /\ ByKey(S \cup {x}) = ByKey(S)
        /\ Unkeyed(S \cup {x}) = Unkeyed(S) \cup {<<x, Position(x), Global>>}
  BY DEF ByKey, Unkeyed
<1>5. \A p, c : /\ <<x, p, c>> \notin ByPosition(S)
                /\ <<x, p, c>> \notin ByMethod(S)
                /\ <<x, p, c>> \notin ByKey(S)
                /\ <<x, p, c>> \notin Unkeyed(S)
  BY DEF ByPosition, ByMethod, ByKey, Unkeyed
<1> QED BY <1>1, <1>2, <1>3, <1>4, <1>5

\* A stub that leaves takes one filing out of each index that holds it.
LEMMA FilingsShrink ==
  ASSUME NEW S, NEW x \in S
  PROVE  /\ ByPosition(S \ {x}) = ByPosition(S) \ {<<x, Position(x), x.session>>}
         /\ ByMethod(S \ {x}) = ByMethod(S) \ {<<x, x.method, x.session>>}
         /\ Indexable(x) =>
              /\ ByKey(S \ {x}) = ByKey(S) \ {<<x, Position(x), IndexKey(x)>>}
              /\ Unkeyed(S \ {x}) = Unkeyed(S)
         /\ ~Indexable(x) =>
              /\ ByKey(S \ {x}) = ByKey(S)
              /\ Unkeyed(S \ {x}) = Unkeyed(S) \ {<<x, Position(x), Global>>}
<1>1. ByPosition(S \ {x}) = ByPosition(S) \ {<<x, Position(x), x.session>>}
  BY DEF ByPosition
<1>2. ByMethod(S \ {x}) = ByMethod(S) \ {<<x, x.method, x.session>>}
  BY DEF ByMethod
<1>3. Indexable(x) =>
        /\ ByKey(S \ {x}) = ByKey(S) \ {<<x, Position(x), IndexKey(x)>>}
        /\ Unkeyed(S \ {x}) = Unkeyed(S)
  BY DEF ByKey, Unkeyed
<1>4. ~Indexable(x) =>
        /\ ByKey(S \ {x}) = ByKey(S)
        /\ Unkeyed(S \ {x}) = Unkeyed(S) \ {<<x, Position(x), Global>>}
  BY DEF ByKey, Unkeyed
<1> QED BY <1>1, <1>2, <1>3, <1>4

\* What each index files: itemSorted by service, method and session,
\* methodSorted by method and session, the equals index by its key, and what has
\* no key in unindexed.
LEMMA FilingsAre ==
  ASSUME NEW S
  PROVE  /\ \A s, p, c : <<s, p, c>> \in ByPosition(S) <=> s \in S /\ p = Position(s) /\ c = s.session
         /\ \A s, p, c : <<s, p, c>> \in ByMethod(S) <=> s \in S /\ p = s.method /\ c = s.session
         /\ \A s, p, c : <<s, p, c>> \in ByKey(S) <=>
              s \in S /\ Indexable(s) /\ p = Position(s) /\ c = IndexKey(s)
         /\ \A s, p, c : <<s, p, c>> \in Unkeyed(S) <=>
              s \in S /\ ~Indexable(s) /\ p = Position(s) /\ c = Global
         /\ \A t \in ByPosition(S) \cup ByMethod(S) \cup ByKey(S) \cup Unkeyed(S) :
              t = <<t[1], t[2], t[3]>> /\ t[1] \in S
<1>1. \A s, p, c : <<s, p, c>> \in ByPosition(S) <=> s \in S /\ p = Position(s) /\ c = s.session
  BY DEF ByPosition
<1>2. \A s, p, c : <<s, p, c>> \in ByMethod(S) <=> s \in S /\ p = s.method /\ c = s.session
  BY DEF ByMethod
<1>3. \A s, p, c : <<s, p, c>> \in ByKey(S) <=>
        s \in S /\ Indexable(s) /\ p = Position(s) /\ c = IndexKey(s)
  BY DEF ByKey
<1>4. \A s, p, c : <<s, p, c>> \in Unkeyed(S) <=>
        s \in S /\ ~Indexable(s) /\ p = Position(s) /\ c = Global
  BY DEF Unkeyed
<1>5. \A t \in ByPosition(S) \cup ByMethod(S) \cup ByKey(S) \cup Unkeyed(S) :
        t = <<t[1], t[2], t[3]>> /\ t[1] \in S
  BY DEF ByPosition, ByMethod, ByKey, Unkeyed
<1> QED BY <1>1, <1>2, <1>3, <1>4, <1>5

\* incrementSession keeps the session counters exact.
LEMMA CountedIn ==
  ASSUME NEW st, NEW S, IsFiniteSet(S), Counts(st.sessions, S), NEW x, x \notin S,
         x.session \in Sessions \cup {Global}
  PROVE  Counts(IncrementSession(st, x.session), S \cup {x})
<1> DEFINE In(session) == {s \in S : s.session = session}
           In2(session) == {s \in S \cup {x} : s.session = session}
           c == IncrementSession(st, x.session)
<1>1. \A session : IsFiniteSet(In(session)) /\ Cardinality(In(session)) \in Nat
  BY FS_Subset, FS_CardinalityType
<1>2. \A session : session # x.session => In2(session) = In(session)
  OBVIOUS
<1>3. Cardinality(In2(x.session)) = Cardinality(In(x.session)) + 1
  <2>1. In2(x.session) = In(x.session) \cup {x} /\ x \notin In(x.session)
    OBVIOUS
  <2>2. IsFiniteSet(In(x.session))
    BY <1>1
  <2> HIDE DEF In, In2
  <2> QED BY <2>1, <2>2, FS_AddElement
<1>4. CASE x.session = Global
  <2>1. c = st.sessions /\ \A session \in Sessions : session # x.session
    BY <1>4, StorageAssumption DEF IncrementSession
  <2> QED BY <1>2, <2>1 DEF Counts
<1>5. CASE x.session # Global
  <2>1. /\ DOMAIN c = DOMAIN st.sessions \cup {x.session}
        /\ c[x.session] = SessionCount(st, x.session) + 1
        /\ \A session \in DOMAIN st.sessions : session # x.session => c[session] = st.sessions[session]
    BY <1>5 DEF IncrementSession, With
  <2>2. x.session \in Sessions
    BY <1>5
  <2>3. SessionCount(st, x.session) = Cardinality(In(x.session))
    BY <2>2 DEF Counts, SessionCount
  <2> HIDE DEF c, In, In2
  <2>4. c[x.session] = Cardinality(In2(x.session)) /\ c[x.session] \in Nat \ {0}
    BY <1>1, <1>3, <2>1, <2>3
  <2>5. \A session \in Sessions \ {x.session} :
          (IF session \in DOMAIN c THEN c[session] ELSE 0) = Cardinality(In2(session))
    BY <1>2, <2>1 DEF Counts, In
  <2>6. \A session \in DOMAIN c : c[session] \in Nat \ {0}
    BY <2>1, <2>4 DEF Counts
  <2>7. DOMAIN c \subseteq Sessions /\ x.session \in DOMAIN c
    BY <2>1, <2>2 DEF Counts
  <2>8. Counts(c, S \cup {x})
    BY <2>4, <2>5, <2>6, <2>7 DEF Counts, In2
  <2> QED BY <2>8 DEF c
<1> QED BY <1>4, <1>5

\* decrementSession keeps them exact, a counter that reaches zero dropped.
LEMMA CountedOut ==
  ASSUME NEW st, NEW S, IsFiniteSet(S), Counts(st.sessions, S), NEW x \in S,
         x.session \in Sessions \cup {Global}
  PROVE  Counts(DecrementSession(st, x.session), S \ {x})
<1> DEFINE In(session) == {s \in S : s.session = session}
           In2(session) == {s \in S \ {x} : s.session = session}
           c == DecrementSession(st, x.session)
           n == SessionCount(st, x.session)
<1>1. \A session : IsFiniteSet(In(session)) /\ Cardinality(In(session)) \in Nat
  BY FS_Subset, FS_CardinalityType
<1>2. \A session : session # x.session => In2(session) = In(session)
  OBVIOUS
<1>3. Cardinality(In2(x.session)) = Cardinality(In(x.session)) - 1
  <2>1. In2(x.session) = In(x.session) \ {x} /\ x \in In(x.session)
    OBVIOUS
  <2>2. IsFiniteSet(In(x.session))
    BY <1>1
  <2> HIDE DEF In, In2
  <2> QED BY <2>1, <2>2, FS_RemoveElement
<1>4. CASE x.session = Global
  <2>1. c = st.sessions /\ \A session \in Sessions : session # x.session
    BY <1>4, StorageAssumption DEF DecrementSession
  <2> QED BY <1>2, <2>1 DEF Counts
<1>5. CASE x.session # Global
  <2>1. x.session \in Sessions
    BY <1>5
  <2>2. n = Cardinality(In(x.session)) /\ n \in Nat
    BY <1>1, <2>1 DEF Counts, SessionCount
  <2>3. n # 0
    <3>1. IsFiniteSet(In(x.session)) /\ In(x.session) # {} BY <1>1
    <3> QED BY <2>2, <3>1, FS_EmptySet
  <2>4. CASE n <= 1
    <3>1. /\ DOMAIN c = DOMAIN st.sessions \ {x.session}
          /\ \A session \in DOMAIN c : c[session] = st.sessions[session]
      BY <1>5, <2>4 DEF DecrementSession, Without, Restrict
    <3>2. Cardinality(In2(x.session)) = 0
      BY <1>3, <2>2, <2>3, <2>4
    <3> HIDE DEF c, In2, n
    <3>3. \A session \in Sessions \ {x.session} :
            (IF session \in DOMAIN c THEN c[session] ELSE 0) = Cardinality(In2(session))
      BY <1>2, <3>1 DEF Counts
    <3>4. Counts(c, S \ {x})
      BY <3>1, <3>2, <3>3 DEF Counts, In2
    <3> QED BY <3>4 DEF c
  <2>5. CASE ~(n <= 1)
    <3>1. /\ DOMAIN c = DOMAIN st.sessions \cup {x.session}
          /\ c[x.session] = n - 1
          /\ \A session \in DOMAIN st.sessions : session # x.session => c[session] = st.sessions[session]
      BY <1>5, <2>5 DEF DecrementSession, With
    <3>2. c[x.session] = Cardinality(In2(x.session)) /\ c[x.session] \in Nat \ {0}
      BY <1>3, <2>2, <2>5, <3>1
    <3> HIDE DEF c, In2, n, In
    <3>3. \A session \in Sessions \ {x.session} :
            (IF session \in DOMAIN c THEN c[session] ELSE 0) = Cardinality(In2(session))
      BY <1>2, <3>1 DEF Counts, In
    <3>4. \A session \in DOMAIN c : c[session] \in Nat \ {0}
      BY <3>1, <3>2 DEF Counts
    <3>5. DOMAIN c \subseteq Sessions /\ x.session \in DOMAIN c
      BY <2>1, <3>1 DEF Counts
    <3>6. Counts(c, S \ {x})
      BY <3>2, <3>3, <3>4, <3>5 DEF Counts, In2
    <3> QED BY <3>6 DEF c
  <2> QED BY <2>4, <2>5
<1> QED BY <1>4, <1>5

\* removeStubIndexes takes a stub out of every index, filed under the stub's
\* own keys, and leaves itemsByID to its caller.
LEMMA Deindexed ==
  ASSUME NEW st, NEW S, Describes(st, S), IsFiniteSet(S), Unique(S),
         NEW x \in S, x.session \in Sessions \cup {Global}
  PROVE  /\ Describes(RemoveStubIndexes(st, x), S \ {x})
         /\ RemoveStubIndexes(st, x).itemsByID = st.itemsByID
         /\ RemoveStubIndexes(st, x).lefts = st.lefts
         /\ \A D : InOrderBut(st.itemSorted, D) =>
                   InOrderBut(RemoveStubIndexes(st, x).itemSorted, D)
<1> DEFINE r == RemoveStubIndexes(st, x)
           d == DeindexStub(st, x)
<1>1. /\ DOMAIN d = Fields
      /\ \A f \in Fields \ {"equalsIndex", "unindexed"} : d[f] = st[f]
      /\ d.equalsIndex = IF Indexable(x) THEN RemoveFrom(st.equalsIndex, Position(x), IndexKey(x), x.id)
                         ELSE st.equalsIndex
      /\ d.unindexed = IF Indexable(x) THEN st.unindexed
                       ELSE RemoveFrom(st.unindexed, Position(x), Global, x.id)
  BY DEF Describes, Fields, DeindexStub
<1> HIDE DEF d
<1>2. /\ DOMAIN r = Fields
      /\ r.itemSorted = RemoveFrom(st.itemSorted, Position(x), x.session, x.id)
      /\ r.methodSorted = RemoveFrom(st.methodSorted, x.method, x.session, x.id)
      /\ r.sessions = DecrementSession(st, x.session)
      /\ r.equalsIndex = d.equalsIndex /\ r.unindexed = d.unindexed
      /\ r.itemsByID = st.itemsByID /\ r.lefts = st.lefts
  BY <1>1 DEF Fields, RemoveStubIndexes, d
<1> HIDE DEF r
<1>3. Itemizes(r.itemSorted, S \ {x}, ByPosition(S \ {x}))
  <2> DEFINE F == ByPosition(S)
  <2>1. FiledOnce(F, S, x, Position(x), x.session)
    BY FilingsAre DEF FiledOnce
  <2>2. Itemizes(st.itemSorted, S, F)
    BY DEF Describes
  <2> HIDE DEF F
  <2>3. Itemizes(r.itemSorted, Less(S, x), Unfiled(F, x, Position(x), x.session))
    BY <1>2, <2>1, <2>2, Removed
  <2> QED BY <2>3, FilingsShrink DEF F, Unfiled, Less
<1>4. Itemizes(r.methodSorted, S \ {x}, ByMethod(S \ {x}))
  <2> DEFINE F == ByMethod(S)
  <2>1. FiledOnce(F, S, x, x.method, x.session)
    BY FilingsAre DEF FiledOnce
  <2>2. Itemizes(st.methodSorted, S, F)
    BY DEF Describes
  <2> HIDE DEF F
  <2>3. Itemizes(r.methodSorted, Less(S, x), Unfiled(F, x, x.method, x.session))
    BY <1>2, <2>1, <2>2, Removed
  <2> QED BY <2>3, FilingsShrink DEF F, Unfiled, Less
<1>5. Itemizes(r.equalsIndex, S \ {x}, ByKey(S \ {x})) /\ Itemizes(r.unindexed, S \ {x}, Unkeyed(S \ {x}))
  <2> DEFINE F == ByKey(S)
             G == Unkeyed(S)
  <2>2. Itemizes(st.equalsIndex, S, F) /\ Itemizes(st.unindexed, S, G)
    BY DEF Describes
  <2>3. CASE Indexable(x)
    <3>1. FiledOnce(F, S, x, Position(x), IndexKey(x)) /\ \A p, c : <<x, p, c>> \notin G
      BY <2>3, FilingsAre DEF FiledOnce
    <3>2. ByKey(S \ {x}) = Unfiled(F, x, Position(x), IndexKey(x)) /\ Unkeyed(S \ {x}) = G
      BY <2>3, FilingsShrink DEF Unfiled
    <3> HIDE DEF F, G
    <3>3. r.equalsIndex = RemoveFrom(st.equalsIndex, Position(x), IndexKey(x), x.id) /\ r.unindexed = st.unindexed
      BY <1>1, <1>2, <2>3
    <3>4. Itemizes(r.equalsIndex, Less(S, x), Unfiled(F, x, Position(x), IndexKey(x)))
      BY <2>2, <3>1, <3>3, Removed
    <3>5. Itemizes(r.unindexed, S \ {x}, G)
      BY <2>2, <3>1, <3>3, Elsewhere
    <3> QED BY <3>2, <3>4, <3>5 DEF Less
  <2>4. CASE ~Indexable(x)
    <3>1. FiledOnce(G, S, x, Position(x), Global) /\ \A p, c : <<x, p, c>> \notin F
      BY <2>4, FilingsAre DEF FiledOnce
    <3>2. Unkeyed(S \ {x}) = Unfiled(G, x, Position(x), Global) /\ ByKey(S \ {x}) = F
      BY <2>4, FilingsShrink DEF Unfiled
    <3> HIDE DEF F, G
    <3>3. r.unindexed = RemoveFrom(st.unindexed, Position(x), Global, x.id) /\ r.equalsIndex = st.equalsIndex
      BY <1>1, <1>2, <2>4
    <3>4. Itemizes(r.unindexed, Less(S, x), Unfiled(G, x, Position(x), Global))
      BY <2>2, <3>1, <3>3, Removed
    <3>5. Itemizes(r.equalsIndex, S \ {x}, F)
      BY <2>2, <3>1, <3>3, Elsewhere
    <3> QED BY <3>2, <3>4, <3>5 DEF Less
  <2> QED BY <2>3, <2>4
<1>6. Counts(r.sessions, S \ {x})
  BY <1>2, CountedOut DEF Describes
<1>7. ASSUME NEW D, InOrderBut(st.itemSorted, D) PROVE InOrderBut(r.itemSorted, D)
  <2> DEFINE F == ByPosition(S)
  <2>1. FiledOnce(F, S, x, Position(x), x.session) /\ Itemizes(st.itemSorted, S, F)
    BY FilingsAre DEF FiledOnce, Describes
  <2> HIDE DEF F
  <2> QED BY <1>2, <1>7, <2>1, OrderRemoved
<1> QED BY <1>2, <1>3, <1>4, <1>5, <1>6, <1>7 DEF Describes, r

\* InsertOne once the previous stub of the ID has left the indexes.
Enter(st, x) ==
  [IndexStub(st, x) EXCEPT
     !.itemSorted   = AppendTo(@, Position(x), x.session, x),
     !.methodSorted = AppendTo(@, x.method, x.session, x),
     !.sessions     = IncrementSession(st, x.session),
     !.itemsByID    = With(@, x.id, x),
     !.lefts        = @ \cup {x.service}]

\* The bucket of itemSorted a stub is kept in.
Shelf(x) == <<Position(x), x.session>>

\* The second half of an upsert's iteration: the stub enters every index.
LEMMA Entered ==
  ASSUME NEW st, NEW S, Describes(st, S), IsFiniteSet(S), NEW x, x \notin S,
         x.session \in Sessions \cup {Global}
  PROVE  /\ Describes(Enter(st, x), S \cup {x})
         /\ Enter(st, x).itemsByID = With(st.itemsByID, x.id, x)
         /\ Enter(st, x).lefts = st.lefts \cup {x.service}
         /\ \A D : InOrderBut(st.itemSorted, D) =>
                   InOrderBut(Enter(st, x).itemSorted, D \cup {Shelf(x)})
<1> DEFINE d == IndexStub(st, x)
           r == Enter(st, x)
<1>1. /\ DOMAIN d = Fields
      /\ \A f \in Fields \ {"equalsIndex", "unindexed"} : d[f] = st[f]
      /\ d.equalsIndex = IF Indexable(x) THEN AppendTo(st.equalsIndex, Position(x), IndexKey(x), x)
                         ELSE st.equalsIndex
      /\ d.unindexed = IF Indexable(x) THEN st.unindexed
                       ELSE AppendTo(st.unindexed, Position(x), Global, x)
  BY DEF Describes, Fields, IndexStub
<1> HIDE DEF d
<1>2. /\ DOMAIN r = Fields
      /\ r.itemSorted = AppendTo(st.itemSorted, Position(x), x.session, x)
      /\ r.methodSorted = AppendTo(st.methodSorted, x.method, x.session, x)
      /\ r.sessions = IncrementSession(st, x.session)
      /\ r.equalsIndex = d.equalsIndex /\ r.unindexed = d.unindexed
      /\ r.itemsByID = With(st.itemsByID, x.id, x) /\ r.lefts = st.lefts \cup {x.service}
  BY <1>1 DEF Fields, d, Enter
<1> HIDE DEF r
<1>3. \A p, c : /\ <<x, p, c>> \notin ByPosition(S)
                /\ <<x, p, c>> \notin ByMethod(S)
                /\ <<x, p, c>> \notin ByKey(S)
                /\ <<x, p, c>> \notin Unkeyed(S)
  BY FilingsGrow
<1>4. Itemizes(r.itemSorted, S \cup {x}, ByPosition(S \cup {x}))
  <2>1. Itemizes(r.itemSorted, S \cup {x}, ByPosition(S) \cup {<<x, Position(x), x.session>>})
    BY <1>2, <1>3, Appended DEF Describes
  <2> QED BY <2>1, FilingsGrow
<1>5. Itemizes(r.methodSorted, S \cup {x}, ByMethod(S \cup {x}))
  <2>1. Itemizes(r.methodSorted, S \cup {x}, ByMethod(S) \cup {<<x, x.method, x.session>>})
    BY <1>2, <1>3, Appended DEF Describes
  <2> QED BY <2>1, FilingsGrow
<1>6. /\ Itemizes(r.equalsIndex, S \cup {x}, ByKey(S \cup {x}))
      /\ Itemizes(r.unindexed, S \cup {x}, Unkeyed(S \cup {x}))
  <2>1. CASE Indexable(x)
    <3>1. Itemizes(r.equalsIndex, S \cup {x}, ByKey(S) \cup {<<x, Position(x), IndexKey(x)>>})
      BY <1>1, <1>2, <1>3, <2>1, Appended DEF Describes
    <3>2. Itemizes(r.unindexed, S \cup {x}, Unkeyed(S))
      BY <1>1, <1>2, <1>3, <2>1, Elsewhere DEF Describes
    <3>3. /\ ByKey(S \cup {x}) = ByKey(S) \cup {<<x, Position(x), IndexKey(x)>>}
          /\ Unkeyed(S \cup {x}) = Unkeyed(S)
      BY <2>1 DEF ByKey, Unkeyed
    <3> QED BY ONLY <3>1, <3>2, <3>3
  <2>2. CASE ~Indexable(x)
    <3>1. Itemizes(r.unindexed, S \cup {x}, Unkeyed(S) \cup {<<x, Position(x), Global>>})
      BY <1>1, <1>2, <1>3, <2>2, Appended DEF Describes
    <3>2. Itemizes(r.equalsIndex, S \cup {x}, ByKey(S))
      BY <1>1, <1>2, <1>3, <2>2, Elsewhere DEF Describes
    <3>3. /\ ByKey(S \cup {x}) = ByKey(S)
          /\ Unkeyed(S \cup {x}) = Unkeyed(S) \cup {<<x, Position(x), Global>>}
      BY <2>2 DEF ByKey, Unkeyed
    <3> QED BY ONLY <3>1, <3>2, <3>3
  <2> QED BY <2>1, <2>2
<1>7. Counts(r.sessions, S \cup {x})
  BY <1>2, CountedIn DEF Describes
<1>8. \A D : InOrderBut(st.itemSorted, D) => InOrderBut(r.itemSorted, D \cup {Shelf(x)})
  BY <1>2, OrderAppended DEF Shelf
<1> QED BY <1>2, <1>4, <1>5, <1>6, <1>7, <1>8 DEF Describes, r

\* resortTouched changes the order of buckets and nothing else; it puts in
\* order those the batch appended to.
LEMMA Resorted ==
  ASSUME NEW st, NEW S, Describes(st, S), NEW batch
  PROVE  /\ Describes(ResortTouched(st, batch), S)
         /\ ResortTouched(st, batch).itemsByID = st.itemsByID
         /\ ResortTouched(st, batch).lefts = st.lefts
         /\ Ranked(S) /\ InOrderBut(st.itemSorted, {Shelf(batch[i]) : i \in DOMAIN batch}) =>
              InOrderBut(ResortTouched(st, batch).itemSorted, {})
<1> DEFINE map == st.itemSorted
           D == {Shelf(batch[i]) : i \in DOMAIN batch}
           r == ResortTouched(st, batch)
           m == r.itemSorted
<1>1. /\ DOMAIN r = Fields
      /\ \A f \in Fields \ {"itemSorted"} : r[f] = st[f]
      /\ DOMAIN m = DOMAIN map
      /\ \A pos \in DOMAIN map :
           /\ DOMAIN m[pos] = DOMAIN map[pos]
           /\ \A s \in DOMAIN map[pos] :
                m[pos][s] = IF \E i \in DOMAIN batch : Position(batch[i]) = pos /\ batch[i].session = s
                            THEN Sorted(map[pos][s]) ELSE map[pos][s]
  BY DEF ResortTouched, Describes, Fields
<1> HIDE DEF r
<1>2. Itemizes(map, S, ByPosition(S))
  BY DEF Describes
<1> HIDE DEF m, map
<1>3. ASSUME NEW pos \in DOMAIN map, NEW s \in DOMAIN map[pos]
      PROVE  m[pos][s] # <<>> /\ Lists(m[pos][s], At(S, ByPosition(S), pos, s))
  <2>1. map[pos][s] # <<>> /\ Lists(map[pos][s], At(S, ByPosition(S), pos, s))
    BY <1>2 DEF Itemizes, NoEmptyBuckets
  <2>2. Lists(m[pos][s], At(S, ByPosition(S), pos, s))
    BY <1>1, <2>1, ListsSorted
  <2> QED BY <2>1, <2>2, ListsOfNone
<1>4. Itemizes(m, S, ByPosition(S))
  BY <1>1, <1>2, <1>3 DEF Itemizes, NoEmptyBuckets
<1>5. Describes(r, S)
  <2>1. Itemizes(r.itemSorted, S, ByPosition(S))
    BY <1>4 DEF m
  <2>2. /\ r.methodSorted = st.methodSorted /\ r.equalsIndex = st.equalsIndex
        /\ r.unindexed = st.unindexed /\ r.sessions = st.sessions
    BY <1>1 DEF Fields
  <2> QED BY <1>1, <2>1, <2>2 DEF Describes
<1>6. r.itemsByID = st.itemsByID /\ r.lefts = st.lefts
  BY <1>1 DEF Fields
<1>7. ASSUME Ranked(S), InOrderBut(map, D) PROVE InOrderBut(m, {})
  <2> SUFFICES ASSUME NEW pos \in DOMAIN map, NEW s \in DOMAIN map[pos]
               PROVE  Ordered(m[pos][s])
    BY <1>1 DEF InOrderBut
  <2>1. CASE \E i \in DOMAIN batch : Position(batch[i]) = pos /\ batch[i].session = s
    <3> DEFINE T == At(S, ByPosition(S), pos, s)
    <3>1. Lists(map[pos][s], T) /\ m[pos][s] = Sorted(map[pos][s])
      BY <1>1, <1>2, <2>1 DEF Itemizes
    <3>2. Ranked(T)
      BY <1>7 DEF At, Ranked, Unique
    <3> HIDE DEF T
    <3> QED BY <3>1, <3>2, ListsSorted
  <2>2. CASE ~\E i \in DOMAIN batch : Position(batch[i]) = pos /\ batch[i].session = s
    <3>1. <<pos, s>> \notin D
      BY <2>2 DEF Shelf
    <3>2. m[pos][s] = map[pos][s]
      BY <1>1, <2>2
    <3> QED BY <1>7, <3>1, <3>2 DEF InOrderBut
  <2> QED BY <2>1, <2>2
<1> QED BY <1>5, <1>6, <1>7 DEF r, m, map

----------------------------------------------------------------------------
\* What a set of stubs needs so that stores can hold them.
Proper(K) ==
  /\ IsFiniteSet({s.id : s \in K})
  /\ \A s \in K : s.service \in Services /\ s.session \in Sessions \cup {Global}
  /\ \A s \in K : s.id \in Nat /\ s.priority \in Int

\* The redundant structures of a store describe the stubs of itemsByID.
Agree(st, K) ==
  /\ Describes(st, Stored(st))
  /\ st.itemsByID \in [DOMAIN st.itemsByID -> K]
  /\ \A id \in DOMAIN st.itemsByID : st.itemsByID[id].id = id
  /\ st.lefts \subseteq Services
  /\ \A s \in Stored(st) : s.service \in st.lefts

\* In a store whose structures agree, the stubs are finitely many, of the
\* known ones, and an ID has one.
LEMMA StoredStubs ==
  ASSUME NEW st, NEW K, Agree(st, K), Proper(K)
  PROVE  /\ IsFiniteSet(DOMAIN st.itemsByID) /\ IsFiniteSet(Stored(st))
         /\ Unique(Stored(st)) /\ Ranked(Stored(st))
         /\ DOMAIN st.itemsByID \subseteq {s.id : s \in K}
         /\ Stored(st) \subseteq K
         /\ \A s \in Stored(st) : s.id \in DOMAIN st.itemsByID /\ st.itemsByID[s.id] = s
<1> DEFINE f == st.itemsByID
           S == Stored(st)
<1>1. f \in [DOMAIN f -> K] /\ \A id \in DOMAIN f : f[id].id = id
  BY DEF Agree
<1>2. S = {f[id] : id \in DOMAIN f}
  BY DEF Stored, Range
<1> HIDE DEF f, S
<1>3. DOMAIN f \subseteq {s.id : s \in K}
  BY <1>1
<1>4. IsFiniteSet(DOMAIN f)
  <2>1. IsFiniteSet({s.id : s \in K})
    BY DEF Proper
  <2> QED BY <1>3, <2>1, FS_Subset
<1>5. f \in Surjection(DOMAIN f, S)
  <2>1. f \in [DOMAIN f -> S]
    BY <1>1, <1>2
  <2> QED BY <1>2, <2>1 DEF Surjection
<1>6. IsFiniteSet(S)
  BY <1>4, <1>5, FS_Surjection
<1>7. /\ S \subseteq K
      /\ \A s \in S : s.id \in DOMAIN f /\ f[s.id] = s
  BY <1>1, <1>2
<1>8. Unique(S) /\ Ranked(S)
  BY <1>7 DEF Unique, Ranked, Proper
<1> QED BY <1>3, <1>4, <1>6, <1>7, <1>8 DEF f, S

\* One iteration of upsert keeps a store's structures in agreement, whether
\* the ID is new or replaces a stub of another service, method or session.
LEMMA Inserted ==
  ASSUME NEW st, NEW K, Agree(st, K), Proper(K), NEW x \in K
  PROVE  /\ Agree(InsertOne(st, x), K)
         /\ InsertOne(st, x).itemsByID = With(st.itemsByID, x.id, x)
         /\ \A D : InOrderBut(st.itemSorted, D) =>
                   InOrderBut(InsertOne(st, x).itemSorted, D \cup {Shelf(x)})
<1> DEFINE S == Stored(st)
           f == st.itemsByID
           known == x.id \in DOMAIN f
           base == IF known THEN RemoveStubIndexes(st, f[x.id]) ELSE st
           S0 == IF known THEN S \ {f[x.id]} ELSE S
           r == InsertOne(st, x)
<1>1. /\ IsFiniteSet(S) /\ Unique(S) /\ S \subseteq K
      /\ \A s \in S : s.id \in DOMAIN f /\ f[s.id] = s
  BY StoredStubs
<1>2. /\ Describes(st, S)
      /\ f \in [DOMAIN f -> K] /\ \A id \in DOMAIN f : f[id].id = id
      /\ st.lefts \subseteq Services /\ \A s \in S : s.service \in st.lefts
  BY DEF Agree
<1>3. S = {f[id] : id \in DOMAIN f}
  BY DEF Stored, Range
<1>4. x.service \in Services /\ x.session \in Sessions \cup {Global}
  BY DEF Proper
<1>5. r = Enter(base, x)
  BY DEF InsertOne, Enter
<1> HIDE DEF S, f, r
<1>6. /\ Describes(base, S0) /\ IsFiniteSet(S0) /\ x \notin S0
      /\ base.itemsByID = f /\ base.lefts = st.lefts
      /\ \A D : InOrderBut(st.itemSorted, D) => InOrderBut(base.itemSorted, D)
  <2>1. CASE known
    <3> DEFINE old == f[x.id]
    <3>1. old \in S /\ old.session \in Sessions \cup {Global} /\ old.id = x.id
      BY <1>1, <1>2, <1>3, <2>1 DEF Proper
    <3>2. x \in S => x = old
      BY <1>1, <3>1 DEF Unique
    <3> HIDE DEF old
    <3>3. /\ Describes(RemoveStubIndexes(st, old), S \ {old})
          /\ RemoveStubIndexes(st, old).itemsByID = st.itemsByID
          /\ RemoveStubIndexes(st, old).lefts = st.lefts
          /\ \A D : InOrderBut(st.itemSorted, D) =>
                    InOrderBut(RemoveStubIndexes(st, old).itemSorted, D)
      BY <1>1, <1>2, <3>1, Deindexed
    <3>4. IsFiniteSet(S \ {old})
      BY <1>1, FS_RemoveElement
    <3> QED BY <2>1, <3>2, <3>3, <3>4 DEF old, f
  <2>2. CASE ~known
    <3>1. x \notin S
      BY <1>1, <2>2
    <3> QED BY <1>1, <1>2, <2>2, <3>1 DEF f
  <2> QED BY <2>1, <2>2
<1>7. S0 = {f[id] : id \in DOMAIN f \ {x.id}}
  <2>1. CASE known
    BY <1>2, <1>3, <2>1
  <2>2. CASE ~known
    BY <1>3, <2>2
  <2> QED BY <2>1, <2>2
<1>8. S0 \subseteq S
  OBVIOUS
<1> HIDE DEF base, S0
<1>11. /\ Describes(r, S0 \cup {x})
       /\ r.itemsByID = With(f, x.id, x)
       /\ r.lefts = st.lefts \cup {x.service}
       /\ \A D : InOrderBut(base.itemSorted, D) => InOrderBut(r.itemSorted, D \cup {Shelf(x)})
  BY <1>4, <1>5, <1>6, Entered
<1>12. /\ DOMAIN r.itemsByID = DOMAIN f \cup {x.id}
       /\ r.itemsByID \in [DOMAIN f \cup {x.id} -> K]
       /\ \A id \in DOMAIN r.itemsByID : r.itemsByID[id].id = id
  BY <1>2, <1>11 DEF With
<1>13. Stored(r) = S0 \cup {x}
  <2>1. Stored(r) = {r.itemsByID[id] : id \in DOMAIN f \cup {x.id}}
    BY <1>12 DEF Stored, Range
  <2>2. /\ r.itemsByID[x.id] = x
        /\ \A id \in DOMAIN f \ {x.id} : r.itemsByID[id] = f[id]
    BY <1>11 DEF With
  <2>3. {r.itemsByID[id] : id \in DOMAIN f \cup {x.id}} = {f[id] : id \in DOMAIN f \ {x.id}} \cup {x}
    BY <2>2
  <2> QED BY <1>7, <2>1, <2>3
<1>14. r.lefts \subseteq Services /\ \A s \in Stored(r) : s.service \in r.lefts
  BY <1>2, <1>4, <1>8, <1>11, <1>13
<1>15. Agree(r, K)
  BY <1>11, <1>12, <1>13, <1>14 DEF Agree
<1>16. \A D : InOrderBut(st.itemSorted, D) => InOrderBut(r.itemSorted, D \cup {Shelf(x)})
  BY <1>6, <1>11
<1> QED BY <1>11, <1>15, <1>16 DEF r, f

\* One iteration of delete keeps them in agreement and drops one ID, or
\* nothing when the ID is unknown.
LEMMA RemovedOne ==
  ASSUME NEW st, NEW K, Agree(st, K), Proper(K), NEW id
  PROVE  /\ Agree(RemoveOne(st, id), K)
         /\ RemoveOne(st, id).itemsByID = Restrict(st.itemsByID, DOMAIN st.itemsByID \ {id})
         /\ InOrderBut(st.itemSorted, {}) => InOrderBut(RemoveOne(st, id).itemSorted, {})
<1> DEFINE S == Stored(st)
           f == st.itemsByID
           old == f[id]
           base == RemoveStubIndexes(st, old)
           r == RemoveOne(st, id)
<1>1. /\ IsFiniteSet(S) /\ Unique(S) /\ S \subseteq K
      /\ \A s \in S : s.id \in DOMAIN f /\ f[s.id] = s
  BY StoredStubs
<1>2. /\ Describes(st, S)
      /\ f \in [DOMAIN f -> K] /\ \A i \in DOMAIN f : f[i].id = i
      /\ st.lefts \subseteq Services /\ \A s \in S : s.service \in st.lefts
  BY DEF Agree
<1>3. S = {f[i] : i \in DOMAIN f}
  BY DEF Stored, Range
<1>4. CASE id \notin DOMAIN f
  <2>1. r = st
    BY <1>4 DEF RemoveOne
  <2>2. f = Restrict(f, DOMAIN f \ {id})
    BY <1>2, <1>4 DEF Restrict
  <2> QED BY <2>1, <2>2
<1>5. CASE id \in DOMAIN f
  <2>1. r = [base EXCEPT !.itemsByID = Without(@, id)]
    BY <1>5 DEF RemoveOne
  <2>2. old \in S /\ old.session \in Sessions \cup {Global} /\ old.id = id
    BY <1>1, <1>2, <1>3, <1>5 DEF Proper
  <2> HIDE DEF S, f, base, r, old
  <2>3. /\ Describes(base, S \ {old}) /\ base.itemsByID = f /\ base.lefts = st.lefts
        /\ InOrderBut(st.itemSorted, {}) => InOrderBut(base.itemSorted, {})
    BY <1>1, <1>2, <2>2, Deindexed DEF base, f
  <2>4. /\ DOMAIN r = Fields
        /\ r.itemsByID = Restrict(f, DOMAIN f \ {id})
        /\ r.itemSorted = base.itemSorted /\ r.methodSorted = base.methodSorted
        /\ r.equalsIndex = base.equalsIndex /\ r.unindexed = base.unindexed
        /\ r.sessions = base.sessions /\ r.lefts = base.lefts
    BY <2>1, <2>3 DEF Describes, Fields, Without
  <2>5. Describes(r, S \ {old})
    BY <2>3, <2>4 DEF Describes
  <2>6. /\ DOMAIN r.itemsByID = DOMAIN f \ {id}
        /\ \A i \in DOMAIN f \ {id} : r.itemsByID[i] = f[i]
        /\ r.itemsByID \in [DOMAIN f \ {id} -> K]
    BY <1>2, <2>4 DEF Restrict
  <2>7. Stored(r) = {r.itemsByID[i] : i \in DOMAIN r.itemsByID}
    BY DEF Stored, Range
  <2>8. Stored(r) = S \ {old}
    <3>1. Stored(r) = {f[i] : i \in DOMAIN f \ {id}}
      BY <2>6, <2>7
    <3>2. old = f[id]
      BY DEF old
    <3> QED BY <1>2, <1>3, <2>2, <3>1, <3>2
  <2>9. Agree(r, K)
    BY <1>2, <2>3, <2>4, <2>5, <2>6, <2>8 DEF Agree
  <2> QED BY <2>3, <2>4, <2>9 DEF r, f
<1> QED BY <1>4, <1>5

----------------------------------------------------------------------------
\* A table over which the stubs of W are written.
Over(t, W) ==
  [id \in DOMAIN t \cup {s.id : s \in W} |->
     IF \E s \in W : s.id = id THEN CHOOSE s \in W : s.id = id ELSE t[id]]

\* A batch written over a table: its stubs, and the table elsewhere.
LEMMA OverIs ==
  ASSUME NEW t, NEW W, Unique(W)
  PROVE  /\ DOMAIN Over(t, W) = DOMAIN t \cup {s.id : s \in W}
         /\ \A s \in W : Over(t, W)[s.id] = s
         /\ \A id \in DOMAIN t : (\A s \in W : s.id # id) => Over(t, W)[id] = t[id]
<1>1. DOMAIN Over(t, W) = DOMAIN t \cup {s.id : s \in W}
  BY DEF Over
<1>2. ASSUME NEW s \in W PROVE Over(t, W)[s.id] = s
  <2>1. Over(t, W)[s.id] = CHOOSE x \in W : x.id = s.id
    BY DEF Over
  <2>2. \A x \in W : x.id = s.id => x = s
    BY DEF Unique
  <2> QED BY <2>1, <2>2
<1>3. \A id \in DOMAIN t : (\A s \in W : s.id # id) => Over(t, W)[id] = t[id]
  BY DEF Over
<1> QED BY <1>1, <1>2, <1>3

\* One more stub replaces the stub of its ID, of the table or of the batch.
LEMMA OverWith ==
  ASSUME NEW t, NEW W, Unique(W), NEW x
  PROVE  /\ Unique({s \in W : s.id # x.id} \cup {x})
         /\ With(Over(t, W), x.id, x) = Over(t, {s \in W : s.id # x.id} \cup {x})
<1> DEFINE W2 == {s \in W : s.id # x.id} \cup {x}
           f == With(Over(t, W), x.id, x)
           g == Over(t, W2)
<1>1. Unique(W2)
  BY DEF Unique
<1>2. /\ DOMAIN f = DOMAIN Over(t, W) \cup {x.id}
      /\ f[x.id] = x
      /\ \A id \in DOMAIN Over(t, W) : id # x.id => f[id] = Over(t, W)[id]
  BY DEF With
<1>3. /\ DOMAIN Over(t, W) = DOMAIN t \cup {s.id : s \in W}
      /\ \A s \in W : Over(t, W)[s.id] = s
      /\ \A id \in DOMAIN t : (\A s \in W : s.id # id) => Over(t, W)[id] = t[id]
  BY OverIs
<1>4. /\ DOMAIN g = DOMAIN t \cup {s.id : s \in W2}
      /\ \A s \in W2 : g[s.id] = s
      /\ \A id \in DOMAIN t : (\A s \in W2 : s.id # id) => g[id] = t[id]
  <2> HIDE DEF W2
  <2> QED BY <1>1, OverIs
<1>5. f = [id \in DOMAIN f |-> f[id]] /\ g = [id \in DOMAIN g |-> g[id]]
  BY DEF With, Over
<1> HIDE DEF f, g
<1>6. DOMAIN f = DOMAIN g
  BY <1>2, <1>3, <1>4
<1>7. ASSUME NEW id \in DOMAIN f PROVE f[id] = g[id]
  <2>1. CASE id = x.id
    BY <1>2, <1>4, <2>1
  <2>2. CASE id # x.id /\ \E s \in W : s.id = id
    <3>1. PICK s \in W : s.id = id
      BY <2>2
    <3>2. s \in W2
      BY <2>2, <3>1
    <3> QED BY <1>2, <1>3, <1>4, <2>2, <3>1, <3>2
  <2>3. CASE id # x.id /\ \A s \in W : s.id # id
    <3>1. id \in DOMAIN t /\ \A s \in W2 : s.id # id
      BY <1>2, <1>3, <1>7, <2>3
    <3>2. f[id] = t[id]
      BY <1>2, <1>3, <2>3, <3>1
    <3> QED BY <1>4, <3>1, <3>2
  <2> QED BY <2>1, <2>2, <2>3
<1>8. f = g
  BY <1>5, <1>6, <1>7
<1> QED BY <1>1, <1>8 DEF f, g

\* What a batch of n stubs can leave behind: at most n stubs, one per ID.
Written(t, W, K, n) ==
  /\ W \subseteq K /\ Unique(W)
  /\ IsFiniteSet(W) /\ Cardinality(W) <= n

\* upsert of a batch keeps a store's structures in agreement and writes a set
\* of at most as many stubs as the batch has, one per ID, over itemsByID; its
\* buckets are in order again at the end.
LEMMA Upserted ==
  ASSUME NEW st, NEW K, Agree(st, K), Proper(K), NEW batch \in Seq(K)
  PROVE  /\ Agree(Upsert(st, batch), K)
         /\ \E W : Written(st.itemsByID, W, K, Len(batch)) /\ Upsert(st, batch).itemsByID = Over(st.itemsByID, W)
         /\ InOrderBut(st.itemSorted, {}) => InOrderBut(Upsert(st, batch).itemSorted, {})
<1> DEFINE Goes(f, n) == f = [i \in 0..n |-> IF i = 0 THEN st ELSE InsertOne(f[i - 1], batch[i])]
           t == st.itemsByID
<1>1. Len(batch) \in Nat /\ \A i \in 1..Len(batch) : batch[i] \in K
  BY ElementOfSeq, LenProperties
<1>2. \A n \in Nat : \E f : Goes(f, n)
  <2> DEFINE S == {n \in Nat : \E f : Goes(f, n)}
  <2>1. 0 \in S
    <3>1. Goes([i \in 0..0 |-> st], 0) OBVIOUS
    <3> QED BY <3>1
  <2>2. ASSUME NEW n \in Nat, n \in S PROVE n + 1 \in S
    <3>1. PICK f : Goes(f, n) BY <2>2
    <3> DEFINE g == [i \in 0..n + 1 |-> IF i = n + 1 THEN InsertOne(f[n], batch[n + 1]) ELSE f[i]]
    <3>2. Goes(g, n + 1) BY <3>1
    <3>3. \E h : Goes(h, n + 1)
      <4> HIDE DEF g, Goes
      <4> QED BY <3>2
    <3> HIDE DEF Goes
    <3> QED BY <3>3
  <2> HIDE DEF S
  <2>3. Nat \subseteq S BY <2>1, <2>2, Induct
  <2> QED BY <2>3 DEF S
<1> DEFINE after == CHOOSE f : Goes(f, Len(batch))
<1>3. Goes(after, Len(batch))
  <2>1. \E f : Goes(f, Len(batch)) BY <1>1, <1>2
  <2> HIDE DEF Goes
  <2> QED BY <2>1
<1>4. Upsert(st, batch) = ResortTouched(after[Len(batch)], batch)
  BY DEF Upsert
<1> HIDE DEF after
<1>5. /\ after[0] = st
      /\ \A n \in Nat : n + 1 <= Len(batch) => after[n + 1] = InsertOne(after[n], batch[n + 1])
  BY <1>1, <1>3
<1> DEFINE D(n) == {Shelf(batch[i]) : i \in 1..n}
           Good(n) == /\ Agree(after[n], K)
                      /\ InOrderBut(st.itemSorted, {}) => InOrderBut(after[n].itemSorted, D(n))
                      /\ \E W : Written(t, W, K, n) /\ after[n].itemsByID = Over(t, W)
           S == {n \in Nat : n <= Len(batch) => Good(n)}
<1>6. 0 \in S
  <2>1. Written(t, {}, K, 0)
    BY FS_EmptySet DEF Written, Unique
  <2>2. t = Over(t, {})
    <3>1. t = [id \in DOMAIN t |-> t[id]]
      BY DEF Agree
    <3>2. Over(t, {}) = [id \in DOMAIN t |-> t[id]]
      BY DEF Over
    <3> QED BY <3>1, <3>2
  <2>3. D(0) = {}
    OBVIOUS
  <2> HIDE DEF D
  <2> QED BY <1>5, <2>1, <2>2, <2>3
<1>7. ASSUME NEW n \in Nat, n \in S PROVE n + 1 \in S
  <2>1. SUFFICES ASSUME n + 1 <= Len(batch) PROVE Good(n + 1)
    OBVIOUS
  <2> DEFINE x == batch[n + 1]
             now == after[n]
  <2>2. Good(n) /\ x \in K /\ after[n + 1] = InsertOne(now, x)
    BY <1>1, <1>5, <1>7, <2>1
  <2>3. PICK W : Written(t, W, K, n) /\ now.itemsByID = Over(t, W)
    BY <2>2
  <2>8. D(n + 1) = D(n) \cup {Shelf(x)}
    <3>1. 1..n + 1 = (1..n) \cup {n + 1} OBVIOUS
    <3> QED BY <3>1
  <2> DEFINE W1 == {s \in W : s.id # x.id}
             W2 == W1 \cup {x}
  <2>4. /\ Agree(now, K)
        /\ InOrderBut(st.itemSorted, {}) => InOrderBut(now.itemSorted, D(n))
    BY <2>2
  <2> HIDE DEF x, now, t, D
  <2>5. /\ Agree(after[n + 1], K)
        /\ after[n + 1].itemsByID = With(now.itemsByID, x.id, x)
        /\ \A E : InOrderBut(now.itemSorted, E) =>
                  InOrderBut(after[n + 1].itemSorted, E \cup {Shelf(x)})
    BY <2>2, <2>4, Inserted
  <2>9. InOrderBut(st.itemSorted, {}) => InOrderBut(after[n + 1].itemSorted, D(n + 1))
    BY <2>4, <2>5, <2>8
  <2>6. after[n + 1].itemsByID = Over(t, W2) /\ Unique(W2)
    BY <2>3, <2>5, OverWith DEF Written
  <2>7. Written(t, W2, K, n + 1)
    <3>1. IsFiniteSet(W1) /\ Cardinality(W1) <= Cardinality(W) /\ Cardinality(W1) \in Nat /\ Cardinality(W) \in Nat
      BY <2>3, FS_Subset, FS_CardinalityType DEF Written
    <3> HIDE DEF W1
    <3>2. IsFiniteSet(W2) /\ Cardinality(W2) <= Cardinality(W1) + 1 /\ Cardinality(W2) \in Nat
      <4>1. /\ IsFiniteSet(W1 \cup {x})
            /\ Cardinality(W1 \cup {x}) = IF x \in W1 THEN Cardinality(W1) ELSE Cardinality(W1) + 1
        BY <3>1, FS_AddElement
      <4>2. Cardinality(W1 \cup {x}) \in {Cardinality(W1), Cardinality(W1) + 1}
        BY <4>1
      <4> QED BY <3>1, <4>1, <4>2
    <3>3. W2 \subseteq K
      BY <2>2, <2>3 DEF Written, W1
    <3>4. Cardinality(W2) <= n + 1
      BY <2>3, <3>1, <3>2 DEF Written
    <3> HIDE DEF W2
    <3> QED BY <2>6, <3>2, <3>3, <3>4 DEF Written
  <2> HIDE DEF W2
  <2> QED BY <2>5, <2>6, <2>7, <2>9
<1>8. Good(Len(batch))
  <2> HIDE DEF S, Good
  <2>1. Nat \subseteq S BY <1>6, <1>7, Induct
  <2> QED BY <1>1, <2>1 DEF S
<1> DEFINE last == after[Len(batch)]
<1>9. PICK W : Written(t, W, K, Len(batch)) /\ last.itemsByID = Over(t, W)
  BY <1>8
<1>10. /\ Agree(last, K)
       /\ InOrderBut(st.itemSorted, {}) =>
            InOrderBut(last.itemSorted, {Shelf(batch[i]) : i \in DOMAIN batch})
  BY <1>8, LenProperties
<1> HIDE DEF last
<1>11. /\ Describes(ResortTouched(last, batch), Stored(last))
       /\ ResortTouched(last, batch).itemsByID = last.itemsByID
       /\ ResortTouched(last, batch).lefts = last.lefts
       /\ InOrderBut(st.itemSorted, {}) => InOrderBut(ResortTouched(last, batch).itemSorted, {})
  BY <1>10, Resorted, StoredStubs DEF Agree
<1>12. Stored(ResortTouched(last, batch)) = Stored(last)
  BY <1>11 DEF Stored
<1>13. Agree(ResortTouched(last, batch), K)
  BY <1>10, <1>11, <1>12 DEF Agree
<1> QED BY <1>4, <1>9, <1>11, <1>13 DEF last

\* SetToSeq lists a finite set.
LEMMA SetListed ==
  ASSUME NEW T, IsFiniteSet(T)
  PROVE  Lists(SetToSeq(T), T) /\ DOMAIN SetToSeq(T) = 1..Cardinality(T)
<1> DEFINE c == Cardinality(T)
           keys == SetToSeq(T)
<1>1. c \in Nat
  BY FS_CardinalityType
<1>2. PICK f : f \in Bijection(1..c, T)
  BY FS_CardinalityType DEF ExistsBijection
<1>3. f \in [1..c -> T] /\ IsInjective(f)
  BY <1>2 DEF Bijection, Injection
<1>4. keys = CHOOSE g \in [1..c -> T] : IsInjective(g)
  BY DEF SetToSeq
<1>5. keys \in [1..c -> T] /\ IsInjective(keys)
  <2> HIDE DEF keys, c
  <2> QED BY <1>3, <1>4
<1> HIDE DEF keys
<1>6. keys \in Surjection(1..c, T)
  <2>1. keys \in Injection(1..c, T)
    BY <1>5 DEF Injection
  <2>2. Cardinality(1..c) = Cardinality(T)
    BY <1>1, FS_Interval
  <2> QED BY <2>1, <2>2, FS_Injection
<1>7. keys \in Seq(T) /\ DOMAIN keys = 1..c
  <2> HIDE DEF c
  <2> QED BY <1>1, <1>5
<1>8. Lists(keys, T)
  BY <1>5, <1>6, <1>7 DEF Lists, Surjection, IsInjective
<1> QED BY <1>7, <1>8 DEF keys

\* delete of a set of IDs keeps them in agreement and drops exactly the IDs.
LEMMA Deleted ==
  ASSUME NEW st, NEW K, Agree(st, K), Proper(K), NEW ids, IsFiniteSet(ids)
  PROVE  /\ Agree(Del(st, ids), K)
         /\ Del(st, ids).itemsByID = Restrict(st.itemsByID, DOMAIN st.itemsByID \ ids)
         /\ InOrderBut(st.itemSorted, {}) => InOrderBut(Del(st, ids).itemSorted, {})
<1> DEFINE keys == SetToSeq(ids)
           c == Cardinality(ids)
           Goes(f, n) == f = [i \in 0..n |-> IF i = 0 THEN st ELSE RemoveOne(f[i - 1], keys[i])]
           t == st.itemsByID
<1>1. c \in Nat
  BY FS_CardinalityType
<1>2. ids = {keys[i] : i \in 1..c}
  <2> HIDE DEF keys
  <2>1. Lists(keys, ids) /\ DOMAIN keys = 1..c
    BY SetListed DEF keys
  <2>2. keys \in Seq(ids) /\ DOMAIN keys = 1..Len(keys)
    BY <2>1, LenProperties DEF Lists
  <2> HIDE DEF c
  <2>3. \A i \in 1..c : keys[i] \in ids
    BY <2>1, <2>2, ElementOfSeq
  <2>4. \A x \in ids : \E i \in 1..c : keys[i] = x
    BY <2>1 DEF Lists
  <2> QED BY <2>3, <2>4
<1> HIDE DEF keys
<1>3. \A n \in Nat : \E f : Goes(f, n)
  <2> DEFINE S == {n \in Nat : \E f : Goes(f, n)}
  <2>1. 0 \in S
    <3>1. Goes([i \in 0..0 |-> st], 0) OBVIOUS
    <3> QED BY <3>1
  <2>2. ASSUME NEW n \in Nat, n \in S PROVE n + 1 \in S
    <3>1. PICK f : Goes(f, n) BY <2>2
    <3> DEFINE g == [i \in 0..n + 1 |-> IF i = n + 1 THEN RemoveOne(f[n], keys[n + 1]) ELSE f[i]]
    <3>2. Goes(g, n + 1) BY <3>1
    <3>3. \E h : Goes(h, n + 1)
      <4> HIDE DEF g, Goes
      <4> QED BY <3>2
    <3> HIDE DEF Goes
    <3> QED BY <3>3
  <2> HIDE DEF S
  <2>3. Nat \subseteq S BY <2>1, <2>2, Induct
  <2> QED BY <2>3 DEF S
<1> DEFINE after == CHOOSE f : Goes(f, c)
<1>4. Goes(after, c)
  <2>1. \E f : Goes(f, c) BY <1>1, <1>3
  <2> HIDE DEF Goes
  <2> QED BY <2>1
<1>5. Del(st, ids) = after[c]
  BY DEF Del, keys
<1> HIDE DEF after, c
<1>6. /\ after[0] = st
      /\ \A n \in Nat : n + 1 <= c => after[n + 1] = RemoveOne(after[n], keys[n + 1])
  BY <1>1, <1>4
<1> DEFINE Gone(n) == {keys[i] : i \in 1..n}
           Good(n) == /\ Agree(after[n], K)
                      /\ after[n].itemsByID = Restrict(t, DOMAIN t \ Gone(n))
                      /\ InOrderBut(st.itemSorted, {}) => InOrderBut(after[n].itemSorted, {})
           S == {n \in Nat : n <= c => Good(n)}
<1>7. 0 \in S
  <2>1. Gone(0) = {}
    OBVIOUS
  <2>2. t = [id \in DOMAIN t |-> t[id]]
    BY DEF Agree
  <2> HIDE DEF Gone, t
  <2>3. t = Restrict(t, DOMAIN t \ Gone(0))
    BY <2>1, <2>2 DEF Restrict
  <2> QED BY <1>6, <2>3 DEF t
<1>8. ASSUME NEW n \in Nat, n \in S PROVE n + 1 \in S
  <2>1. SUFFICES ASSUME n + 1 <= c PROVE Good(n + 1)
    OBVIOUS
  <2> DEFINE now == after[n]
             id == keys[n + 1]
  <2>2. Good(n) /\ after[n + 1] = RemoveOne(now, id)
    BY <1>1, <1>6, <1>8, <2>1
  <2>3. Gone(n + 1) = Gone(n) \cup {id}
    <3>1. 1..n + 1 = (1..n) \cup {n + 1} OBVIOUS
    <3> QED BY <3>1
  <2> HIDE DEF Gone, t
  <2>4. /\ Agree(now, K) /\ now.itemsByID = Restrict(t, DOMAIN t \ Gone(n))
        /\ InOrderBut(st.itemSorted, {}) => InOrderBut(now.itemSorted, {})
    BY <2>2
  <2> HIDE DEF now, id
  <2>5. /\ Agree(after[n + 1], K)
        /\ after[n + 1].itemsByID = Restrict(now.itemsByID, DOMAIN now.itemsByID \ {id})
        /\ InOrderBut(now.itemSorted, {}) => InOrderBut(after[n + 1].itemSorted, {})
    <3>1. /\ Agree(RemoveOne(now, id), K)
          /\ RemoveOne(now, id).itemsByID = Restrict(now.itemsByID, DOMAIN now.itemsByID \ {id})
          /\ InOrderBut(now.itemSorted, {}) => InOrderBut(RemoveOne(now, id).itemSorted, {})
      BY <2>4, RemovedOne
    <3> QED BY <2>2, <3>1
  <2>6. Restrict(now.itemsByID, DOMAIN now.itemsByID \ {id}) = Restrict(t, DOMAIN t \ Gone(n + 1))
    BY <2>3, <2>4 DEF Restrict
  <2> QED BY <2>4, <2>5, <2>6
<1>9. Good(c)
  <2> HIDE DEF S, Good
  <2>1. Nat \subseteq S BY <1>7, <1>8, Induct
  <2> QED BY <1>1, <2>1 DEF S
<1>10. Gone(c) = ids
  BY <1>2
<1> QED BY <1>5, <1>9, <1>10

\* deleteBySession drops exactly the stubs the session owns.
LEMMA SessionDeleted ==
  ASSUME NEW st, NEW K, Agree(st, K), Proper(K), NEW session \in Sessions
  PROVE  /\ Agree(DelBySession(st, session), K)
         /\ DelBySession(st, session).itemsByID = RestrictValues(st.itemsByID, LAMBDA s : s.session # session)
         /\ InOrderBut(st.itemSorted, {}) => InOrderBut(DelBySession(st, session).itemSorted, {})
<1> DEFINE t == st.itemsByID
           ids == {id \in DOMAIN t : t[id].session = session}
<1>1. DelBySession(st, session) = Del(st, ids)
  BY StorageAssumption DEF DelBySession
<1>2. IsFiniteSet(ids)
  BY StoredStubs, FS_Subset
<1>3. RestrictValues(t, LAMBDA s : s.session # session) = Restrict(t, DOMAIN t \ ids)
  <2>1. {id \in DOMAIN t : t[id].session # session} = DOMAIN t \ ids
    OBVIOUS
  <2> QED BY <2>1 DEF RestrictValues
<1> HIDE DEF ids
<1> QED BY <1>1, <1>2, <1>3, Deleted

----------------------------------------------------------------------------
\* Both stores agree with themselves, and the users' is in order.
StorageInv ==
  /\ Agree(external, NamedStubs) /\ Agree(internal, InternalStubs)
  /\ InOrderBut(external.itemSorted, {})

\* The stubs a store can hold, those of the catalog with their IDs assigned
\* and the health stubs, have finitely many IDs and known services and sessions.
LEMMA KnownStubs == Proper(NamedStubs) /\ Proper(InternalStubs)
<1> DEFINE given == {s.id : s \in Catalog \cup InternalStubs}
<1>1. /\ IsFiniteSet(FreshIds) /\ IsFiniteSet(given)
      /\ \A s \in Catalog \cup InternalStubs :
           /\ DOMAIN s = {"id", "service", "method", "session", "priority", "input", "inputs"}
           /\ s.service \in Services /\ s.session \in Sessions \cup {Global}
           /\ s.id \in Nat /\ s.priority \in Int
  BY StorageAssumption
<1>2. \A x \in NamedStubs :
        /\ x.service \in Services /\ x.session \in Sessions \cup {Global}
        /\ x.id \in FreshIds \cup given
        /\ x.id \in Nat /\ x.priority \in Int
  <2> TAKE x \in NamedStubs
  <2>1. PICK s \in Catalog :
          x \in IF s.id = NilId THEN {[s EXCEPT !.id = id] : id \in FreshIds} ELSE {s}
    BY DEF NamedStubs
  <2>2. CASE s.id = NilId
    <3>1. PICK id \in FreshIds : x = [s EXCEPT !.id = id]
      BY <2>1, <2>2
    <3>2. id \in Nat
      BY StorageAssumption
    <3> QED BY <1>1, <3>1, <3>2
  <2>3. CASE s.id # NilId
    BY <1>1, <2>1, <2>3
  <2> QED BY <2>2, <2>3
<1>3. IsFiniteSet({x.id : x \in NamedStubs}) /\ IsFiniteSet({s.id : s \in InternalStubs})
  <2>1. {x.id : x \in NamedStubs} \subseteq FreshIds \cup given
    BY <1>2
  <2>2. {s.id : s \in InternalStubs} \subseteq given
    OBVIOUS
  <2> HIDE DEF given
  <2>3. IsFiniteSet(FreshIds \cup given)
    BY <1>1, FS_Union
  <2> QED BY <1>1, <2>1, <2>2, <2>3, FS_Subset
<1> QED BY <1>1, <1>2, <1>3 DEF Proper

\* The structures of an empty store agree: where clear leaves both stores.
LEMMA EmptyAgrees ==
  ASSUME NEW K
  PROVE  Agree(EmptyStore, K) /\ InOrderBut(EmptyStore.itemSorted, {})
<1>1. Stored(EmptyStore) = {}
  BY DEF EmptyStore, Stored, Range
<1>2. /\ ByPosition({}) = {} /\ ByMethod({}) = {}
      /\ ByKey({}) = {} /\ Unkeyed({}) = {}
  BY DEF ByPosition, ByMethod, ByKey, Unkeyed
<1>3. Itemizes(<<>>, {}, {})
  BY DEF Itemizes, NoEmptyBuckets
<1>4. Counts(<<>>, {})
  <2>1. \A session : {s \in {} : s.session = session} = {}
    OBVIOUS
  <2> QED BY <2>1, FS_EmptySet DEF Counts
<1>5. /\ DOMAIN EmptyStore = Fields
      /\ EmptyStore.itemSorted = <<>> /\ EmptyStore.methodSorted = <<>>
      /\ EmptyStore.equalsIndex = <<>> /\ EmptyStore.unindexed = <<>>
      /\ EmptyStore.sessions = <<>> /\ EmptyStore.itemsByID = <<>> /\ EmptyStore.lefts = {}
  BY DEF EmptyStore, Fields
<1>6. Describes(EmptyStore, {})
  BY <1>2, <1>3, <1>4, <1>5 DEF Describes
<1>7. <<>> \in [DOMAIN <<>> -> K] /\ DOMAIN <<>> = {}
  OBVIOUS
<1> QED BY <1>1, <1>5, <1>6, <1>7 DEF Agree, InOrderBut

----------------------------------------------------------------------------
\* A batch is a bounded sequence of stubs of the catalog.
LEMMA BatchIs ==
  ASSUME NEW batch \in Batches
  PROVE  batch \in Seq(Catalog) /\ Len(batch) \in 1..MaxBatch
<1>1. PICK n \in 1..MaxBatch : batch \in [1..n -> Catalog]
  BY DEF Batches
<1>2. n \in Nat
  BY StorageAssumption
<1> QED BY <1>1, <1>2

\* UpdateMany passes on stubs that have an ID, at most as many as it got.
LEMMA UpdatesAre ==
  ASSUME NEW batch \in Seq(Catalog)
  PROVE  Updates(batch) \in Seq(NamedStubs) /\ Len(Updates(batch)) <= Len(batch)
<1> DEFINE next(q, i) == IF batch[i].id = NilId THEN q ELSE Append(q, batch[i])
           Goes(f, n) == f = [i \in 0..n |-> IF i = 0 THEN <<>> ELSE next(f[i - 1], i)]
<1>1. Len(batch) \in Nat /\ \A i \in 1..Len(batch) : batch[i] \in Catalog
  BY ElementOfSeq, LenProperties
<1> HIDE DEF next
<1>2. \A n \in Nat : \E f : Goes(f, n)
  <2> DEFINE S == {n \in Nat : \E f : Goes(f, n)}
  <2>1. 0 \in S
    <3>1. Goes([i \in 0..0 |-> <<>>], 0) OBVIOUS
    <3> QED BY <3>1
  <2>2. ASSUME NEW n \in Nat, n \in S PROVE n + 1 \in S
    <3>1. PICK f : Goes(f, n) BY <2>2
    <3> DEFINE g == [i \in 0..n + 1 |->
                       IF i = n + 1 THEN next(f[n], n + 1) ELSE f[i]]
    <3>2. Goes(g, n + 1) BY <3>1
    <3>3. \E h : Goes(h, n + 1)
      <4> HIDE DEF g, Goes
      <4> QED BY <3>2
    <3> HIDE DEF Goes
    <3> QED BY <3>3
  <2> HIDE DEF S
  <2>3. Nat \subseteq S BY <2>1, <2>2, Induct
  <2> QED BY <2>3 DEF S
<1> DEFINE updates == CHOOSE f : Goes(f, Len(batch))
<1>3. Goes(updates, Len(batch))
  <2>1. \E f : Goes(f, Len(batch)) BY <1>1, <1>2
  <2> HIDE DEF Goes
  <2> QED BY <2>1
<1>4. Updates(batch) = updates[Len(batch)]
  BY DEF Updates, next
<1> HIDE DEF updates
<1>5. /\ updates[0] = <<>>
      /\ \A n \in Nat : n + 1 <= Len(batch) =>
           updates[n + 1] = next(updates[n], n + 1)
  BY <1>1, <1>3
<1> DEFINE Good(n) == updates[n] \in Seq(NamedStubs) /\ Len(updates[n]) <= n
           S == {n \in Nat : n <= Len(batch) => Good(n)}
<1>6. 0 \in S
  <2>1. <<>> \in Seq(NamedStubs) /\ Len(<<>>) = 0
    BY EmptySeq
  <2>2. updates[0] = <<>>
    BY <1>5
  <2>3. Good(0)
    BY ONLY <2>1, <2>2
  <2> HIDE DEF Good
  <2> QED BY <2>3
<1>7. ASSUME NEW n \in Nat, n \in S PROVE n + 1 \in S
  <2>1. SUFFICES ASSUME n + 1 <= Len(batch) PROVE Good(n + 1)
    OBVIOUS
  <2> DEFINE q == updates[n]
             x == batch[n + 1]
  <2>2. q \in Seq(NamedStubs) /\ Len(q) <= n /\ x \in Catalog
    BY <1>1, <1>7, <2>1
  <2>3. updates[n + 1] = IF x.id = NilId THEN q ELSE Append(q, x)
    BY <1>5, <2>1 DEF next
  <2>4. x.id # NilId => x \in NamedStubs
    BY <2>2 DEF NamedStubs
  <2> HIDE DEF q, x
  <2>5. CASE x.id = NilId
    BY <2>2, <2>3, <2>5, LenProperties
  <2>6. CASE x.id # NilId
    BY <2>2, <2>3, <2>4, <2>6, LenProperties
  <2> QED BY <2>5, <2>6
<1>8. Good(Len(batch))
  <2> HIDE DEF S, Good
  <2>1. Nat \subseteq S BY <1>6, <1>7, Induct
  <2> QED BY <1>1, <2>1 DEF S
<1> QED BY <1>4, <1>8

\* PutMany passes on as many stubs as it got, each with an ID.
LEMMA NamedAre ==
  ASSUME NEW batch \in Batches, NEW named \in AssignIds(batch)
  PROVE  named \in Seq(NamedStubs) /\ Len(named) = Len(batch)
<1> DEFINE unnamed == {i \in DOMAIN batch : batch[i].id = NilId}
           free == FreshIds \ DOMAIN external.itemsByID
<1>1. batch \in Seq(Catalog) /\ DOMAIN batch = 1..Len(batch) /\ Len(batch) \in Nat
      /\ \A i \in 1..Len(batch) : batch[i] \in Catalog
  BY BatchIs, LenProperties, ElementOfSeq
<1>2. PICK new \in Injection(unnamed, free) :
        named = [i \in DOMAIN batch |->
                   IF i \in unnamed THEN [batch[i] EXCEPT !.id = new[i]] ELSE batch[i]]
  BY DEF AssignIds
<1>3. \A i \in unnamed : new[i] \in FreshIds
  BY <1>2 DEF Injection
<1>4. ASSUME NEW i \in 1..Len(batch) PROVE named[i] \in NamedStubs
  <2>1. CASE i \in unnamed
    <3>1. batch[i] \in Catalog /\ batch[i].id = NilId /\ new[i] \in FreshIds
      BY <1>1, <1>3, <2>1
    <3>2. [batch[i] EXCEPT !.id = new[i]] \in NamedStubs
      BY <3>1 DEF NamedStubs
    <3> QED BY <1>1, <1>2, <2>1, <3>2
  <2>2. CASE i \notin unnamed
    <3>1. batch[i] \in Catalog /\ batch[i].id # NilId
      BY <1>1, <2>2
    <3>2. batch[i] \in NamedStubs
      BY <3>1 DEF NamedStubs
    <3> QED BY <1>1, <1>2, <2>2, <3>2
  <2> QED BY <2>1, <2>2
<1>5. DOMAIN named = 1..Len(batch) /\ named = [i \in 1..Len(batch) |-> named[i]]
  BY <1>1, <1>2
<1>6. named \in [1..Len(batch) -> NamedStubs]
  BY <1>4, <1>5
<1> QED BY <1>1, <1>6

\* The structures of both stores agree once the health stubs are put.
LEMMA InitAgrees == Init => StorageInv
<1> SUFFICES ASSUME Init PROVE StorageInv
  OBVIOUS
<1> DEFINE next(st, i) == Upsert(st, <<InitialInternal[i]>>)
           Goes(f, n) == f = [i \in 0..n |-> IF i = 0 THEN EmptyStore ELSE next(f[i - 1], i)]
           c == Len(InitialInternal)
<1>1. c \in Nat /\ \A i \in 1..c : InitialInternal[i] \in InternalStubs
  BY StorageAssumption, ElementOfSeq, LenProperties
<1> HIDE DEF next
<1>2. \A n \in Nat : \E f : Goes(f, n)
  <2> DEFINE S == {n \in Nat : \E f : Goes(f, n)}
  <2>1. 0 \in S
    <3>1. Goes([i \in 0..0 |-> EmptyStore], 0) OBVIOUS
    <3> QED BY <3>1
  <2>2. ASSUME NEW n \in Nat, n \in S PROVE n + 1 \in S
    <3>1. PICK f : Goes(f, n) BY <2>2
    <3> DEFINE g == [i \in 0..n + 1 |->
                       IF i = n + 1 THEN next(f[n], n + 1) ELSE f[i]]
    <3>2. Goes(g, n + 1) BY <3>1
    <3>3. \E h : Goes(h, n + 1)
      <4> HIDE DEF g, Goes
      <4> QED BY <3>2
    <3> HIDE DEF Goes
    <3> QED BY <3>3
  <2> HIDE DEF S
  <2>3. Nat \subseteq S BY <2>1, <2>2, Induct
  <2> QED BY <2>3 DEF S
<1> DEFINE after == CHOOSE f : Goes(f, c)
<1>3. Goes(after, c)
  <2>1. \E f : Goes(f, c) BY <1>1, <1>2
  <2> HIDE DEF Goes
  <2> QED BY <2>1
<1>4. external = EmptyStore /\ internal = after[c]
  BY DEF Init, next
<1> HIDE DEF after, c
<1>5. /\ after[0] = EmptyStore
      /\ \A n \in Nat : n + 1 <= c => after[n + 1] = next(after[n], n + 1)
  BY <1>1, <1>3
<1> DEFINE S == {n \in Nat : n <= c => Agree(after[n], InternalStubs)}
<1>6. 0 \in S
  BY <1>5, EmptyAgrees
<1>7. ASSUME NEW n \in Nat, n \in S PROVE n + 1 \in S
  <2>1. SUFFICES ASSUME n + 1 <= c PROVE Agree(after[n + 1], InternalStubs)
    OBVIOUS
  <2> DEFINE q == <<InitialInternal[n + 1]>>
             now == after[n]
  <2>2. q \in Seq(InternalStubs)
    BY <1>1, <2>1
  <2>3. Agree(now, InternalStubs) /\ after[n + 1] = Upsert(now, q)
    BY <1>1, <1>5, <1>7, <2>1 DEF next
  <2> HIDE DEF q, now
  <2> QED BY <2>2, <2>3, KnownStubs, Upserted
<1>8. Agree(after[c], InternalStubs)
  <2> HIDE DEF S
  <2>1. Nat \subseteq S BY <1>6, <1>7, Induct
  <2> QED BY <1>1, <2>1 DEF S
<1> QED BY <1>4, <1>8, EmptyAgrees DEF StorageInv

----------------------------------------------------------------------------
\* The entries of an index, one per place of a bucket.
LEMMA EntriesAre ==
  ASSUME NEW map, NEW e
  PROVE  e \in Entries(map) <=>
           \E pos \in DOMAIN map : \E b \in DOMAIN map[pos] : \E i \in DOMAIN map[pos][b] : e = <<pos, b, i>>
  BY DEF Entries

\* The stubs of S an index files.
Placed(S, F) == {s \in S : \E p, c : <<s, p, c>> \in F}

\* No stub is filed twice.
Functional(F) == \A s, p, c, q, d : <<s, p, c>> \in F /\ <<s, q, d>> \in F => p = q /\ c = d

\* An index that follows its filings holds the filed stubs, each once, where
\* they are filed.
LEMMA EntriesCount ==
  ASSUME NEW map, NEW S, NEW F, Itemizes(map, S, F), IsFiniteSet(S), Functional(F)
  PROVE  /\ \A e \in Entries(map) : <<map[e[1]][e[2]][e[3]], e[1], e[2]>> \in F
         /\ {map[e[1]][e[2]][e[3]] : e \in Entries(map)} = Placed(S, F)
         /\ Cardinality(Entries(map)) = Cardinality(Placed(S, F))
<1> DEFINE E == Entries(map)
           T == Placed(S, F)
           f == [e \in E |-> map[e[1]][e[2]][e[3]]]
<1>1. ASSUME NEW pos \in DOMAIN map, NEW b \in DOMAIN map[pos]
      PROVE  /\ Lists(map[pos][b], At(S, F, pos, b))
             /\ \A i \in DOMAIN map[pos][b] : map[pos][b][i] \in S /\ <<map[pos][b][i], pos, b>> \in F
  <2>1. Lists(map[pos][b], At(S, F, pos, b))
    BY DEF Itemizes
  <2>2. \A i \in DOMAIN map[pos][b] : map[pos][b][i] \in At(S, F, pos, b)
    BY <2>1, LenProperties, ElementOfSeq DEF Lists
  <2> QED BY <2>1, <2>2 DEF At
<1>2. ASSUME NEW e \in E
      PROVE  /\ e[1] \in DOMAIN map /\ e[2] \in DOMAIN map[e[1]] /\ e[3] \in DOMAIN map[e[1]][e[2]]
             /\ e = <<e[1], e[2], e[3]>>
             /\ f[e] = map[e[1]][e[2]][e[3]]
             /\ f[e] \in T /\ <<f[e], e[1], e[2]>> \in F
  <2>1. PICK pos \in DOMAIN map : \E b \in DOMAIN map[pos] : \E i \in DOMAIN map[pos][b] : e = <<pos, b, i>>
    BY EntriesAre
  <2>2. PICK b \in DOMAIN map[pos] : \E i \in DOMAIN map[pos][b] : e = <<pos, b, i>>
    BY <2>1
  <2>3. PICK i \in DOMAIN map[pos][b] : e = <<pos, b, i>>
    BY <2>2
  <2>4. map[pos][b][i] \in S /\ <<map[pos][b][i], pos, b>> \in F
    BY <1>1
  <2> QED BY <2>3, <2>4 DEF Placed
<1>3. ASSUME NEW s \in T PROVE \E e \in E : f[e] = s
  <2>1. PICK p, c : <<s, p, c>> \in F
    BY DEF Placed
  <2>2. p \in DOMAIN map /\ c \in DOMAIN map[p]
    BY <2>1 DEF Itemizes
  <2>3. s \in At(S, F, p, c)
    BY <2>1 DEF At, Placed
  <2>4. PICK i \in DOMAIN map[p][c] : map[p][c][i] = s
    BY <1>1, <2>2, <2>3 DEF Lists
  <2>5. <<p, c, i>> \in E
    BY <2>2, <2>4, EntriesAre
  <2> QED BY <2>4, <2>5
<1>4. ASSUME NEW d \in E, NEW e \in E, f[d] = f[e] PROVE d = e
  <2>1. d[1] = e[1] /\ d[2] = e[2]
    BY <1>2, <1>4 DEF Functional
  <2>2. map[e[1]][e[2]][d[3]] = map[e[1]][e[2]][e[3]] /\ d[3] \in DOMAIN map[e[1]][e[2]]
    BY <1>2, <1>4, <2>1
  <2> DEFINE q == map[e[1]][e[2]]
  <2>3. \A i, j \in DOMAIN q : q[i] = q[j] => i = j
    <3>1. Lists(q, At(S, F, e[1], e[2]))
      BY <1>1, <1>2
    <3> HIDE DEF q
    <3> QED BY ONLY <3>1 DEF Lists
  <2>4. d[3] \in DOMAIN q /\ e[3] \in DOMAIN q /\ q[d[3]] = q[e[3]]
    BY <1>2, <2>2
  <2>5. d[3] = e[3]
    <3> HIDE DEF q
    <3> QED BY <2>3, <2>4
  <2> QED BY <1>2, <2>1, <2>5
<1>5. DOMAIN f = E
  OBVIOUS
<1>6. {map[e[1]][e[2]][e[3]] : e \in E} = T
  BY <1>2, <1>3
<1>7. \A e \in E : <<map[e[1]][e[2]][e[3]], e[1], e[2]>> \in F
  BY <1>2
<1>8. IsFiniteSet(T)
  BY FS_Subset DEF Placed
<1>9. f \in [E -> T]
  BY <1>2
<1> HIDE DEF f, E, T
<1>10. f \in Injection(E, T) /\ f \in Surjection(E, T)
  BY <1>3, <1>4, <1>5, <1>9 DEF Injection, IsInjective, Surjection
<1>11. Cardinality(E) = Cardinality(T)
  BY <1>8, <1>10, FS_Injection
<1> QED BY <1>6, <1>7, <1>11 DEF E, T

\* A stub is filed once in each index; the equals index and the unindexed
\* stubs share the stubs out between them.
LEMMA FilingsFunctional ==
  ASSUME NEW S
  PROVE  /\ Functional(ByPosition(S)) /\ Functional(ByMethod(S))
         /\ Functional(ByKey(S)) /\ Functional(Unkeyed(S))
         /\ Placed(S, ByPosition(S)) = S /\ Placed(S, ByMethod(S)) = S
         /\ Placed(S, ByKey(S)) = {s \in S : Indexable(s)}
         /\ Placed(S, Unkeyed(S)) = {s \in S : ~Indexable(s)}
<1>1. Functional(ByPosition(S)) /\ Functional(ByMethod(S))
  BY FilingsAre DEF Functional
<1>2. Functional(ByKey(S)) /\ Functional(Unkeyed(S))
  BY FilingsAre DEF Functional
<1>3. Placed(S, ByPosition(S)) = S
  <2>1. \A s \in S : <<s, Position(s), s.session>> \in ByPosition(S)
    BY FilingsAre
  <2>2. \A s, p, c : <<s, p, c>> \in ByPosition(S) => s \in S
    BY FilingsAre
  <2> QED BY <2>1, <2>2 DEF Placed
<1>4. Placed(S, ByMethod(S)) = S
  <2>1. \A s \in S : <<s, s.method, s.session>> \in ByMethod(S)
    BY FilingsAre
  <2>2. \A s, p, c : <<s, p, c>> \in ByMethod(S) => s \in S
    BY FilingsAre
  <2> QED BY <2>1, <2>2 DEF Placed
<1>5. Placed(S, ByKey(S)) = {s \in S : Indexable(s)}
  <2>1. \A s \in {s \in S : Indexable(s)} : <<s, Position(s), IndexKey(s)>> \in ByKey(S)
    BY FilingsAre
  <2>2. \A s, p, c : <<s, p, c>> \in ByKey(S) => s \in {y \in S : Indexable(y)}
    BY FilingsAre
  <2> QED BY <2>1, <2>2 DEF Placed
<1>6. Placed(S, Unkeyed(S)) = {s \in S : ~Indexable(s)}
  <2>1. \A s \in {s \in S : ~Indexable(s)} : <<s, Position(s), Global>> \in Unkeyed(S)
    BY FilingsAre
  <2>2. \A s, p, c : <<s, p, c>> \in Unkeyed(S) => s \in {y \in S : ~Indexable(y)}
    BY FilingsAre
  <2> QED BY <2>1, <2>2 DEF Placed
<1> QED BY <1>1, <1>2, <1>3, <1>4, <1>5, <1>6

\* What the search buckets hold is what itemsByID holds.
LEMMA TableOf ==
  ASSUME NEW st, NEW K, Agree(st, K), Proper(K)
  PROVE  SearchTable(st) = st.itemsByID
<1> DEFINE S == Stored(st)
           f == st.itemsByID
           buckets == st.itemSorted
           stubs == {buckets[e[1]][e[2]][e[3]] : e \in Entries(buckets)}
<1>1. /\ IsFiniteSet(S) /\ Unique(S)
      /\ \A s \in S : s.id \in DOMAIN f /\ f[s.id] = s
  BY StoredStubs
<1>2. f = [id \in DOMAIN f |-> f[id]] /\ \A id \in DOMAIN f : f[id].id = id
  BY DEF Agree
<1>3. S = {f[id] : id \in DOMAIN f}
  BY DEF Stored, Range
<1>4. stubs = S
  <2>1. Itemizes(buckets, S, ByPosition(S))
    BY DEF Agree, Describes
  <2> HIDE DEF buckets, S
  <2> QED BY <1>1, <2>1, EntriesCount, FilingsFunctional
<1>5. SearchTable(st) = [id \in {s.id : s \in stubs} |-> CHOOSE s \in stubs : s.id = id]
  BY DEF SearchTable
<1> HIDE DEF stubs, S, f
<1>6. {s.id : s \in S} = DOMAIN f
  <2>1. \A s \in S : s.id \in DOMAIN f
    BY <1>1
  <2>2. \A id \in DOMAIN f : f[id] \in S /\ f[id].id = id
    BY <1>2, <1>3
  <2> QED BY ONLY <2>1, <2>2
<1>7. ASSUME NEW id \in DOMAIN f PROVE (CHOOSE s \in S : s.id = id) = f[id]
  <2>1. f[id] \in S /\ f[id].id = id
    BY <1>2, <1>3
  <2>2. \A s \in S : s.id = id => s = f[id]
    BY <1>1
  <2> QED BY <2>1, <2>2
<1>8. SearchTable(st) = [id \in DOMAIN f |-> f[id]]
  BY <1>4, <1>5, <1>6, <1>7
<1> QED BY <1>2, <1>8 DEF f

\* A store whose structures agree has its shape.
LEMMA ShapeOf ==
  ASSUME NEW st, NEW K, Agree(st, K), Proper(K),
         {s.id : s \in K} \subseteq Ids \cup {s.id : s \in InternalStubs}
  PROVE  StoreShape(st)
<1>1. DOMAIN st.itemsByID \subseteq {s.id : s \in K}
  BY StoredStubs
<1>2. /\ NoEmptyBuckets(st.itemSorted) /\ NoEmptyBuckets(st.methodSorted)
      /\ NoEmptyBuckets(st.equalsIndex) /\ NoEmptyBuckets(st.unindexed)
  BY DEF Agree, Describes, Itemizes
<1>3. /\ DOMAIN st.sessions \subseteq Sessions
      /\ \A s \in DOMAIN st.sessions : st.sessions[s] \in Nat \ {0}
  BY DEF Agree, Describes, Counts
<1>4. st.lefts \subseteq Services /\ \A id \in DOMAIN st.itemsByID : st.itemsByID[id].id = id
  BY DEF Agree
<1> QED BY <1>1, <1>2, <1>3, <1>4 DEF StoreShape

\* Each index of such a store mirrors the stored stubs, each exactly once.
LEMMA MirrorsOf ==
  ASSUME NEW st, NEW K, Agree(st, K), Proper(K)
  PROVE  /\ Mirrors(st.itemSorted, st, LAMBDA s : <<Position(s), s.session>>)
         /\ Mirrors(st.methodSorted, st, LAMBDA s : <<s.method, s.session>>)
         /\ Mirrors(st.equalsIndex, st,
                    LAMBDA s : IF Indexable(s) THEN <<Position(s), IndexKey(s)>> ELSE <<>>)
         /\ Mirrors(st.unindexed, st,
                    LAMBDA s : IF Indexable(s) THEN <<>> ELSE <<Position(s), Global>>)
<1> DEFINE S == Stored(st)
<1>1. /\ IsFiniteSet(S)
      /\ Itemizes(st.itemSorted, S, ByPosition(S)) /\ Itemizes(st.methodSorted, S, ByMethod(S))
      /\ Itemizes(st.equalsIndex, S, ByKey(S)) /\ Itemizes(st.unindexed, S, Unkeyed(S))
  BY StoredStubs DEF Agree, Describes
<1>2. \A x, y : <<x, y>> # <<>>
  OBVIOUS
<1>3. Mirrors(st.itemSorted, st, LAMBDA s : <<Position(s), s.session>>)
  <2> DEFINE map == st.itemSorted
  <2>1. /\ \A e \in Entries(map) : <<map[e[1]][e[2]][e[3]], e[1], e[2]>> \in ByPosition(S)
        /\ Cardinality(Entries(map)) = Cardinality(S)
    BY <1>1, EntriesCount, FilingsFunctional
  <2>2. \A e \in Entries(map) :
          /\ map[e[1]][e[2]][e[3]] \in S
          /\ <<Position(map[e[1]][e[2]][e[3]]), map[e[1]][e[2]][e[3]].session>> = <<e[1], e[2]>>
    <3> TAKE e \in Entries(map)
    <3> DEFINE s == map[e[1]][e[2]][e[3]]
    <3>1. <<s, e[1], e[2]>> \in ByPosition(S)
      BY <2>1
    <3> HIDE DEF s
    <3>2. s \in S /\ e[1] = Position(s) /\ e[2] = s.session
      BY ONLY <3>1, FilingsAre
    <3> QED BY <3>2 DEF s
  <2>3. {s \in S : <<Position(s), s.session>> # <<>>} = S
    BY <1>2
  <2> HIDE DEF map
  <2>4. Mirrors(map, st, LAMBDA s : <<Position(s), s.session>>)
    BY <2>1, <2>2, <2>3 DEF Mirrors
  <2> QED BY <2>4 DEF map
<1>4. Mirrors(st.methodSorted, st, LAMBDA s : <<s.method, s.session>>)
  <2> DEFINE map == st.methodSorted
  <2>1. /\ \A e \in Entries(map) : <<map[e[1]][e[2]][e[3]], e[1], e[2]>> \in ByMethod(S)
        /\ Cardinality(Entries(map)) = Cardinality(S)
    BY <1>1, EntriesCount, FilingsFunctional
  <2>2. \A e \in Entries(map) :
          /\ map[e[1]][e[2]][e[3]] \in S
          /\ <<map[e[1]][e[2]][e[3]].method, map[e[1]][e[2]][e[3]].session>> = <<e[1], e[2]>>
    <3> TAKE e \in Entries(map)
    <3> DEFINE s == map[e[1]][e[2]][e[3]]
    <3>1. <<s, e[1], e[2]>> \in ByMethod(S)
      BY <2>1
    <3> HIDE DEF s
    <3>2. s \in S /\ e[1] = s.method /\ e[2] = s.session
      BY ONLY <3>1, FilingsAre
    <3> QED BY <3>2 DEF s
  <2>3. {s \in S : <<s.method, s.session>> # <<>>} = S
    BY <1>2
  <2> HIDE DEF map
  <2>4. Mirrors(map, st, LAMBDA s : <<s.method, s.session>>)
    BY <2>1, <2>2, <2>3 DEF Mirrors
  <2> QED BY <2>4 DEF map
<1>5. Mirrors(st.equalsIndex, st,
              LAMBDA s : IF Indexable(s) THEN <<Position(s), IndexKey(s)>> ELSE <<>>)
  <2> DEFINE map == st.equalsIndex
             place(s) == IF Indexable(s) THEN <<Position(s), IndexKey(s)>> ELSE <<>>
  <2>1. /\ \A e \in Entries(map) : <<map[e[1]][e[2]][e[3]], e[1], e[2]>> \in ByKey(S)
        /\ Cardinality(Entries(map)) = Cardinality({s \in S : Indexable(s)})
    <3>1. Functional(ByKey(S)) /\ Placed(S, ByKey(S)) = {s \in S : Indexable(s)}
      BY FilingsFunctional
    <3>2. Itemizes(map, S, ByKey(S)) /\ IsFiniteSet(S)
      BY <1>1
    <3> HIDE DEF map, S, place
    <3> QED BY <3>1, <3>2, EntriesCount
  <2>2. \A e \in Entries(map) :
          /\ map[e[1]][e[2]][e[3]] \in S
          /\ place(map[e[1]][e[2]][e[3]]) = <<e[1], e[2]>>
    <3> TAKE e \in Entries(map)
    <3> DEFINE s == map[e[1]][e[2]][e[3]]
    <3>1. <<s, e[1], e[2]>> \in ByKey(S)
      BY <2>1
    <3> HIDE DEF s
    <3>2. s \in S /\ Indexable(s) /\ e[1] = Position(s) /\ e[2] = IndexKey(s)
      BY ONLY <3>1, FilingsAre
    <3>3. s \in S /\ place(s) = <<e[1], e[2]>>
      BY <3>2
    <3> QED BY <3>3 DEF s
  <2>3. {s \in S : place(s) # <<>>} = {s \in S : Indexable(s)}
    BY <1>2
  <2> HIDE DEF map
  <2>4. Mirrors(map, st, place)
    BY <2>1, <2>2, <2>3 DEF Mirrors
  <2> QED BY <2>4 DEF map
<1>6. Mirrors(st.unindexed, st,
              LAMBDA s : IF Indexable(s) THEN <<>> ELSE <<Position(s), Global>>)
  <2> DEFINE map == st.unindexed
             place(s) == IF Indexable(s) THEN <<>> ELSE <<Position(s), Global>>
  <2>1. /\ \A e \in Entries(map) : <<map[e[1]][e[2]][e[3]], e[1], e[2]>> \in Unkeyed(S)
        /\ Cardinality(Entries(map)) = Cardinality({s \in S : ~Indexable(s)})
    <3>1. Functional(Unkeyed(S)) /\ Placed(S, Unkeyed(S)) = {s \in S : ~Indexable(s)}
      BY FilingsFunctional
    <3>2. Itemizes(map, S, Unkeyed(S)) /\ IsFiniteSet(S)
      BY <1>1
    <3> HIDE DEF map, S, place
    <3> QED BY <3>1, <3>2, EntriesCount
  <2>2. \A e \in Entries(map) :
          /\ map[e[1]][e[2]][e[3]] \in S
          /\ place(map[e[1]][e[2]][e[3]]) = <<e[1], e[2]>>
    <3> TAKE e \in Entries(map)
    <3> DEFINE s == map[e[1]][e[2]][e[3]]
    <3>1. <<s, e[1], e[2]>> \in Unkeyed(S)
      BY <2>1
    <3> HIDE DEF s
    <3>2. s \in S /\ ~Indexable(s) /\ e[1] = Position(s) /\ e[2] = Global
      BY ONLY <3>1, FilingsAre
    <3>3. s \in S /\ place(s) = <<e[1], e[2]>>
      BY <3>2
    <3> QED BY <3>3 DEF s
  <2>3. {s \in S : place(s) # <<>>} = {s \in S : ~Indexable(s)}
    BY <1>2
  <2> HIDE DEF map
  <2>4. Mirrors(map, st, place)
    BY <2>1, <2>2, <2>3 DEF Mirrors
  <2> QED BY <2>4 DEF map
<1> QED BY <1>3, <1>4, <1>5, <1>6

\* Every ID a store can hold is a known one.
LEMMA KnownIds ==
  /\ {s.id : s \in NamedStubs} \subseteq Ids \cup {s.id : s \in InternalStubs}
  /\ {s.id : s \in InternalStubs} \subseteq Ids \cup {s.id : s \in InternalStubs}
<1>1. ASSUME NEW x \in NamedStubs PROVE x.id \in Ids
  <2>1. PICK s \in Catalog :
          x \in IF s.id = NilId THEN {[s EXCEPT !.id = id] : id \in FreshIds} ELSE {s}
    BY DEF NamedStubs
  <2>2. CASE s.id = NilId
    <3>1. PICK id \in FreshIds : x = [s EXCEPT !.id = id]
      BY <2>1, <2>2
    <3>2. "id" \in DOMAIN s
      BY StorageAssumption
    <3> QED BY <3>1, <3>2 DEF Ids
  <2>3. CASE s.id # NilId
    BY <2>1, <2>3 DEF Ids
  <2> QED BY <2>2, <2>3
<1> QED BY <1>1

\* The inductive invariant implies IndexesAgree.
LEMMA StorageInvAgrees == StorageInv => IndexesAgree
<1> SUFFICES ASSUME StorageInv PROVE IndexesAgree
  OBVIOUS
<1>1. ASSUME NEW st, NEW K, Agree(st, K), Proper(K),
             {s.id : s \in K} \subseteq Ids \cup {s.id : s \in InternalStubs}
      PROVE  /\ StoreShape(st)
             /\ Mirrors(st.itemSorted, st, LAMBDA s : <<Position(s), s.session>>)
             /\ Mirrors(st.methodSorted, st, LAMBDA s : <<s.method, s.session>>)
             /\ Mirrors(st.equalsIndex, st,
                        LAMBDA s : IF Indexable(s) THEN <<Position(s), IndexKey(s)>> ELSE <<>>)
             /\ Mirrors(st.unindexed, st,
                        LAMBDA s : IF Indexable(s) THEN <<>> ELSE <<Position(s), Global>>)
             /\ \A session \in Sessions :
                  SessionCount(st, session) = Cardinality({s \in Stored(st) : s.session = session})
  <2>1. StoreShape(st)
    BY <1>1, ShapeOf
  <2>2. \A session \in Sessions :
          SessionCount(st, session) = Cardinality({s \in Stored(st) : s.session = session})
    BY <1>1 DEF Agree, Describes, Counts, SessionCount
  <2> QED BY <1>1, <2>1, <2>2, MirrorsOf
<1> QED BY <1>1, KnownStubs, KnownIds DEF StorageInv, IndexesAgree

----------------------------------------------------------------------------
(* Steps.                                                                  *)

\* The step writes W over itemsByID.
Move(W) ==
  /\ Written(external.itemsByID, W, NamedStubs, MaxBatch)
  /\ external'.itemsByID = Over(external.itemsByID, W)

\* A put or an update keeps the invariant and writes its batch at once.
LEMMA BatchMoves ==
  ASSUME StorageInv, NEW batch \in Seq(NamedStubs), Len(batch) <= MaxBatch,
         external' = Upsert(external, batch), UNCHANGED internal
  PROVE  /\ StorageInv'
         /\ \E W : Move(W)
<1>1. /\ Agree(external, NamedStubs) /\ Agree(internal, InternalStubs)
      /\ InOrderBut(external.itemSorted, {})
  BY DEF StorageInv
<1>2. /\ Agree(external', NamedStubs)
      /\ \E W : /\ Written(external.itemsByID, W, NamedStubs, Len(batch))
                /\ external'.itemsByID = Over(external.itemsByID, W)
      /\ InOrderBut(external'.itemSorted, {})
  BY <1>1, KnownStubs, Upserted
<1>3. PICK W : /\ Written(external.itemsByID, W, NamedStubs, Len(batch))
               /\ external'.itemsByID = Over(external.itemsByID, W)
  BY <1>2
<1>4. /\ IsFiniteSet(W) /\ Cardinality(W) \in Nat /\ Cardinality(W) <= Len(batch)
      /\ W \subseteq NamedStubs /\ Unique(W)
      /\ Len(batch) \in Nat /\ MaxBatch \in Nat
  BY <1>3, FS_CardinalityType, LenProperties, StorageAssumption DEF Written
<1>5. Move(W)
  BY <1>3, <1>4 DEF Move, Written
<1> QED BY <1>1, <1>2, <1>5 DEF StorageInv

\* What searches can find is what itemsByID holds.
LEMMA TableIs ==
  StorageInv => SearchTable(external) = external.itemsByID
BY KnownStubs, TableOf DEF StorageInv

\* A deletion by IDs keeps the invariant and drops exactly the IDs.
LEMMA DeletionMoves ==
  ASSUME StorageInv, NEW ids \in SUBSET Ids
  PROVE  /\ Agree(Del(external, ids), NamedStubs)
         /\ Del(external, ids).itemsByID =
              Restrict(external.itemsByID, DOMAIN external.itemsByID \ ids)
         /\ InOrderBut(Del(external, ids).itemSorted, {})
<1>1. IsFiniteSet({s.id : s \in Catalog})
  <2>1. {s.id : s \in Catalog} \subseteq {s.id : s \in Catalog \cup InternalStubs}
    OBVIOUS
  <2>2. IsFiniteSet({s.id : s \in Catalog \cup InternalStubs})
    BY StorageAssumption
  <2> QED BY <2>1, <2>2, FS_Subset
<1>2. IsFiniteSet(Ids)
  BY <1>1, StorageAssumption, FS_Union DEF Ids
<1>3. IsFiniteSet(ids)
  BY <1>2, FS_Subset
<1> QED BY <1>3, KnownStubs, Deleted DEF StorageInv

\* A deletion by session keeps it and drops what the session owns.
LEMMA SessionMoves ==
  ASSUME StorageInv, NEW session \in Sessions
  PROVE  /\ Agree(DelBySession(external, session), NamedStubs)
         /\ DelBySession(external, session).itemsByID =
              RestrictValues(external.itemsByID, LAMBDA s : s.session # session)
         /\ InOrderBut(DelBySession(external, session).itemSorted, {})
BY KnownStubs, SessionDeleted DEF StorageInv

\* The inductive invariant implies DeletesExact.
LEMMA StorageInvDeletes == StorageInv => DeletesExact
<1> SUFFICES ASSUME StorageInv PROVE DeletesExact
  OBVIOUS
<1>1. SearchTable(external) = external.itemsByID
  BY TableIs
<1>2. ASSUME NEW ids \in SUBSET Ids
      PROVE  SearchTable(Del(external, ids)) =
               Restrict(SearchTable(external), DOMAIN SearchTable(external) \ ids)
  <2>1. SearchTable(Del(external, ids)) = Del(external, ids).itemsByID
    BY DeletionMoves, KnownStubs, TableOf
  <2> QED BY <1>1, <2>1, DeletionMoves
<1>3. ASSUME NEW session \in Sessions
      PROVE  SearchTable(DelBySession(external, session)) =
               RestrictValues(SearchTable(external), LAMBDA s : s.session # session)
  <2>1. SearchTable(DelBySession(external, session)) = DelBySession(external, session).itemsByID
    BY SessionMoves, KnownStubs, TableOf
  <2> QED BY <1>1, <2>1, SessionMoves
<1> QED BY <1>2, <1>3 DEF DeletesExact

\* What a step does to the stubs by ID.
Moves ==
  \/ external'.itemsByID = external.itemsByID
  \/ \E W : Move(W)
  \/ \E ids : external'.itemsByID = Restrict(external.itemsByID, DOMAIN external.itemsByID \ ids)
  \/ \E session \in Sessions :
       external'.itemsByID = RestrictValues(external.itemsByID, LAMBDA s : s.session # session)
  \/ external'.itemsByID = <<>>

\* Every step keeps the invariant and does to itemsByID one of the things
\* Moves lists.
LEMMA StorageStep ==
  ASSUME StorageInv, [Next]_vars
  PROVE  StorageInv' /\ Moves
<1>1. /\ Agree(external, NamedStubs) /\ Agree(internal, InternalStubs)
      /\ InOrderBut(external.itemSorted, {})
  BY DEF StorageInv
<1>2. ASSUME NEW batch \in Batches, PutMany(batch) PROVE StorageInv' /\ Moves
  <2>1. PICK named \in AssignIds(batch) : external' = Upsert(external, named)
    BY <1>2 DEF PutMany
  <2>2. named \in Seq(NamedStubs) /\ Len(named) <= MaxBatch
    BY BatchIs, NamedAre, StorageAssumption
  <2>3. UNCHANGED internal
    BY <1>2 DEF PutMany
  <2> QED BY <2>1, <2>2, <2>3, BatchMoves DEF Moves
<1>3. ASSUME NEW batch \in Batches, UpdateMany(batch) PROVE StorageInv' /\ Moves
  <2>1. /\ batch \in Seq(Catalog) /\ Len(batch) <= MaxBatch /\ Len(batch) \in Nat
        /\ MaxBatch \in Nat
    BY BatchIs, StorageAssumption
  <2>2. Updates(batch) \in Seq(NamedStubs) /\ Len(Updates(batch)) <= Len(batch)
    BY <2>1, UpdatesAre
  <2>3. Len(Updates(batch)) <= MaxBatch
    BY <2>1, <2>2, LenProperties
  <2>4. external' = Upsert(external, Updates(batch)) /\ UNCHANGED internal
    BY <1>3 DEF UpdateMany
  <2> QED BY <2>2, <2>3, <2>4, BatchMoves DEF Moves
<1>4. ASSUME NEW ids \in SUBSET Ids, DeleteByID(ids) PROVE StorageInv' /\ Moves
  BY <1>1, <1>4, DeletionMoves DEF DeleteByID, StorageInv, Moves
<1>5. ASSUME NEW session \in Sessions, DeleteSession(session) PROVE StorageInv' /\ Moves
  BY <1>1, <1>5, SessionMoves DEF DeleteSession, StorageInv, Moves
<1>6. CASE Clear
  <2>1. EmptyStore.itemsByID = <<>>
    BY DEF EmptyStore
  <2> QED BY <1>6, <2>1, EmptyAgrees DEF Clear, StorageInv, Moves
<1>7. ASSUME NEW stub \in InternalStubs, PutInternal(stub) PROVE StorageInv' /\ Moves
  <2>1. internal' = Upsert(internal, <<stub>>) /\ UNCHANGED external
    BY <1>7 DEF PutInternal
  <2>2. Agree(internal', InternalStubs)
    <3>1. <<stub>> \in Seq(InternalStubs)
      OBVIOUS
    <3> QED BY <1>1, <2>1, <3>1, KnownStubs, Upserted
  <2> QED BY <1>1, <2>1, <2>2 DEF StorageInv, Moves
<1>8. CASE UNCHANGED vars
  BY <1>1, <1>8 DEF vars, StorageInv, Moves
<1> QED BY <1>2, <1>3, <1>4, <1>5, <1>6, <1>7, <1>8 DEF Next

\* The inductive invariant holds of the storage.
THEOREM StorageInvariant == Spec => []StorageInv
<1>1. Init => StorageInv
  BY InitAgrees
<1>2. StorageInv /\ [Next]_vars => StorageInv'
  BY StorageStep
<1> QED BY <1>1, <1>2, PTL DEF Spec

\* The five structures of each store describe the same stubs at all times:
\* no sequence of puts, updates, deletions and resets leaves a ghost or loses a
\* stub in any of them.
THEOREM StoresAgree == Spec => []IndexesAgree
BY StorageInvariant, StorageInvAgrees, PTL

\* At any time, a deletion by IDs or by session takes out of what searches
\* find exactly what it names.
THEOREM DeletionsExact == Spec => []DeletesExact
BY StorageInvariant, StorageInvDeletes, PTL

----------------------------------------------------------------------------
\* The storage starts as the empty table.
LEMMA TableStarts == Init => Table!Init
<1> SUFFICES ASSUME Init PROVE SearchTable(external) = <<>>
  BY DEF Table!Init
<1>1. external = EmptyStore /\ EmptyStore.itemsByID = <<>>
  BY DEF Init, EmptyStore
<1> QED BY <1>1, EmptyAgrees, KnownStubs, TableOf

\* Each step is a step of the table, or changes nothing searches can find: an
\* update of a batch without IDs, and a put of a health stub.
LEMMA TableSteps ==
  ASSUME StorageInv, [Next]_vars
  PROVE  Table!Next \/ SearchTable(external)' = SearchTable(external)
<1> DEFINE t == SearchTable(external)
<1>1. StorageInv' /\ Moves
  BY StorageStep
<1>2. t = external.itemsByID /\ t' = external'.itemsByID
  <2>1. StorageInv' => t' = external'.itemsByID
    BY KnownStubs, TableOf DEF StorageInv
  <2> QED BY <1>1, <2>1, TableIs
<1>3. t = [id \in DOMAIN t |-> t[id]]
  BY <1>2 DEF StorageInv, Agree
<1> HIDE DEF t
<1>4. ASSUME NEW W, Move(W) PROVE Table!Next \/ t' = t
  <2>1. /\ W \in SUBSET NamedStubs /\ Unique(W) /\ Cardinality(W) \in Nat
        /\ IsFiniteSet(W) /\ Cardinality(W) <= MaxBatch /\ t' = Over(t, W)
    BY <1>2, <1>4, FS_CardinalityType DEF Move, Written
  <2>2. CASE W = {}
    <3>1. Over(t, {}) = [id \in DOMAIN t |-> t[id]]
      BY DEF Over
    <3> QED BY <1>3, <2>1, <2>2, <3>1
  <2>3. CASE W # {}
    <3>1. Cardinality(W) \in 1..MaxBatch
      BY <2>1, <2>3, FS_EmptySet, StorageAssumption
    <3>2. W \in kSubset(Cardinality(W), NamedStubs)
      BY <2>1 DEF kSubset
    <3>3. Table!PutMany(W)
      BY <2>1 DEF Table!PutMany, Over, Unique, t
    <3>4. kSubset(Cardinality(W), NamedStubs) = Table!kSubset(Cardinality(W), NamedStubs)
      <4>1. \A S : Cardinality(S) = Table!Cardinality(S)
        BY DEF Cardinality, Table!Cardinality
      <4> QED BY <4>1 DEF kSubset, Table!kSubset
    <3> QED BY <3>1, <3>2, <3>3, <3>4 DEF Table!Next
  <2> QED BY <2>2, <2>3
<1>5. ASSUME NEW ids, t' = Restrict(t, DOMAIN t \ ids) PROVE Table!Next
  <2> DEFINE here == ids \cap DOMAIN t
  <2>1. DOMAIN t \ here = DOMAIN t \ ids
    OBVIOUS
  <2>2. here \in SUBSET DOMAIN t
    OBVIOUS
  <2>3. Table!DeleteByID(here)
    BY <1>5, <2>1 DEF Table!DeleteByID, Table!Restrict, Restrict, t
  <2> HIDE DEF here
  <2> QED BY <2>2, <2>3 DEF Table!Next, t
<1>6. ASSUME NEW session \in Sessions,
             t' = RestrictValues(t, LAMBDA s : s.session # session)
      PROVE  Table!Next
  <2>1. Table!DeleteSession(session)
    BY <1>6 DEF Table!DeleteSession, Table!RestrictValues, RestrictValues, Table!Restrict, Restrict, t
  <2> QED BY <2>1 DEF Table!Next
<1>7. CASE t' = <<>>
  BY <1>7 DEF Table!Next, Table!Clear, t
<1>8. \/ t' = t
      \/ \E W : Move(W)
      \/ \E ids : t' = Restrict(t, DOMAIN t \ ids)
      \/ \E session \in Sessions : t' = RestrictValues(t, LAMBDA s : s.session # session)
      \/ t' = <<>>
  BY <1>1, <1>2 DEF Moves
<1> QED BY <1>4, <1>5, <1>6, <1>7, <1>8 DEF t

\* The storage implements the table of stubs: every operation changes what
\* searches can find in one step, as an operation of the table does.
THEOREM StorageImplementsTable == Spec => ImplementsTable
<1>1. Init => Table!Init
  BY TableStarts
<1>2. StorageInv /\ [Next]_vars => [Table!Next]_(SearchTable(external))
  BY TableSteps
<1> QED BY <1>1, <1>2, StorageInvariant, PTL DEF Spec, ImplementsTable, Table!Spec

----------------------------------------------------------------------------
\* Everything of A comes before everything of B.
Before(A, B) == \A x \in A : \A y \in B : Precedes(x, y)

\* One more stub at the end of an ordered list.
LEMMA ListsExtended ==
  ASSUME NEW m, NEW n \in Nat, NEW E, NEW x, x \notin E,
         Lists([i \in 1..n |-> m[i]], E), m[n + 1] = x
  PROVE  /\ Lists([i \in 1..n + 1 |-> m[i]], E \cup {x})
         /\ Ordered([i \in 1..n |-> m[i]]) /\ Before(E, {x}) =>
              Ordered([i \in 1..n + 1 |-> m[i]])
<1> DEFINE p == [i \in 1..n |-> m[i]]
           r == [i \in 1..n + 1 |-> m[i]]
           U == E \cup {x}
<1>1. /\ DOMAIN p = 1..n /\ DOMAIN r = 1..n + 1
      /\ \A i \in 1..n : r[i] = p[i]
      /\ r[n + 1] = x
  OBVIOUS
<1>2. \A i \in 1..n : p[i] \in E
  <2>1. Len(p) = n
    <3>1. p \in Seq(E)
      BY DEF Lists
    <3> QED BY <1>1, <3>1, LenProperties
  <2>2. p \in Seq(E)
    BY DEF Lists
  <2> HIDE DEF p
  <2> QED BY <2>1, <2>2, ElementOfSeq
<1>3. /\ \A i, j \in 1..n : p[i] = p[j] => i = j
      /\ \A y \in E : \E i \in 1..n : p[i] = y
  BY <1>1 DEF Lists
<1>4. r \in Seq(U)
  <2>1. \A i \in 1..n + 1 : m[i] \in U
    <3> TAKE i \in 1..n + 1
    <3>1. CASE i = n + 1
      BY <3>1
    <3>2. CASE i # n + 1
      <4>1. i \in 1..n
        BY <3>2
      <4> QED BY <1>2, <4>1
    <3> QED BY <3>1, <3>2
  <2> HIDE DEF U
  <2> QED BY <2>1, IsASeq
<1>5. 1..n + 1 = (1..n) \cup {n + 1} /\ n + 1 \notin 1..n
  OBVIOUS
<1> HIDE DEF p, r
<1>6. \A i, j \in 1..n + 1 : r[i] = r[j] => i = j
  BY <1>1, <1>2, <1>3, <1>5
<1>7. \A y \in U : \E i \in 1..n + 1 : r[i] = y
  BY <1>1, <1>3, <1>5
<1>8. Lists(r, U)
  BY <1>1, <1>4, <1>6, <1>7 DEF Lists
<1>9. ASSUME Ordered(p), Before(E, {x}) PROVE Ordered(r)
  <2> SUFFICES ASSUME NEW i \in 1..n + 1, NEW j \in 1..n + 1, i < j
               PROVE  Precedes(r[i], r[j])
    BY <1>1 DEF Ordered
  <2>1. i \in 1..n
    OBVIOUS
  <2>2. CASE j = n + 1
    BY <1>1, <1>2, <1>9, <2>1, <2>2 DEF Before
  <2>3. CASE j # n + 1
    <3>1. j \in 1..n
      BY <2>3
    <3> QED BY <1>1, <1>9, <2>1, <3>1 DEF Ordered
  <2> QED BY <2>2, <2>3
<1> QED BY <1>8, <1>9 DEF p, r

\* mergeSortedStubs of two ordered lists with no stub in common.
LEMMA Merged ==
  ASSUME NEW a, NEW A, Lists(a, A), Ordered(a),
         NEW b, NEW B, Lists(b, B), Ordered(b),
         A \cap B = {}, Ranked(A \cup B)
  PROVE  Lists(MergeSortedStubs(a, b), A \cup B) /\ Ordered(MergeSortedStubs(a, b))
<1> DEFINE c == Len(a) + Len(b)
           next(i, n) ==
             LET j == n - 1 - i
             IN  IF i < Len(a) /\ (j < Len(b) => ~Precedes(b[j + 1], a[i + 1]))
                 THEN i + 1 ELSE i
           Goes(f, n) == f = [i \in 0..n |-> IF i = 0 THEN 0 ELSE next(f[i - 1], i)]
           m == MergeSortedStubs(a, b)
<1>1. /\ DOMAIN a = 1..Len(a) /\ Len(a) \in Nat /\ \A i \in 1..Len(a) : a[i] \in A
      /\ DOMAIN b = 1..Len(b) /\ Len(b) \in Nat /\ \A i \in 1..Len(b) : b[i] \in B
      /\ c \in Nat
  BY LenProperties, ElementOfSeq DEF Lists
<1> HIDE DEF next
<1>2. \A n \in Nat : \E f : Goes(f, n)
  <2> DEFINE S == {n \in Nat : \E f : Goes(f, n)}
  <2>1. 0 \in S
    <3>1. Goes([i \in 0..0 |-> 0], 0) OBVIOUS
    <3> QED BY <3>1
  <2>2. ASSUME NEW n \in Nat, n \in S PROVE n + 1 \in S
    <3>1. PICK f : Goes(f, n) BY <2>2
    <3> DEFINE g == [i \in 0..n + 1 |-> IF i = n + 1 THEN next(f[n], n + 1) ELSE f[i]]
    <3>2. Goes(g, n + 1) BY <3>1
    <3>3. \E h : Goes(h, n + 1)
      <4> HIDE DEF g, Goes
      <4> QED BY <3>2
    <3> HIDE DEF Goes
    <3> QED BY <3>3
  <2> HIDE DEF S
  <2>3. Nat \subseteq S BY <2>1, <2>2, Induct
  <2> QED BY <2>3 DEF S
<1> DEFINE taken == CHOOSE f : Goes(f, c)
<1>3. Goes(taken, c)
  <2>1. \E f : Goes(f, c) BY <1>1, <1>2
  <2> HIDE DEF Goes
  <2> QED BY <2>1
<1>4. m = [n \in 1..c |-> IF taken[n] > taken[n - 1] THEN a[taken[n]] ELSE b[n - taken[n]]]
  BY DEF MergeSortedStubs, next
<1> HIDE DEF taken, m
<1>13. \A n \in 1..c : m[n] = IF taken[n] > taken[n - 1] THEN a[taken[n]] ELSE b[n - taken[n]]
  <2> HIDE DEF c
  <2> QED BY <1>4
<1>5. /\ taken[0] = 0
      /\ \A n \in Nat : n + 1 <= c => taken[n + 1] = next(taken[n], n + 1)
  BY <1>1, <1>3
\* What the first n places hold, of each list.
<1> DEFINE Held(u, v) == {a[k] : k \in 1..u} \cup {b[k] : k \in 1..v}
           E(n) == Held(taken[n], n - taken[n])
           p(n) == [i \in 1..n |-> m[i]]
           Good(n) == /\ taken[n] \in 0..Len(a) /\ n - taken[n] \in 0..Len(b)
                      /\ Lists(p(n), E(n)) /\ Ordered(p(n))
                      /\ Before(E(n), (A \cup B) \ E(n))
           S == {n \in Nat : n <= c => Good(n)}
<1>6. 0 \in S
  <2>1. E(0) = {}
    BY <1>5
  <2>2. p(0) = <<>>
    OBVIOUS
  <2>3. Ordered(<<>>) /\ Before({}, (A \cup B) \ {})
    BY DEF Ordered, Before
  <2>4. taken[0] \in 0..Len(a) /\ 0 - taken[0] \in 0..Len(b)
    BY <1>1, <1>5
  <2> HIDE DEF E, p
  <2>5. Good(0)
    BY <2>1, <2>2, <2>3, <2>4, NoneListed
  <2> QED BY <2>5
<1>7. ASSUME NEW n \in Nat, n \in S PROVE n + 1 \in S
  <2> HIDE DEF Good, c
  <2>1. SUFFICES ASSUME n + 1 <= c PROVE Good(n + 1)
    OBVIOUS
  <2>2. Good(n)
    BY <1>1, <1>7, <2>1
  <2> USE DEF Good, c
  <2> DEFINE i == taken[n]
             j == n - taken[n]
  <2>3. /\ i \in 0..Len(a) /\ j \in 0..Len(b) /\ i \in Int /\ j \in Int /\ n = i + j
        /\ i < Len(a) \/ j < Len(b)
    BY <1>1, <2>1, <2>2
  <2>4. taken[n + 1] = IF i < Len(a) /\ (j < Len(b) => ~Precedes(b[j + 1], a[i + 1]))
                       THEN i + 1 ELSE i
    <3>1. taken[n + 1] = next(taken[n], n + 1) /\ (n + 1) - 1 - taken[n] = j
      BY <1>1, <1>5, <2>1, <2>3
    <3> QED BY <3>1 DEF next
  <2>5. m[n + 1] = IF taken[n + 1] > i THEN a[taken[n + 1]] ELSE b[(n + 1) - taken[n + 1]]
    <3>1. n + 1 \in 1..c /\ (n + 1) - 1 = n
      BY <1>1, <2>1
    <3> DEFINE k == n + 1
    <3>2. k \in 1..c /\ taken[k - 1] = i
      BY <3>1
    <3> HIDE DEF k, c, i
    <3>3. m[k] = IF taken[k] > i THEN a[taken[k]] ELSE b[k - taken[k]]
      BY <1>13, <3>2
    <3> QED BY <3>3 DEF k
  <2>6. E(n) = {a[k] : k \in 1..i} \cup {b[k] : k \in 1..j}
    OBVIOUS
  <2>11. E(n + 1) = Held(taken[n + 1], (n + 1) - taken[n + 1])
    OBVIOUS
  <2>12. \A u, v : Held(u, v) = {a[k] : k \in 1..u} \cup {b[k] : k \in 1..v}
    OBVIOUS
  <2>7. /\ Lists([k \in 1..n |-> m[k]], E(n)) /\ Ordered([k \in 1..n |-> m[k]])
        /\ Before(E(n), (A \cup B) \ E(n))
    BY <2>2
  \* A stub of the two lists that comes before all that is left.
  <2>8. ASSUME NEW x, m[n + 1] = x, x \in (A \cup B) \ E(n), E(n + 1) = E(n) \cup {x},
               Before({x}, (A \cup B) \ E(n + 1)),
               taken[n + 1] \in 0..Len(a), (n + 1) - taken[n + 1] \in 0..Len(b)
        PROVE  Good(n + 1)
    <3>1. Before(E(n), {x})
      BY <2>7, <2>8 DEF Before
    <3>2. Before(E(n + 1), (A \cup B) \ E(n + 1))
      <4> HIDE DEF E
      <4> QED BY <2>7, <2>8 DEF Before
    <3>3. x \notin E(n)
      BY <2>8
    <3> HIDE DEF E
    <3>4. Lists([k \in 1..n + 1 |-> m[k]], E(n) \cup {x}) /\ Ordered([k \in 1..n + 1 |-> m[k]])
      BY <2>7, <2>8, <3>1, <3>3, ListsExtended
    <3>5. Lists(p(n + 1), E(n + 1)) /\ Ordered(p(n + 1))
      BY <2>8, <3>4
    <3> HIDE DEF p
    <3> QED BY <2>8, <3>2, <3>5
  <2> HIDE DEF Held, E, S, Good, i, j
  <2>9. CASE i < Len(a) /\ (j < Len(b) => ~Precedes(b[j + 1], a[i + 1]))
    <3> DEFINE x == a[i + 1]
    <3>1. taken[n + 1] = i + 1 /\ (n + 1) - taken[n + 1] = j /\ m[n + 1] = x
      BY <2>3, <2>4, <2>5, <2>9
    <3>2. i + 1 \in 1..Len(a) /\ x \in A
      BY <1>1, <2>3, <2>9
    <3>3. x \notin E(n)
      <4>1. \A k \in 1..i : k \in 1..Len(a) /\ k # i + 1
        BY <1>1, <2>3
      <4>2. \A k \in 1..j : k \in 1..Len(b)
        BY <1>1, <2>3
      <4> QED BY <1>1, <2>6, <3>2, <4>1, <4>2 DEF Lists
    <3>4. E(n + 1) = E(n) \cup {x}
      <4>1. 1..i + 1 = (1..i) \cup {i + 1}
        BY <2>3
      <4>2. E(n + 1) = {a[k] : k \in 1..i + 1} \cup {b[k] : k \in 1..j}
        BY <2>11, <2>12, <3>1
      <4> QED BY <2>6, <4>1, <4>2
    <3>7. \A k \in 1..i + 1 : a[k] \in E(n + 1)
      <4>1. \A k \in 1..i + 1 : k \in 1..i \/ k = i + 1
        BY <2>3
      <4> QED BY <2>6, <3>4, <4>1
    <3>5. ASSUME NEW y \in (A \cup B) \ E(n + 1) PROVE Precedes(x, y)
      <4>1. CASE y \in A
        <5>1. PICK k \in 1..Len(a) : a[k] = y
          BY <1>1, <4>1 DEF Lists
        <5>2. ~(k \in 1..i + 1)
          BY <3>5, <3>7, <5>1
        <5>3. i + 1 < k
          BY <1>1, <2>3, <5>2
        <5> QED BY <1>1, <3>2, <5>1, <5>3 DEF Ordered
      <4>2. CASE y \in B
        <5>1. PICK k \in 1..Len(b) : b[k] = y
          BY <1>1, <4>2 DEF Lists
        <5>2. ~(k \in 1..j)
          BY <2>6, <3>4, <3>5, <5>1
        <5>3. j + 1 <= k /\ j < Len(b) /\ j + 1 \in 1..Len(b)
          BY <1>1, <2>3, <5>2
        <5>4. Precedes(x, b[j + 1])
          <6>1. b[j + 1] \in B /\ x # b[j + 1] /\ ~Precedes(b[j + 1], x)
            BY <1>1, <2>9, <3>2, <5>3
          <6> HIDE DEF x
          <6> QED BY <3>2, <6>1, PrecedesOrders
        <5>5. CASE k = j + 1
          BY <5>1, <5>4, <5>5
        <5>6. CASE k # j + 1
          <6>1. Precedes(b[j + 1], y) /\ b[j + 1] \in B
            BY <1>1, <2>3, <5>1, <5>3, <5>6 DEF Ordered
          <6> HIDE DEF x
          <6> QED BY <3>2, <4>2, <5>4, <6>1, PrecedesOrders
        <5> QED BY <5>5, <5>6
      <4> QED BY <4>1, <4>2
    <3>6. Before({x}, (A \cup B) \ E(n + 1))
      BY <3>5 DEF Before
    <3> HIDE DEF x
    <3> QED BY <2>3, <2>8, <3>1, <3>2, <3>3, <3>4, <3>6
  <2>10. CASE ~(i < Len(a) /\ (j < Len(b) => ~Precedes(b[j + 1], a[i + 1])))
    <3> DEFINE x == b[j + 1]
    <3>1. taken[n + 1] = i /\ (n + 1) - taken[n + 1] = j + 1 /\ m[n + 1] = x
      BY <2>3, <2>4, <2>5, <2>10
    <3>2. j < Len(b) /\ j + 1 \in 1..Len(b) /\ x \in B
      BY <1>1, <2>3, <2>10
    <3>3. x \notin E(n)
      <4>1. \A k \in 1..j : k \in 1..Len(b) /\ k # j + 1
        BY <1>1, <2>3
      <4>2. \A k \in 1..i : k \in 1..Len(a)
        BY <1>1, <2>3
      <4> QED BY <1>1, <2>6, <3>2, <4>1, <4>2 DEF Lists
    <3>4. E(n + 1) = E(n) \cup {x}
      <4>1. 1..j + 1 = (1..j) \cup {j + 1}
        BY <2>3
      <4>2. E(n + 1) = {a[k] : k \in 1..i} \cup {b[k] : k \in 1..j + 1}
        BY <2>11, <2>12, <3>1
      <4> QED BY <2>6, <4>1, <4>2
    <3>7. \A k \in 1..j + 1 : b[k] \in E(n + 1)
      <4>1. \A k \in 1..j + 1 : k \in 1..j \/ k = j + 1
        BY <2>3
      <4> QED BY <2>6, <3>4, <4>1
    <3>5. ASSUME NEW y \in (A \cup B) \ E(n + 1) PROVE Precedes(x, y)
      <4>1. CASE y \in B
        <5>1. PICK k \in 1..Len(b) : b[k] = y
          BY <1>1, <4>1 DEF Lists
        <5>2. ~(k \in 1..j + 1)
          BY <3>5, <3>7, <5>1
        <5>3. j + 1 < k
          BY <1>1, <2>3, <5>2
        <5> QED BY <1>1, <3>2, <5>1, <5>3 DEF Ordered
      <4>2. CASE y \in A
        <5>1. PICK k \in 1..Len(a) : a[k] = y
          BY <1>1, <4>2 DEF Lists
        <5>2. ~(k \in 1..i)
          BY <2>6, <3>4, <3>5, <5>1
        <5>3. i + 1 <= k /\ i < Len(a) /\ i + 1 \in 1..Len(a)
          BY <1>1, <2>3, <5>2
        <5>4. Precedes(x, a[i + 1]) /\ a[i + 1] \in A
          BY <1>1, <2>10, <5>3
        <5>5. CASE k = i + 1
          BY <5>1, <5>4, <5>5
        <5>6. CASE k # i + 1
          <6>1. Precedes(a[i + 1], y)
            BY <1>1, <2>3, <5>1, <5>3, <5>6 DEF Ordered
          <6> HIDE DEF x
          <6> QED BY <3>2, <4>2, <5>4, <6>1, PrecedesOrders
        <5> QED BY <5>5, <5>6
      <4> QED BY <4>1, <4>2
    <3>6. Before({x}, (A \cup B) \ E(n + 1))
      BY <3>5 DEF Before
    <3> HIDE DEF x
    <3> QED BY <2>3, <2>8, <3>1, <3>2, <3>3, <3>4, <3>6
  <2> QED BY <2>9, <2>10
<1>8. Good(c)
  <2> HIDE DEF S, Good
  <2>1. Nat \subseteq S BY <1>6, <1>7, Induct
  <2> QED BY <1>1, <2>1 DEF S
<1>9. taken[c] = Len(a) /\ c - taken[c] = Len(b)
  BY <1>1, <1>8
<1>10. E(c) = A \cup B
  BY <1>1, <1>9 DEF Lists
<1>11. p(c) = m
  BY <1>4
<1> HIDE DEF E, p
<1>12. Lists(m, A \cup B) /\ Ordered(m)
  BY <1>8, <1>10, <1>11
<1> QED BY <1>12 DEF m
----------------------------------------------------------------------------
\* Ordered lists of disjoint sets that make up U.
Parted(parts, U) ==
  /\ parts \in Seq(Seq(U))
  /\ \A i \in DOMAIN parts : Lists(parts[i], Range(parts[i])) /\ Ordered(parts[i])
  /\ \A i, j \in DOMAIN parts : i # j => Range(parts[i]) \cap Range(parts[j]) = {}
  /\ \A x \in U : \E i \in DOMAIN parts : x \in Range(parts[i])

\* What a list holds is what it lists.
LEMMA RangeListed ==
  ASSUME NEW q, NEW T, Lists(q, T)
  PROVE  Range(q) = T
<1>1. q \in Seq(T) /\ DOMAIN q = 1..Len(q) /\ \A i \in 1..Len(q) : q[i] \in T
  BY LenProperties, ElementOfSeq DEF Lists
<1> QED BY <1>1 DEF Lists, Range

\* No lists make up nothing.
LEMMA NoParts == Parted(<<>>, {})
BY EmptySeq DEF Parted

\* One ordered list.
LEMMA OnePart ==
  ASSUME NEW q, NEW T, Lists(q, T), Ordered(q)
  PROVE  Parted(<<q>>, T)
<1> DEFINE p == <<q>>
<1>1. p \in Seq(Seq(T))
  BY DEF Lists
<1>2. DOMAIN p = {1} /\ p[1] = q
  OBVIOUS
<1> HIDE DEF p
<1>3. Range(q) = T
  BY RangeListed
<1>4. Parted(p, T)
  BY <1>1, <1>2, <1>3 DEF Parted
<1> QED BY <1>4 DEF p

\* More lists, of stubs the others do not hold.
LEMMA PartsJoined ==
  ASSUME NEW p, NEW U, Parted(p, U), NEW q, NEW V, Parted(q, V), U \cap V = {}
  PROVE  Parted(p \o q, U \cup V)
<1> DEFINE W == U \cup V
           r == p \o q
<1>1. p \in Seq(Seq(W)) /\ q \in Seq(Seq(W))
  <2>1. p \in Seq(Seq(U)) /\ q \in Seq(Seq(V))
    BY DEF Parted
  <2>2. Seq(U) \subseteq Seq(W) /\ Seq(V) \subseteq Seq(W)
    BY SeqMonotonic
  <2> HIDE DEF W
  <2> QED BY <2>1, <2>2, SeqMonotonic
<1>2. /\ DOMAIN p = 1..Len(p) /\ Len(p) \in Nat
      /\ DOMAIN q = 1..Len(q) /\ Len(q) \in Nat
  BY <1>1, LenProperties
<1>3. /\ r \in Seq(Seq(W)) /\ Len(r) = Len(p) + Len(q)
      /\ \A i \in 1..Len(p) + Len(q) : r[i] = IF i <= Len(p) THEN p[i] ELSE q[i - Len(p)]
  <2> DEFINE X == Seq(W)
  <2>1. p \in Seq(X) /\ q \in Seq(X)
    BY <1>1
  <2> HIDE DEF X
  <2>2. /\ p \o q \in Seq(X) /\ Len(p \o q) = Len(p) + Len(q)
        /\ \A i \in 1..Len(p) + Len(q) : (p \o q)[i] = IF i <= Len(p) THEN p[i] ELSE q[i - Len(p)]
    BY ONLY <2>1, ConcatProperties
  <2> QED BY <2>2 DEF X
<1> HIDE DEF r
<1>4. DOMAIN r = 1..Len(p) + Len(q)
  BY <1>3, LenProperties
<1>5. \A i \in DOMAIN r : \/ i \in DOMAIN p /\ r[i] = p[i]
                          \/ i - Len(p) \in DOMAIN q /\ r[i] = q[i - Len(p)] /\ i > Len(p)
  BY <1>2, <1>3, <1>4
<1>6. /\ \A i \in DOMAIN p : i \in DOMAIN r /\ r[i] = p[i]
      /\ \A i \in DOMAIN q : i + Len(p) \in DOMAIN r /\ r[i + Len(p)] = q[i]
  <2>1. \A i \in DOMAIN p : i \in DOMAIN r /\ r[i] = p[i]
    BY <1>2, <1>3, <1>4
  <2>2. ASSUME NEW i \in DOMAIN q PROVE i + Len(p) \in DOMAIN r /\ r[i + Len(p)] = q[i]
    <3>1. i + Len(p) \in 1..Len(p) + Len(q) /\ ~(i + Len(p) <= Len(p)) /\ (i + Len(p)) - Len(p) = i
      BY <1>2
    <3> QED BY <1>3, <1>4, <3>1
  <2> QED BY <2>1, <2>2
<1>7. /\ \A i \in DOMAIN p : Range(p[i]) \subseteq U
      /\ \A i \in DOMAIN q : Range(q[i]) \subseteq V
  <2>1. \A T : \A s \in Seq(T) : Range(s) \subseteq T
    BY LenProperties, ElementOfSeq DEF Range
  <2>2. /\ \A i \in DOMAIN p : p[i] \in Seq(U)
        /\ \A i \in DOMAIN q : q[i] \in Seq(V)
    BY <1>2, ElementOfSeq DEF Parted
  <2> QED BY <2>1, <2>2
<1>8. \A i \in DOMAIN r : Lists(r[i], Range(r[i])) /\ Ordered(r[i])
  BY <1>5 DEF Parted
<1>9. ASSUME NEW i \in DOMAIN r, NEW j \in DOMAIN r, i # j
      PROVE  Range(r[i]) \cap Range(r[j]) = {}
  <2>1. i \in Int /\ j \in Int /\ Len(p) \in Int
    BY <1>2, <1>4
  <2>2. i - Len(p) # j - Len(p)
    BY <1>9, <2>1
  <2>3. CASE i \in DOMAIN p /\ r[i] = p[i] /\ j \in DOMAIN p /\ r[j] = p[j]
    BY <1>9, <2>3 DEF Parted
  <2>4. CASE /\ i - Len(p) \in DOMAIN q /\ r[i] = q[i - Len(p)]
             /\ j - Len(p) \in DOMAIN q /\ r[j] = q[j - Len(p)]
    BY <2>2, <2>4 DEF Parted
  <2>5. CASE i \in DOMAIN p /\ r[i] = p[i] /\ j - Len(p) \in DOMAIN q /\ r[j] = q[j - Len(p)]
    <3>1. Range(r[i]) \subseteq U /\ Range(r[j]) \subseteq V
      BY <1>7, <2>5
    <3> QED BY <3>1
  <2>6. CASE j \in DOMAIN p /\ r[j] = p[j] /\ i - Len(p) \in DOMAIN q /\ r[i] = q[i - Len(p)]
    <3>1. Range(r[j]) \subseteq U /\ Range(r[i]) \subseteq V
      BY <1>7, <2>6
    <3> QED BY <3>1
  <2> QED BY <1>5, <2>3, <2>4, <2>5, <2>6
<1>10. \A x \in U \cup V : \E i \in DOMAIN r : x \in Range(r[i])
  BY <1>6 DEF Parted
<1>11. Parted(r, W)
  BY <1>3, <1>8, <1>9, <1>10 DEF Parted
<1> QED BY <1>11 DEF r

\* mergeSortedParts of them.
LEMMA PartsMerged ==
  ASSUME NEW parts, NEW U, Parted(parts, U), Ranked(U)
  PROVE  Lists(MergeSortedParts(parts), U) /\ Ordered(MergeSortedParts(parts))
<1> DEFINE Goes(f, n) ==
             f = [i \in 0..n |-> IF i = 0 THEN <<>> ELSE MergeSortedStubs(f[i - 1], parts[i])]
           c == Len(parts)
<1>1. /\ c \in Nat /\ DOMAIN parts = 1..c
      /\ \A i \in 1..c : Range(parts[i]) \subseteq U
  <2>1. \A T : \A s \in Seq(T) : Range(s) \subseteq T
    BY LenProperties, ElementOfSeq DEF Range
  <2>2. parts \in Seq(Seq(U))
    BY DEF Parted
  <2> QED BY <2>1, <2>2, LenProperties, ElementOfSeq
<1> HIDE DEF c
<1>2. \A n \in Nat : \E f : Goes(f, n)
  <2> DEFINE S == {n \in Nat : \E f : Goes(f, n)}
  <2>1. 0 \in S
    <3>1. Goes([i \in 0..0 |-> <<>>], 0) OBVIOUS
    <3> QED BY <3>1
  <2>2. ASSUME NEW n \in Nat, n \in S PROVE n + 1 \in S
    <3>1. PICK f : Goes(f, n) BY <2>2
    <3> DEFINE g == [i \in 0..n + 1 |->
                       IF i = n + 1 THEN MergeSortedStubs(f[n], parts[n + 1]) ELSE f[i]]
    <3>2. Goes(g, n + 1) BY <3>1
    <3>3. \E h : Goes(h, n + 1)
      <4> HIDE DEF g, Goes
      <4> QED BY <3>2
    <3> HIDE DEF Goes
    <3> QED BY <3>3
  <2> HIDE DEF S
  <2>3. Nat \subseteq S BY <2>1, <2>2, Induct
  <2> QED BY <2>3 DEF S
<1> DEFINE merged == CHOOSE f : Goes(f, c)
<1>3. Goes(merged, c)
  <2>1. \E f : Goes(f, c) BY <1>1, <1>2
  <2> HIDE DEF Goes
  <2> QED BY <2>1
<1>4. MergeSortedParts(parts) = merged[c]
  BY DEF MergeSortedParts, c
<1> HIDE DEF merged
<1>5. /\ merged[0] = <<>>
      /\ \A n \in Nat : n + 1 <= c => merged[n + 1] = MergeSortedStubs(merged[n], parts[n + 1])
  BY <1>1, <1>3
<1> DEFINE First(n) == {x \in U : \E i \in 1..n : x \in Range(parts[i])}
           Good(n) == Lists(merged[n], First(n)) /\ Ordered(merged[n])
           S == {n \in Nat : n <= c => Good(n)}
<1>6. 0 \in S
  <2>1. First(0) = {} OBVIOUS
  <2>2. Ordered(<<>>)
    BY DEF Ordered
  <2> HIDE DEF First
  <2>3. Good(0)
    BY <1>5, <2>1, <2>2, NoneListed
  <2> QED BY <2>3
<1>7. ASSUME NEW n \in Nat, n \in S PROVE n + 1 \in S
  <2> HIDE DEF Good
  <2>1. SUFFICES ASSUME n + 1 <= c PROVE Good(n + 1)
    OBVIOUS
  <2> DEFINE a == merged[n]
             A == First(n)
             b == parts[n + 1]
             B == Range(b)
  <2>2. Lists(a, A) /\ Ordered(a)
    BY <1>1, <1>7, <2>1 DEF Good
  <2>3. n + 1 \in 1..c
    BY <1>1, <2>1
  <2>4. Lists(b, B) /\ Ordered(b)
    BY <1>1, <2>3 DEF Parted
  <2>5. A \cap B = {}
    <3>1. \A i \in 1..n : i \in 1..c /\ i # n + 1
      BY <1>1, <2>1
    <3> QED BY <1>1, <2>3, <3>1 DEF Parted
  <2>6. First(n + 1) = A \cup B
    <3>1. 1..n + 1 = (1..n) \cup {n + 1}
      OBVIOUS
    <3> QED BY <1>1, <2>3, <3>1
  <2>7. Ranked(A \cup B)
    <3>1. A \cup B \subseteq U
      BY <1>1, <2>3
    <3> QED BY <3>1 DEF Ranked, Unique
  <2>8. merged[n + 1] = MergeSortedStubs(a, b)
    BY <1>5, <2>1
  <2> HIDE DEF a, A, b, B, First
  <2>9. Lists(MergeSortedStubs(a, b), A \cup B) /\ Ordered(MergeSortedStubs(a, b))
    BY <2>2, <2>4, <2>5, <2>7, Merged
  <2> QED BY <2>6, <2>8, <2>9 DEF Good
<1>8. Good(c)
  <2> HIDE DEF S, Good
  <2>1. Nat \subseteq S BY <1>6, <1>7, Induct
  <2> QED BY <1>1, <2>1 DEF S
<1>9. First(c) = U
  BY <1>1 DEF Parted
<1> HIDE DEF First
<1> QED BY <1>4, <1>8, <1>9
\* The lists of each position, put end to end; V holds the stubs of each.
LEMMA PartsConcatenated ==
  ASSUME NEW lists, Len(lists) \in Nat, NEW V,
         \A i \in 1..Len(lists) : Parted(lists[i], V[i]),
         \A i, j \in 1..Len(lists) : i # j => V[i] \cap V[j] = {}
  PROVE  Parted(Concatenated(lists), UNION {V[i] : i \in 1..Len(lists)})
<1> DEFINE next(parts, i) == parts \o lists[i]
           Goes(f, n) == f = [i \in 0..n |-> IF i = 0 THEN <<>> ELSE next(f[i - 1], i)]
           c == Len(lists)
<1>1. /\ c \in Nat
      /\ \A i \in 1..c : Parted(lists[i], V[i])
      /\ \A i, j \in 1..c : i # j => V[i] \cap V[j] = {}
  OBVIOUS
<1> HIDE DEF c, next
<1>2. \A n \in Nat : \E f : Goes(f, n)
  <2> DEFINE S == {n \in Nat : \E f : Goes(f, n)}
  <2>1. 0 \in S
    <3>1. Goes([i \in 0..0 |-> <<>>], 0) OBVIOUS
    <3> QED BY <3>1
  <2>2. ASSUME NEW n \in Nat, n \in S PROVE n + 1 \in S
    <3>1. PICK f : Goes(f, n) BY <2>2
    <3> DEFINE g == [i \in 0..n + 1 |-> IF i = n + 1 THEN next(f[n], n + 1) ELSE f[i]]
    <3>2. Goes(g, n + 1) BY <3>1
    <3>3. \E h : Goes(h, n + 1)
      <4> HIDE DEF g, Goes
      <4> QED BY <3>2
    <3> HIDE DEF Goes
    <3> QED BY <3>3
  <2> HIDE DEF S
  <2>3. Nat \subseteq S BY <2>1, <2>2, Induct
  <2> QED BY <2>3 DEF S
<1> DEFINE upTo == CHOOSE f : Goes(f, c)
<1>3. Goes(upTo, c)
  <2>1. \E f : Goes(f, c) BY <1>1, <1>2
  <2> HIDE DEF Goes
  <2> QED BY <2>1
<1>4. Concatenated(lists) = upTo[c]
  BY DEF Concatenated, c, next
<1> HIDE DEF upTo
<1>5. /\ upTo[0] = <<>>
      /\ \A n \in Nat : n + 1 <= c => upTo[n + 1] = next(upTo[n], n + 1)
  BY <1>1, <1>3
<1> DEFINE First(n) == UNION {V[i] : i \in 1..n}
           S == {n \in Nat : n <= c => Parted(upTo[n], First(n))}
<1>6. 0 \in S
  <2>1. First(0) = {} OBVIOUS
  <2> HIDE DEF First
  <2> QED BY <1>5, <2>1, NoParts
<1>7. ASSUME NEW n \in Nat, n \in S PROVE n + 1 \in S
  <2> HIDE DEF First
  <2>1. SUFFICES ASSUME n + 1 <= c PROVE Parted(upTo[n + 1], First(n + 1))
    OBVIOUS
  <2> DEFINE p == upTo[n]
             q == lists[n + 1]
             A == First(n)
             B == V[n + 1]
  <2>2. Parted(p, A) /\ Parted(q, B)
    <3>1. n + 1 \in 1..c
      BY <1>1, <2>1
    <3> QED BY <1>1, <1>7, <2>1, <3>1
  <2>3. A \cap B = {}
    <3>1. \A i \in 1..n : i \in 1..c /\ i # n + 1
      BY <1>1, <2>1
    <3>2. n + 1 \in 1..c
      BY <1>1, <2>1
    <3> QED BY <1>1, <3>1, <3>2 DEF First
  <2>4. First(n + 1) = A \cup B
    <3>1. 1..n + 1 = (1..n) \cup {n + 1}
      OBVIOUS
    <3> QED BY <3>1 DEF First
  <2>5. upTo[n + 1] = p \o q
    BY <1>5, <2>1 DEF next
  <2> HIDE DEF p, q, A, B
  <2>6. Parted(p \o q, A \cup B)
    BY <2>2, <2>3, PartsJoined
  <2> QED BY <2>4, <2>5, <2>6
<1>8. Parted(upTo[c], First(c))
  <2> HIDE DEF S, First
  <2>1. Nat \subseteq S BY <1>6, <1>7, Induct
  <2> QED BY <1>1, <2>1 DEF S
<1> QED BY <1>4, <1>8 DEF c

\* A list of finitely many stubs is as long as their number.
LEMMA ListsAll ==
  ASSUME NEW q, NEW T, Lists(q, T), Ordered(q), IsFiniteSet(T)
  PROVE  SortedSet(T, q)
<1>1. q \in Seq(T) /\ DOMAIN q = 1..Len(q) /\ Len(q) \in Nat /\ \A i \in 1..Len(q) : q[i] \in T
  BY LenProperties, ElementOfSeq DEF Lists
<1>2. Range(q) = T
  BY RangeListed
<1>3. Len(q) = Cardinality(T)
  <2>1. q \in Bijection(1..Len(q), T)
    <3>1. q \in [1..Len(q) -> T]
      BY <1>1
    <3> QED BY <1>1, <3>1 DEF Bijection, Injection, Surjection, IsInjective, Lists
  <2>2. IsFiniteSet(1..Len(q)) /\ Cardinality(1..Len(q)) = Len(q)
    <3>1. \A n \in Nat : IsFiniteSet(1..n) /\ Cardinality(1..n) = n
      BY FS_Interval
    <3> QED BY <1>1, <3>1
  <2>3. ExistsBijection(1..Len(q), T)
    BY <2>1 DEF ExistsBijection
  <2>4. Cardinality(1..Len(q)) = Cardinality(T)
    BY <2>2, <2>3, FS_Bijection, FS_SameCardinalityBij
  <2> QED BY <2>2, <2>4
<1>4. IsSorted(q, Precedes)
  BY <1>1 DEF IsSorted, Ordered
<1> QED BY <1>2, <1>3, <1>4 DEF SortedSet

----------------------------------------------------------------------------
\* A store of stubs of K whose structures agree and whose buckets are in order.
Tidy(st, K) ==
  /\ Agree(st, K) /\ Proper(K)
  /\ InOrderBut(st.itemSorted, {})

\* The stubs of a store at a position, those a session owns there, and those it
\* sees.
Standing(st, pos) == {s \in Stored(st) : Position(s) = pos}
Owned(st, pos, session) == {s \in Standing(st, pos) : s.session = session}
Seen(st, pos, session) == {s \in Standing(st, pos) : VisibleTo(s, session)}

\* A bucket of itemSorted lists the stubs of its position and session.
LEMMA BucketIs ==
  ASSUME NEW st, NEW K, Tidy(st, K), NEW pos, NEW b
  PROVE  /\ Lists(Bucket(st.itemSorted, pos, b), Owned(st, pos, b))
         /\ Ordered(Bucket(st.itemSorted, pos, b))
<1> DEFINE map == st.itemSorted
           S == Stored(st)
           F == ByPosition(S)
           q == Bucket(map, pos, b)
<1>1. Itemizes(map, S, F)
  BY DEF Tidy, Agree, Describes
<1>2. At(S, F, pos, b) = Owned(st, pos, b)
  BY DEF At, ByPosition, Standing, Owned
<1>3. Lists(q, At(S, F, pos, b))
  <2> HIDE DEF map, S, F, q
  <2> QED BY <1>1, BucketListed DEF q
<1>4. Ordered(q)
  <2>1. CASE pos \in DOMAIN map /\ b \in DOMAIN map[pos]
    BY <2>1 DEF Tidy, InOrderBut, Bucket
  <2>2. CASE ~(pos \in DOMAIN map /\ b \in DOMAIN map[pos])
    <3>1. q = <<>>
      BY <2>2 DEF Bucket
    <3>2. Ordered(<<>>)
      BY DEF Ordered
    <3> QED BY <3>1, <3>2
  <2> QED BY <2>1, <2>2
<1> QED BY <1>2, <1>3, <1>4

\* The buckets a session sees at a position.
LEMMA SeenParts ==
  ASSUME NEW st, NEW K, Tidy(st, K), NEW pos, NEW session
  PROVE  Parted(<<Bucket(st.itemSorted, pos, Global)>>
                \o (IF session = Global THEN <<>>
                    ELSE <<Bucket(st.itemSorted, pos, session)>>),
                Seen(st, pos, session))
<1> DEFINE g == Bucket(st.itemSorted, pos, Global)
           G == Owned(st, pos, Global)
           o == Bucket(st.itemSorted, pos, session)
           O == Owned(st, pos, session)
           rest == IF session = Global THEN <<>> ELSE <<o>>
           R == IF session = Global THEN {} ELSE O
<1>1. Lists(g, G) /\ Ordered(g) /\ Lists(o, O) /\ Ordered(o)
  BY BucketIs
<1>2. G \cap R = {} /\ G \cup R = Seen(st, pos, session)
  BY DEF Seen, VisibleTo, Owned
<1> HIDE DEF g, G, o, O
<1>3. Parted(<<g>>, G) /\ Parted(<<o>>, O)
  BY <1>1, OnePart
<1>4. Parted(rest, R)
  BY <1>3, NoParts
<1> HIDE DEF rest, R
<1>5. Parted(<<g>> \o rest, G \cup R)
  <2> DEFINE p == <<g>>
  <2>1. Parted(p, G)
    BY <1>3
  <2> HIDE DEF p
  <2>2. Parted(p \o rest, G \cup R)
    BY <1>2, <1>4, <2>1, PartsJoined
  <2> QED BY <2>2 DEF p
<1> QED BY <1>2, <1>5 DEF rest, R, g, o

\* A position has a bucket exactly when a stub stands there.
LEMMA PositionsAre ==
  ASSUME NEW st, NEW K, Tidy(st, K), NEW pos
  PROVE  pos \in DOMAIN st.itemSorted <=> Standing(st, pos) # {}
<1> DEFINE map == st.itemSorted
           S == Stored(st)
<1>1. Itemizes(map, S, ByPosition(S))
  BY DEF Tidy, Agree, Describes
<1>2. ASSUME pos \in DOMAIN map PROVE Standing(st, pos) # {}
  <2>1. PICK b \in DOMAIN map[pos] : map[pos][b] # <<>>
    BY <1>1, <1>2 DEF Itemizes, NoEmptyBuckets
  <2>2. Bucket(map, pos, b) = map[pos][b]
    BY <1>2, <2>1 DEF Bucket
  <2>3. Owned(st, pos, b) # {}
    BY <2>1, <2>2, BucketIs, ListsOfNone
  <2> QED BY <2>3 DEF Owned
<1>3. ASSUME Standing(st, pos) # {} PROVE pos \in DOMAIN map
  <2>1. PICK s \in S : Position(s) = pos
    BY <1>3 DEF Standing
  <2>2. <<s, pos, s.session>> \in ByPosition(S)
    BY <2>1 DEF ByPosition
  <2> QED BY <1>1, <2>2 DEF Itemizes
<1> QED BY <1>2, <1>3

\* All the buckets of a position.
LEMMA StandingParts ==
  ASSUME NEW st, NEW K, Tidy(st, K), NEW pos \in DOMAIN st.itemSorted
  PROVE  Parted(SetToSeq(Range(st.itemSorted[pos])), Standing(st, pos))
<1> DEFINE map == st.itemSorted
           buckets == map[pos]
           T == Standing(st, pos)
           In(b) == Owned(st, pos, b)
           p == SetToSeq(Range(buckets))
<1>1. /\ Itemizes(map, Stored(st), ByPosition(Stored(st)))
      /\ IsFiniteSet(T)
  <2>1. T \subseteq Stored(st)
    BY DEF Standing
  <2>2. IsFiniteSet(Stored(st))
    BY StoredStubs DEF Tidy
  <2> HIDE DEF T
  <2> QED BY <2>1, <2>2, FS_Subset DEF Tidy, Agree, Describes
<1>2. \A b \in DOMAIN buckets :
        /\ Lists(buckets[b], In(b)) /\ Ordered(buckets[b])
        /\ Range(buckets[b]) = In(b) /\ In(b) # {}
  <2> TAKE b \in DOMAIN buckets
  <2>1. Bucket(map, pos, b) = buckets[b] /\ buckets[b] # <<>>
    BY <1>1 DEF Bucket, Itemizes, NoEmptyBuckets
  <2>2. Lists(buckets[b], In(b)) /\ Ordered(buckets[b])
    BY <2>1, BucketIs
  <2> HIDE DEF buckets, In
  <2> QED BY <2>1, <2>2, RangeListed, ListsOfNone
<1>3. \A s \in T : s.session \in DOMAIN buckets
  <2> TAKE s \in T
  <2>1. <<s, pos, s.session>> \in ByPosition(Stored(st))
    BY DEF ByPosition, Standing
  <2> QED BY <1>1, <2>1 DEF Itemizes
<1>4. IsFiniteSet(Range(buckets))
  <2> DEFINE f == [s \in T |-> buckets[s.session]]
  <2>1. f \in Surjection(T, Range(buckets))
    <3>1. f \in [T -> Range(buckets)]
      BY <1>3 DEF Range
    <3>2. ASSUME NEW q \in Range(buckets) PROVE \E s \in T : f[s] = q
      <4>1. PICK b \in DOMAIN buckets : buckets[b] = q
        BY DEF Range
      <4>2. PICK s \in T : s.session = b
        BY <1>2, <4>1 DEF Owned
      <4> QED BY <4>1, <4>2
    <3> QED BY <3>1, <3>2 DEF Surjection
  <2> HIDE DEF f, T, buckets
  <2> QED BY <1>1, <2>1, FS_Surjection
<1>5. Lists(p, Range(buckets))
  BY <1>4, SetListed
<1> HIDE DEF p
<1>6. /\ DOMAIN p = 1..Len(p) /\ \A i \in DOMAIN p : p[i] \in Range(buckets)
      /\ \A i, j \in DOMAIN p : p[i] = p[j] => i = j
      /\ \A q \in Range(buckets) : \E i \in DOMAIN p : p[i] = q
      /\ p \in Seq(Range(buckets))
  <2> HIDE DEF buckets
  <2> QED BY <1>5, LenProperties, ElementOfSeq DEF Lists
<1>7. \A i \in DOMAIN p : \E b \in DOMAIN buckets : p[i] = buckets[b]
  BY <1>6 DEF Range
<1> HIDE DEF buckets, T
<1>8. p \in Seq(Seq(T))
  <2>1. \A q \in Range(buckets) : q \in Seq(T)
    <3> TAKE q \in Range(buckets)
    <3>1. PICK b \in DOMAIN buckets : q = buckets[b]
      BY DEF Range
    <3>2. q \in Seq(In(b)) /\ In(b) \subseteq T
      BY <1>2, <3>1 DEF Lists, Owned, T
    <3> HIDE DEF In
    <3> QED BY <3>2, SeqMonotonic
  <2>2. Range(buckets) \subseteq Seq(T)
    BY <2>1
  <2> QED BY <1>6, <2>2, SeqMonotonic
<1>9. \A i \in DOMAIN p : Lists(p[i], Range(p[i])) /\ Ordered(p[i])
  BY <1>2, <1>7
<1>10. ASSUME NEW i \in DOMAIN p, NEW j \in DOMAIN p, i # j
       PROVE  Range(p[i]) \cap Range(p[j]) = {}
  <2>1. PICK b \in DOMAIN buckets : p[i] = buckets[b]
    BY <1>7
  <2>2. PICK c \in DOMAIN buckets : p[j] = buckets[c]
    BY <1>7
  <2>3. b # c
    BY <1>6, <1>10, <2>1, <2>2
  <2>4. Range(p[i]) = In(b) /\ Range(p[j]) = In(c)
    BY <1>2, <2>1, <2>2
  <2> QED BY <2>3, <2>4 DEF Owned
<1>11. ASSUME NEW s \in T PROVE \E i \in DOMAIN p : s \in Range(p[i])
  <2>1. buckets[s.session] \in Range(buckets)
    BY <1>3 DEF Range
  <2>2. PICK i \in DOMAIN p : p[i] = buckets[s.session]
    BY <1>6, <2>1
  <2>3. s \in Range(p[i])
    BY <1>2, <1>3, <2>2 DEF Owned, T
  <2> QED BY <2>3
<1>12. Parted(p, T)
  BY <1>8, <1>9, <1>10, <1>11 DEF Parted
<1> QED BY <1>12 DEF p, T, buckets
----------------------------------------------------------------------------
\* Distinct positions that have a bucket.
Places(st, indexes) ==
  /\ Len(indexes) \in Nat /\ DOMAIN indexes = 1..Len(indexes)
  /\ \A i, j \in DOMAIN indexes : indexes[i] = indexes[j] => i = j
  /\ \A i \in DOMAIN indexes : indexes[i] \in DOMAIN st.itemSorted

\* The stubs at one of them.
Around(st, indexes) == {s \in Stored(st) : \E i \in DOMAIN indexes : Position(s) = indexes[i]}

\* Merging lists of what V says of each position.
LEMMA PlacesMerged ==
  ASSUME NEW st, NEW K, Tidy(st, K), NEW indexes, Places(st, indexes), NEW V, NEW lists,
         DOMAIN lists = DOMAIN indexes, Len(lists) = Len(indexes),
         \A i \in DOMAIN indexes : Parted(lists[i], V[i]) /\ V[i] \subseteq Standing(st, indexes[i])
  PROVE  SortedSet(UNION {V[i] : i \in DOMAIN indexes}, MergeSortedParts(Concatenated(lists)))
<1> DEFINE n == Len(indexes)
           U == UNION {V[i] : i \in 1..n}
           parts == Concatenated(lists)
<1>1. n \in Nat /\ DOMAIN indexes = 1..n
  BY DEF Places
<1>2. ASSUME NEW i \in 1..n, NEW j \in 1..n, i # j PROVE V[i] \cap V[j] = {}
  <2>1. indexes[i] # indexes[j]
    BY <1>1, <1>2 DEF Places
  <2>2. V[i] \subseteq Standing(st, indexes[i]) /\ V[j] \subseteq Standing(st, indexes[j])
    BY <1>1
  <2> QED BY <2>1, <2>2 DEF Standing
<1>3. Parted(parts, U)
  <2>1. Len(lists) = n /\ \A i \in 1..n : Parted(lists[i], V[i])
    BY <1>1
  <2> HIDE DEF n, parts
  <2>2. Len(lists) \in Nat /\ \A i \in 1..Len(lists) : Parted(lists[i], V[i])
    BY <1>1, <2>1
  <2>3. \A i, j \in 1..Len(lists) : i # j => V[i] \cap V[j] = {}
    BY <1>2, <2>1
  <2>4. Parted(Concatenated(lists), UNION {V[i] : i \in 1..Len(lists)})
    BY <2>2, <2>3, PartsConcatenated
  <2> QED BY <2>1, <2>4 DEF parts
<1>4. U \subseteq Stored(st)
  BY <1>1 DEF Standing
<1> HIDE DEF n, U, parts
<1>5. Ranked(U) /\ IsFiniteSet(U)
  <2>1. Ranked(Stored(st)) /\ IsFiniteSet(Stored(st))
    BY StoredStubs DEF Tidy
  <2> QED BY <1>4, <2>1, FS_Subset DEF Ranked, Unique
<1>6. SortedSet(U, MergeSortedParts(parts))
  BY <1>3, <1>5, PartsMerged, ListsAll
<1> QED BY <1>1, <1>6 DEF U, parts

\* collectAvailableSorted of such positions.
LEMMA Collected ==
  ASSUME NEW st, NEW K, Tidy(st, K), NEW indexes, Places(st, indexes), NEW session
  PROVE  SortedSet({s \in Around(st, indexes) : VisibleTo(s, session)},
                   CollectAvailableSorted(st, indexes, session))
<1> DEFINE parts(pos) ==
             <<Bucket(st.itemSorted, pos, Global)>>
             \o (IF session = Global THEN <<>>
                 ELSE <<Bucket(st.itemSorted, pos, session)>>)
           lists == [i \in DOMAIN indexes |-> parts(indexes[i])]
           V == [i \in DOMAIN indexes |-> Seen(st, indexes[i], session)]
<1>1. CollectAvailableSorted(st, indexes, session) = MergeSortedParts(Concatenated(lists))
  BY DEF CollectAvailableSorted
<1>2. \A pos : Parted(parts(pos), Seen(st, pos, session))
  BY SeenParts
<1> HIDE DEF parts
<1>3. /\ DOMAIN lists = DOMAIN indexes /\ Len(lists) = Len(indexes)
      /\ \A i \in DOMAIN indexes : lists[i] = parts(indexes[i])
  <2>1. Len(indexes) \in Nat /\ DOMAIN indexes = 1..Len(indexes)
    BY DEF Places
  <2> QED BY <2>1
<1>4. \A i \in DOMAIN indexes : V[i] = Seen(st, indexes[i], session)
  OBVIOUS
<1> HIDE DEF lists, V
<1>5. \A i \in DOMAIN indexes : Parted(lists[i], V[i]) /\ V[i] \subseteq Standing(st, indexes[i])
  BY <1>2, <1>3, <1>4 DEF Seen
<1>6. SortedSet(UNION {V[i] : i \in DOMAIN indexes}, MergeSortedParts(Concatenated(lists)))
  BY <1>3, <1>5, PlacesMerged
<1>7. UNION {V[i] : i \in DOMAIN indexes} = {s \in Around(st, indexes) : VisibleTo(s, session)}
  BY <1>4 DEF Seen, Standing, Around
<1> QED BY <1>1, <1>6, <1>7

\* yieldSortedValues of such positions.
LEMMA Yielded ==
  ASSUME NEW st, NEW K, Tidy(st, K), NEW indexes, Places(st, indexes)
  PROVE  SortedSet(Around(st, indexes), YieldSortedValues(st, indexes))
<1> DEFINE parts(pos) == SetToSeq(Range(st.itemSorted[pos]))
           lists == [i \in DOMAIN indexes |-> parts(indexes[i])]
           V == [i \in DOMAIN indexes |-> Standing(st, indexes[i])]
<1>1. YieldSortedValues(st, indexes) = MergeSortedParts(Concatenated(lists))
  BY DEF YieldSortedValues
<1>2. \A pos \in DOMAIN st.itemSorted : Parted(parts(pos), Standing(st, pos))
  BY StandingParts
<1> HIDE DEF parts
<1>3. /\ DOMAIN lists = DOMAIN indexes /\ Len(lists) = Len(indexes)
      /\ \A i \in DOMAIN indexes : lists[i] = parts(indexes[i])
  <2>1. Len(indexes) \in Nat /\ DOMAIN indexes = 1..Len(indexes)
    BY DEF Places
  <2> QED BY <2>1
<1>4. \A i \in DOMAIN indexes : V[i] = Standing(st, indexes[i])
  OBVIOUS
<1> HIDE DEF lists, V
<1>5. \A i \in DOMAIN indexes : Parted(lists[i], V[i]) /\ V[i] \subseteq Standing(st, indexes[i])
  BY <1>2, <1>3, <1>4 DEF Places
<1>6. SortedSet(UNION {V[i] : i \in DOMAIN indexes}, MergeSortedParts(Concatenated(lists)))
  BY <1>3, <1>5, PlacesMerged
<1>7. UNION {V[i] : i \in DOMAIN indexes} = Around(st, indexes)
  BY <1>4 DEF Standing, Around
<1> QED BY <1>1, <1>6, <1>7

\* The stubs of a service, or of its name without the package, and a method.
About(st, service, method) ==
  {s \in Stored(st) : s.service \in {service, Truncated[service]} /\ s.method = method}

\* Two lists of one position each make a list of two.
LEMMA Paired ==
  ASSUME NEW p, NEW q, NEW s, s = <<p>> \o <<q>>
  PROVE  /\ Len(s) = 2 /\ DOMAIN s = {1, 2} /\ 1..2 = {1, 2}
         /\ s[1] = p /\ s[2] = q /\ s # <<>>
<1> DEFINE e == <<p>>
           f == <<q>>
           U == {p, q}
<1>1. e \in Seq(U) /\ f \in Seq(U) /\ Len(e) = 1 /\ Len(f) = 1 /\ e[1] = p /\ f[1] = q
  OBVIOUS
<1>2. s = e \o f
  OBVIOUS
<1> HIDE DEF e, f, U
<1>3. /\ s \in Seq(U) /\ Len(s) = Len(e) + Len(f)
      /\ \A i \in 1..Len(e) + Len(f) : s[i] = IF i <= Len(e) THEN e[i] ELSE f[i - Len(e)]
  BY <1>1, <1>2, ConcatProperties
<1>4. Len(s) = 2 /\ 1 \in 1..Len(e) + Len(f) /\ 2 \in 1..Len(e) + Len(f) /\ 1..2 = {1, 2}
  BY <1>1, <1>3
<1>5. s[1] = p /\ s[2] = q
  BY <1>1, <1>3, <1>4
<1> QED BY <1>3, <1>4, <1>5

\* posByPN resolves a service and method to the positions of their stubs, and
\* fails when they have none.
LEMMA Resolved ==
  ASSUME NEW st, NEW K, Tidy(st, K), NEW service \in Services, NEW method
  PROVE  /\ Places(st, PosByPN(st, service, method).indexes)
         /\ Around(st, PosByPN(st, service, method).indexes) = About(st, service, method)
         /\ PosByPN(st, service, method).err = "ok" <=> About(st, service, method) # {}
<1> DEFINE short == Truncated[service]
           full == PosByN(st, service, method)
           truncated == IF short = service THEN "none" ELSE PosByN(st, short, method)
           p == <<service, method>>
           q == <<short, method>>
           indexes == (IF full = "ok" THEN <<p>> ELSE <<>>)
                      \o (IF truncated = "ok" THEN <<q>> ELSE <<>>)
           err == IF indexes # <<>> THEN "ok"
                  ELSE IF truncated = "right" THEN "right" ELSE full
           A == Standing(st, p)
           B == Standing(st, q)
<1>1. /\ PosByPN(st, service, method).indexes = indexes
      /\ PosByPN(st, service, method).err = err
  BY DEF PosByPN
<1>2. ASSUME NEW name
      PROVE  PosByN(st, name, method) = "ok" <=> <<name, method>> \in DOMAIN st.itemSorted
  <2>1. ASSUME <<name, method>> \in DOMAIN st.itemSorted PROVE name \in st.lefts
    <3>1. PICK s \in Stored(st) : Position(s) = <<name, method>>
      BY <2>1, PositionsAre DEF Standing
    <3>2. s.service = name /\ s.service \in st.lefts
      BY <3>1 DEF Position, Tidy, Agree
    <3> QED BY <3>2
  <2> QED BY <2>1 DEF PosByN
<1>3. /\ full = "ok" <=> p \in DOMAIN st.itemSorted
      /\ truncated = "ok" <=> short # service /\ q \in DOMAIN st.itemSorted
  BY <1>2
<1>4. /\ full = "ok" <=> A # {}
      /\ truncated = "ok" <=> short # service /\ B # {}
  BY <1>3, PositionsAre
<1>5. About(st, service, method) = A \cup B
  BY DEF About, Standing, Position
<1>6. short = service => A = B
  OBVIOUS
<1>7. short # service => p # q
  OBVIOUS
<1> HIDE DEF p, q, A, B, full, truncated, short
<1>8. CASE full = "ok" /\ truncated = "ok"
  <2>1. indexes = <<p>> \o <<q>>
    BY <1>8
  <2> HIDE DEF indexes
  <2>2. /\ Len(indexes) = 2 /\ DOMAIN indexes = {1, 2} /\ 1..2 = {1, 2}
        /\ indexes[1] = p /\ indexes[2] = q /\ indexes # <<>>
    BY <2>1, Paired
  <2>5. err = "ok"
    BY <2>2
  <2> HIDE DEF indexes, err
  <2>3. Places(st, indexes)
    BY <1>3, <1>4, <1>7, <1>8, <2>2 DEF Places
  <2>4. Around(st, indexes) = A \cup B
    BY <2>2 DEF Around, A, B, Standing
  <2> QED BY <1>1, <1>4, <1>5, <1>8, <2>3, <2>4, <2>5
<1>9. CASE full = "ok" /\ truncated # "ok"
  <2>1. indexes = <<p>> /\ err = "ok"
    BY <1>9
  <2>2. Len(indexes) = 1 /\ DOMAIN indexes = {1} /\ 1..1 = {1}
    BY <2>1
  <2> HIDE DEF indexes, err
  <2>3. Places(st, indexes)
    BY <1>3, <1>9, <2>1, <2>2 DEF Places
  <2>4. Around(st, indexes) = A
    BY <2>1, <2>2 DEF Around, A, Standing
  <2>5. A \cup B = A
    BY <1>4, <1>6, <1>9
  <2> QED BY <1>1, <1>4, <1>5, <1>9, <2>1, <2>3, <2>4, <2>5
<1>10. CASE full # "ok" /\ truncated = "ok"
  <2>1. indexes = <<q>> /\ err = "ok"
    BY <1>10
  <2>2. Len(indexes) = 1 /\ DOMAIN indexes = {1} /\ 1..1 = {1}
    BY <2>1
  <2> HIDE DEF indexes, err
  <2>3. Places(st, indexes)
    BY <1>3, <1>10, <2>1, <2>2 DEF Places
  <2>4. Around(st, indexes) = B
    BY <2>1, <2>2 DEF Around, B, Standing
  <2>5. A \cup B = B /\ B # {}
    BY <1>4, <1>10
  <2> QED BY <1>1, <1>5, <2>1, <2>3, <2>4, <2>5
<1>11. CASE full # "ok" /\ truncated # "ok"
  <2>1. indexes = <<>> /\ err # "ok"
    BY <1>11
  <2>2. Len(indexes) = 0 /\ DOMAIN indexes = {} /\ 1..0 = {}
    BY <2>1
  <2> HIDE DEF indexes, err
  <2>3. Places(st, indexes)
    BY <2>2 DEF Places
  <2>4. Around(st, indexes) = {}
    BY <2>2 DEF Around
  <2>5. A \cup B = {}
    BY <1>4, <1>6, <1>11
  <2> QED BY <1>1, <1>5, <2>1, <2>3, <2>4, <2>5
<1> QED BY <1>8, <1>9, <1>10, <1>11
\* A bucket of methodSorted lists the stubs of its method and session.
LEMMA MethodBucketIs ==
  ASSUME NEW st, NEW K, Tidy(st, K), NEW method, NEW b
  PROVE  Lists(Bucket(st.methodSorted, method, b),
               {s \in Stored(st) : s.method = method /\ s.session = b})
<1> DEFINE map == st.methodSorted
           S == Stored(st)
           F == ByMethod(S)
<1>1. Itemizes(map, S, F)
  BY DEF Tidy, Agree, Describes
<1>2. At(S, F, method, b) = {s \in S : s.method = method /\ s.session = b}
  BY DEF At, ByMethod
<1>3. Lists(Bucket(map, method, b), At(S, F, method, b))
  <2> HIDE DEF map, S, F
  <2> QED BY <1>1, BucketListed
<1> QED BY <1>2, <1>3

\* Two lists of disjoint sets, end to end.
LEMMA ListsJoined ==
  ASSUME NEW a, NEW A, Lists(a, A), NEW b, NEW B, Lists(b, B), A \cap B = {}
  PROVE  Lists(a \o b, A \cup B)
<1> DEFINE W == A \cup B
           r == a \o b
<1>1. /\ a \in Seq(W) /\ DOMAIN a = 1..Len(a) /\ Len(a) \in Nat /\ \A i \in 1..Len(a) : a[i] \in A
      /\ b \in Seq(W) /\ DOMAIN b = 1..Len(b) /\ Len(b) \in Nat /\ \A i \in 1..Len(b) : b[i] \in B
  BY LenProperties, ElementOfSeq, SeqMonotonic DEF Lists
<1>2. /\ r \in Seq(W) /\ Len(r) = Len(a) + Len(b)
      /\ \A i \in 1..Len(a) + Len(b) : r[i] = IF i <= Len(a) THEN a[i] ELSE b[i - Len(a)]
  <2> HIDE DEF W
  <2>1. a \in Seq(W) /\ b \in Seq(W)
    BY <1>1
  <2>2. /\ a \o b \in Seq(W) /\ Len(a \o b) = Len(a) + Len(b)
        /\ \A i \in 1..Len(a) + Len(b) : (a \o b)[i] = IF i <= Len(a) THEN a[i] ELSE b[i - Len(a)]
    BY ONLY <2>1, ConcatProperties
  <2> QED BY <2>2
<1> HIDE DEF r
<1>3. DOMAIN r = 1..Len(a) + Len(b)
  BY <1>2, LenProperties
<1>4. \A i \in DOMAIN r : \/ i \in 1..Len(a) /\ r[i] = a[i]
                          \/ i - Len(a) \in 1..Len(b) /\ r[i] = b[i - Len(a)]
  BY <1>1, <1>2, <1>3
<1>5. /\ \A i \in 1..Len(a) : i \in DOMAIN r /\ r[i] = a[i]
      /\ \A i \in 1..Len(b) : i + Len(a) \in DOMAIN r /\ r[i + Len(a)] = b[i]
  <2>1. \A i \in 1..Len(a) : i \in DOMAIN r /\ r[i] = a[i]
    BY <1>1, <1>2, <1>3
  <2>2. ASSUME NEW i \in 1..Len(b) PROVE i + Len(a) \in DOMAIN r /\ r[i + Len(a)] = b[i]
    <3>1. i + Len(a) \in 1..Len(a) + Len(b) /\ ~(i + Len(a) <= Len(a)) /\ (i + Len(a)) - Len(a) = i
      BY <1>1
    <3> QED BY <1>2, <1>3, <3>1
  <2> QED BY <2>1, <2>2
<1>6. ASSUME NEW i \in DOMAIN r, NEW j \in DOMAIN r, r[i] = r[j]
      PROVE  i = j
  <2>1. CASE i \in 1..Len(a) /\ r[i] = a[i] /\ j \in 1..Len(a) /\ r[j] = a[j]
    BY <1>1, <1>6, <2>1 DEF Lists
  <2>2. CASE /\ i - Len(a) \in 1..Len(b) /\ r[i] = b[i - Len(a)]
             /\ j - Len(a) \in 1..Len(b) /\ r[j] = b[j - Len(a)]
    <3>1. i - Len(a) = j - Len(a)
      BY <1>1, <1>6, <2>2 DEF Lists
    <3>2. i \in Int /\ j \in Int /\ Len(a) \in Int
      BY <1>1, <1>3
    <3> QED BY <3>1, <3>2
  <2>3. CASE i \in 1..Len(a) /\ r[i] = a[i] /\ j - Len(a) \in 1..Len(b) /\ r[j] = b[j - Len(a)]
    BY <1>1, <1>6, <2>3
  <2>4. CASE j \in 1..Len(a) /\ r[j] = a[j] /\ i - Len(a) \in 1..Len(b) /\ r[i] = b[i - Len(a)]
    BY <1>1, <1>6, <2>4
  <2> QED BY <1>4, <2>1, <2>2, <2>3, <2>4
<1>7. \A x \in W : \E i \in DOMAIN r : r[i] = x
  BY <1>1, <1>5 DEF Lists
<1>8. Lists(r, W)
  BY <1>2, <1>6, <1>7 DEF Lists
<1> QED BY <1>8 DEF r

\* The stubs of a method that a session sees.
Offered(st, method, session) == {s \in Stored(st) : s.method = method /\ VisibleTo(s, session)}

\* The fallback to the method lists them in order.
LEMMA FoundByMethod ==
  ASSUME NEW st, NEW K, Tidy(st, K), NEW method, NEW session
  PROVE  /\ SortedSet(Offered(st, method, session), FindByMethodAvailable(st, method, session))
         /\ HasMethodAvailable(st, method, session) <=> Offered(st, method, session) # {}
<1> DEFINE In(b) == {s \in Stored(st) : s.method = method /\ s.session = b}
           g == Bucket(st.methodSorted, method, Global)
           o == Bucket(st.methodSorted, method, session)
           own == IF session = Global THEN <<>> ELSE o
           T == Offered(st, method, session)
           G == In(Global)
           O == IF session = Global THEN {} ELSE In(session)
<1>1. Lists(g, G) /\ Lists(o, In(session))
  BY MethodBucketIs
<1>2. Lists(own, O)
  BY <1>1, NoneListed
<1>3. G \cap O = {} /\ G \cup O = T
  BY DEF Offered, VisibleTo
<1>4. FindByMethodAvailable(st, method, session) = Sorted(g \o own)
  BY DEF FindByMethodAvailable
<1>5. HasMethodAvailable(st, method, session) <=> g # <<>> \/ own # <<>>
  BY DEF HasMethodAvailable
<1>6. Ranked(T) /\ IsFiniteSet(T)
  <2>1. Ranked(Stored(st)) /\ IsFiniteSet(Stored(st))
    BY StoredStubs DEF Tidy
  <2>2. T \subseteq Stored(st)
    BY DEF Offered
  <2> HIDE DEF T
  <2> QED BY <2>1, <2>2, FS_Subset DEF Ranked, Unique
<1> HIDE DEF g, o, own, T, G, O
<1>7. Lists(g \o own, T)
  BY <1>1, <1>2, <1>3, ListsJoined
<1>8. SortedSet(T, Sorted(g \o own))
  <2> DEFINE q == g \o own
  <2>1. Lists(q, T)
    BY <1>7
  <2> HIDE DEF q
  <2>2. Lists(Sorted(q), T) /\ Ordered(Sorted(q))
    BY <1>6, <2>1, ListsSorted
  <2>3. SortedSet(T, Sorted(q))
    BY <1>6, <2>2, ListsAll
  <2> QED BY <2>3 DEF q
<1>9. (g # <<>> \/ own # <<>>) <=> T # {}
  BY <1>1, <1>2, <1>3, ListsOfNone
<1> QED BY <1>4, <1>5, <1>8, <1>9 DEF T

\* The inductive invariant implies ReadsExact.
LEMMA StorageInvReads == StorageInv => ReadsExact
<1> SUFFICES ASSUME StorageInv PROVE ReadsExact
  OBVIOUS
<1>1. Tidy(external, NamedStubs)
  BY KnownStubs DEF StorageInv, Tidy
<1> SUFFICES ASSUME NEW service \in Services, NEW method \in Methods
             PROVE
    LET found == PosByPN(external, service, method)
        here  == {s \in Stored(external) :
                    s.service \in {service, Truncated[service]} /\ s.method = method}
    IN  /\ (found.err = "ok") <=> (here # {})
        /\ SortedSet(here, YieldSortedValues(external, found.indexes))
        /\ \A session \in Sessions \cup {Global} :
             LET seen == {s \in Stored(external) :
                            s.method = method /\ VisibleTo(s, session)}
             IN  /\ SortedSet(here \cap seen,
                      CollectAvailableSorted(external, found.indexes, session))
                 /\ SortedSet(seen, FindByMethodAvailable(external, method, session))
                 /\ HasMethodAvailable(external, method, session) <=> (seen # {})
                 /\ \A strict \in BOOLEAN :
                      SortedSet(IF here # {} THEN here \cap seen
                                ELSE IF strict THEN {} ELSE seen,
                        ResolveSearchCandidates(external, service, method, session, strict))
  BY DEF ReadsExact
<1> DEFINE found == PosByPN(external, service, method)
           here == About(external, service, method)
<1>2. /\ Places(external, found.indexes)
      /\ Around(external, found.indexes) = here
      /\ found.err = "ok" <=> here # {}
  BY <1>1, Resolved
<1>3. SortedSet(here, YieldSortedValues(external, found.indexes))
  <2> HIDE DEF found, here
  <2>1. SortedSet(Around(external, found.indexes), YieldSortedValues(external, found.indexes))
    BY <1>1, <1>2, Yielded
  <2> QED BY <1>2, <2>1
<1>4. ASSUME NEW session \in Sessions \cup {Global}
      PROVE  LET seen == Offered(external, method, session)
             IN  /\ SortedSet(here \cap seen,
                      CollectAvailableSorted(external, found.indexes, session))
                 /\ SortedSet(seen, FindByMethodAvailable(external, method, session))
                 /\ HasMethodAvailable(external, method, session) <=> (seen # {})
                 /\ \A strict \in BOOLEAN :
                      SortedSet(IF here # {} THEN here \cap seen
                                ELSE IF strict THEN {} ELSE seen,
                        ResolveSearchCandidates(external, service, method, session, strict))
  <2> DEFINE seen == Offered(external, method, session)
             collected == CollectAvailableSorted(external, found.indexes, session)
             fallback == FindByMethodAvailable(external, method, session)
  <2>1. here \cap seen = {s \in here : VisibleTo(s, session)}
    BY DEF About, Offered
  <2> HIDE DEF here
  <2>2. SortedSet(here \cap seen, collected)
    <3> HIDE DEF found
    <3>1. SortedSet({s \in Around(external, found.indexes) : VisibleTo(s, session)}, collected)
      BY <1>1, <1>2, Collected
    <3> QED BY <1>2, <2>1, <3>1
  <2>3. SortedSet(seen, fallback) /\ (HasMethodAvailable(external, method, session) <=> seen # {})
    BY <1>1, FoundByMethod
  <2>4. SortedSet({}, <<>>)
    BY NoneListed, ListsAll, FS_EmptySet DEF Ordered
  <2>5. ASSUME NEW strict \in BOOLEAN
        PROVE  SortedSet(IF here # {} THEN here \cap seen ELSE IF strict THEN {} ELSE seen,
                         ResolveSearchCandidates(external, service, method, session, strict))
    <3> DEFINE result == ResolveSearchCandidates(external, service, method, session, strict)
    <3>1. result = IF found.err = "ok" THEN collected
                   ELSE IF strict \/ ~HasMethodAvailable(external, method, session) THEN <<>>
                   ELSE fallback
      BY DEF ResolveSearchCandidates
    <3> HIDE DEF result, collected, fallback, seen, found
    <3>2. SortedSet(IF here # {} THEN here \cap seen ELSE IF strict THEN {} ELSE seen, result)
      <4>1. CASE here # {}
        <5>1. result = collected
          BY <1>2, <3>1, <4>1
        <5>2. (IF here # {} THEN here \cap seen ELSE IF strict THEN {} ELSE seen) = here \cap seen
          BY <4>1
        <5> QED BY <2>2, <5>1, <5>2
      <4>2. CASE here = {} /\ (strict \/ seen = {})
        <5>1. result = <<>>
          BY <1>2, <2>3, <3>1, <4>2
        <5>2. (IF here # {} THEN here \cap seen ELSE IF strict THEN {} ELSE seen) = {}
          BY <4>2
        <5> QED BY <2>4, <5>1, <5>2
      <4>3. CASE here = {} /\ ~strict /\ seen # {}
        <5>1. result = fallback
          BY <1>2, <2>3, <3>1, <4>3
        <5>2. (IF here # {} THEN here \cap seen ELSE IF strict THEN {} ELSE seen) = seen
          BY <4>3
        <5> QED BY <2>3, <5>1, <5>2
      <4> QED BY <4>1, <4>2, <4>3
    <3> QED BY <3>2 DEF result
  <2> HIDE DEF found
  <2> QED BY <2>2, <2>3, <2>5
<1> QED BY <1>2, <1>3, <1>4 DEF About, Offered

\* Every read of a search, and the listing, finds exactly the stubs stored
\* for what it asks, each once and in priority order, after any sequence of
\* operations.
THEOREM ReadsAreExact == Spec => []ReadsExact
BY StorageInvariant, StorageInvReads, PTL
=============================================================================
