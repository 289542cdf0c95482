---------------------------- MODULE ServerProofs ----------------------------
(***************************************************************************)
(* Proofs about the servers and their clients: a request of an HTTP        *)
(* gateway, for any body, any limit and any number of messages; the        *)
(* registry of descriptors that the REST server changes, and the cache of  *)
(* its resolver, for any pool of files and any number of lookups and       *)
(* changes; the start-up and the shutdown of the process, for any number   *)
(* of requests and functions; a test of the SDK, for any number of         *)
(* callers, expectations, links, calls and failing requests.               *)
(***************************************************************************)
EXTENDS Gateways, Descriptors, Server, Sdk, Integers, SequenceTheorems, FiniteSetTheorems,
        WellFoundedInduction, TLAPS

----------------------------------------------------------------------------
(* Of a gateway's request.                                                 *)

Places == {"body", "route", "unary", "handler", "open", "await", "record", "finish",
           "ending", "returned"}
Halves == [frame : {"msg", "end", "plain"}, part : {1, 2}]
Left == [size : Nat, good : BOOLEAN]

Typed ==
  /\ req \in Requests
  /\ client \in {"sending", "closed", "broken"} /\ arrived \in 0..Len(req.frames)
  /\ at \in Places
  /\ body \in Seq(Left) /\ got \in Seq(Nat)
  /\ cut \in BOOLEAN /\ eof \in BOOLEAN
  /\ typed \in BOOLEAN /\ out \in Seq(Halves)
  /\ resp \in {"off", "recv", "head", "rest", "done"}
  /\ reqs \in {"off", "run", "ok", "bad"}
  /\ heard \in BOOLEAN /\ gaveUp \in BOOLEAN

\* What of a response is an end frame, and which messages come behind one.
EndsOf(q) == {i \in 1..Len(q) : q[i].frame = "end"}
LateOf(q) == {j \in 1..Len(q) : \E i \in EndsOf(q) : i < j /\ q[j].frame = "msg"}

\* Each second half follows its first; behind an end come only ends.
Paired(q) == \A i \in 1..Len(q) : q[i].part = 2 => i > 1 /\ q[i - 1] = Half(q[i].frame, 1)
Closed(q) == \A i \in EndsOf(q) : \A j \in i..Len(q) : q[j].frame = "end"

\* The response pump runs beside the handler until that waits no longer; what
\* it leaves behind then ends with an error.
PumpInv ==
  /\ at \in {"body", "route", "unary", "handler", "open"} => resp = "off"
  /\ ~gaveUp /\ at # "await" => resp \in {"off", "done"}
  /\ gaveUp => at \in {"record", "finish", "ending", "returned"} /\ code = "Error"

\* The content type comes first, but for an end that needs none.
HeaderInv ==
  out # <<>> =>
    \/ typed
    \/ at \in {"ending", "returned"} /\ req.proto = "web" /\ code = "OK" /\ out[1].frame = "end"

\* The end comes in two halves, of which the second returns.
EndInv ==
  /\ at \notin {"ending", "returned"} => EndsOf(out) = {}
  /\ at = "ending" => \E i \in 1..Len(out) : EndsOf(out) = {i}
  /\ at = "returned" =>
       \/ /\ ~gaveUp
          /\ \/ out = <<Half("plain", 1)>>
             \/ ~Streaming /\ code = "Unencodable" /\ out = <<>>
             \/ ~Streaming /\ req.proto = "connect" /\ out = Frame("msg")
       \/ \E i, j \in 1..Len(out) : i # j /\ EndsOf(out) = {i, j}

\* A pump that was not left behind never leaves a message half done, and one that
\* was has at most a message to go.
FrameInv ==
  /\ at \in {"body", "route", "unary"} => out = <<>>
  /\ resp = "rest" => out # <<>>
  /\ ~gaveUp =>
       /\ Paired(out) /\ Closed(out)
       /\ resp = "rest" => out[Len(out)] = Half("msg", 1)
       /\ at = "ending" => out # <<>> /\ out[Len(out)] = Half("end", 1)
  /\ gaveUp =>
       /\ resp \in {"off", "recv", "head"} => LateOf(out) = {}
       /\ resp = "rest" => \E j \in Nat : LateOf(out) \subseteq {j}
       /\ \E j, k \in Nat : LateOf(out) \subseteq {j, k}

ResponseInv == PumpInv /\ HeaderInv /\ EndInv /\ FrameInv

\* Why a handler may take the messages for complete before they are.
Short == Size(Len(req.frames)) > Limit \/ client = "broken"
Complete(n) == n = Len(req.frames) \/ Short

\* The handlers and pumps of streams are not those of unary calls.
PlaceInv ==
  /\ at \in {"handler", "open", "await", "record"} => Streaming
  /\ at = "unary" => ~Streaming
  /\ reqs # "off" => Streaming
  /\ at = "body" => body = <<>> /\ got = <<>> /\ ~eof /\ ~cut /\ reqs = "off"

\* What the handler has and what is left of the body are the first messages of
\* the client, and all of them unless the body ends short.
BodyInv ==
  /\ client = "closed" => arrived = Len(req.frames)
  /\ cut => Short
  /\ \A i \in 1..Len(got) : got[i] = i
  /\ Streaming =>
       /\ \A i \in 1..Len(body) : body[i].size = Len(got) + i
       /\ at # "body" => Complete(Len(got) + Len(body))
       /\ eof => body = <<>>
  /\ ~Streaming =>
       /\ Len(body) <= 1 /\ \A i \in 1..Len(body) : body[i].size = i
       /\ ~eof => got = <<>>
       /\ at # "body" => Complete(Len(body))
       /\ eof => Complete(Len(got))

DeliverInv == PlaceInv /\ BodyInv

----------------------------------------------------------------------------
(* Halves behind each other.                                               *)

\* What Append does, position by position.
LEMMA AppendIs ==
  ASSUME NEW q \in Seq(Halves), NEW h \in Halves
  PROVE  /\ Append(q, h) \in Seq(Halves) /\ Append(q, h) # <<>>
         /\ Len(q) \in Nat /\ Len(Append(q, h)) = Len(q) + 1
         /\ Append(q, h)[Len(q) + 1] = h
         /\ \A i \in 1..Len(q) : Append(q, h)[i] = q[i]
BY AppendProperties, LenProperties

\* A half of an end frame is one end more, and leaves no message behind it.
LEMMA EndAdded ==
  ASSUME NEW q \in Seq(Halves), NEW h \in Halves, h.frame = "end"
  PROVE  /\ EndsOf(Append(q, h)) = EndsOf(q) \cup {Len(q) + 1}
         /\ LateOf(Append(q, h)) = LateOf(q)
         /\ Closed(q) => Closed(Append(q, h))
<1> DEFINE r == Append(q, h)
           n == Len(q)
<1>1. /\ n \in Nat /\ Len(r) = n + 1 /\ r[n + 1] = h
      /\ \A i \in 1..n : r[i] = q[i]
  BY AppendIs
<1> HIDE DEF r
<1>2. EndsOf(r) = EndsOf(q) \cup {n + 1}
  BY <1>1 DEF EndsOf
<1>3. LateOf(r) = LateOf(q)
  <2>1. \A j \in 1..n + 1 :
          (\E i \in EndsOf(r) : i < j /\ r[j].frame = "msg")
          <=> j \in 1..n /\ \E i \in EndsOf(q) : i < j /\ q[j].frame = "msg"
    BY <1>1, <1>2 DEF EndsOf
  <2> QED BY <1>1, <2>1 DEF LateOf
<1>4. Closed(q) => Closed(r)
  BY <1>1, <1>2 DEF Closed, EndsOf
<1> QED BY <1>2, <1>3, <1>4 DEF r

\* A half of a message adds no end, and comes late only behind one.
LEMMA MessageAdded ==
  ASSUME NEW q \in Seq(Halves), NEW h \in Halves, h.frame = "msg"
  PROVE  /\ EndsOf(Append(q, h)) = EndsOf(q)
         /\ LateOf(Append(q, h)) \subseteq LateOf(q) \cup {Len(q) + 1}
         /\ EndsOf(q) = {} => LateOf(Append(q, h)) = {} /\ Closed(Append(q, h))
<1> DEFINE r == Append(q, h)
           n == Len(q)
<1>1. /\ n \in Nat /\ Len(r) = n + 1 /\ r[n + 1] = h
      /\ \A i \in 1..n : r[i] = q[i]
  BY AppendIs
<1> HIDE DEF r
<1>2. EndsOf(r) = EndsOf(q)
  BY <1>1 DEF EndsOf
<1>3. LateOf(r) \subseteq LateOf(q) \cup {n + 1}
  BY <1>1, <1>2 DEF LateOf
<1>4. EndsOf(q) = {} => LateOf(r) = {} /\ Closed(r)
  BY <1>2 DEF LateOf, Closed
<1> QED BY <1>2, <1>3, <1>4 DEF r

\* A second half is behind its first.
LEMMA PairKept ==
  ASSUME NEW q \in Seq(Halves), NEW h \in Halves, Paired(q),
         h.part = 2 => q # <<>> /\ q[Len(q)] = Half(h.frame, 1)
  PROVE  Paired(Append(q, h))
<1> DEFINE r == Append(q, h)
           n == Len(q)
<1>1. /\ n \in Nat /\ Len(r) = n + 1 /\ r[n + 1] = h
      /\ \A i \in 1..n : r[i] = q[i]
  BY AppendIs
<1>2. q # <<>> => n > 0
  OBVIOUS
<1> HIDE DEF r
<1>3. ASSUME NEW i \in 1..Len(r), r[i].part = 2
      PROVE  i > 1 /\ r[i - 1] = Half(r[i].frame, 1)
  <2>1. CASE i \in 1..n
    <3>1. i > 1 /\ q[i - 1] = Half(q[i].frame, 1)
      BY <1>1, <1>3, <2>1 DEF Paired
    <3> QED BY <1>1, <2>1, <3>1
  <2>2. CASE i = n + 1
    BY <1>1, <1>2, <1>3, <2>2
  <2> QED BY <1>1, <2>1, <2>2
<1> QED BY <1>3 DEF Paired, r

\* The two halves of a message at once, before any end.
LEMMA FrameAdded ==
  ASSUME NEW q \in Seq(Halves)
  PROVE  /\ q \o Frame("msg") \in Seq(Halves) /\ q \o Frame("msg") # <<>>
         /\ EndsOf(q) = {} => EndsOf(q \o Frame("msg")) = {} /\ Closed(q \o Frame("msg"))
         /\ Paired(q) => Paired(q \o Frame("msg"))
<1> DEFINE h == Half("msg", 1)
           k == Half("msg", 2)
           p == Append(q, h)
           r == Append(p, k)
<1>1. h \in Halves /\ k \in Halves /\ h.frame = "msg" /\ k.frame = "msg"
      /\ h.part = 1 /\ k.part = 2 /\ h = Half(k.frame, 1)
  BY DEF Half, Halves
<1>2. q \o Frame("msg") = r
  <2>1. Frame("msg") = <<h, k>>
    BY DEF Frame
  <2> HIDE DEF h, k
  <2>2. q \o <<h, k>> = r
    BY <1>1
  <2> QED BY <2>1, <2>2
<1> HIDE DEF h, k
<1>3. p \in Seq(Halves) /\ p # <<>> /\ p[Len(p)] = h
  BY <1>1, AppendIs
<1> HIDE DEF p
<1>4. r \in Seq(Halves) /\ r # <<>>
  BY <1>1, <1>3, AppendIs
<1>5. EndsOf(q) = {} => EndsOf(r) = {} /\ Closed(r)
  <2>1. EndsOf(p) = EndsOf(q)
    BY <1>1, MessageAdded DEF p
  <2> QED BY <1>1, <1>3, <2>1, MessageAdded
<1>6. Paired(q) => Paired(r)
  <2>1. Paired(q) => Paired(p)
    BY <1>1, PairKept DEF p
  <2> QED BY <1>1, <1>3, <2>1, PairKept
<1> QED BY <1>2, <1>4, <1>5, <1>6

\* A plain response is neither a message nor an end.
LEMMA PlainIs ==
  LET q == <<Half("plain", 1)>>
  IN  q \in Seq(Halves) /\ EndsOf(q) = {} /\ LateOf(q) = {} /\ Paired(q) /\ Closed(q)
<1> DEFINE q == <<Half("plain", 1)>>
<1>1. q \in Seq(Halves) /\ Len(q) = 1 /\ q[1].frame = "plain" /\ q[1].part = 1
  BY DEF Half, Halves
<1> HIDE DEF q
<1> QED BY <1>1 DEF EndsOf, LateOf, Paired, Closed, q

\* Nothing is a response of no frames.
LEMMA NoneIs == EndsOf(<<>>) = {} /\ LateOf(<<>>) = {} /\ Paired(<<>>) /\ Closed(<<>>)
BY DEF EndsOf, LateOf, Paired, Closed

----------------------------------------------------------------------------
(* The bytes of the body.                                                  *)

\* Every set of naturals with an element has a least one.
LEMMA LeastElement ==
  ASSUME NEW S \in SUBSET Nat, S # {}
  PROVE  \E n \in S : \A m \in S : n <= m
<1> DEFINE Below == {ij \in Nat \X Nat : ij[1] < ij[2]}
<1>1. OpToRel(<, Nat) = Below
  BY DEF OpToRel
<1>2. IsWellFoundedOn(Below, Nat)
  BY NatLessThanWellFounded, <1>1
<1>3. PICK n \in S : \A m \in S : <<m, n>> \notin Below
  <2> HIDE DEF Below
  <2> QED BY <1>2, WFMin
<1>4. ASSUME NEW m \in S PROVE n <= m
  <2>1. <<m, n>> \notin Below
    BY <1>3
  <2>2. m \in Nat /\ n \in Nat
    OBVIOUS
  <2> QED BY <2>1, <2>2
<1> QED BY <1>4

\* Induction over the iterations of a loop, as a fact about sets.
LEMMA Induct ==
  ASSUME NEW S, 0 \in S, \A n \in Nat : n \in S => n + 1 \in S
  PROVE  Nat \subseteq S
<1> SUFFICES ASSUME Nat \ S # {} PROVE FALSE
  OBVIOUS
<1>1. PICK n \in Nat \ S : \A m \in Nat \ S : n <= m
  BY LeastElement
<1>2. n # 0 /\ n - 1 \in Nat
  BY <1>1
<1>3. n - 1 \in S
  BY <1>1, <1>2
<1>4. (n - 1) + 1 \in S
  BY <1>2, <1>3
<1> QED BY <1>1, <1>4

\* A sum up to n, as its recursive definition says.
LEMMA SizeIs ==
  ASSUME Typed
  PROVE  /\ Size(0) = 0 /\ \A n \in 0..Len(req.frames) : Size(n) \in Nat
         /\ \A n \in Nat : n + 1 <= Len(req.frames) =>
              Size(n + 1) = Size(n) + req.frames[n + 1].size /\ Size(n + 1) > Size(n)
<1> DEFINE w == [i \in 1..Len(req.frames) |-> req.frames[i].size]
           L == Len(req.frames)
           Sums(f, n) == f = [i \in 0..n |-> IF i = 0 THEN 0 ELSE f[i - 1] + req.frames[i].size]
           sum == CHOOSE f : Sums(f, L)
<1>1. L \in Nat /\ \A i \in 1..L : req.frames[i].size \in Nat \ {0}
  <2>1. req.frames \in Seq([size : Nat \ {0}, good : BOOLEAN])
    BY GatewayAssumption DEF Typed, RequestShapes
  <2>2. \A i \in 1..Len(req.frames) : req.frames[i] \in [size : Nat \ {0}, good : BOOLEAN]
    BY <2>1, ElementOfSeq
  <2>3. L \in Nat
    BY <2>1, LenProperties
  <2> QED BY <2>2, <2>3
<1>2. \A n \in 0..L : Size(n) = sum[n]
  BY DEF Size
<1>3. \A n \in Nat : \E f : Sums(f, n)
  <2> DEFINE S == {n \in Nat : \E f : Sums(f, n)}
  <2>1. 0 \in S
    <3>1. Sums([i \in 0..0 |-> 0], 0) OBVIOUS
    <3> QED BY <3>1
  <2>2. ASSUME NEW n \in Nat, n \in S PROVE n + 1 \in S
    <3>1. PICK f : Sums(f, n) BY <2>2
    <3> DEFINE g == [i \in 0..n + 1 |->
                       IF i = n + 1 THEN f[n] + req.frames[n + 1].size ELSE f[i]]
    <3>2. Sums(g, n + 1) BY <3>1
    <3>3. \E h : Sums(h, n + 1)
      <4> HIDE DEF g, Sums
      <4> QED BY <3>2
    <3> HIDE DEF Sums
    <3> QED BY <3>3
  <2> HIDE DEF S
  <2>3. Nat \subseteq S BY <2>1, <2>2, Induct
  <2> QED BY <2>3 DEF S
<1>4. Sums(sum, L)
  <2>1. \E f : Sums(f, L) BY <1>1, <1>3
  <2> HIDE DEF Sums, L
  <2> QED BY <2>1
<1> HIDE DEF sum
<1>5. /\ sum[0] = 0
      /\ \A n \in Nat : n + 1 <= L => sum[n + 1] = sum[n] + req.frames[n + 1].size
  BY <1>1, <1>4
<1> HIDE DEF Sums, L
<1>6. \A n \in Nat : n <= L => sum[n] \in Nat
  <2> DEFINE S == {n \in Nat : n <= L => sum[n] \in Nat}
  <2>1. 0 \in S BY <1>5
  <2>2. ASSUME NEW n \in Nat, n \in S PROVE n + 1 \in S
    <3>1. n + 1 <= L => sum[n] \in Nat /\ n + 1 \in 1..L BY <1>1, <2>2
    <3> QED BY <1>1, <1>5, <3>1
  <2> HIDE DEF S
  <2>3. Nat \subseteq S BY <2>1, <2>2, Induct
  <2> QED BY <2>3 DEF S
<1>7. ASSUME NEW n \in Nat, n + 1 <= L
      PROVE  Size(n + 1) = Size(n) + req.frames[n + 1].size /\ Size(n + 1) > Size(n)
  <2>1. n + 1 \in 1..L /\ n \in 0..L /\ n + 1 \in 0..L /\ n <= L
    BY <1>1, <1>7
  <2> QED BY <1>1, <1>2, <1>5, <1>6, <1>7, <2>1
<1>8. 0 \in 0..L
  BY <1>1
<1> QED BY <1>1, <1>2, <1>5, <1>6, <1>7, <1>8 DEF L

\* More frames are more bytes.
LEMMA SizeGrows ==
  ASSUME Typed, NEW k \in Nat, NEW n \in Nat, k < n, n <= Len(req.frames)
  PROVE  Size(n) > Size(k)
<1> DEFINE L == Len(req.frames)
           S == {d \in Nat : k + 1 + d <= L => Size(k + 1 + d) > Size(k)}
<1>1. L \in Nat
  <2>1. req.frames \in Seq([size : Nat \ {0}, good : BOOLEAN])
    BY GatewayAssumption DEF Typed, RequestShapes
  <2> QED BY <2>1, LenProperties
<1>2. \A m \in Nat : m <= L => Size(m) \in Nat
  BY <1>1, SizeIs
<1>3. \A m \in Nat : m + 1 <= L => Size(m + 1) > Size(m)
  BY SizeIs
<1> HIDE DEF L
<1>4. 0 \in S
  BY <1>3
<1>5. ASSUME NEW d \in Nat, d \in S PROVE d + 1 \in S
  <2> SUFFICES ASSUME k + 1 + (d + 1) <= L PROVE Size(k + 1 + (d + 1)) > Size(k)
    OBVIOUS
  <2> DEFINE m == k + 1 + d
  <2>1. m \in Nat /\ m + 1 <= L /\ m <= L /\ k <= L /\ m + 1 = k + 1 + (d + 1)
    BY <1>1
  <2>2. Size(m) > Size(k)
    BY <1>5, <2>1
  <2> HIDE DEF m
  <2>3. Size(m + 1) > Size(m) /\ Size(m) \in Nat /\ Size(m + 1) \in Nat /\ Size(k) \in Nat
    BY <1>2, <1>3, <2>1
  <2> QED BY <2>1, <2>2, <2>3
<1> HIDE DEF S
<1>6. Nat \subseteq S
  BY <1>4, <1>5, Induct
<1>7. n - (k + 1) \in Nat /\ k + 1 + (n - (k + 1)) = n
  OBVIOUS
<1>8. n - (k + 1) \in S
  BY <1>6, <1>7
<1> QED BY <1>7, <1>8 DEF S, L

\* The frames that fit into what the log keeps are those before the first that
\* does not.
LEMMA WholeIs ==
  ASSUME Typed, NEW n \in 0..Len(req.frames)
  PROVE  /\ Whole(n) \in 0..n /\ Size(Whole(n)) <= Limit
         /\ Whole(n) < n => Size(Whole(n) + 1) > Limit
<1> DEFINE S == {k \in 0..n : k = n \/ Size(k + 1) > Limit}
           Fits(k) == Size(k) <= Limit /\ (k < n => Size(k + 1) > Limit)
<1>1. n \in Nat /\ n <= Len(req.frames) /\ Limit \in Nat
  BY GatewayAssumption
<1>2. PICK k \in S : \A m \in S : k <= m
  <2>1. S \in SUBSET Nat /\ n \in S
    BY <1>1
  <2> QED BY <2>1, LeastElement
<1>3. Size(k) <= Limit
  <2>1. CASE k = 0
    BY <1>1, <2>1, SizeIs
  <2>2. CASE k > 0
    <3>1. k - 1 \in 0..n /\ k - 1 # n /\ (k - 1) + 1 = k /\ k \in 0..n
      BY <1>1, <2>2
    <3>2. k - 1 \notin S
      BY <1>2, <2>2
    <3>3. ~(Size(k) > Limit)
      BY <3>1, <3>2
    <3>4. Size(k) \in Nat
      <4>1. k \in 0..Len(req.frames)
        BY <1>1, <3>1
      <4> QED BY <4>1, SizeIs
    <3> QED BY <1>1, <3>3, <3>4
  <2> QED BY <1>1, <2>1, <2>2
<1>4. \E m \in 0..n : Fits(m)
  BY <1>1, <1>2, <1>3
<1>5. Whole(n) = CHOOSE m \in 0..n : Fits(m)
  BY DEF Whole
<1> HIDE DEF Fits
<1>6. Whole(n) \in 0..n /\ Fits(Whole(n))
  BY <1>4, <1>5
<1> QED BY <1>6 DEF Fits

----------------------------------------------------------------------------
(* Type correctness.                                                       *)

\* What the assumption says of the request that is served.
LEMMA RequestIs ==
  ASSUME Typed
  PROVE  /\ req.frames \in Seq([size : Nat \ {0}, good : BOOLEAN])
         /\ req.proto \in Protocols
         /\ ~Streaming => Len(req.frames) <= 1
         /\ Len(req.frames) \in Nat /\ arrived \in Nat /\ arrived <= Len(req.frames)
<1>1. req \in RequestShapes /\ (req.kind = "unary" => Len(req.frames) <= 1)
  BY GatewayAssumption DEF Typed
<1>2. req.frames \in Seq([size : Nat \ {0}, good : BOOLEAN]) /\ req.proto \in Protocols
  BY <1>1 DEF RequestShapes
<1>3. Len(req.frames) \in Nat
  BY <1>2, LenProperties
<1> QED BY <1>1, <1>2, <1>3 DEF Typed, Streaming

\* What is left of a body when its first frame is taken.
LEMMA BodyTaken ==
  ASSUME Typed, body # <<>>
  PROVE  /\ Tail(body) \in Seq(Left)
         /\ Head(body) = body[1] /\ body[1].size \in Nat /\ body[1].good \in BOOLEAN
         /\ Len(body) \in Nat /\ Len(body) > 0 /\ Len(Tail(body)) = Len(body) - 1
         /\ \A i \in 1..Len(body) - 1 : Tail(body)[i] = body[i + 1]
<1>1. body \in Seq(Left)
  BY DEF Typed
<1>2. Len(body) \in Nat /\ Len(body) > 0
  BY <1>1, EmptySeq, LenProperties
<1>3. Head(body) = body[1] /\ body[1] \in Left
  BY <1>1, <1>2, ElementOfSeq
<1>4. /\ Tail(body) \in Seq(Left) /\ Len(Tail(body)) = Len(body) - 1
      /\ \A i \in 1..Len(body) - 1 : Tail(body)[i] = body[i + 1]
  BY <1>1, HeadTailProperties
<1> QED BY <1>2, <1>3, <1>4 DEF Left

\* The states of a request are those declared.
LEMMA TypeKept == Typed /\ [Next]_vars => Typed'
<1> SUFFICES ASSUME Typed, [Next]_vars PROVE Typed'
  OBVIOUS
<1>1. CASE UNCHANGED vars
  BY <1>1 DEF Typed, vars
<1>2. CASE ClientSends
  BY <1>2, RequestIs DEF ClientSends, Typed, bodyVars, wireVars, pumpVars
<1>3. CASE ClientEnds
  BY <1>3 DEF ClientEnds, Typed, bodyVars, wireVars, pumpVars
<1>4. CASE CaptureBody
  <2> DEFINE n == Whole(arrived)
  <2>1. n \in 0..arrived
    BY WholeIs DEF Typed
  <2>2. \A i \in 1..n : req.frames[i] \in [size : Nat \ {0}, good : BOOLEAN]
    <3>1. /\ \A i \in 1..Len(req.frames) : req.frames[i] \in [size : Nat \ {0}, good : BOOLEAN]
          /\ Len(req.frames) \in Nat /\ arrived \in Nat /\ arrived <= Len(req.frames)
      BY RequestIs, ElementOfSeq
    <3> HIDE DEF n
    <3> QED BY <2>1, <3>1
  <2>3. n \in Nat
    BY <2>1, RequestIs
  <2>4. body' = [i \in 1..n |-> [req.frames[i] EXCEPT !.size = i]]
    BY <1>4 DEF CaptureBody
  <2>5. cut' \in BOOLEAN
    <3>1. cut' \in IF n < arrived THEN {Size(n) < Limit}
                   ELSE IF client = "broken" /\ n < Len(req.frames) THEN BOOLEAN ELSE {FALSE}
      BY <1>4 DEF CaptureBody
    <3>2. n \in 0..Len(req.frames)
      BY <2>1, RequestIs
    <3>3. {Size(n) < Limit} \subseteq BOOLEAN
      OBVIOUS
    <3> HIDE DEF n
    <3> QED BY <3>1, <3>3
  <2> HIDE DEF n
  <2>6. \A i \in 1..n : [req.frames[i] EXCEPT !.size = i] \in Left
    BY <2>2, <2>3 DEF Left
  <2>7. body' \in Seq(Left)
    <3>1. body' \in [1..n -> Left]
      BY <2>4, <2>6
    <3> QED BY <2>3, <3>1, SeqDef
  <2> QED BY <1>4, <2>5, <2>7 DEF CaptureBody, Typed, Places, clientVars, wireVars, pumpVars
<1>5. CASE Refuse
  BY <1>5, PlainIs DEF Refuse, Plain, Typed, Places, clientVars, bodyVars, wireVars, pumpVars
<1>6. CASE Dispatch
  BY <1>6 DEF Dispatch, Typed, Places, clientVars, bodyVars, wireVars, pumpVars
<1>7. CASE Finish
  <2>1. out' \in Seq(Halves)
    BY <1>7, AppendIs DEF Finish, Typed, Half, Halves
  <2>2. typed' \in BOOLEAN
    BY <1>7 DEF Finish, SendHeader, Typed
  <2> QED BY <1>7, <2>1, <2>2 DEF Finish, Typed, Places, clientVars, bodyVars, pumpVars
<1>8. CASE FinishRest
  <2>1. out' \in Seq(Halves)
    BY <1>8, AppendIs DEF FinishRest, Typed, Half, Halves
  <2> QED BY <1>8, <2>1 DEF FinishRest, Typed, Places, clientVars, bodyVars, pumpVars
<1>9. CASE UnaryRequest
  <2>1. got' \in Seq(Nat) /\ eof' \in BOOLEAN
    <3>1. CASE got' = got /\ eof' \in BOOLEAN
      BY <3>1 DEF Typed
    <3>2. CASE body # <<>> /\ got' = Append(got, body[1].size) /\ eof'
      <4>1. body[1].size \in Nat
        BY <3>2, BodyTaken
      <4> QED BY <1>9, <3>2, <4>1 DEF UnaryRequest, Typed
    <3> QED BY <1>9, <3>1, <3>2 DEF UnaryRequest, Typed
  <2>2. typed' \in BOOLEAN /\ out' \in Seq(Halves) /\ at' \in Places
    BY <1>9, PlainIs DEF UnaryRequest, Return, Typed, Places, wireVars
  <2> QED BY <1>9, <2>1, <2>2 DEF UnaryRequest, Typed, clientVars, pumpVars
<1>10. CASE UnaryAnswer
  <2>1. out' \in Seq(Halves)
    BY <1>10, PlainIs, FrameAdded DEF UnaryAnswer, Typed, wireVars
  <2>2. typed' \in BOOLEAN /\ at' \in Places
    BY <1>10 DEF UnaryAnswer, SendHeader, Return, Typed, Places, wireVars
  <2> QED BY <1>10, <2>1, <2>2 DEF UnaryAnswer, Typed, clientVars, bodyVars, pumpVars
<1>11. CASE HandlerReceives
  <2>1. got' \in Seq(Nat) /\ body' \in Seq(Left)
    <3>1. CASE body # <<>> /\ got' = Append(got, Head(body).size) /\ body' = Tail(body)
      BY <3>1, BodyTaken DEF Typed
    <3>2. CASE UNCHANGED <<got, body>>
      BY <3>2 DEF Typed
    <3> QED BY <1>11, <3>1, <3>2 DEF HandlerReceives
  <2>2. eof' \in BOOLEAN /\ at' \in Places
    BY <1>11 DEF HandlerReceives, Return, Typed, Places
  <2> QED BY <1>11, <2>1, <2>2 DEF HandlerReceives, Typed, clientVars, wireVars, pumpVars
<1>12. CASE HandlerSends
  <2>1. out' \in Seq(Halves)
    BY <1>12, FrameAdded DEF HandlerSends, Typed
  <2>2. typed' \in BOOLEAN /\ at' \in Places
    BY <1>12 DEF HandlerSends, SendHeader, Return, Typed, Places
  <2> QED BY <1>12, <2>1, <2>2 DEF HandlerSends, Typed, clientVars, bodyVars, pumpVars
<1>13. CASE HandlerReturns
  BY <1>13 DEF HandlerReturns, Return, Typed, Places, clientVars, bodyVars, wireVars, pumpVars
<1>14. CASE OpenPumps
  BY <1>14 DEF OpenPumps, Return, Typed, Places, clientVars, bodyVars, wireVars
<1>15. CASE PumpRequest
  <2>1. got' \in Seq(Nat) /\ body' \in Seq(Left)
    <3>1. CASE body # <<>> /\ got' = Append(got, Head(body).size) /\ body' = Tail(body)
      BY <3>1, BodyTaken DEF Typed
    <3>2. CASE UNCHANGED <<got, body>>
      BY <3>2 DEF Typed
    <3> QED BY <1>15, <3>1, <3>2 DEF PumpRequest
  <2>2. eof' \in BOOLEAN /\ reqs' \in {"off", "run", "ok", "bad"}
    BY <1>15 DEF PumpRequest, Typed
  <2> QED BY <1>15, <2>1, <2>2 DEF PumpRequest, Typed, clientVars, wireVars
<1>16. CASE UpstreamAnswers
  BY <1>16 DEF UpstreamAnswers, Typed, clientVars, bodyVars, wireVars
<1>17. CASE PumpHead
  <2>1. out' \in Seq(Halves)
    BY <1>17, AppendIs DEF PumpHead, Typed, Half, Halves
  <2>2. typed' \in BOOLEAN
    BY <1>17 DEF PumpHead, SendHeader, Typed
  <2> QED BY <1>17, <2>1, <2>2 DEF PumpHead, Typed, clientVars, bodyVars
<1>18. CASE PumpRest
  <2>1. out' \in Seq(Halves)
    BY <1>18, AppendIs DEF PumpRest, Typed, Half, Halves
  <2> QED BY <1>18, <2>1 DEF PumpRest, Typed, clientVars, bodyVars
<1>19. CASE Await
  BY <1>19 DEF Await, Typed, Places, clientVars, bodyVars, wireVars
<1>20. CASE RecordHeader
  BY <1>20 DEF RecordHeader, Typed, Places, clientVars, bodyVars, wireVars, pumpVars
<1>21. CASE PumpCanceled
  BY <1>21 DEF PumpCanceled, Typed, clientVars, bodyVars, wireVars
<1> QED
  BY <1>1, <1>2, <1>3, <1>4, <1>5, <1>6, <1>7, <1>8, <1>9, <1>10, <1>11, <1>12, <1>13, <1>14,
     <1>15, <1>16, <1>17, <1>18, <1>19, <1>20, <1>21 DEF Next

\* A request is typed from its body to the end of its response.
THEOREM TypeCorrect == Spec => []Typed
<1>1. Init => Typed
  <2> SUFFICES ASSUME Init PROVE Typed
    OBVIOUS
  <2>1. Len(req.frames) \in Nat
    <3>1. req.frames \in Seq([size : Nat \ {0}, good : BOOLEAN])
      BY GatewayAssumption DEF Init, RequestShapes
    <3> QED BY <3>1, LenProperties
  <2>2. <<>> \in Seq(Left) /\ <<>> \in Seq(Nat) /\ <<>> \in Seq(Halves)
    OBVIOUS
  <2>3. body \in Seq(Left) /\ got \in Seq(Nat) /\ out \in Seq(Halves)
    BY ONLY <2>2, Init DEF Init
  <2>4. req \in Requests /\ arrived \in 0..Len(req.frames)
    BY <2>1 DEF Init
  <2> QED BY ONLY <2>3, <2>4, Init DEF Init, Typed, Places
<1> QED BY <1>1, TypeKept, PTL DEF Spec

----------------------------------------------------------------------------
(* The response.                                                           *)

\* A half added at the end, and its place.
LEMMA Added ==
  ASSUME Typed, NEW f \in {"msg", "end"}, NEW n \in {1, 2}, out' = Append(out, Half(f, n))
  PROVE  /\ Half(f, n) \in Halves /\ Half(f, n).frame = f /\ Half(f, n).part = n
         /\ out \in Seq(Halves) /\ out' # <<>> /\ Len(out) \in Nat
         /\ Len(out') = Len(out) + 1 /\ out'[Len(out')] = Half(f, n)
         /\ out # <<>> => out'[1] = out[1]
         /\ out = <<>> => out'[1] = Half(f, n)
<1>1. Half(f, n) \in Halves /\ Half(f, n).frame = f /\ Half(f, n).part = n
  BY DEF Half, Halves
<1>2. out \in Seq(Halves) /\ Len(out) \in Nat
  BY LenProperties DEF Typed
<1>3. /\ out' # <<>> /\ Len(out') = Len(out) + 1 /\ out'[Len(out) + 1] = Half(f, n)
      /\ \A i \in 1..Len(out) : out'[i] = out[i]
  BY <1>1, <1>2, AppendIs
<1>4. out # <<>> => 1 \in 1..Len(out)
  BY <1>2, EmptySeq
<1>5. out = <<>> => Len(out) = 0
  BY <1>2, EmptySeq
<1> QED BY <1>1, <1>2, <1>3, <1>4, <1>5

\* A step that neither writes nor touches the pump.
LEMMA QuietKept ==
  ASSUME ResponseInv, UNCHANGED <<req, out, typed, resp, gaveUp>>,
         \/ at' = at /\ code' = code
         \/ /\ at \notin {"ending", "returned"} /\ at' \notin {"ending", "returned", "body"}
            /\ at' \in {"route", "unary", "handler", "open"} =>
                 at \in {"body", "route", "unary", "handler", "open"}
            /\ at' # "await"
            /\ gaveUp => at' \in {"record", "finish"} /\ code' = code
            /\ at' \in {"body", "route", "unary"} => out = <<>>
            /\ at # "await"
  PROVE  ResponseInv'
<1>1. PumpInv'
  BY DEF ResponseInv, PumpInv
<1>2. HeaderInv'
  BY DEF ResponseInv, HeaderInv
<1>3. EndInv'
  BY DEF ResponseInv, EndInv, Streaming
<1>4. FrameInv'
  BY DEF ResponseInv, FrameInv
<1> QED BY <1>1, <1>2, <1>3, <1>4 DEF ResponseInv

\* A plain response, where nothing was written and no pump was started.
LEMMA PlainKept ==
  ASSUME at \in {"route", "unary"}, ResponseInv, typed' = TRUE, out' = <<Half("plain", 1)>>,
         at' = "returned", UNCHANGED pumpVars
  PROVE  ResponseInv'
<1>0. resp' = "off" /\ ~gaveUp' /\ out' # <<>>
  BY DEF ResponseInv, PumpInv, pumpVars
<1>1. PumpInv'
  BY <1>0 DEF PumpInv
<1>2. HeaderInv'
  BY DEF HeaderInv
<1>3. EndInv'
  BY <1>0, PlainIs DEF EndInv
<1>4. FrameInv'
  BY <1>0, PlainIs DEF FrameInv
<1> QED BY <1>1, <1>2, <1>3, <1>4 DEF ResponseInv

\* The first half of the end.
LEMMA FinishKept == ASSUME Typed, ResponseInv, Finish PROVE ResponseInv'
<1>1. /\ at = "finish" /\ at' = "ending" /\ out' = Append(out, Half("end", 1))
      /\ UNCHANGED <<req, code, resp, gaveUp>>
  BY DEF Finish, clientVars, pumpVars
<1>2. /\ Half("end", 1) \in Halves /\ Half("end", 1).frame = "end" /\ Half("end", 1).part = 1
      /\ out \in Seq(Halves) /\ out' # <<>> /\ Len(out) \in Nat
      /\ Len(out') = Len(out) + 1 /\ out'[Len(out')] = Half("end", 1)
      /\ out = <<>> => out'[1] = Half("end", 1)
  BY <1>1, Added
<1>3. EndsOf(out) = {}
  BY <1>1 DEF ResponseInv, EndInv
<1>4. EndsOf(out') = {Len(out) + 1} /\ LateOf(out') = LateOf(out)
      /\ (Closed(out) => Closed(out')) /\ (Paired(out) => Paired(out'))
  BY <1>1, <1>2, <1>3, EndAdded, PairKept
<1>5. PumpInv'
  BY <1>1 DEF ResponseInv, PumpInv
<1>6. HeaderInv'
  <2>1. out # <<>> => typed
    BY <1>1 DEF ResponseInv, HeaderInv
  <2>2. CASE req.proto = "web" /\ code = "OK"
    BY <1>1, <1>2, <2>1, <2>2 DEF Finish, HeaderInv
  <2>3. CASE ~(req.proto = "web" /\ code = "OK")
    <3>1. typed'
      BY <2>1, <2>3 DEF Finish, SendHeader
    <3> QED BY <3>1 DEF HeaderInv
  <2> QED BY <2>2, <2>3
<1>7. EndInv'
  <2>1. Len(out) + 1 \in 1..Len(out')
    BY <1>2
  <2> QED BY <1>1, <1>4, <2>1 DEF EndInv
<1>8. FrameInv'
  BY <1>1, <1>2, <1>4 DEF ResponseInv, PumpInv, FrameInv
<1> QED BY <1>5, <1>6, <1>7, <1>8 DEF ResponseInv

\* The second half of the end, in whose way only a pump left behind may come.
LEMMA FinishRestKept == ASSUME Typed, ResponseInv, FinishRest PROVE ResponseInv'
<1>1. /\ at = "ending" /\ at' = "returned" /\ out' = Append(out, Half("end", 2))
      /\ UNCHANGED <<req, code, typed, resp, gaveUp>>
  BY DEF FinishRest, clientVars, pumpVars
<1>2. /\ Half("end", 2) \in Halves /\ Half("end", 2).frame = "end" /\ Half("end", 2).part = 2
      /\ out \in Seq(Halves) /\ out' # <<>> /\ Len(out) \in Nat
      /\ Len(out') = Len(out) + 1 /\ out'[Len(out')] = Half("end", 2)
      /\ out # <<>> => out'[1] = out[1]
  BY <1>1, Added
<1>3. PICK i \in 1..Len(out) : EndsOf(out) = {i}
  BY <1>1 DEF ResponseInv, EndInv
<1>4. EndsOf(out') = {i, Len(out) + 1} /\ LateOf(out') = LateOf(out)
      /\ (Closed(out) => Closed(out'))
  BY <1>1, <1>2, <1>3, EndAdded
<1>5. out # <<>>
  BY <1>2, <1>3
<1>6. ~gaveUp => Paired(out')
  <2>1. ~gaveUp => Paired(out) /\ out[Len(out)] = Half("end", 1)
    BY <1>1 DEF ResponseInv, FrameInv
  <2> QED BY <1>1, <1>2, <1>5, <2>1, PairKept
<1>7. PumpInv'
  BY <1>1 DEF ResponseInv, PumpInv
<1>8. HeaderInv'
  BY <1>1, <1>2, <1>5 DEF ResponseInv, HeaderInv
<1>9. EndInv'
  <2>1. i \in 1..Len(out') /\ Len(out) + 1 \in 1..Len(out') /\ i # Len(out) + 1
    BY <1>2
  <2> QED BY <1>1, <1>4, <2>1 DEF EndInv
<1>10. FrameInv'
  BY <1>1, <1>2, <1>4, <1>6 DEF ResponseInv, PumpInv, FrameInv
<1> QED BY <1>7, <1>8, <1>9, <1>10 DEF ResponseInv

\* The answer of a unary call.
LEMMA UnaryAnswerKept == ASSUME Typed, ResponseInv, UnaryAnswer, ~Streaming PROVE ResponseInv'
<1>1. at = "unary" /\ out = <<>> /\ resp = "off" /\ ~gaveUp
  BY DEF UnaryAnswer, ResponseInv, PumpInv, FrameInv
<1>2. UNCHANGED <<req, resp, gaveUp>>
  BY DEF UnaryAnswer, clientVars, pumpVars
<1>3. CASE SendHeader /\ out' = out \o Frame("msg") /\ code' = "OK"
           /\ at' = IF req.proto = "web" THEN "finish" ELSE "returned"
  <2>1. out' = Frame("msg")
    BY <1>1, <1>3 DEF Frame
  <2>2. out' # <<>> /\ EndsOf(out') = {} /\ Closed(out') /\ Paired(out')
    BY <1>1, <1>3, FrameAdded, NoneIs DEF Typed
  <2>3. typed'
    BY <1>1, <1>3 DEF SendHeader
  <2>4. at' \in {"finish", "returned"} /\ (at' = "returned" => req.proto = "connect")
    BY <1>3, RequestIs DEF Protocols
  <2>5. ~Streaming'
    BY <1>2 DEF Streaming
  <2>6. PumpInv'
    BY <1>1, <1>2, <2>4 DEF PumpInv
  <2>7. HeaderInv'
    BY <2>3 DEF HeaderInv
  <2>8. EndInv'
    BY <1>1, <1>2, <2>1, <2>2, <2>4, <2>5 DEF EndInv
  <2>9. FrameInv'
    BY <1>1, <1>2, <2>2, <2>4 DEF FrameInv
  <2> QED BY <2>6, <2>7, <2>8, <2>9 DEF ResponseInv
<1>4. CASE code' = "Unencodable" /\ at' = "returned" /\ out' = out
  <2>1. ~Streaming'
    BY <1>2 DEF Streaming
  <2>2. PumpInv'
    BY <1>1, <1>2, <1>4 DEF PumpInv
  <2>3. HeaderInv'
    BY <1>1, <1>4 DEF HeaderInv
  <2>4. EndInv'
    BY <1>1, <1>2, <1>4, <2>1, NoneIs DEF EndInv
  <2>5. FrameInv'
    BY <1>1, <1>2, <1>4, NoneIs DEF FrameInv
  <2> QED BY <2>2, <2>3, <2>4, <2>5 DEF ResponseInv
<1>5. CASE Return("Error") /\ UNCHANGED wireVars
  BY <1>1, <1>2, <1>5, QuietKept DEF Return, wireVars
<1>6. CASE typed' = TRUE /\ out' = <<Half("plain", 1)>> /\ at' = "returned"
  BY <1>1, <1>6, PlainKept DEF UnaryAnswer
<1> QED BY <1>3, <1>4, <1>5, <1>6 DEF UnaryAnswer

\* A message of a handler, before any end.
LEMMA HandlerSendsKept == ASSUME Typed, ResponseInv, HandlerSends PROVE ResponseInv'
<1>1. /\ at = "handler" /\ resp = "off" /\ ~gaveUp /\ EndsOf(out) = {} /\ Paired(out)
      /\ out \in Seq(Halves)
  BY DEF HandlerSends, ResponseInv, PumpInv, EndInv, FrameInv, Typed
<1>2. UNCHANGED <<req, resp, gaveUp>>
  BY DEF HandlerSends, clientVars, pumpVars
<1>3. typed'
  BY <1>1 DEF HandlerSends, SendHeader, ResponseInv, HeaderInv
<1>4. CASE out' = out \o Frame("msg") /\ UNCHANGED <<at, code>>
  <2>1. out' # <<>> /\ EndsOf(out') = {} /\ Closed(out') /\ Paired(out')
    BY <1>1, <1>4, FrameAdded
  <2>2. PumpInv'
    BY <1>1, <1>2, <1>4 DEF PumpInv
  <2>3. HeaderInv'
    BY <1>3 DEF HeaderInv
  <2>4. EndInv'
    BY <1>1, <1>4, <2>1 DEF EndInv
  <2>5. FrameInv'
    BY <1>1, <1>2, <1>4, <2>1 DEF FrameInv
  <2> QED BY <2>2, <2>3, <2>4, <2>5 DEF ResponseInv
<1>5. CASE Return("Internal") /\ UNCHANGED out
  <2>1. at' = "finish" /\ out' = out
    BY <1>5 DEF Return
  <2>2. PumpInv'
    BY <1>1, <1>2, <2>1 DEF PumpInv
  <2>3. HeaderInv'
    BY <1>3 DEF HeaderInv
  <2>4. EndInv'
    BY <1>1, <2>1 DEF EndInv
  <2>5. FrameInv'
    BY <1>1, <1>2, <2>1 DEF FrameInv, ResponseInv
  <2> QED BY <2>2, <2>3, <2>4, <2>5 DEF ResponseInv
<1> QED BY <1>4, <1>5 DEF HandlerSends

\* The pump's first half of a message.
LEMMA PumpHeadKept == ASSUME Typed, ResponseInv, PumpHead PROVE ResponseInv'
<1>1. /\ resp = "head" /\ resp' = "rest" /\ out' = Append(out, Half("msg", 1))
      /\ UNCHANGED <<req, at, code, gaveUp>>
  BY DEF PumpHead, clientVars
<1>2. /\ Half("msg", 1) \in Halves /\ Half("msg", 1).frame = "msg" /\ Half("msg", 1).part = 1
      /\ out \in Seq(Halves) /\ out' # <<>> /\ Len(out) \in Nat
      /\ Len(out') = Len(out) + 1 /\ out'[Len(out')] = Half("msg", 1)
  BY <1>1, Added
<1>3. gaveUp \/ (at = "await" /\ EndsOf(out) = {})
  BY <1>1 DEF ResponseInv, PumpInv, EndInv
<1>4. /\ EndsOf(out') = EndsOf(out) /\ LateOf(out') \subseteq LateOf(out) \cup {Len(out) + 1}
      /\ EndsOf(out) = {} => LateOf(out') = {} /\ Closed(out')
      /\ Paired(out) => Paired(out')
  BY <1>1, <1>2, MessageAdded, PairKept
<1>5. PumpInv'
  BY <1>1, <1>3 DEF ResponseInv, PumpInv
<1>6. HeaderInv'
  <2>1. out # <<>> => typed
    BY <1>1, <1>3 DEF ResponseInv, PumpInv, HeaderInv
  <2>2. typed'
    BY <2>1 DEF PumpHead, SendHeader
  <2> QED BY <2>2 DEF HeaderInv
<1>7. EndInv'
  BY <1>1, <1>2, <1>3, <1>4 DEF ResponseInv, PumpInv, EndInv
<1>8. FrameInv'
  <2>1. CASE ~gaveUp
    BY <1>1, <1>2, <1>3, <1>4, <2>1 DEF ResponseInv, FrameInv
  <2>2. CASE gaveUp
    <3>1. LateOf(out) = {}
      BY <1>1, <2>2 DEF ResponseInv, FrameInv
    <3>2. LateOf(out') \subseteq {Len(out) + 1} /\ Len(out) + 1 \in Nat
      BY <1>2, <1>4, <3>1
    <3>3. \E j \in Nat : LateOf(out') \subseteq {j}
      BY <3>2
    <3>4. \E j, k \in Nat : LateOf(out') \subseteq {j, k}
      BY <3>2
    <3>5. at \notin {"body", "route", "unary"} /\ at' = at /\ gaveUp'
      BY <1>1, <2>2 DEF ResponseInv, PumpInv
    <3> QED BY <1>1, <1>2, <3>3, <3>4, <3>5 DEF FrameInv
  <2> QED BY <2>1, <2>2
<1> QED BY <1>5, <1>6, <1>7, <1>8 DEF ResponseInv

\* The pump's second half of a message, its last if it was left behind.
LEMMA PumpRestKept == ASSUME Typed, ResponseInv, PumpRest PROVE ResponseInv'
<1>1. /\ resp = "rest" /\ out' = Append(out, Half("msg", 2)) /\ typed' = typed
      /\ resp' = IF gaveUp THEN "done" ELSE "recv"
      /\ UNCHANGED <<req, at, code, gaveUp>>
  BY DEF PumpRest, clientVars
<1>2. /\ Half("msg", 2) \in Halves /\ Half("msg", 2).frame = "msg" /\ Half("msg", 2).part = 2
      /\ out \in Seq(Halves) /\ out' # <<>> /\ Len(out) \in Nat
      /\ Len(out') = Len(out) + 1
  BY <1>1, Added
<1>3. gaveUp \/ (at = "await" /\ EndsOf(out) = {})
  BY <1>1 DEF ResponseInv, PumpInv, EndInv
<1>4. /\ EndsOf(out') = EndsOf(out) /\ LateOf(out') \subseteq LateOf(out) \cup {Len(out) + 1}
      /\ EndsOf(out) = {} => LateOf(out') = {} /\ Closed(out')
  BY <1>1, <1>2, MessageAdded
<1>5. PumpInv'
  BY <1>1, <1>3 DEF ResponseInv, PumpInv
<1>6. HeaderInv'
  <2>1. out # <<>>
    BY <1>1 DEF ResponseInv, FrameInv
  <2>2. typed
    BY <1>1, <1>3, <2>1 DEF ResponseInv, PumpInv, HeaderInv
  <2> QED BY <1>1, <2>2 DEF HeaderInv
<1>7. EndInv'
  BY <1>1, <1>2, <1>3, <1>4 DEF ResponseInv, PumpInv, EndInv
<1>8. FrameInv'
  <2>1. CASE ~gaveUp
    <3>1. Paired(out')
      <4>1. Paired(out) /\ out # <<>> /\ out[Len(out)] = Half("msg", 1)
        BY <1>1, <2>1 DEF ResponseInv, FrameInv
      <4> QED BY <1>1, <1>2, <4>1, PairKept
    <3> QED BY <1>1, <1>2, <1>3, <1>4, <2>1, <3>1 DEF FrameInv
  <2>2. CASE gaveUp
    <3>1. PICK j \in Nat : LateOf(out) \subseteq {j}
      BY <1>1, <2>2 DEF ResponseInv, FrameInv
    <3>2. LateOf(out') \subseteq {j, Len(out) + 1} /\ Len(out) + 1 \in Nat
      BY <1>2, <1>4, <3>1
    <3>3. \E m, n \in Nat : LateOf(out') \subseteq {m, n}
      BY <3>2
    <3>4. at \notin {"body", "route", "unary"} /\ at' = at /\ gaveUp' /\ resp' = "done"
      BY <1>1, <2>2 DEF ResponseInv, PumpInv
    <3> QED BY <3>3, <3>4 DEF FrameInv
  <2> QED BY <2>1, <2>2
<1> QED BY <1>5, <1>6, <1>7, <1>8 DEF ResponseInv

\* The handler stops waiting, before any end is written.
LEMMA AwaitKept == ASSUME Typed, ResponseInv, Await PROVE ResponseInv'
<1>1. /\ at = "await" /\ at' = "record" /\ UNCHANGED <<req, out, typed, resp>>
      /\ ~gaveUp /\ EndsOf(out) = {}
  BY DEF Await, ResponseInv, PumpInv, EndInv, clientVars, wireVars
<1>2. \/ resp = "done" /\ gaveUp' = gaveUp
      \/ gaveUp' = TRUE /\ code' = "Error"
  BY DEF Await
<1>3. LateOf(out) = {}
  BY <1>1 DEF LateOf
<1>4. PumpInv'
  BY <1>1, <1>2 DEF PumpInv
<1>5. HeaderInv'
  BY <1>1 DEF ResponseInv, HeaderInv
<1>6. EndInv'
  BY <1>1 DEF EndInv
<1>7. FrameInv'
  <2>1. (\E j \in Nat : LateOf(out') \subseteq {j}) /\ \E j, k \in Nat : LateOf(out') \subseteq {j, k}
    BY <1>1, <1>3
  <2> QED BY <1>1, <1>2, <1>3, <2>1 DEF ResponseInv, FrameInv
<1> QED BY <1>4, <1>5, <1>6, <1>7 DEF ResponseInv

\* The pump of a proxied stream starts, has an answer, or ends.
LEMMA PumpMoves ==
  ASSUME Typed, ResponseInv, OpenPumps \/ UpstreamAnswers \/ PumpCanceled
  PROVE  ResponseInv'
<1>1. UNCHANGED <<req, out, typed, gaveUp>>
  BY DEF OpenPumps, UpstreamAnswers, PumpCanceled, clientVars, wireVars
<1>2. /\ \/ at' = at /\ code' = code /\ resp = "recv" /\ resp' \in {"head", "done"}
         \/ at = "open" /\ at' = "await" /\ resp' = "recv" /\ code' = code
         \/ at = "open" /\ at' = "finish" /\ resp' = resp
  BY DEF OpenPumps, UpstreamAnswers, PumpCanceled, Return
<1>3. PumpInv'
  BY <1>1, <1>2 DEF ResponseInv, PumpInv
<1>4. HeaderInv'
  BY <1>1, <1>2 DEF ResponseInv, HeaderInv
<1>5. EndInv'
  BY <1>1, <1>2 DEF ResponseInv, EndInv, Streaming
<1>6. FrameInv'
  BY <1>1, <1>2 DEF ResponseInv, FrameInv, PumpInv
<1> QED BY <1>3, <1>4, <1>5, <1>6 DEF ResponseInv

\* Every step keeps the response framed.
LEMMA ResponseKept == Typed /\ ResponseInv /\ PlaceInv /\ [Next]_vars => ResponseInv'
<1> SUFFICES ASSUME Typed, ResponseInv, PlaceInv, [Next]_vars PROVE ResponseInv'
  OBVIOUS
<1>1. CASE UNCHANGED vars \/ ClientSends \/ ClientEnds \/ PumpRequest
  BY <1>1, QuietKept
     DEF vars, ClientSends, ClientEnds, PumpRequest, bodyVars, wireVars, pumpVars, clientVars
<1>2. CASE CaptureBody
  BY <1>2, QuietKept DEF CaptureBody, ResponseInv, PumpInv, FrameInv, clientVars, wireVars, pumpVars
<1>3. CASE Refuse
  <2>1. CASE Plain("Refused")
    BY <1>3, <2>1, PlainKept DEF Refuse, Plain
  <2>2. CASE code' = "Refused" /\ at' = "finish" /\ UNCHANGED <<clientVars, bodyVars, wireVars, pumpVars>>
    BY <1>3, <2>2, QuietKept DEF Refuse, ResponseInv, PumpInv, clientVars, wireVars, pumpVars
  <2> QED BY <1>3, <2>1, <2>2 DEF Refuse
<1>4. CASE Dispatch
  BY <1>4, QuietKept DEF Dispatch, ResponseInv, PumpInv, FrameInv, clientVars, wireVars, pumpVars
<1>5. CASE UnaryRequest
  <2>1. at = "unary" /\ UNCHANGED <<req, pumpVars>>
    BY <1>5 DEF UnaryRequest, clientVars
  <2>2. CASE UNCHANGED <<at, code, typed, out>>
    BY <2>1, <2>2, QuietKept DEF pumpVars
  <2>3. CASE Return("InvalidArgument") /\ UNCHANGED wireVars
    BY <2>1, <2>3, QuietKept DEF Return, ResponseInv, PumpInv, wireVars, pumpVars
  <2>4. CASE typed' = TRUE /\ out' = <<Half("plain", 1)>> /\ at' = "returned"
    BY <2>1, <2>4, PlainKept
  <2> QED BY <1>5, <2>2, <2>3, <2>4 DEF UnaryRequest
<1>6. CASE UnaryAnswer
  BY <1>6, UnaryAnswerKept DEF UnaryAnswer, PlaceInv
<1>7. CASE HandlerReceives \/ HandlerReturns \/ RecordHeader
  BY <1>7, QuietKept
     DEF HandlerReceives, HandlerReturns, RecordHeader, Return, ResponseInv, PumpInv,
         clientVars, wireVars, pumpVars
<1> QED
  BY <1>1, <1>2, <1>3, <1>4, <1>5, <1>6, <1>7, FinishKept, FinishRestKept, HandlerSendsKept,
     PumpHeadKept, PumpRestKept, AwaitKept, PumpMoves DEF Next

----------------------------------------------------------------------------
(* What a handler gets.                                                    *)

\* A step that moves nothing of the body.
LEMMA StillKept ==
  ASSUME Typed, DeliverInv, UNCHANGED <<req, client, arrived, body, cut, got, eof, reqs>>,
         at' = at \/ (at # "body" /\ at' \notin {"body", "handler", "open", "unary", "await", "record"})
  PROVE  DeliverInv'
<1>1. UNCHANGED <<Streaming, Short>> /\ \A n : Complete(n)' = Complete(n)
  BY DEF Streaming, Short, Complete, Size
<1>2. PlaceInv'
  BY <1>1 DEF DeliverInv, PlaceInv
<1>3. BodyInv'
  BY <1>1 DEF DeliverInv, BodyInv
<1> QED BY <1>2, <1>3 DEF DeliverInv

\* One frame of a stream goes from the body to the handler or the upstream.
LEMMA FrameTaken ==
  ASSUME Typed, DeliverInv, Streaming, at # "body", body # <<>>,
         got' = Append(got, Head(body).size), body' = Tail(body),
         UNCHANGED <<req, client, arrived, at, cut, eof, reqs>>
  PROVE  DeliverInv'
<1> DEFINE n == Len(got)
           m == Len(body)
<1>1. UNCHANGED <<Streaming, Short>> /\ \A k : Complete(k)' = Complete(k)
  BY DEF Streaming, Short, Complete, Size
<1>2. /\ Head(body) = body[1] /\ body[1].size \in Nat /\ m \in Nat /\ m > 0
      /\ Len(body') = m - 1 /\ \A i \in 1..m - 1 : body'[i] = body[i + 1]
  BY BodyTaken
<1>3. n \in Nat /\ got \in Seq(Nat)
  BY LenProperties DEF Typed
<1>4. body[1].size = n + 1
  BY <1>2 DEF DeliverInv, BodyInv
<1>5. Len(got') = n + 1 /\ got'[n + 1] = n + 1 /\ \A i \in 1..n : got'[i] = got[i]
  BY <1>2, <1>3, <1>4, AppendProperties
<1>6. PlaceInv'
  BY <1>1 DEF DeliverInv, PlaceInv
<1>7. BodyInv'
  <2>1. \A i \in 1..Len(got') : got'[i] = i
    BY <1>3, <1>5 DEF DeliverInv, BodyInv
  <2>2. \A i \in 1..Len(body') : body'[i].size = Len(got') + i
    <3>1. \A i \in 1..m : body[i].size = n + i
      BY DEF DeliverInv, BodyInv
    <3> HIDE DEF n, m
    <3>2. ASSUME NEW i \in 1..m - 1 PROVE body'[i].size = (n + 1) + i
      BY <1>2, <1>3, <3>1
    <3> QED BY <1>2, <1>5, <3>2
  <2>3. Complete(Len(got') + Len(body'))
    <3>1. Complete(n + m)
      BY DEF DeliverInv, BodyInv
    <3>2. Len(got') + Len(body') = n + m
      BY <1>2, <1>3, <1>5
    <3> QED BY <3>1, <3>2
  <2>4. ~eof
    BY DEF DeliverInv, BodyInv
  <2> QED BY <1>1, <2>1, <2>2, <2>3, <2>4 DEF DeliverInv, BodyInv
<1> QED BY <1>6, <1>7 DEF DeliverInv

\* The end of a stream's messages.
LEMMA EndTaken ==
  ASSUME Typed, DeliverInv, Streaming, at # "body", body = <<>>, eof' = TRUE,
         UNCHANGED <<req, client, arrived, at, cut, body, got>>,
         reqs' # "off" => Streaming
  PROVE  DeliverInv'
<1>1. UNCHANGED <<Streaming, Short>> /\ \A k : Complete(k)' = Complete(k)
  BY DEF Streaming, Short, Complete, Size
<1>2. PlaceInv'
  BY <1>1 DEF DeliverInv, PlaceInv
<1>3. BodyInv'
  BY <1>1 DEF DeliverInv, BodyInv
<1> QED BY <1>2, <1>3 DEF DeliverInv

\* What the access log hands on is all of the body, or the body ends short.
LEMMA CaptureKept == ASSUME Typed, DeliverInv, CaptureBody PROVE DeliverInv'
<1> DEFINE n == Whole(arrived)
           L == Len(req.frames)
<1>1. UNCHANGED <<req, client, arrived, got, eof, reqs>> /\ at = "body" /\ at' = "route"
  BY DEF CaptureBody, clientVars, pumpVars
<1>2. UNCHANGED <<Streaming, Short>> /\ \A k : Complete(k)' = Complete(k)
  BY <1>1 DEF Streaming, Short, Complete, Size
<1>3. L \in Nat /\ arrived \in Nat /\ arrived <= L /\ Limit \in Nat /\ (~Streaming => L <= 1)
  BY RequestIs, GatewayAssumption
<1>4. n \in 0..arrived /\ (n < arrived => Size(n + 1) > Limit)
  BY WholeIs DEF Typed
<1>5. body' = [i \in 1..n |-> [req.frames[i] EXCEPT !.size = i]]
  BY DEF CaptureBody
<1>6. cut' \in IF n < arrived THEN {Size(n) < Limit}
               ELSE IF client = "broken" /\ n < L THEN BOOLEAN ELSE {FALSE}
  BY DEF CaptureBody
<1>7. client # "sending" \/ Size(arrived) >= Limit
  BY DEF CaptureBody
<1> HIDE DEF n
<1>8. Len(body') = n
  <2>1. n \in Nat
    BY <1>3, <1>4
  <2> QED BY <1>5, <2>1
<1>9. \A i \in 1..n : body'[i].size = i
  <2>1. ASSUME NEW i \in 1..n PROVE body'[i].size = i
    <3>1. req.frames[i] \in [size : Nat \ {0}, good : BOOLEAN]
      <4>1. i \in 1..Len(req.frames)
        BY <1>3, <1>4
      <4> QED BY <4>1, RequestIs, ElementOfSeq
    <3>2. body'[i] = [req.frames[i] EXCEPT !.size = i]
      BY <1>5
    <3> QED BY <3>1, <3>2
  <2> QED BY <2>1
<1>10. \A k \in Nat : k < L /\ Size(k + 1) > Limit => Short
  <2>1. ASSUME NEW k \in Nat, k < L, Size(k + 1) > Limit PROVE Size(L) > Limit
    <3>1. Size(k + 1) \in Nat /\ Size(L) \in Nat
      BY <1>3, <2>1, SizeIs
    <3>2. k + 1 = L \/ Size(L) > Size(k + 1)
      BY <1>3, <2>1, SizeGrows
    <3> QED BY <1>3, <2>1, <3>1, <3>2
  <2> QED BY <2>1 DEF Short
<1>11. n < L => Short
  <2>1. CASE n < arrived
    BY <1>3, <1>4, <1>10, <2>1
  <2>2. CASE n = arrived /\ client = "sending" /\ n < L
    <3>1. Size(L) > Size(arrived)
      BY <1>3, <2>2, SizeGrows
    <3>2. Size(L) \in Nat /\ Size(arrived) \in Nat
      BY <1>3, SizeIs
    <3> QED BY <1>3, <1>7, <2>2, <3>1, <3>2 DEF Short
  <2>3. CASE client = "closed"
    BY <1>3, <1>4, <1>10, <2>3 DEF DeliverInv, BodyInv
  <2>4. CASE client = "broken"
    BY <2>4 DEF Short
  <2> QED BY <1>3, <1>4, <2>1, <2>2, <2>3, <2>4 DEF Typed
<1>12. cut' => Short
  <2> SUFFICES ASSUME ~Short PROVE ~cut'
    OBVIOUS
  <2>1. ~(n < L) /\ ~(n < arrived)
    BY <1>3, <1>4, <1>11
  <2> QED BY <1>6, <2>1
<1>13. got = <<>> /\ ~eof /\ Len(got) = 0
  BY <1>1 DEF DeliverInv, PlaceInv
<1>14. Complete(n)
  BY <1>3, <1>4, <1>11 DEF Complete
<1>15. PlaceInv'
  BY <1>1, <1>2 DEF DeliverInv, PlaceInv
<1>16. BodyInv'
  <2>1. n \in Nat /\ (~Streaming => n <= 1) /\ 0 + n = n
    BY <1>3, <1>4
  <2>2. \A i \in 1..n : i = 0 + i
    OBVIOUS
  <2> QED BY <1>1, <1>2, <1>8, <1>9, <1>12, <1>13, <1>14, <2>1, <2>2 DEF DeliverInv, BodyInv
<1> QED BY <1>15, <1>16 DEF DeliverInv

\* The client's next frame, or the end of its body.
LEMMA ClientKept == ASSUME Typed, DeliverInv, ClientSends \/ ClientEnds PROVE DeliverInv'
<1>1. UNCHANGED <<req, at, body, cut, got, eof, reqs>>
  BY DEF ClientSends, ClientEnds, bodyVars, pumpVars
<1>2. client = "sending" /\ (client' = client \/ (arrived' = arrived /\ client' \in {"closed", "broken"}))
      /\ (client' = "closed" => arrived' = Len(req.frames))
  BY DEF ClientSends, ClientEnds
<1>3. Streaming' = Streaming /\ (Short => Short') /\ \A n : Complete(n) => Complete(n)'
  BY <1>1, <1>2 DEF Streaming, Short, Complete, Size
<1>4. PlaceInv'
  BY <1>1, <1>3 DEF DeliverInv, PlaceInv
<1>5. BodyInv'
  BY <1>1, <1>2, <1>3 DEF DeliverInv, BodyInv
<1> QED BY <1>4, <1>5 DEF DeliverInv

\* The one message of a unary request.
LEMMA UnaryRequestKept == ASSUME Typed, DeliverInv, UnaryRequest PROVE DeliverInv'
<1>1. UNCHANGED <<req, client, arrived, body, cut, reqs>> /\ at = "unary" /\ ~eof
  BY DEF UnaryRequest, clientVars, pumpVars
<1>2. UNCHANGED <<Streaming, Short>> /\ \A k : Complete(k)' = Complete(k)
  BY <1>1 DEF Streaming, Short, Complete, Size
<1>3. ~Streaming /\ got = <<>> /\ Len(body) <= 1 /\ Complete(Len(body)) /\ (cut => Short)
      /\ \A i \in 1..Len(body) : body[i].size = i
  BY <1>1 DEF DeliverInv, PlaceInv, BodyInv
<1>4. CASE UNCHANGED <<got, eof>> /\ at' \in {"finish", "returned"}
  BY <1>1, <1>4, StillKept
<1>5. CASE eof' = TRUE /\ at' = at /\ got' = got /\ (cut \/ body = <<>>)
  <2>1. Complete(Len(got))
    <3>1. cut => Complete(Len(got))
      BY <1>3 DEF Complete
    <3> QED BY <1>3, <1>5, <3>1
  <2>2. PlaceInv'
    BY <1>1, <1>2, <1>5 DEF DeliverInv, PlaceInv
  <2>3. BodyInv'
    BY <1>1, <1>2, <1>3, <1>5, <2>1 DEF DeliverInv, BodyInv
  <2> QED BY <2>2, <2>3 DEF DeliverInv
<1>6. CASE eof' = TRUE /\ at' = at /\ got' = Append(got, body[1].size) /\ body # <<>>
  <2>1. Len(body) = 1 /\ body[1].size = 1
    <3>1. Len(body) \in Nat /\ Len(body) > 0
      BY <1>6, BodyTaken
    <3> QED BY <1>3, <3>1
  <2>2. got' = <<1>>
    BY <1>3, <1>6, <2>1
  <2>3. Len(got') = 1 /\ \A i \in 1..1 : got'[i] = i
    BY <2>2
  <2>4. PlaceInv'
    BY <1>1, <1>2, <1>6 DEF DeliverInv, PlaceInv
  <2>5. BodyInv'
    BY <1>1, <1>2, <1>3, <1>6, <2>1, <2>3 DEF DeliverInv, BodyInv
  <2> QED BY <2>4, <2>5 DEF DeliverInv
<1> QED BY <1>1, <1>4, <1>5, <1>6 DEF UnaryRequest, Return

\* Every step keeps what a handler has and what is left in order.
LEMMA DeliverKept == Typed /\ DeliverInv /\ [Next]_vars => DeliverInv'
<1> SUFFICES ASSUME Typed, DeliverInv, [Next]_vars PROVE DeliverInv'
  OBVIOUS
<1>1. CASE UNCHANGED vars
  BY <1>1, StillKept DEF vars
<1>2. CASE ClientSends \/ ClientEnds
  BY <1>2, ClientKept
<1>3. CASE CaptureBody
  BY <1>3, CaptureKept
<1>4. CASE Refuse \/ Finish \/ FinishRest \/ UnaryAnswer \/ HandlerSends \/ HandlerReturns
           \/ UpstreamAnswers \/ PumpHead \/ PumpRest \/ RecordHeader \/ PumpCanceled
  BY <1>4, StillKept
     DEF Refuse, Plain, Finish, FinishRest, UnaryAnswer, HandlerSends, HandlerReturns, Return,
         UpstreamAnswers, PumpHead, PumpRest, RecordHeader, PumpCanceled, clientVars, bodyVars,
         wireVars, pumpVars
<1>5. CASE Dispatch
  <2>1. UNCHANGED <<req, client, arrived, body, cut, got, eof, reqs>> /\ at = "route"
        /\ \/ at' = "unary" /\ ~Streaming
           \/ at' \in {"open", "handler"} /\ Streaming
    BY <1>5 DEF Dispatch, clientVars, bodyVars, pumpVars
  <2>2. UNCHANGED <<Streaming, Short>> /\ \A k : Complete(k)' = Complete(k)
    BY <2>1 DEF Streaming, Short, Complete, Size
  <2>3. PlaceInv'
    BY <2>1, <2>2 DEF DeliverInv, PlaceInv
  <2>4. BodyInv'
    BY <2>1, <2>2 DEF DeliverInv, BodyInv
  <2> QED BY <2>3, <2>4 DEF DeliverInv
<1>6. CASE UnaryRequest
  BY <1>6, UnaryRequestKept
<1>7. CASE HandlerReceives
  <2>1. at = "handler" /\ Streaming /\ UNCHANGED <<req, client, arrived, cut, reqs>>
    BY <1>7 DEF HandlerReceives, DeliverInv, PlaceInv, clientVars, pumpVars
  <2>2. CASE body # <<>> /\ got' = Append(got, Head(body).size) /\ body' = Tail(body)
             /\ UNCHANGED <<eof, at>>
    BY <2>1, <2>2, FrameTaken
  <2>3. CASE body = <<>> /\ eof' = TRUE /\ UNCHANGED <<got, body, at>>
    BY <2>1, <2>3, EndTaken
  <2>4. CASE at' = "finish" /\ UNCHANGED <<got, eof, body>>
    BY <2>1, <2>4, StillKept
  <2> QED BY <1>7, <2>2, <2>3, <2>4 DEF HandlerReceives, Return
<1>8. CASE OpenPumps
  <2>1. at = "open" /\ UNCHANGED <<req, client, arrived, body, cut, got, eof>>
        /\ (at' = "await" \/ (at' = "finish" /\ reqs' = reqs))
    BY <1>8 DEF OpenPumps, Return, clientVars, bodyVars
  <2>2. UNCHANGED <<Streaming, Short>> /\ \A k : Complete(k)' = Complete(k)
    BY <2>1 DEF Streaming, Short, Complete, Size
  <2>3. PlaceInv'
    BY <2>1, <2>2 DEF DeliverInv, PlaceInv
  <2>4. BodyInv'
    BY <2>1, <2>2 DEF DeliverInv, BodyInv
  <2> QED BY <2>3, <2>4 DEF DeliverInv
<1>9. CASE PumpRequest
  <2>1. at # "body" /\ Streaming /\ UNCHANGED <<req, client, arrived, at, cut>>
    BY <1>9 DEF PumpRequest, DeliverInv, PlaceInv, clientVars
  <2>2. CASE body # <<>> /\ got' = Append(got, Head(body).size) /\ body' = Tail(body)
             /\ UNCHANGED <<eof, reqs>>
    BY <2>1, <2>2, FrameTaken
  <2>3. CASE body = <<>> /\ eof' = TRUE /\ reqs' = "ok" /\ UNCHANGED <<got, body>>
    BY <2>1, <2>3, EndTaken
  <2>4. CASE reqs' = "bad" /\ UNCHANGED <<got, body, eof>>
    <3>1. UNCHANGED <<Streaming, Short>> /\ \A k : Complete(k)' = Complete(k)
      BY <2>1 DEF Streaming, Short, Complete, Size
    <3>2. PlaceInv'
      BY <2>1, <2>4, <3>1 DEF DeliverInv, PlaceInv
    <3>3. BodyInv'
      BY <2>1, <2>4, <3>1 DEF DeliverInv, BodyInv
    <3> QED BY <3>2, <3>3 DEF DeliverInv
  <2> QED BY <1>9, <2>2, <2>3, <2>4 DEF PumpRequest
<1>10. CASE Await
  <2>1. at = "await" /\ at' = "record"
        /\ UNCHANGED <<req, client, arrived, body, cut, got, eof, reqs>>
    BY <1>10 DEF Await, clientVars, bodyVars
  <2>2. UNCHANGED <<Streaming, Short>> /\ \A k : Complete(k)' = Complete(k)
    BY <2>1 DEF Streaming, Short, Complete, Size
  <2>3. PlaceInv'
    BY <2>1, <2>2 DEF DeliverInv, PlaceInv
  <2>4. BodyInv'
    BY <2>1, <2>2 DEF DeliverInv, BodyInv
  <2> QED BY <2>3, <2>4 DEF DeliverInv
<1> QED
  BY <1>1, <1>2, <1>3, <1>4, <1>5, <1>6, <1>7, <1>8, <1>9, <1>10 DEF Next

----------------------------------------------------------------------------
(* The theorems.                                                           *)

\* The invariants together, by induction over the steps of a request.
LEMMA GatewayInvariant == Spec => [](Typed /\ ResponseInv /\ DeliverInv)
<1>1. Init => ResponseInv
  <2> SUFFICES ASSUME Init PROVE ResponseInv
    OBVIOUS
  <2>1. PumpInv BY DEF Init, PumpInv
  <2>2. HeaderInv BY DEF Init, HeaderInv
  <2>3. EndInv BY NoneIs DEF Init, EndInv
  <2>4. FrameInv BY NoneIs DEF Init, FrameInv
  <2> QED BY <2>1, <2>2, <2>3, <2>4 DEF ResponseInv
<1>2. Init => DeliverInv
  <2> SUFFICES ASSUME Init PROVE DeliverInv
    OBVIOUS
  <2>1. PlaceInv BY DEF Init, PlaceInv
  <2>2. BodyInv BY DEF Init, BodyInv
  <2> QED BY <2>1, <2>2 DEF DeliverInv
<1>3. Typed /\ ResponseInv /\ DeliverInv /\ [Next]_vars => ResponseInv' /\ DeliverInv'
  BY ResponseKept, DeliverKept DEF DeliverInv
<1> QED BY <1>1, <1>2, <1>3, TypeCorrect, PTL DEF Spec

\* Two positions are two, and any set of them has at most two.
LEMMA TwoPlaces ==
  ASSUME NEW j \in Nat, NEW k \in Nat
  PROVE  /\ \A S : S \subseteq {j, k} => Cardinality(S) <= 2
         /\ j # k => Cardinality({j, k}) = 2
<1>1. IsFiniteSet({k}) /\ Cardinality({k}) = 1
  BY FS_Singleton
<1>2. {j, k} = {k} \cup {j}
  OBVIOUS
<1>3. IsFiniteSet({j, k}) /\ Cardinality({j, k}) = IF j \in {k} THEN 1 ELSE 2
  BY <1>1, <1>2, FS_AddElement
<1>4. \A S : S \subseteq {j, k} => Cardinality(S) <= Cardinality({j, k}) /\ Cardinality(S) \in Nat
  BY <1>3, FS_Subset, FS_CardinalityType
<1> QED BY <1>3, <1>4

\* A response of a gateway is a run of whole messages and one end behind them,
\* for every request, any number of messages and any answers of an upstream; a
\* response pump that its handler left behind adds one message at most.
THEOREM ResponsesFramed == Spec => []ResponseFramed
<1>1. Typed /\ ResponseInv => ResponseFramed
  <2> SUFFICES ASSUME Typed, ResponseInv PROVE ResponseFramed
    OBVIOUS
  <2>1. EndAt = EndsOf(out)
    BY DEF EndAt, EndsOf
  <2>2. Len(out) \in Nat
    BY LenProperties DEF Typed
  <2>3. Cardinality(EndAt) <= 2
    <3>1. \E j, k \in Nat : EndsOf(out) \subseteq {j, k}
      <4>1. EndsOf(out) \subseteq Nat
        BY <2>2 DEF EndsOf
      <4>2. CASE EndsOf(out) = {}
        BY <4>2
      <4>3. CASE \E i \in 1..Len(out) : EndsOf(out) = {i}
        BY <4>1, <4>3
      <4>4. CASE \E i, j \in 1..Len(out) : EndsOf(out) = {i, j}
        BY <4>1, <4>4
      <4>5. CASE out = <<Half("plain", 1)>> \/ out = Frame("msg") \/ out = <<>>
        <5>1. EndsOf(Frame("msg")) = {}
          <6>1. <<>> \in Seq(Halves) /\ <<>> \o Frame("msg") = Frame("msg")
            BY DEF Frame
          <6> QED BY <6>1, NoneIs, FrameAdded
        <5> QED BY <4>5, <5>1, <4>2, PlainIs, NoneIs
      <4> QED BY <4>2, <4>3, <4>4, <4>5 DEF ResponseInv, EndInv
    <3> QED BY <2>1, <3>1, TwoPlaces
  <2>4. out # <<>> => typed \/ (req.proto = "web" /\ code = "OK" /\ out[1].frame = "end")
    BY DEF ResponseInv, HeaderInv
  <2>5. ~gaveUp =>
       /\ \A i \in 1..Len(out) :
            out[i].part = 2 => i > 1 /\ out[i - 1] = Half(out[i].frame, 1)
       /\ \A i \in EndAt : \A j \in i..Len(out) : out[j].frame = "end"
    BY <2>1 DEF ResponseInv, FrameInv, Paired, Closed
  <2>6. gaveUp =>
       Cardinality({j \in 1..Len(out) : \E i \in EndAt : i < j /\ out[j].frame = "msg"}) <= 2
    <3>1. {j \in 1..Len(out) : \E i \in EndAt : i < j /\ out[j].frame = "msg"} = LateOf(out)
      BY <2>1 DEF LateOf
    <3>2. gaveUp => \E j, k \in Nat : LateOf(out) \subseteq {j, k}
      BY DEF ResponseInv, FrameInv
    <3> QED BY <3>1, <3>2, TwoPlaces
  <2>7. at = "returned" =>
       \/ out = <<Half("plain", 1)>>
       \/ ~Streaming /\ code = "Unencodable" /\ out = <<>>
       \/ ~Streaming /\ req.proto = "connect" /\ out = Frame("msg")
       \/ Cardinality(EndAt) = 2
    <3>1. ASSUME NEW i \in 1..Len(out), NEW j \in 1..Len(out), i # j, EndsOf(out) = {i, j}
          PROVE  Cardinality(EndAt) = 2
      BY <2>1, <2>2, <3>1, TwoPlaces
    <3> QED BY <3>1 DEF ResponseInv, EndInv
  <2> QED BY <2>3, <2>4, <2>5, <2>6, <2>7 DEF ResponseFramed
<1> QED BY <1>1, GatewayInvariant, PTL

\* A handler or an upstream gets the client's messages in their order, and takes
\* them for complete only when they are, unless the access log cut the body or
\* the client broke it off, for every body and every limit.
THEOREM RequestsDelivered == Spec => []RequestDelivered
<1>1. Typed /\ DeliverInv => RequestDelivered
  <2> SUFFICES ASSUME Typed, DeliverInv PROVE RequestDelivered
    OBVIOUS
  <2>1. \A i \in 1..Len(got) : got[i] = i
    BY DEF DeliverInv, BodyInv
  <2>2. eof => Complete(Len(got))
    <3>1. CASE Streaming /\ eof
      <4>1. body = <<>> /\ Len(body) = 0 /\ Complete(Len(got) + Len(body))
        BY <3>1 DEF DeliverInv, PlaceInv, BodyInv
      <4>2. Len(got) + 0 = Len(got)
        BY LenProperties DEF Typed
      <4> QED BY <4>1, <4>2
    <3>2. CASE ~Streaming
      BY <3>2 DEF DeliverInv, BodyInv
    <3> QED BY <3>1, <3>2
  <2> QED BY <2>1, <2>2 DEF RequestDelivered, Complete, Short
<1> QED BY <1>1, GatewayInvariant, PTL

----------------------------------------------------------------------------
(* Of the registry and its resolver.                                       *)

RegistryTyped ==
  /\ files \subseteq FilePool /\ IsFiniteSet(files) /\ adding \subseteq FilePool
  /\ gen \in Nat /\ cachedGen \in Nat
  /\ look \in [Lookers -> [at : {"free", "lock", "built"}, gen : Nat,
                           copy : SUBSET FilePool]]
  /\ since \in [Lookers -> SUBSET SUBSET FilePool]

Busy(l) == look[l].at # "free"

\* A view that some contents seen by the lookup l could have given.
Seen(l, view) == \E fs \in since[l] : view \in Views(fs)

\* Generations come from the registry, and every lookup sees its contents.
GenInv ==
  /\ cachedGen <= gen
  /\ \A l \in Lookers : Busy(l) => look[l].gen <= gen /\ files \in since[l]

\* A view under the registry's present generation is one of its contents.
FreshInv ==
  /\ cached # NoView /\ cachedGen = gen => cached \in Views(files)
  /\ \A l \in Lookers : look[l].at = "built" /\ look[l].gen = gen => look[l].copy \in Views(files)

\* A lookup has seen contents that fit any view under its own generation: the
\* one in the cache, and the one that somebody is about to store there.
SharedInv ==
  \A l \in Lookers : Busy(l) =>
    /\ cached # NoView /\ cachedGen = look[l].gen => Seen(l, cached)
    /\ \A k \in Lookers :
         look[k].at = "built" /\ look[k].gen = look[l].gen => Seen(l, look[k].copy)

CacheInv == GenInv /\ FreshInv /\ SharedInv

----------------------------------------------------------------------------
(* What a step may do.                                                     *)

\* A change of the registry gives it a new generation.
LEMMA ChangeStep ==
  ASSUME RegistryTyped, RegisterNext \/ UnregisterByService
  PROVE  /\ files' \subseteq FilePool /\ IsFiniteSet(files') /\ adding' \subseteq FilePool
         /\ gen' \in Nat /\ gen' > gen
         /\ UNCHANGED <<cached, cachedGen, look>>
         /\ \A l \in Lookers : Busy(l) => since'[l] = since[l] \cup {files'}
<1>w. \A l \in Lookers : Busy(l) => since'[l] = since[l] \cup {files'}
  BY DEF RegisterNext, UnregisterByService, Witnessed, Busy
<1>1. CASE RegisterNext
  <2>1. PICK f \in adding : /\ adding' = adding \ {f}
                            /\ files' = {g \in files : g.path # f.path} \cup {f}
    BY <1>1 DEF RegisterNext
  <2>2. IsFiniteSet({g \in files : g.path # f.path})
    BY FS_Subset DEF RegistryTyped
  <2>3. IsFiniteSet(files')
    BY <2>1, <2>2, FS_AddElement
  <2> QED
    BY <1>1, <1>w, <2>1, <2>3 DEF RegisterNext, cacheVars, RegistryTyped
<1>2. CASE UnregisterByService
  <2>1. PICK f \in files : \E service \in f.services :
           /\ files' = files \ {g \in files : service \in g.services}
           /\ gen' = gen + Cardinality({g \in files : service \in g.services})
    BY <1>2 DEF UnregisterByService
  <2>s. PICK service \in f.services :
           /\ files' = files \ {g \in files : service \in g.services}
           /\ gen' = gen + Cardinality({g \in files : service \in g.services})
    BY <2>1
  <2> DEFINE gone == {g \in files : service \in g.services}
  <2>2. gone # {}
    BY <2>1
  <2>3. IsFiniteSet(gone) /\ IsFiniteSet(files \ gone)
    BY FS_Subset DEF RegistryTyped
  <2>4. Cardinality(gone) \in Nat /\ Cardinality(gone) # 0
    BY <2>2, <2>3, FS_CardinalityType, FS_EmptySet
  <2>5. files' = files \ gone /\ gen' = gen + Cardinality(gone)
    BY <2>s
  <2> HIDE DEF gone
  <2>6. files' \subseteq FilePool /\ IsFiniteSet(files') /\ gen' \in Nat /\ gen' > gen
    BY <2>3, <2>4, <2>5 DEF RegistryTyped
  <2>7. adding' = adding /\ UNCHANGED <<cached, cachedGen, look>>
    BY <1>2 DEF UnregisterByService, cacheVars
  <2> QED
    BY <1>w, <2>6, <2>7 DEF RegistryTyped
<1> QED
  BY <1>1, <1>2

\* A lookup begins with the generation and the contents of the moment.
LEMMA BeginEffect ==
  ASSUME RegistryTyped, NEW l \in Lookers, BeginLookup(l)
  PROVE  /\ look'[l] = [at |-> "lock", gen |-> gen, copy |-> {}]
         /\ since'[l] = {files}
         /\ \A k \in Lookers \ {l} : look'[k] = look[k] /\ since'[k] = since[k]
BY DEF BeginLookup, Free, RegistryTyped

\* A rebuild takes a view of the contents of the moment.
LEMMA RebuildEffect ==
  ASSUME RegistryTyped, NEW l \in Lookers, Rebuild(l)
  PROVE  /\ look[l].at = "lock" /\ look'[l].at = "built" /\ look'[l].gen = look[l].gen
         /\ look'[l].copy \in Views(files)
         /\ look' \in [Lookers -> [at : {"free", "lock", "built"}, gen : Nat,
                                   copy : SUBSET FilePool]]
         /\ \A k \in Lookers \ {l} : look'[k] = look[k]
<1>1. PICK view \in Views(files) :
        look' = [look EXCEPT ![l] = [@ EXCEPT !.at = "built", !.copy = view]]
  BY DEF Rebuild
<1> DEFINE r == look[l]
<1>2. r \in [at : {"free", "lock", "built"}, gen : Nat, copy : SUBSET FilePool]
      /\ r.at = "lock"
  BY DEF RegistryTyped, Rebuild
<1>3. view \in SUBSET FilePool
  BY <1>1 DEF Views, RegistryTyped
<1> DEFINE built == [r EXCEPT !.at = "built", !.copy = view]
<1>4. /\ built \in [at : {"free", "lock", "built"}, gen : Nat, copy : SUBSET FilePool]
      /\ built.at = "built" /\ built.gen = r.gen /\ built.copy = view
  BY <1>2, <1>3
<1>5. look' = [look EXCEPT ![l] = built]
  BY <1>1
<1> HIDE DEF built
<1> QED
  BY <1>2, <1>4, <1>5 DEF RegistryTyped

\* A lookup that ends.
LEMMA EndEffect ==
  ASSUME RegistryTyped, NEW l \in Lookers, CacheHit(l) \/ Store(l)
  PROVE  /\ look'[l] = Free /\ since'[l] = {}
         /\ \A k \in Lookers \ {l} : look'[k] = look[k] /\ since'[k] = since[k]
BY DEF CacheHit, Store, RegistryTyped

\* The registry, the cache and the lookups keep their types.
THEOREM RegistryTypeCorrect == RegistrySpec => []RegistryTyped
<1>1. RegistryInit => RegistryTyped
  BY FS_EmptySet DEF RegistryInit, RegistryTyped, Free
<1>2. RegistryTyped /\ [RegistryNext]_descriptorVars => RegistryTyped'
  <2> SUFFICES ASSUME RegistryTyped, [RegistryNext]_descriptorVars PROVE RegistryTyped'
    OBVIOUS
  <2> USE DEF registryVars, cacheVars
  <2>1. CASE BeginUpload
    BY <2>1 DEF BeginUpload, RegistryTyped
  <2>2. CASE RegisterNext \/ UnregisterByService
    <3>1. files' \in SUBSET FilePool
      BY <2>2, ChangeStep
    <3>2. since' \in [Lookers -> SUBSET SUBSET FilePool]
      <4>1. since' = [l \in Lookers |-> IF look[l].at = "free" THEN {} ELSE since[l] \cup {files'}]
        BY <2>2 DEF RegisterNext, UnregisterByService, Witnessed
      <4>2. \A l \in Lookers : (since[l] \cup {files'}) \in SUBSET SUBSET FilePool
        BY <3>1 DEF RegistryTyped
      <4> QED
        BY <4>1, <4>2
    <3> QED
      BY <2>2, <3>2, ChangeStep DEF RegistryTyped
  <2>3. ASSUME NEW l \in Lookers, BeginLookup(l) PROVE RegistryTyped'
    <3>1. look' \in [Lookers -> [at : {"free", "lock", "built"}, gen : Nat, copy : SUBSET FilePool]]
      <4> DEFINE r == [Free EXCEPT !.at = "lock", !.gen = gen]
      <4>1. r \in [at : {"free", "lock", "built"}, gen : Nat, copy : SUBSET FilePool]
        BY DEF RegistryTyped, Free
      <4>2. look' = [look EXCEPT ![l] = r]
        BY <2>3 DEF BeginLookup
      <4> HIDE DEF r
      <4> QED
        BY <4>1, <4>2 DEF RegistryTyped
    <3>2. {files} \in SUBSET SUBSET FilePool
      BY DEF RegistryTyped
    <3>3. since' \in [Lookers -> SUBSET SUBSET FilePool]
      BY <2>3, <3>2 DEF BeginLookup, RegistryTyped
    <3> QED
      BY <2>3, <3>1, <3>3 DEF BeginLookup, RegistryTyped
  <2>4. ASSUME NEW l \in Lookers, Rebuild(l) PROVE RegistryTyped'
    BY <2>4, RebuildEffect DEF Rebuild, RegistryTyped
  <2>5. ASSUME NEW l \in Lookers, CacheHit(l) \/ Store(l) PROVE RegistryTyped'
    <3>1. Free \in [at : {"free", "lock", "built"}, gen : Nat, copy : SUBSET FilePool]
      BY DEF Free
    <3>2. look' = [look EXCEPT ![l] = Free] /\ since' = [since EXCEPT ![l] = {}]
      BY <2>5 DEF CacheHit, Store
    <3>3. cachedGen' \in Nat
      BY <2>5 DEF CacheHit, Store, RegistryTyped
    <3> QED
      BY <2>5, <3>1, <3>2, <3>3 DEF CacheHit, Store, RegistryTyped
  <2>6. CASE UNCHANGED descriptorVars
    BY <2>6 DEF descriptorVars, RegistryTyped
  <2> QED
    BY <2>1, <2>2, <2>3, <2>4, <2>5, <2>6 DEF RegistryNext
<1> QED
  BY <1>1, <1>2, PTL DEF RegistrySpec

----------------------------------------------------------------------------
(* The cache.                                                              *)

\* Views under a generation come from contents of that generation or of later
\* ones, whoever stores them and whatever is registered meanwhile.
LEMMA CacheStep ==
  ASSUME RegistryTyped, CacheInv, [RegistryNext]_descriptorVars PROVE CacheInv'
<1> USE DEF registryVars, cacheVars
<1>1. CASE RegisterNext \/ UnregisterByService
  <2>1. /\ gen \in Nat /\ gen' \in Nat /\ gen' > gen /\ cachedGen \in Nat
        /\ \A l \in Lookers : look[l].gen \in Nat
    BY <1>1, ChangeStep DEF RegistryTyped
  <2>2. /\ cached' = cached /\ cachedGen' = cachedGen /\ look' = look
        /\ \A l \in Lookers : Busy(l) => since'[l] = since[l] \cup {files'}
    BY <1>1, ChangeStep
  <2>3. GenInv'
    BY <2>1, <2>2 DEF CacheInv, GenInv, Busy
  <2>4. FreshInv'
    BY <2>1, <2>2 DEF CacheInv, GenInv, FreshInv, Busy
  <2>5. ASSUME NEW l \in Lookers, NEW view, Busy(l), Seen(l, view) PROVE Seen(l, view)'
    BY <2>2, <2>5 DEF Seen, Views
  <2>6. SharedInv'
    BY <2>2, <2>5 DEF CacheInv, SharedInv, Busy
  <2> QED
    BY <2>3, <2>4, <2>6 DEF CacheInv
<1>2. ASSUME NEW l \in Lookers, BeginLookup(l) PROVE CacheInv'
  <2>1. /\ look'[l] = [at |-> "lock", gen |-> gen, copy |-> {}]
        /\ since'[l] = {files}
        /\ \A k \in Lookers \ {l} : look'[k] = look[k] /\ since'[k] = since[k]
    BY <1>2, BeginEffect
  <2>2. /\ look[l].at = "free"
        /\ UNCHANGED <<files, gen, cached, cachedGen>>
    BY <1>2 DEF BeginLookup
  <2>3. GenInv'
    BY <2>1, <2>2 DEF CacheInv, GenInv, Busy, RegistryTyped
  <2>4. FreshInv'
    BY <2>1, <2>2 DEF CacheInv, FreshInv, Views, Compatible
  <2>5. ASSUME NEW view, view \in Views(files) PROVE Seen(l, view)'
    BY <2>1, <2>5 DEF Seen, Views, Compatible
  <2>6. ASSUME NEW k \in Lookers \ {l}, NEW view, Seen(k, view) PROVE Seen(k, view)'
    BY <2>1, <2>6 DEF Seen, Views, Compatible
  <2>7. SharedInv'
    <3>1. ASSUME NEW k \in Lookers, Busy(k)', cached' # NoView, cachedGen' = look'[k].gen
          PROVE  Seen(k, cached)'
      BY <2>1, <2>2, <2>5, <2>6, <3>1 DEF CacheInv, FreshInv, SharedInv, Busy
    <3>2. ASSUME NEW k \in Lookers, Busy(k)', NEW m \in Lookers,
                 look'[m].at = "built", look'[m].gen = look'[k].gen
          PROVE  Seen(k, look[m].copy)'
      <4>1. m # l /\ look'[m] = look[m]
        BY <2>1, <3>2
      <4> QED
        BY <2>1, <2>2, <2>5, <2>6, <3>2, <4>1 DEF CacheInv, FreshInv, SharedInv, Busy
    <3> QED
      BY <3>1, <3>2 DEF SharedInv
  <2> QED
    BY <2>3, <2>4, <2>7 DEF CacheInv
<1>3. ASSUME NEW l \in Lookers, Rebuild(l) PROVE CacheInv'
  <2>1. /\ look[l].at = "lock" /\ look'[l].at = "built" /\ look'[l].gen = look[l].gen
        /\ look'[l].copy \in Views(files)
        /\ \A k \in Lookers \ {l} : look'[k] = look[k]
    BY <1>3, RebuildEffect
  <2>2. UNCHANGED <<files, gen, cached, cachedGen, since>>
    BY <1>3 DEF Rebuild
  <2>3. \A k \in Lookers : (Busy(k)' <=> Busy(k)) /\ look'[k].gen = look[k].gen
    BY <2>1 DEF Busy
  <2>4. GenInv'
    BY <2>2, <2>3 DEF CacheInv, GenInv
  <2>5. FreshInv'
    BY <2>1, <2>2 DEF CacheInv, FreshInv, Views, Compatible
  <2>6. ASSUME NEW k \in Lookers, Busy(k) PROVE Seen(k, look[l].copy)'
    <3>1. files \in since'[k]
      BY <2>2, <2>6 DEF CacheInv, GenInv
    <3> QED
      BY <2>1, <2>2, <3>1 DEF Seen, Views, Compatible
  <2>7. ASSUME NEW k \in Lookers, NEW view, Seen(k, view) PROVE \E fs \in since'[k] : view \in Views(fs)
    BY <2>2, <2>7 DEF Seen
  <2>8. SharedInv'
    <3>1. ASSUME NEW k \in Lookers, Busy(k)', cached' # NoView, cachedGen' = look'[k].gen
          PROVE  Seen(k, cached)'
      BY <2>2, <2>3, <2>7, <3>1 DEF CacheInv, SharedInv, Seen, Views
    <3>2. ASSUME NEW k \in Lookers, Busy(k)', NEW m \in Lookers,
                 look'[m].at = "built", look'[m].gen = look'[k].gen
          PROVE  Seen(k, look[m].copy)'
      <4>1. CASE m = l
        BY <2>3, <2>6, <3>2, <4>1
      <4>2. CASE m # l
        <5>1. look'[m] = look[m]
          BY <2>1, <4>2
        <5>2. Seen(k, look[m].copy)
          BY <2>3, <3>2, <5>1 DEF CacheInv, SharedInv
        <5> QED
          BY <2>2, <5>1, <5>2 DEF Seen, Views
      <4> QED
        BY <4>1, <4>2
    <3> QED
      BY <3>1, <3>2 DEF SharedInv
  <2> QED
    BY <2>4, <2>5, <2>8 DEF CacheInv
<1>4. ASSUME NEW l \in Lookers, CacheHit(l) \/ Store(l) PROVE CacheInv'
  <2>1. /\ look'[l].at = "free"
        /\ \A k \in Lookers \ {l} : look'[k] = look[k] /\ since'[k] = since[k]
    BY <1>4, EndEffect DEF Free
  <2>2. UNCHANGED <<files, gen>> /\ look[l].at # "free"
    BY <1>4 DEF CacheHit, Store
  <2>3. \/ UNCHANGED <<cached, cachedGen>>
        \/ look[l].at = "built" /\ cached' = look[l].copy /\ cachedGen' = look[l].gen
    BY <1>4 DEF CacheHit, Store
  <2>4. GenInv'
    BY <2>1, <2>2, <2>3 DEF CacheInv, GenInv, Busy
  <2>5. FreshInv'
    BY <2>1, <2>2, <2>3 DEF CacheInv, FreshInv, Views, Compatible
  <2>6. ASSUME NEW k \in Lookers, Busy(k)' PROVE k # l /\ Busy(k) /\ look'[k] = look[k]
    BY <2>1, <2>6 DEF Busy
  <2>7. ASSUME NEW k \in Lookers \ {l}, NEW view, Seen(k, view)
        PROVE  \E fs \in since'[k] : view \in Views(fs)
    BY <2>1, <2>7 DEF Seen
  <2>8. SharedInv'
    <3>1. ASSUME NEW k \in Lookers, Busy(k)', cached' # NoView, cachedGen' = look'[k].gen
          PROVE  Seen(k, cached)'
      <4>1. Seen(k, cached') 
        BY <2>2, <2>3, <2>6, <3>1 DEF CacheInv, SharedInv
      <4> QED
        BY <2>6, <2>7, <3>1, <4>1 DEF Seen, Views
    <3>2. ASSUME NEW k \in Lookers, Busy(k)', NEW m \in Lookers,
                 look'[m].at = "built", look'[m].gen = look'[k].gen
          PROVE  Seen(k, look[m].copy)'
      <4>1. m # l /\ look'[m] = look[m]
        BY <2>1, <3>2
      <4>2. Seen(k, look[m].copy)
        BY <2>6, <3>2, <4>1 DEF CacheInv, SharedInv
      <4> QED
        BY <2>6, <2>7, <3>2, <4>1, <4>2 DEF Seen, Views
    <3> QED
      BY <3>1, <3>2 DEF SharedInv
  <2> QED
    BY <2>4, <2>5, <2>8 DEF CacheInv
<1>5. CASE BeginUpload \/ UNCHANGED descriptorVars
  <2>1. UNCHANGED <<files, gen, cached, cachedGen, look, since>>
    BY <1>5 DEF BeginUpload, descriptorVars
  <2> QED
    BY <2>1 DEF CacheInv, GenInv, FreshInv, SharedInv, Busy, Seen, Views, Compatible
<1> QED
  BY <1>1, <1>2, <1>3, <1>4, <1>5 DEF RegistryNext

\* However uploads, removals and lookups interleave, and whichever lookup
\* stores its view last, names are resolved from contents the registry had
\* while the call was under way.
THEOREM ViewsAreCurrent == RegistrySpec => LookupsCurrent
<1> DEFINE Current ==
      \A l \in Lookers :
        look[l].at # "free" /\ look'[l].at = "free"
        => \E fs \in since[l] : cached' \in Views(fs)
<1>1. RegistryInit => CacheInv
  BY DEF RegistryInit, CacheInv, GenInv, FreshInv, SharedInv, Busy, Free
<1>2. RegistryTyped /\ CacheInv /\ [RegistryNext]_descriptorVars => CacheInv'
  BY CacheStep
<1>3. RegistryTyped /\ CacheInv /\ [RegistryNext]_descriptorVars => [Current]_descriptorVars
  <2> SUFFICES ASSUME RegistryTyped, CacheInv, RegistryNext, NEW l \in Lookers,
                      look[l].at # "free", look'[l].at = "free"
               PROVE  Seen(l, cached')
    BY DEF Seen
  <2> USE DEF registryVars, cacheVars
  <2>1. ASSUME NEW k \in Lookers, CacheHit(k) \/ Store(k) PROVE Seen(l, cached')
    <3>1. k = l
      BY <2>1, EndEffect
    <3>2. \/ cached' = cached /\ cached # NoView /\ cachedGen = look[l].gen
          \/ cached' = look[l].copy /\ look[l].at = "built"
      BY <2>1, <3>1 DEF CacheHit, Store
    <3> QED
      BY <3>2 DEF CacheInv, SharedInv, Busy
  <2>2. ASSUME NEW k \in Lookers, BeginLookup(k) PROVE FALSE
    BY <2>2, BeginEffect
  <2>3. ASSUME NEW k \in Lookers, Rebuild(k) PROVE FALSE
    BY <2>3, RebuildEffect
  <2>4. CASE BeginUpload
    BY <2>4 DEF BeginUpload
  <2>5. CASE RegisterNext \/ UnregisterByService
    BY <2>5, ChangeStep
  <2> QED
    BY <2>1, <2>2, <2>3, <2>4, <2>5 DEF RegistryNext
<1> QED
  BY <1>1, <1>2, <1>3, RegistryTypeCorrect, PTL DEF RegistrySpec, LookupsCurrent

----------------------------------------------------------------------------
(* Of the process.                                                         *)

Fns == Servers \cup {"telemetry"}
Stages == {"build", "wait", "Check", "Watch", "add", "serve", "shutdown", "stopping", "exit"}

ProcessTyped ==
  /\ signalled \in BOOLEAN /\ loaded \in BOOLEAN /\ flushed \in BOOLEAN
  /\ main \in Stages
  /\ health \in [HealthMethods -> {"NOT_SERVING", "SERVING", "none"}]
  /\ fns \in Seq(Fns) /\ registered \in Seq(Fns)
  /\ conn \in [Servers -> {"new", "started", "open", "closing", "closed"}]
  /\ busy \in [Servers -> BOOLEAN]

----------------------------------------------------------------------------
(* Readiness.                                                              *)

\* Past the wait, the stubs are loaded or there was a signal.
ReadyInv ==
  /\ main \in {"Check", "Watch", "add", "serve"} => loaded \/ signalled
  /\ (\E m \in HealthMethods : health[m] = "SERVING") => loaded \/ signalled

\* The tracer is the first function, and those after it stop servers.
TelemetryFirst(f) ==
  /\ f # <<>> /\ f[1] = "telemetry"
  /\ \A i \in 2..Len(f) : f[i] \in Servers

\* The functions that Do has popped have closed their servers.
Stopped(f) ==
  \A i \in 1..Len(registered) :
    i > Len(f) /\ registered[i] \in Servers => conn[registered[i]] = "closed"

DrainInv ==
  /\ \A s \in Servers : conn[s] = "closed" => ~busy[s]
  /\ main \notin {"stopping", "exit"} =>
       ~flushed /\ registered = <<>> /\ TelemetryFirst(fns)
  /\ main = "stopping" =>
       /\ TelemetryFirst(registered)
       /\ Len(fns) <= Len(registered)
       /\ \A i \in 1..Len(fns) : fns[i] = registered[i]
       /\ Stopped(fns)
       /\ flushed => fns = <<>>
  /\ main = "exit" => Stopped(<<>>)

----------------------------------------------------------------------------
(* Type correctness.                                                       *)

\* Registering a function keeps the list one of functions.
LEMMA AddTyped ==
  ASSUME fns \in Seq(Fns), registered \in Seq(Fns), NEW fn \in Servers, AddFn(fn)
  PROVE  /\ fns' \in Seq(Fns) /\ registered' \in Seq(Fns)
         /\ Len(fns') = Len(fns) + 1 /\ fns'[Len(fns) + 1] = fn
         /\ \A i \in 1..Len(fns) : fns'[i] = fns[i]
BY DEF AddFn, Fns

\* Popping the last function leaves the others, in their order.
LEMMA PopLast ==
  ASSUME NEW f \in Seq(Fns), f # <<>>
  PROVE  /\ Front(f) \in Seq(Fns) /\ Len(Front(f)) = Len(f) - 1
         /\ \A i \in 1..(Len(f) - 1) : Front(f)[i] = f[i]
         /\ Last(f) \in Fns
<1> DEFINE n == Len(f)
<1>1. n \in Nat /\ n # 0 /\ \A i \in 1..n : f[i] \in Fns
  OBVIOUS
<1>2. \A i \in 1..(n - 1) : f[i] \in Fns
  BY <1>1
<1>3. Front(f) = [i \in 1..(n - 1) |-> f[i]]
  BY <1>1 DEF Front
<1>4. Front(f) \in Seq(Fns) /\ Len(Front(f)) = n - 1
  BY <1>1, <1>2, <1>3
<1> QED
  BY <1>1, <1>3, <1>4 DEF Last

\* The variables of the process keep their types.
THEOREM ProcessTypeCorrect == ProcessSpec => []ProcessTyped
<1>1. ProcessInit => ProcessTyped
  <2> SUFFICES ASSUME ProcessInit PROVE ProcessTyped
    OBVIOUS
  <2>1. fns \in Seq(Fns) /\ registered \in Seq(Fns)
    BY DEF ProcessInit, Fns
  <2> QED
    BY <2>1 DEF ProcessInit, ProcessTyped, Stages
<1>2. ProcessTyped /\ [ProcessNext]_processVars => ProcessTyped'
  <2> SUFFICES ASSUME ProcessTyped, [ProcessNext]_processVars PROVE ProcessTyped'
    OBVIOUS
  <2> USE DEF ProcessTyped, enderVars, netVars, pcVars
  <2>1. CASE BuildGRPC \/ Wait
    BY <2>1 DEF BuildGRPC, Wait, Stages
  <2>2. CASE SetAlive
    BY <2>2 DEF SetAlive, Stages, HealthMethods
  <2>3. CASE AddGRPC
    <3>1. "grpc" \in Servers
      BY DEF Servers
    <3>2. fns' \in Seq(Fns) /\ registered' \in Seq(Fns)
      BY <2>3, <3>1, AddTyped DEF AddGRPC
    <3> QED
      BY <2>3, <3>2 DEF AddGRPC, Started, Stages
  <2>4. CASE EndServe
    BY <2>4 DEF EndServe, Stages
  <2>5. CASE BeginDo \/ EndDo \/ Exit
    BY <2>5 DEF BeginDo, EndDo, Exit, Stages
  <2>6. CASE StopLast
    <3>1. Front(fns) \in Seq(Fns)
      BY <2>6, PopLast DEF StopLast
    <3> QED
      BY <2>6, <3>1 DEF StopLast
  <2>7. CASE Signal \/ LoadStubs
    BY <2>7 DEF Signal, LoadStubs
  <2>8. CASE AddRest \/ AddGateway
    <3>1. {"rest", "gateway"} \subseteq Servers
      BY DEF Servers
    <3>2. fns' \in Seq(Fns) /\ registered' \in Seq(Fns)
      BY <2>8, <3>1, AddTyped DEF AddRest, AddGateway
    <3> QED
      BY <2>8, <3>2 DEF AddRest, AddGateway, Started
  <2>9. CASE ListenRest \/ ListenGateway
    BY <2>9 DEF ListenRest, ListenGateway, Started
  <2>10. ASSUME NEW s \in Servers, Serve(s) \/ ServeFails(s) \/ RequestStarts(s) \/ RequestEnds(s)
         PROVE  ProcessTyped'
    BY <2>10 DEF Serve, ServeFails, RequestStarts, RequestEnds
  <2>11. CASE PurgeStubs
    BY <2>11 DEF PurgeStubs
  <2>12. CASE UNCHANGED processVars
    BY <2>12 DEF processVars
  <2> QED
    BY <2>1, <2>2, <2>3, <2>4, <2>5, <2>6, <2>7, <2>8, <2>9, <2>10, <2>11, <2>12
    DEF ProcessNext, Main
<1> QED
  BY <1>1, <1>2, PTL DEF ProcessSpec

----------------------------------------------------------------------------
(* Readiness.                                                              *)

\* Whatever the order in which the signal, the load of the stubs and the
\* start-up of the gRPC server come, no client is told SERVING before the
\* stubs are loaded, unless the process is already on its way down.
THEOREM ReadyWhenLoaded == ProcessSpec => []ReadyAfterLoad
<1>1. ProcessInit => ReadyInv
  BY DEF ProcessInit, ReadyInv, HealthMethods
<1>2. ProcessTyped /\ ReadyInv /\ [ProcessNext]_processVars => ReadyInv'
  <2> SUFFICES ASSUME ProcessTyped, ReadyInv, [ProcessNext]_processVars PROVE ReadyInv'
    OBVIOUS
  <2> USE DEF ReadyInv
  <2>1. CASE SetAlive
    \* The goroutine is past the wait, so the status may change.
    <3>1. loaded \/ signalled
      BY <2>1 DEF SetAlive, HealthMethods
    <3> QED
      BY <2>1, <3>1 DEF SetAlive
  <2>2. CASE PurgeStubs
    BY <2>2 DEF PurgeStubs, pcVars
  <2>3. CASE BuildGRPC \/ Wait \/ AddGRPC \/ EndServe \/ BeginDo \/ StopLast \/ EndDo \/ Exit
    BY <2>3 DEF BuildGRPC, Wait, AddGRPC, EndServe, BeginDo, StopLast, EndDo, Exit, pcVars
  <2>4. CASE Signal \/ LoadStubs
    BY <2>4 DEF Signal, LoadStubs
  <2>5. CASE AddRest \/ ListenRest \/ ListenGateway \/ AddGateway
    BY <2>5 DEF AddRest, ListenRest, ListenGateway, AddGateway
  <2>6. ASSUME NEW s \in Servers, Serve(s) \/ ServeFails(s) \/ RequestStarts(s) \/ RequestEnds(s)
        PROVE  ReadyInv'
    BY <2>6 DEF Serve, ServeFails, RequestStarts, RequestEnds, pcVars
  <2>7. CASE UNCHANGED processVars
    BY <2>7 DEF processVars
  <2> QED
    BY <2>1, <2>2, <2>3, <2>4, <2>5, <2>6, <2>7 DEF ProcessNext, Main
<1>3. ReadyInv => ReadyAfterLoad
  BY DEF ReadyInv, ReadyAfterLoad
<1> QED
  BY <1>1, <1>2, <1>3, ProcessTypeCorrect, PTL DEF ProcessSpec

----------------------------------------------------------------------------
(* Draining.                                                               *)

\* A server that is closed stays closed, whatever the process does next.
LEMMA ClosedStays ==
  ASSUME ProcessTyped, [ProcessNext]_processVars, NEW s \in Servers, conn[s] = "closed"
  PROVE  conn'[s] = "closed"
<1> USE DEF ProcessTyped, enderVars, netVars, pcVars
<1>1. CASE AddGRPC \/ ListenRest \/ AddGateway
  BY <1>1 DEF AddGRPC, ListenRest, AddGateway, Started
<1>2. CASE EndServe
  BY <1>2 DEF EndServe
<1>3. CASE StopLast
  BY <1>3 DEF StopLast
<1>4. CASE \E r \in Servers : Serve(r) \/ ServeFails(r) \/ RequestStarts(r) \/ RequestEnds(r)
  BY <1>4 DEF Serve, ServeFails, RequestStarts, RequestEnds
<1>5. CASE BuildGRPC \/ Wait \/ SetAlive \/ BeginDo \/ EndDo \/ Exit
  BY <1>5 DEF BuildGRPC, Wait, SetAlive, BeginDo, EndDo, Exit
<1>6. CASE Signal \/ LoadStubs \/ AddRest \/ ListenGateway \/ PurgeStubs
  BY <1>6 DEF Signal, LoadStubs, AddRest, ListenGateway, PurgeStubs
<1>7. CASE UNCHANGED processVars
  BY <1>7 DEF processVars
<1> QED
  BY <1>1, <1>2, <1>3, <1>4, <1>5, <1>6, <1>7 DEF ProcessNext, Main

\* A closed server has no request and gets none.
LEMMA ClosedIdle ==
  ASSUME ProcessTyped, [ProcessNext]_processVars, NEW s \in Servers,
         conn[s] = "closed" => ~busy[s], conn'[s] = "closed"
  PROVE  ~busy'[s]
<1> USE DEF ProcessTyped, enderVars, netVars, pcVars
<1>1. CASE AddGRPC \/ ListenRest \/ AddGateway
  BY <1>1 DEF AddGRPC, ListenRest, AddGateway, Started
<1>2. CASE EndServe
  BY <1>2 DEF EndServe
<1>3. CASE StopLast
  BY <1>3 DEF StopLast
<1>4. CASE \E r \in Servers : Serve(r) \/ ServeFails(r) \/ RequestStarts(r) \/ RequestEnds(r)
  BY <1>4 DEF Serve, ServeFails, RequestStarts, RequestEnds
<1>5. CASE BuildGRPC \/ Wait \/ SetAlive \/ BeginDo \/ EndDo \/ Exit
  BY <1>5 DEF BuildGRPC, Wait, SetAlive, BeginDo, EndDo, Exit
<1>6. CASE Signal \/ LoadStubs \/ AddRest \/ ListenGateway \/ PurgeStubs
  BY <1>6 DEF Signal, LoadStubs, AddRest, ListenGateway, PurgeStubs
<1>7. CASE UNCHANGED processVars
  BY <1>7 DEF processVars
<1> QED
  BY <1>1, <1>2, <1>3, <1>4, <1>5, <1>6, <1>7 DEF ProcessNext, Main

\* A step that leaves Do and the lists alone.
LEMMA DrainKept ==
  ASSUME ProcessTyped, DrainInv, [ProcessNext]_processVars, UNCHANGED <<fns, registered, flushed>>,
         main' = main \/ {main, main'} \cap {"stopping", "exit"} = {}
  PROVE  DrainInv'
<1>1. \A s \in Servers : conn'[s] = "closed" => ~busy'[s]
  BY ClosedIdle DEF DrainInv
<1>2. ASSUME NEW f, Stopped(f) PROVE Stopped(f)'
  BY <1>2, ClosedStays DEF Stopped
<1> QED
  BY <1>1, <1>2 DEF DrainInv, TelemetryFirst, Stopped

\* A step that registers a function.
LEMMA DrainAdded ==
  ASSUME ProcessTyped, DrainInv, [ProcessNext]_processVars, NEW fn \in Servers, AddFn(fn), UNCHANGED flushed,
         main' = main \/ {main, main'} \cap {"stopping", "exit"} = {}
  PROVE  DrainInv'
<1>1. \A s \in Servers : conn'[s] = "closed" => ~busy'[s]
  BY ClosedIdle DEF DrainInv
<1>2. ASSUME main \notin {"stopping", "exit"} PROVE TelemetryFirst(fns')
  <2>1. TelemetryFirst(fns) /\ Len(fns) \in Nat
    BY <1>2 DEF DrainInv, ProcessTyped
  <2>2. /\ fns' \in Seq(Fns) /\ Len(fns') = Len(fns) + 1
        /\ fns'[Len(fns) + 1] = fn /\ \A i \in 1..Len(fns) : fns'[i] = fns[i]
    BY AddTyped DEF ProcessTyped
  <2>3. Len(fns) >= 1
    BY <2>1 DEF TelemetryFirst, ProcessTyped
  <2>4. fns' # <<>> /\ fns'[1] = "telemetry"
    BY <2>1, <2>2, <2>3 DEF TelemetryFirst
  <2>5. ASSUME NEW i \in 2..Len(fns') PROVE fns'[i] \in Servers
    BY <2>1, <2>2, <2>3 DEF TelemetryFirst
  <2> QED
    BY <2>4, <2>5 DEF TelemetryFirst
<1>3. main = "exit" => Stopped(<<>>)'
  BY ClosedStays DEF DrainInv, Stopped, AddFn
<1> QED
  BY <1>1, <1>2, <1>3 DEF DrainInv, AddFn

\* Do stops one server, or pops a function whose server is closed.
LEMMA DrainPopped ==
  ASSUME ProcessTyped, DrainInv, [ProcessNext]_processVars, StopLast PROVE DrainInv'
<1> DEFINE n == Len(fns)
<1>1. \A s \in Servers : conn'[s] = "closed" => ~busy'[s]
  BY ClosedIdle DEF DrainInv
<1>2. /\ TelemetryFirst(registered) /\ n <= Len(registered)
      /\ \A i \in 1..n : fns[i] = registered[i]
      /\ Stopped(fns) /\ ~flushed
      /\ main' = "stopping" /\ registered' = registered
  BY DEF StopLast, DrainInv, pcVars
<1>3. /\ n \in Nat \ {0} /\ Len(registered) \in Nat
      /\ fns \in Seq(Fns) /\ fns # <<>>
  BY DEF StopLast, ProcessTyped
<1>4. CASE Last(fns) \in Servers /\ conn[Last(fns)] # "closed"
  <2>1. fns' = fns /\ flushed' = flushed
    BY <1>4 DEF StopLast
  <2>2. Stopped(fns)'
    BY <1>2, <2>1, ClosedStays DEF Stopped
  <2> QED
    BY <1>1, <1>2, <2>1, <2>2 DEF DrainInv
<1>5. CASE ~(Last(fns) \in Servers /\ conn[Last(fns)] # "closed")
  <2>1. fns' = Front(fns) /\ flushed' = (flushed \/ Last(fns) = "telemetry")
        /\ conn' = conn
    BY <1>5 DEF StopLast
  <2>2. /\ Front(fns) \in Seq(Fns) /\ Len(Front(fns)) = n - 1
        /\ \A i \in 1..(n - 1) : Front(fns)[i] = fns[i]
    BY <1>3, PopLast
  <2>3. Last(fns) = registered[n]
    BY <1>2, <1>3 DEF Last
  <2>4. Stopped(fns)'
    <3>1. ASSUME NEW i \in 1..Len(registered), i > n - 1, registered[i] \in Servers
          PROVE  conn[registered[i]] = "closed"
      <4>1. CASE i = n
        BY <1>5, <2>3, <3>1, <4>1
      <4>2. CASE i > n
        BY <1>2, <3>1, <4>2 DEF Stopped
      <4> QED
        BY <1>3, <3>1, <4>1, <4>2
    <3> QED
      BY <1>2, <2>1, <2>2, <3>1 DEF Stopped
  <2>5. flushed' => fns' = <<>>
    <3> SUFFICES ASSUME flushed' PROVE fns' = <<>>
      OBVIOUS
    <3>1. registered[n] = "telemetry"
      BY <1>2, <2>1, <2>3
    <3>2. n = 1
      <4>1. "telemetry" \notin Servers
        BY DEF Servers
      <4>2. \A i \in 2..Len(registered) : registered[i] # "telemetry"
        BY <1>2, <4>1 DEF TelemetryFirst
      <4>3. n \notin 2..Len(registered)
        BY <3>1, <4>2
      <4> HIDE DEF n
      <4> QED
        BY <1>2, <1>3, <4>3
    <3>3. Len(Front(fns)) = 0
      BY <2>2, <3>2
    <3> QED
      BY <2>1, <2>2, <3>3
  <2>6. /\ Len(fns') <= Len(registered)
        /\ \A i \in 1..Len(fns') : fns'[i] = registered[i]
    BY <1>2, <1>3, <2>1, <2>2
  <2> QED
    BY <1>1, <1>2, <2>4, <2>5, <2>6 DEF DrainInv
<1> QED
  BY <1>4, <1>5

\* The tracer outlives every request of the servers that had registered when
\* Do began, and the process exits cleanly under none: whatever is registered,
\* in whatever order, before a signal or after it.
THEOREM RequestsDrained == ProcessSpec => []Drained
<1>1. ProcessInit => DrainInv
  BY DEF ProcessInit, DrainInv, TelemetryFirst, Servers
<1>2. ProcessTyped /\ DrainInv /\ [ProcessNext]_processVars => DrainInv'
  <2> SUFFICES ASSUME ProcessTyped, DrainInv, [ProcessNext]_processVars PROVE DrainInv'
    OBVIOUS
  <2> USE DEF enderVars, netVars, pcVars
  <2>1. CASE BuildGRPC \/ Wait \/ SetAlive \/ EndServe \/ Exit
    BY <2>1, DrainKept DEF BuildGRPC, Wait, SetAlive, EndServe, Exit, HealthMethods
  <2>2. CASE AddGRPC \/ AddRest \/ AddGateway
    BY <2>2, DrainAdded DEF AddGRPC, AddRest, AddGateway, Servers
  <2>3. CASE BeginDo
    <3>1. \A s \in Servers : conn'[s] = "closed" => ~busy'[s]
      BY ClosedIdle DEF DrainInv
    <3>2. TelemetryFirst(fns) /\ ~flushed
      BY <2>3 DEF BeginDo, DrainInv
    <3>3. Stopped(fns)'
      BY <2>3 DEF BeginDo, Stopped, ProcessTyped
    <3> QED
      BY <2>3, <3>1, <3>2, <3>3 DEF BeginDo, DrainInv, ProcessTyped
  <2>4. CASE StopLast
    BY <2>4, DrainPopped
  <2>5. CASE EndDo
    <3>1. \A s \in Servers : conn'[s] = "closed" => ~busy'[s]
      BY ClosedIdle DEF DrainInv
    <3>2. Stopped(<<>>)'
      BY <2>5 DEF EndDo, DrainInv, Stopped
    <3> QED
      BY <2>5, <3>1, <3>2 DEF EndDo, DrainInv
  <2>6. CASE Signal \/ LoadStubs \/ ListenRest \/ ListenGateway \/ PurgeStubs
    BY <2>6, DrainKept DEF Signal, LoadStubs, ListenRest, ListenGateway, PurgeStubs
  <2>7. ASSUME NEW s \in Servers, Serve(s) \/ ServeFails(s) \/ RequestStarts(s) \/ RequestEnds(s)
        PROVE  DrainInv'
    BY <2>7, DrainKept DEF Serve, ServeFails, RequestStarts, RequestEnds
  <2>8. CASE UNCHANGED processVars
    BY <2>8, DrainKept DEF processVars
  <2> QED
    BY <2>1, <2>2, <2>3, <2>4, <2>5, <2>6, <2>7, <2>8 DEF ProcessNext, Main
<1>3. ProcessTyped /\ DrainInv => Drained
  <2> SUFFICES ASSUME ProcessTyped, DrainInv, flushed \/ main = "exit",
                      NEW s \in Servers, s \in Range(registered)
               PROVE  ~busy[s] /\ conn[s] = "closed"
    BY DEF Drained
  <2>1. PICK i \in 1..Len(registered) : registered[i] = s
    BY DEF Range, ProcessTyped
  <2>2. Stopped(<<>>)
    BY DEF DrainInv
  <2>3. conn[s] = "closed"
    BY <2>1, <2>2 DEF Stopped
  <2> QED
    BY <2>3 DEF DrainInv
<1> QED
  BY <1>1, <1>2, <1>3, ProcessTypeCorrect, PTL DEF ProcessSpec

----------------------------------------------------------------------------
(* What the test's goroutine has left to do.                               *)

Steps == {"send", "link", "flush", "check", "shut", "drain", "stop", "delete", "purge", "end",
          "ended"}

Due(x, o) == \E i \in 1..Len(o) : o[i] = x
Sending(o) == o # <<>> /\ Head(o) = "send"
Closing(o) == Due("end", o) \/ Due("ended", o)

\* A request comes first, a remote test deletes before it ends, and an embedded
\* one shuts its server.
Planned(o) ==
  /\ o \in Seq(Steps)
  /\ \A i \in 1..Len(o) :
       /\ o[i] \in {"send", "ended"} => i = 1
       /\ o[i] \in {"link", "purge", "end", "ended"} => i = Len(o)
       /\ o[i] = "delete" => i = Len(o) \/ (i + 1 = Len(o) /\ o[i + 1] \in {"purge", "end"})
       /\ o[i] = "end" /\ mode # "embedded" => i = 1 \/ o[i - 1] = "delete"
       /\ o[i] = "send" => mode # "embedded"
       /\ o[i] \in {"shut", "drain"} => mode = "embedded"

\* The step at the head is due.
LEMMA HeadIsDue ==
  ASSUME NEW o, Planned(o), o # <<>>
  PROVE  /\ Due(Head(o), o) /\ Head(o) = o[1] /\ Len(o) >= 1
         /\ (Head(o) = "send" => mode # "embedded") /\ (Head(o) = "shut" => mode = "embedded")
<1>1. Len(o) \in Nat /\ Len(o) >= 1 /\ Head(o) = o[1]
  BY HeadTailProperties, LenProperties DEF Planned
<1>2. 1 \in 1..Len(o)
  BY <1>1
<1> QED BY <1>1, <1>2 DEF Due, Planned

\* A step less.
LEMMA PlanShrinks ==
  ASSUME NEW o, Planned(o), o # <<>>
  PROVE  /\ Planned(Tail(o)) /\ ~Sending(Tail(o))
         /\ \A x : Due(x, o) <=> x = Head(o) \/ Due(x, Tail(o))
<1> DEFINE t == Tail(o)
<1>1. /\ t \in Seq(Steps) /\ Len(o) \in Nat \ {0} /\ Len(t) = Len(o) - 1 /\ Head(o) = o[1]
      /\ \A i \in 1..Len(t) : t[i] = o[i + 1]
  BY HeadTailProperties, LenProperties DEF Planned
<1> HIDE DEF t
<1>2. \A x : Due(x, o) <=> x = Head(o) \/ Due(x, t)
  <2> SUFFICES ASSUME NEW x PROVE Due(x, o) <=> x = Head(o) \/ Due(x, t)
    OBVIOUS
  <2>1. ASSUME NEW i \in 1..Len(o), o[i] = x PROVE x = Head(o) \/ Due(x, t)
    <3>1. CASE i = 1
      BY <1>1, <2>1, <3>1
    <3>2. CASE i # 1
      <4>1. i - 1 \in 1..Len(t) /\ t[i - 1] = o[i]
        BY <1>1, <3>2
      <4> QED BY <2>1, <4>1 DEF Due
    <3> QED BY <3>1, <3>2
  <2>2. ASSUME NEW i \in 1..Len(t), t[i] = x PROVE Due(x, o)
    <3>1. i + 1 \in 1..Len(o) /\ o[i + 1] = x
      BY <1>1, <2>2
    <3> QED BY <3>1 DEF Due
  <2>3. 1 \in 1..Len(o)
    BY <1>1
  <2> QED BY <1>1, <2>1, <2>2, <2>3 DEF Due
<1>3. ASSUME NEW i \in 1..Len(t)
      PROVE  /\ t[i] \notin {"send", "ended"}
             /\ t[i] \in {"link", "purge", "end", "ended"} => i = Len(t)
             /\ t[i] = "delete" => i = Len(t) \/ (i + 1 = Len(t) /\ t[i + 1] \in {"purge", "end"})
             /\ t[i] = "end" /\ mode # "embedded" => i = 1 \/ t[i - 1] = "delete"
             /\ t[i] \in {"shut", "drain"} => mode = "embedded"
  <2>1. i + 1 \in 1..Len(o) /\ t[i] = o[i + 1]
    BY <1>1
  <2>2. /\ t[i] \notin {"send", "ended"}
        /\ t[i] \in {"link", "purge", "end", "ended"} => i = Len(t)
        /\ t[i] \in {"shut", "drain"} => mode = "embedded"
    BY <1>1, <2>1 DEF Planned
  <2>3. ASSUME t[i] = "delete", i # Len(t) PROVE i + 1 = Len(t) /\ t[i + 1] \in {"purge", "end"}
    <3>1. (i + 1) + 1 = Len(o) /\ o[(i + 1) + 1] \in {"purge", "end"}
      BY <1>1, <2>1, <2>3 DEF Planned
    <3>2. i + 1 \in 1..Len(t)
      BY <1>1, <3>1
    <3>3. t[i + 1] = o[(i + 1) + 1]
      BY <1>1, <3>2
    <3> QED BY <1>1, <3>1, <3>3
  <2>4. ASSUME t[i] = "end", mode # "embedded", i # 1 PROVE t[i - 1] = "delete"
    <3>1. o[(i + 1) - 1] = "delete"
      BY <1>1, <2>1, <2>4 DEF Planned
    <3>2. i - 1 \in 1..Len(t) /\ (i - 1) + 1 = (i + 1) - 1
      BY <1>1, <2>4
    <3>3. t[i - 1] = o[(i - 1) + 1]
      BY <1>1, <3>2
    <3> QED BY <3>1, <3>2, <3>3
  <2> QED BY <2>2, <2>3, <2>4
<1>4. Planned(t)
  BY <1>1, <1>3 DEF Planned
<1>5. ~Sending(t)
  <2>1. ASSUME t # <<>> PROVE Head(t) # "send"
    <3>1. Head(t) = t[1] /\ 1 \in 1..Len(t)
      BY <1>1, <2>1
    <3> QED BY <1>3, <3>1
  <2> QED BY <2>1 DEF Sending
<1> QED BY <1>2, <1>4, <1>5 DEF t

\* A step more, in front.
LEMMA PlanGrows ==
  ASSUME NEW o, Planned(o), ~Sending(o), ~Due("ended", o),
         o = <<>> \/ Head(o) # "end" \/ mode = "embedded",
         NEW step \in {"send", "flush", "check"}, step = "send" => mode # "embedded"
  PROVE  /\ Planned(<<step>> \o o) /\ <<step>> \o o # <<>> /\ Head(<<step>> \o o) = step
         /\ \A x : Due(x, <<step>> \o o) <=> x = step \/ Due(x, o)
<1> DEFINE one == <<step>>
           p == one \o o
<1>1. one \in Seq(Steps) /\ Len(one) = 1 /\ one[1] = step /\ o \in Seq(Steps)
  BY DEF Steps, Planned
<1> HIDE DEF one
<1>2. /\ p \in Seq(Steps) /\ Len(o) \in Nat /\ Len(p) = Len(o) + 1 /\ p[1] = step
      /\ \A i \in 1..Len(o) : p[i + 1] = o[i]
  <2>1. /\ p \in Seq(Steps) /\ Len(p) = Len(one) + Len(o)
        /\ \A i \in 1..Len(one) + Len(o) :
             p[i] = IF i <= Len(one) THEN one[i] ELSE o[i - Len(one)]
    BY <1>1, ConcatProperties
  <2>2. Len(o) \in Nat
    BY <1>1, LenProperties
  <2> HIDE DEF p
  <2>3. Len(p) = Len(o) + 1 /\ \A i \in 1..Len(p) : p[i] = IF i <= 1 THEN one[i] ELSE o[i - 1]
    BY <1>1, <2>1, <2>2
  <2> QED BY <1>1, <2>1, <2>2, <2>3
<1> HIDE DEF p
<1>3. \A i \in 1..Len(p) : i = 1 \/ (i - 1 \in 1..Len(o) /\ p[i] = o[i - 1])
  <2> SUFFICES ASSUME NEW i \in 1..Len(p), i # 1 PROVE i - 1 \in 1..Len(o) /\ p[i] = o[i - 1]
    OBVIOUS
  <2>1. i - 1 \in 1..Len(o) /\ (i - 1) + 1 = i
    BY <1>2
  <2> QED BY <1>2, <2>1
<1>4. \A x : Due(x, p) <=> x = step \/ Due(x, o)
  <2> SUFFICES ASSUME NEW x PROVE Due(x, p) <=> x = step \/ Due(x, o)
    OBVIOUS
  <2>1. Due(x, p) => x = step \/ Due(x, o)
    BY <1>2, <1>3 DEF Due
  <2>2. ASSUME NEW i \in 1..Len(o), o[i] = x PROVE Due(x, p)
    <3>1. i + 1 \in 1..Len(p) /\ p[i + 1] = x
      BY <1>2, <2>2
    <3> QED BY <3>1 DEF Due
  <2>3. 1 \in 1..Len(p)
    BY <1>2
  <2> QED BY <1>2, <2>1, <2>2, <2>3 DEF Due
<1>5. ASSUME NEW i \in 1..Len(p), i # 1
      PROVE  /\ p[i] \notin {"send", "ended"}
             /\ p[i] \in {"link", "purge", "end"} => i = Len(p)
             /\ p[i] = "delete" => i = Len(p) \/ (i + 1 = Len(p) /\ p[i + 1] \in {"purge", "end"})
             /\ p[i] = "end" /\ mode # "embedded" => p[i - 1] = "delete"
             /\ p[i] \in {"shut", "drain"} => mode = "embedded"
  <2>1. PICK j \in 1..Len(o) : j = i - 1 /\ p[i] = o[j] /\ i = j + 1
    BY <1>3, <1>5
  <2>2. o[j] # "ended"
    BY <2>1 DEF Due
  <2>3. o[j] # "send"
    <3>1. o[j] = "send" => o # <<>> /\ o[1] = "send"
      BY <1>1, <2>1 DEF Planned
    <3> QED BY <1>1, <3>1 DEF Sending
  <2>4. /\ p[i] \in {"link", "purge", "end"} => i = Len(p)
        /\ p[i] \in {"shut", "drain"} => mode = "embedded"
    BY <1>2, <2>1 DEF Planned
  <2>5. ASSUME p[i] = "delete", i # Len(p) PROVE i + 1 = Len(p) /\ p[i + 1] \in {"purge", "end"}
    <3>1. j + 1 = Len(o) /\ o[j + 1] \in {"purge", "end"}
      BY <1>2, <2>1, <2>5 DEF Planned
    <3>2. p[(j + 1) + 1] = o[j + 1]
      BY <1>2, <3>1
    <3> QED BY <1>2, <2>1, <3>1, <3>2
  <2>6. ASSUME p[i] = "end", mode # "embedded" PROVE p[i - 1] = "delete"
    <3>1. j = 1 \/ o[j - 1] = "delete"
      BY <2>1, <2>6 DEF Planned
    <3>2. j # 1
      BY <1>1, <2>1, <2>6
    <3>3. j - 1 \in 1..Len(o) /\ (j - 1) + 1 = i - 1
      BY <2>1, <3>2
    <3> QED BY <1>2, <3>1, <3>2, <3>3
  <2> QED BY <2>1, <2>2, <2>3, <2>4, <2>5, <2>6
<1>6. Planned(p)
  BY <1>2, <1>5 DEF Planned
<1>7. p # <<>> /\ Head(p) = step
  BY <1>2
<1> QED BY <1>4, <1>6, <1>7 DEF p, one

\* Short plans.
LEMMA ShortPlans ==
  /\ Planned(<<>>) /\ ~Sending(<<>>) /\ \A x : ~Due(x, <<>>)
  /\ \A step \in {"link", "purge", "end", "ended"} :
       /\ Planned(<<step>>) /\ ~Sending(<<step>>) /\ \A x : Due(x, <<step>>) <=> x = step
  /\ Planned(<<"delete", "purge">>) /\ ~Sending(<<"delete", "purge">>)
  /\ \A x : Due(x, <<"delete", "purge">>) <=> x \in {"delete", "purge"}
<1>1. Planned(<<>>) /\ ~Sending(<<>>) /\ \A x : ~Due(x, <<>>)
  <2> DEFINE o == <<>>
  <2>1. o \in Seq(Steps) /\ Len(o) = 0 /\ o = <<>>
    OBVIOUS
  <2> HIDE DEF o
  <2>2. Planned(o) /\ ~Sending(o) /\ \A x : ~Due(x, o)
    BY <2>1 DEF Planned, Sending, Due
  <2> QED BY <2>2 DEF o
<1>2. ASSUME NEW step \in {"link", "purge", "end", "ended"}
      PROVE  Planned(<<step>>) /\ ~Sending(<<step>>) /\ \A x : Due(x, <<step>>) <=> x = step
  <2> DEFINE o == <<step>>
  <2>1. o \in Seq(Steps) /\ Len(o) = 1 /\ o[1] = step /\ Head(o) = step
    BY DEF Steps
  <2> HIDE DEF o
  <2>2. Planned(o) /\ ~Sending(o) /\ \A x : Due(x, o) <=> x = step
    BY <2>1 DEF Planned, Sending, Due
  <2> QED BY <2>2 DEF o
<1>3. /\ Planned(<<"delete", "purge">>) /\ ~Sending(<<"delete", "purge">>)
      /\ \A x : Due(x, <<"delete", "purge">>) <=> x \in {"delete", "purge"}
  <2> DEFINE o == <<"delete", "purge">>
  <2>1. o \in Seq(Steps) /\ Len(o) = 2 /\ o[1] = "delete" /\ o[2] = "purge" /\ Head(o) = "delete"
    BY DEF Steps
  <2> HIDE DEF o
  <2>2. \A i \in 1..2 : i = 1 \/ i = 2
    OBVIOUS
  <2>3. 1 \in 1..2 /\ 2 \in 1..2 /\ 1 + 1 = 2
    OBVIOUS
  <2>4. Planned(o) /\ ~Sending(o) /\ \A x : Due(x, o) <=> x \in {"delete", "purge"}
    BY <2>1, <2>2, <2>3 DEF Planned, Sending, Due
  <2> QED BY <2>4 DEF o
<1> QED BY <1>1, <1>2, <1>3

\* The plans of Verify and Cleanup.
LEMMA VerifyPlanned ==
  ASSUME mode \in Modes, NEW rest, Planned(rest), ~Sending(rest), ~Due("ended", rest),
         rest = <<>> \/ Head(rest) # "end" \/ mode = "embedded",
         verified \in BOOLEAN, ThenVerify(rest)
  PROVE  /\ Planned(op') /\ ~Sending(op')
         /\ \A x : Due(x, rest) => Due(x, op')
         /\ \A x : Due(x, op') => Due(x, rest) \/ x \in {"flush", "check"}
         /\ verified' /\ (~verified => Due("check", op')) /\ (verified => op' = rest)
<1>1. CASE verified
  BY <1>1 DEF ThenVerify
<1>2. CASE ~verified
  <2> DEFINE part == <<"check">> \o rest
  <2>1. /\ Planned(part) /\ part # <<>> /\ Head(part) = "check"
        /\ \A x : Due(x, part) <=> x = "check" \/ Due(x, rest)
    BY PlanGrows
  <2>2. op' = FlushStep \o <<"check">> \o rest /\ verified'
    BY <1>2 DEF ThenVerify
  <2>3. rest \in Seq(Steps) /\ <<"check">> \in Seq(Steps) /\ <<"flush">> \in Seq(Steps)
    BY DEF Planned, Steps
  <2>4. CASE mode = "batch"
    <3>1. op' = <<"flush">> \o part
      <4>1. op' = (<<"flush">> \o <<"check">>) \o rest
        BY <2>2, <2>4 DEF FlushStep
      <4> QED BY <2>3, <4>1, ConcatAssociative
    <3> HIDE DEF part
    <3>2. ~Sending(part) /\ ~Due("ended", part) /\ Head(part) # "end"
      BY <2>1 DEF Sending
    <3>3. /\ Planned(op') /\ op' # <<>> /\ Head(op') = "flush"
          /\ \A x : Due(x, op') <=> x = "flush" \/ Due(x, part)
      BY <2>1, <2>4, <3>1, <3>2, PlanGrows
    <3> QED BY <1>2, <2>1, <2>2, <3>3 DEF Sending
  <2>5. CASE mode # "batch"
    <3>1. op' = part
      <4>1. op' = (<<>> \o <<"check">>) \o rest
        BY <2>2, <2>5 DEF FlushStep
      <4> QED BY <2>3, <4>1, ConcatEmptySeq
    <3> HIDE DEF part
    <3> QED BY <1>2, <2>1, <2>2, <3>1 DEF Sending
  <2> QED BY <2>4, <2>5
<1> QED BY <1>1, <1>2

\* Two steps, and perhaps the end, in a row.
LEMMA Joined ==
  ASSUME NEW t \in Seq(Steps), Len(t) = 2, NEW last \in {<<>>, <<"end">>}
  PROVE  LET c == t \o last
         IN  /\ c \in Seq(Steps) /\ c # <<>> /\ Head(c) = t[1] /\ c[1] = t[1] /\ c[2] = t[2]
             /\ Len(c) = IF last = <<>> THEN 2 ELSE 3
             /\ last = <<"end">> => c[3] = "end"
<1> DEFINE none == <<>>
           one == <<"end">>
           c == t \o last
<1>1. /\ none \in Seq(Steps) /\ Len(none) = 0 /\ one \in Seq(Steps) /\ Len(one) = 1
      /\ one[1] = "end" /\ none # one /\ last \in {none, one}
  BY DEF Steps
<1> HIDE DEF none, one
<1>2. /\ last \in Seq(Steps) /\ Len(last) = (IF last = none THEN 0 ELSE 1)
      /\ last = one => last[1] = "end"
  <2>1. CASE last = none
    BY <1>1, <2>1
  <2>2. CASE last = one
    BY <1>1, <2>2
  <2> QED BY <1>1, <2>1, <2>2
<1>3. /\ c \in Seq(Steps) /\ Len(c) = Len(t) + Len(last)
      /\ \A i \in 1..Len(t) + Len(last) : c[i] = IF i <= Len(t) THEN t[i] ELSE last[i - Len(t)]
  BY <1>2, ConcatProperties
<1> HIDE DEF c
<1>4. Len(c) = (IF last = none THEN 2 ELSE 3) /\ c[1] = t[1] /\ c[2] = t[2]
  BY <1>1, <1>2, <1>3
<1>5. last = one => c[3] = "end"
  BY <1>1, <1>2, <1>3
<1>6. c # <<>> /\ Head(c) = c[1]
  BY <1>3, <1>4
<1> QED BY <1>3, <1>4, <1>5, <1>6 DEF none, one, c

\* The steps of Close, and those of a cleanup from there on, are a plan.
LEMMA ClosePlanned ==
  ASSUME mode \in Modes, NEW last \in {<<>>, <<"end">>}
  PROVE  LET c == CloseSteps \o last
         IN  /\ Planned(c) /\ ~Sending(c) /\ c # <<>> /\ Head(c) # "end"
             /\ \A x : Due(x, c) => \/ x \in {"flush", "stop", "delete", "shut", "drain"}
                                    \/ x = "end" /\ last = <<"end">>
             /\ last = <<"end">> => Due("end", c)
             /\ (mode = "batch" => Due("flush", c)) /\ (mode # "embedded" => Due("delete", c))
<1> DEFINE none == <<>>
           one == <<"end">>
           c == CloseSteps \o last
<1>1. none # one /\ last \in {none, one}
  OBVIOUS
<1>2. CASE mode = "embedded"
  <2> DEFINE t == <<"shut", "drain">>
  <2>1. t \in Seq(Steps) /\ Len(t) = 2 /\ t[1] = "shut" /\ t[2] = "drain"
    BY DEF Steps
  <2>2. c = t \o last
    BY <1>2 DEF CloseSteps
  <2> HIDE DEF t, c
  <2>3. /\ c \in Seq(Steps) /\ c # <<>> /\ Head(c) = "shut" /\ c[1] = "shut" /\ c[2] = "drain"
        /\ Len(c) = (IF last = none THEN 2 ELSE 3) /\ (last = one => c[3] = "end")
    BY <2>1, <2>2, Joined
  <2> HIDE DEF none, one
  <2>4. \A i \in 1..Len(c) : i = 1 \/ i = 2 \/ (i = 3 /\ last = one /\ Len(c) = 3)
    BY <1>1, <2>3
  <2>5. Planned(c)
    BY <1>2, <2>3, <2>4 DEF Planned
  <2>6. last = one => Due("end", c)
    <3>1. last = one => 3 \in 1..Len(c)
      BY <1>1, <2>3
    <3> QED BY <2>3, <3>1 DEF Due
  <2>7. \A x : Due(x, c) => x \in {"shut", "drain"} \/ (x = "end" /\ last = one)
    BY <2>3, <2>4 DEF Due
  <2> QED BY <1>2, <2>3, <2>5, <2>6, <2>7 DEF Sending, c, one
<1>3. CASE mode # "embedded"
  <2> DEFINE t == <<"stop", "delete">>
             rest == t \o last
  <2>1. t \in Seq(Steps) /\ Len(t) = 2 /\ t[1] = "stop" /\ t[2] = "delete"
    BY DEF Steps
  <2>2. c = (FlushStep \o t) \o last
    BY <1>3 DEF CloseSteps
  <2> HIDE DEF t, c
  <2>3. /\ rest \in Seq(Steps) /\ rest # <<>> /\ Head(rest) = "stop" /\ rest[1] = "stop"
        /\ rest[2] = "delete" /\ Len(rest) = (IF last = none THEN 2 ELSE 3)
        /\ (last = one => rest[3] = "end")
    BY <2>1, Joined
  <2> HIDE DEF rest
  <2>4. CASE mode = "batch"
    <3> DEFINE flush == <<"flush">>
    <3>1. flush \in Seq(Steps) /\ last \in Seq(Steps) /\ FlushStep = flush
      <4>1. flush \in Seq(Steps) /\ none \in Seq(Steps) /\ one \in Seq(Steps)
        BY DEF Steps
      <4>2. FlushStep = flush
        BY <2>4 DEF FlushStep
      <4> HIDE DEF none, one, flush
      <4> QED BY <1>1, <4>1, <4>2
    <3> HIDE DEF flush
    <3>2. c = flush \o rest
      BY <2>1, <2>2, <3>1, ConcatAssociative DEF rest
    <3> HIDE DEF none, one
    <3>3. \A i \in 1..Len(rest) : i = 1 \/ i = 2 \/ (i = 3 /\ last = one /\ Len(rest) = 3)
      BY <1>1, <2>3
    <3>4. Planned(rest)
      BY <1>3, <2>3, <3>3 DEF Planned
    <3>5. (last = one => Due("end", rest)) /\ Due("delete", rest)
      <4>1. (last = one => 3 \in 1..Len(rest)) /\ 2 \in 1..Len(rest)
        BY <1>1, <2>3
      <4> QED BY <2>3, <4>1 DEF Due
    <3>6. \A x : Due(x, rest) => x \in {"stop", "delete"} \/ (x = "end" /\ last = one)
      BY <2>3, <3>3 DEF Due
    <3>7. ~Sending(rest) /\ ~Due("ended", rest)
      BY <2>3, <3>6 DEF Sending
    <3>8. /\ Planned(c) /\ c # <<>> /\ Head(c) = "flush"
          /\ \A x : Due(x, c) <=> x = "flush" \/ Due(x, rest)
      BY <1>3, <2>3, <3>2, <3>4, <3>7, PlanGrows DEF flush
    <3> QED BY <1>3, <3>5, <3>6, <3>8 DEF Sending, c, one
  <2>5. CASE mode # "batch"
    <3>1. c = rest
      BY <2>1, <2>2, <2>5, ConcatEmptySeq DEF FlushStep, rest
    <3> HIDE DEF none, one
    <3>2. \A i \in 1..Len(rest) : i = 1 \/ i = 2 \/ (i = 3 /\ last = one /\ Len(rest) = 3)
      BY <1>1, <2>3
    <3>3. Planned(rest)
      BY <1>3, <2>3, <3>2 DEF Planned
    <3>4. (last = one => Due("end", rest)) /\ Due("delete", rest)
      <4>1. (last = one => 3 \in 1..Len(rest)) /\ 2 \in 1..Len(rest)
        BY <1>1, <2>3
      <4> QED BY <2>3, <4>1 DEF Due
    <3>5. \A x : Due(x, rest) => x \in {"stop", "delete"} \/ (x = "end" /\ last = one)
      BY <2>3, <3>2 DEF Due
    <3> QED BY <1>3, <2>3, <2>5, <3>1, <3>3, <3>4, <3>5 DEF Sending, c, one
  <2> QED BY <2>4, <2>5
<1> QED BY <1>2, <1>3

\* So is the whole of a cleanup: an unverified test has the check due, each has the end.
LEMMA CleanupPlanned ==
  ASSUME mode \in Modes, verified \in BOOLEAN, Cleanup
  PROVE  /\ Planned(op') /\ ~Sending(op') /\ ~Due("link", op') /\ ~Due("purge", op')
         /\ Due("end", op') /\ (mode = "batch" => Due("flush", op'))
         /\ (mode # "embedded" => Due("delete", op'))
         /\ verified' /\ (~verified => Due("check", op')) /\ ~Due("ended", op')
<1> DEFINE c == CloseSteps \o <<"end">>
<1>1. ThenVerify(c)
  BY DEF Cleanup
<1>2. /\ Planned(c) /\ ~Sending(c) /\ c # <<>> /\ Head(c) # "end"
      /\ \A x : Due(x, c) => x \in {"flush", "stop", "delete", "shut", "drain", "end"}
      /\ Due("end", c) /\ (mode = "batch" => Due("flush", c))
      /\ (mode # "embedded" => Due("delete", c))
  BY ClosePlanned
<1> HIDE DEF c
<1>3. /\ Planned(op') /\ ~Sending(op')
      /\ \A x : Due(x, c) => Due(x, op')
      /\ \A x : Due(x, op') => Due(x, c) \/ x \in {"flush", "check"}
      /\ verified' /\ (~verified => Due("check", op'))
  <2>1. ~Due("ended", c)
    BY <1>2
  <2> QED BY <1>1, <1>2, <2>1, VerifyPlanned
<1> QED BY <1>2, <1>3

\* And so is Close on its own.
LEMMA OwnClosePlanned ==
  ASSUME mode \in Modes, Close
  PROVE  /\ Planned(op') /\ ~Sending(op')
         /\ \A x : Due(x, op') => x \in {"flush", "stop", "delete", "shut", "drain"}
         /\ mode = "batch" => Due("flush", op')
<1> DEFINE none == <<>>
           c == CloseSteps \o none
<1>1. Planned(c) /\ ~Sending(c) /\ (mode = "batch" => Due("flush", c))
  BY ClosePlanned
<1>2. \A x : Due(x, c) => x \in {"flush", "stop", "delete", "shut", "drain"}
  <2>1. none # <<"end">>
    OBVIOUS
  <2> QED BY <2>1, ClosePlanned
<1>3. op' = c
  <2>1. CloseSteps \in Seq(Steps)
    <3>1. /\ <<"shut", "drain">> \in Seq(Steps) /\ <<"stop", "delete">> \in Seq(Steps)
          /\ FlushStep \in Seq(Steps)
      <4>1. <<"shut", "drain">> \in Seq(Steps) /\ <<"stop", "delete">> \in Seq(Steps)
        BY DEF Steps
      <4>2. <<"flush">> \in Seq(Steps) /\ <<>> \in Seq(Steps)
        BY DEF Steps
      <4> QED BY <4>1, <4>2 DEF FlushStep
    <3>2. FlushStep \o <<"stop", "delete">> \in Seq(Steps)
      BY <3>1, ConcatProperties
    <3> QED BY <3>1, <3>2 DEF CloseSteps
  <2>2. c = CloseSteps
    BY <2>1, ConcatEmptySeq
  <2> QED BY <2>2 DEF Close
<1> HIDE DEF c
<1> QED BY <1>1, <1>2, <1>3

----------------------------------------------------------------------------
(* Types, and the queue.                                                   *)

StubSet == [id : Ids, times : Nat, session : Sessions]
Matches == [id : Ids, session : Sessions]
UsedSet == [expectations : 0..MaxExpectations, stubs : Nat, calls : Nat, faults : Nat,
            resets : Nat, purges : Nat]
Live == timer \in {"off", "armed"}

SdkTyped ==
  /\ mode \in Modes /\ session \in {Global, Own}
  /\ expectations \subseteq [id : Ids, times : Nat, late : BOOLEAN]
  /\ verified \in BOOLEAN /\ pending \in Seq(StubSet) /\ wanted \subseteq StubSet
  /\ stubIDs \subseteq Ids /\ opErr \in BOOLEAN
  /\ batch \in Seq(StubSet) /\ unsent \subseteq Sessions
  /\ timer \in {"off", "armed", "deleting", "done"} /\ expired \subseteq Ids
  /\ serving \in BOOLEAN /\ stranded \subseteq Ids
  /\ stubs \subseteq StubSet
  /\ count \in [Ids \X Sessions -> Nat]
  /\ recorded \in [Ids \X Sessions -> Nat] /\ taken \in [Ids \X Sessions -> Nat]
  /\ calls \in [Callers -> Matches \cup {Idle}] /\ reported \in BOOLEAN
  /\ used \in UsedSet
  /\ chain \in [number : 0..MaxExpectations, links : 0..MaxLinks,
                first : StubSet \cup {NoChain.first}]
  /\ chain.links > 0 => /\ chain.first \in StubSet /\ chain.first.id = <<chain.number, 1>>
                        /\ chain.number = used.expectations
  /\ Planned(op)
  /\ Due("link", op) => /\ chain.links \in 1..(MaxLinks - 1) /\ chain.first.times # 0
                        /\ ~Due("shut", op) /\ ~Due("delete", op)

\* A step that counts no expectation, and forgets no purge of another test.
Spent == used'.expectations = used.expectations /\ used'.purges >= used.purges

\* Nothing waits where it is not sent, and no error is kept while requests go out.
Queued ==
  /\ mode # "batch" => pending = <<>>
  /\ mode = "embedded" => ~opErr /\ timer = "off"
  /\ mode = "batch" /\ Due("delete", op) /\ ~Due("flush", op) => pending = <<>>
  /\ ~Sending(op) => batch = <<>> /\ unsent = {}
  /\ Sending(op) => pending = <<>> /\ (Live => ~opErr)

\* The stubs on their way to the server.
Awaited == ToSet(pending) \cup {b \in ToSet(batch) : b.session \in unsent}

\* Small sequences as sets.
LEMMA Listed ==
  ASSUME NEW S
  PROVE  /\ ToSet(<<>>) = {} /\ <<>> \in Seq(S)
         /\ \A x \in S : <<x>> \in Seq(S) /\ ToSet(<<x>>) = {x}
         /\ \A q \in Seq(S) : /\ ToSet(q) \subseteq S /\ (q = <<>> <=> ToSet(q) = {})
                              /\ \A x \in S : /\ Append(q, x) \in Seq(S)
                                              /\ ToSet(Append(q, x)) = ToSet(q) \cup {x}
<1>1. ToSet(<<>>) = {} /\ <<>> \in Seq(S)
  BY DEF ToSet
<1>2. ASSUME NEW x \in S PROVE <<x>> \in Seq(S) /\ ToSet(<<x>>) = {x}
  <2> DEFINE q == <<x>>
  <2>1. q \in Seq(S) /\ Len(q) = 1 /\ DOMAIN q = 1..1 /\ q[1] = x
    OBVIOUS
  <2> HIDE DEF q
  <2>2. ToSet(q) = {x}
    BY <2>1 DEF ToSet
  <2> QED BY <2>1, <2>2 DEF q
<1>3. ASSUME NEW q \in Seq(S)
      PROVE  /\ ToSet(q) \subseteq S /\ (q = <<>> <=> ToSet(q) = {})
             /\ \A x \in S : Append(q, x) \in Seq(S) /\ ToSet(Append(q, x)) = ToSet(q) \cup {x}
  <2>1. DOMAIN q = 1..Len(q) /\ Len(q) \in Nat /\ \A i \in 1..Len(q) : q[i] \in S
    BY ElementOfSeq, LenProperties
  <2>2. ToSet(q) \subseteq S
    BY <2>1 DEF ToSet
  <2>3. q = <<>> <=> ToSet(q) = {}
    <3>1. q # <<>> => 1 \in DOMAIN q
      BY <2>1
    <3> QED BY <1>1, <3>1 DEF ToSet
  <2>4. ASSUME NEW x \in S PROVE Append(q, x) \in Seq(S) /\ ToSet(Append(q, x)) = ToSet(q) \cup {x}
    <3> DEFINE r == Append(q, x)
    <3>1. /\ r \in Seq(S) /\ DOMAIN r = 1..Len(q) + 1 /\ r[Len(q) + 1] = x
          /\ \A i \in 1..Len(q) : r[i] = q[i]
      BY <2>1, AppendProperties
    <3> HIDE DEF r
    <3>2. ToSet(r) = ToSet(q) \cup {x}
      BY <2>1, <3>1 DEF ToSet
    <3> QED BY <3>1, <3>2 DEF r
  <2> QED BY <2>2, <2>3, <2>4
<1> QED BY <1>1, <1>2, <1>3

\* What a commit leaves to be sent.
LEMMA Committed ==
  ASSUME SdkTyped, mode # "embedded", NEW ss \in Seq(StubSet), NEW rest, Planned(rest),
         ~Sending(rest), ~Due("ended", rest), rest = <<>> \/ Head(rest) # "end",
         batch = <<>>, unsent = {}, Commit(ss, rest)
  PROVE  /\ Planned(op') /\ batch' \in Seq(StubSet) /\ unsent' \subseteq Sessions
         /\ \A x : Due(x, op') <=> Due(x, rest) \/ (x = "send" /\ Sending(op'))
         /\ ~Sending(op') => batch' = <<>> /\ unsent' = {}
         /\ Sending(op') <=> ss # <<>> /\ ~opErr
         /\ Sending(op') => batch' = ss
         /\ {b \in ToSet(batch') : b.session \in unsent'} = IF opErr THEN {} ELSE ToSet(ss)
<1>1. ToSet(ss) \subseteq StubSet /\ (ss = <<>> <=> ToSet(ss) = {}) /\ ToSet(<<>>) = {}
  BY Listed
<1>2. CASE ss = <<>> \/ opErr
  <2>1. op' = rest /\ batch' = batch /\ unsent' = unsent
    BY <1>2 DEF Commit, commitVars
  <2>2. \A x : Due(x, op') <=> Due(x, rest) \/ (x = "send" /\ Sending(op'))
    BY <2>1
  <2> QED BY <1>1, <1>2, <2>1, <2>2 DEF SdkTyped
<1>3. CASE ~(ss = <<>> \/ opErr)
  <2>1. op' = <<"send">> \o rest /\ batch' = ss /\ unsent' = {s.session : s \in ToSet(ss)}
    BY <1>3 DEF Commit
  <2>2. /\ Planned(op') /\ op' # <<>> /\ Head(op') = "send"
        /\ \A x : Due(x, op') <=> x = "send" \/ Due(x, rest)
    BY <2>1, PlanGrows
  <2>3. Sending(op')
    BY <2>2 DEF Sending
  <2>4. unsent' \subseteq Sessions
    BY <1>1, <2>1 DEF StubSet
  <2>5. {b \in ToSet(batch') : b.session \in unsent'} = ToSet(ss)
    BY <2>1
  <2> QED BY <1>3, <2>1, <2>2, <2>3, <2>4, <2>5
<1> QED BY <1>2, <1>3

\* A stub has entered the server or the queue, in the place of its older form.
Entered(s) ==
  /\ IdsOf(ToSet(batch')) \subseteq {s.id}
  /\ IF mode = "embedded" THEN stubs' = Put({s}) /\ Awaited' = Awaited
     ELSE /\ stubs' = stubs
          /\ Awaited' \subseteq {x \in Awaited : x.id # s.id} \cup {s}
          /\ ~opErr => Awaited' = {x \in Awaited : x.id # s.id} \cup {s}

\* What registering a stub does, by mode.
LEMMA Registered ==
  ASSUME SdkTyped, Queued, ~Sending(op), NEW s \in StubSet, NEW rest, Planned(rest),
         ~Sending(rest), ~Closing(rest), Register(s, rest)
  PROVE  /\ stubs' \subseteq StubSet /\ pending' \in Seq(StubSet)
         /\ Planned(op') /\ batch' \in Seq(StubSet) /\ unsent' \subseteq Sessions
         /\ \A x : Due(x, op') <=> Due(x, rest) \/ (x = "send" /\ Sending(op'))
         /\ mode # "batch" => pending' = <<>>
         /\ ~Sending(op') => batch' = <<>> /\ unsent' = {}
         /\ Sending(op') => pending' = <<>> /\ ~opErr /\ mode # "embedded"
         /\ Entered(s)
<1>1. batch = <<>> /\ unsent = {} /\ Awaited = ToSet(pending) /\ ToSet(batch) = {}
  BY Listed DEF Queued, Awaited
<1>2. ~Due("ended", rest) /\ (rest = <<>> \/ Head(rest) # "end")
  <2>1. ASSUME rest # <<>> PROVE Head(rest) # "end"
    <3>1. Head(rest) = rest[1] /\ 1 \in 1..Len(rest)
      BY <2>1, HeadTailProperties, LenProperties DEF Planned
    <3> QED BY <3>1 DEF Closing, Due
  <2> QED BY <2>1 DEF Closing
<1>3. CASE mode = "embedded"
  <2>1. /\ stubs' = Put({s}) /\ op' = rest
        /\ pending' = pending /\ batch' = batch /\ unsent' = unsent
    BY <1>3 DEF Register, commitVars
  <2>2. stubs' \subseteq StubSet
    BY <2>1 DEF SdkTyped, Put
  <2>3. Awaited' = Awaited
    BY <2>1 DEF Awaited
  <2>4. \A x : Due(x, op') <=> Due(x, rest) \/ (x = "send" /\ Sending(op'))
    BY <2>1
  <2> QED BY <1>1, <1>3, <2>1, <2>2, <2>3, <2>4 DEF SdkTyped, Queued, IdsOf, Entered
<1>4. CASE mode = "batch"
  <2>1. op' = rest /\ stubs' = stubs /\ batch' = batch /\ unsent' = unsent
    BY <1>4 DEF Register, commitVars
  <2>2. pending' \in Seq(StubSet) /\ ToSet(pending') = {x \in ToSet(pending) : x.id # s.id} \cup {s}
    <3>1. DOMAIN pending = 1..Len(pending) /\ Len(pending) \in Nat
          /\ \A i \in 1..Len(pending) : pending[i] \in StubSet
      BY ElementOfSeq, LenProperties DEF SdkTyped
    <3>2. CASE \E i \in DOMAIN pending : pending[i].id = s.id
      <4>1. pending' = [i \in DOMAIN pending |->
                          IF pending[i].id = s.id THEN s ELSE pending[i]]
        BY <1>4, <3>2 DEF Register
      <4>2. pending' \in [1..Len(pending) -> StubSet]
        BY <3>1, <4>1
      <4>3. pending' \in Seq(StubSet)
        BY <3>1, <4>2, SeqDef
      <4>4. ToSet(pending') = {x \in ToSet(pending) : x.id # s.id} \cup {s}
        BY <3>1, <3>2, <4>1 DEF ToSet
      <4> QED BY <4>3, <4>4
    <3>3. CASE ~\E i \in DOMAIN pending : pending[i].id = s.id
      <4>1. pending' = Append(pending, s)
        BY <1>4, <3>3 DEF Register
      <4>2. \A x \in ToSet(pending) : x.id # s.id
        BY <3>3 DEF ToSet
      <4>3. pending' \in Seq(StubSet) /\ ToSet(pending') = ToSet(pending) \cup {s}
        BY <4>1, Listed DEF SdkTyped
      <4> QED BY <4>2, <4>3
    <3> QED BY <3>2, <3>3
  <2>3. Awaited' = ToSet(pending')
    BY <1>1, <2>1 DEF Awaited
  <2>4. \A x : Due(x, op') <=> Due(x, rest) \/ (x = "send" /\ Sending(op'))
    BY <2>1
  <2> QED BY <1>1, <1>4, <2>1, <2>2, <2>3, <2>4 DEF SdkTyped, IdsOf, Entered
<1>5. CASE mode = "remote"
  <2>1. Commit(<<s>>, rest) /\ stubs' = stubs /\ pending' = pending /\ pending = <<>>
    BY <1>5 DEF Register, Queued
  <2> DEFINE one == <<s>>
  <2>2. one \in Seq(StubSet) /\ ToSet(one) = {s} /\ one # <<>>
    BY Listed
  <2>3. Commit(one, rest)
    BY <2>1
  <2> HIDE DEF one
  <2>4. /\ Planned(op') /\ batch' \in Seq(StubSet) /\ unsent' \subseteq Sessions
        /\ \A x : Due(x, op') <=> Due(x, rest) \/ (x = "send" /\ Sending(op'))
        /\ ~Sending(op') => batch' = <<>> /\ unsent' = {}
        /\ Sending(op') <=> one # <<>> /\ ~opErr
        /\ Sending(op') => batch' = one
        /\ {b \in ToSet(batch') : b.session \in unsent'} = IF opErr THEN {} ELSE ToSet(one)
    BY <1>1, <1>2, <1>5, <2>2, <2>3, Committed
  <2>5. Awaited = {}
    BY <1>1, <2>1
  <2>6. Awaited' = IF opErr THEN {} ELSE {s}
    BY <1>1, <2>1, <2>2, <2>4 DEF Awaited
  <2>7. IdsOf(ToSet(batch')) \subseteq {s.id}
    BY <1>1, <2>2, <2>4 DEF IdsOf
  <2> QED BY <1>5, <2>1, <2>2, <2>4, <2>5, <2>6, <2>7 DEF SdkTyped, Entered
<1> QED BY <1>3, <1>4, <1>5 DEF SdkTyped, Modes

\* The operations that declare: each registers one stub at its end.
LEMMA Registering ==
  ASSUME SdkTyped, Queued, NEW s \in StubSet, NEW rest \in {<<>>, <<"link">>},
         op \in {<<>>, <<"link">>}, Register(s, rest),
         mode' = mode, opErr' = opErr, timer' = timer
  PROVE  /\ Queued' /\ Planned(op)' /\ stubs' \subseteq StubSet /\ pending' \in Seq(StubSet)
         /\ batch' \in Seq(StubSet) /\ unsent' \subseteq Sessions
         /\ \A x : Due(x, op') => x = "send" \/ (x = "link" /\ rest = <<"link">>)
         /\ ~Closing(op') /\ Entered(s)
<1> DEFINE none == <<>>
           one == <<"link">>
<1>1. /\ none \in Seq(Steps) /\ Len(none) = 0 /\ one \in Seq(Steps) /\ Len(one) = 1
      /\ one[1] = "link" /\ one # <<>> /\ Head(one) = "link" /\ none = <<>> /\ one = <<"link">>
  BY DEF Steps
<1> HIDE DEF none, one
<1>2. Planned(none) /\ ~Sending(none) /\ \A x : ~Due(x, none)
  BY <1>1 DEF Planned, Sending, Due
<1>3. Planned(one) /\ ~Sending(one) /\ \A x : Due(x, one) <=> x = "link"
  BY <1>1 DEF Planned, Sending, Due
<1>4. rest \in {none, one} /\ op \in {none, one}
  BY <1>1
<1>5. Planned(rest) /\ ~Sending(rest) /\ ~Closing(rest) /\ ~Sending(op)
  BY <1>2, <1>3, <1>4 DEF Closing
<1>6. /\ stubs' \subseteq StubSet /\ pending' \in Seq(StubSet)
      /\ Planned(op') /\ batch' \in Seq(StubSet) /\ unsent' \subseteq Sessions
      /\ \A x : Due(x, op') <=> Due(x, rest) \/ (x = "send" /\ Sending(op'))
      /\ mode # "batch" => pending' = <<>>
      /\ ~Sending(op') => batch' = <<>> /\ unsent' = {}
      /\ Sending(op') => pending' = <<>> /\ ~opErr /\ mode # "embedded"
      /\ Entered(s)
  BY <1>5, Registered
<1>7. \A x : Due(x, op') => x = "send" \/ (x = "link" /\ rest = <<"link">>)
  BY <1>1, <1>2, <1>3, <1>4, <1>6
<1>8. ~Closing(op')
  BY <1>7 DEF Closing
<1>9. Queued'
  BY <1>6, <1>7, <1>8 DEF Queued, Closing, Live
<1>10. Planned(op)'
  BY <1>6 DEF Planned
<1> QED BY <1>6, <1>7, <1>8, <1>9, <1>10

\* Expect makes one stub, with the number of the new expectation, and hands it on.
LEMMA ExpectTyped ==
  ASSUME SdkTyped, Queued, NEW n \in 0..MaxTimes, NEW s \in {Global, Other}, Expect(n, s)
  PROVE  /\ SdkTyped' /\ Queued'
         /\ \E stub \in StubSet :
              /\ stub.id = <<used.expectations + 1, 1>> /\ wanted' = wanted \cup {stub}
              /\ chain' = [number |-> used.expectations + 1, links |-> 1, first |-> stub]
              /\ used'.expectations = used.expectations + 1
              /\ ~Due("purge", op') /\ ~Closing(op') /\ Entered(stub) /\ Track(stub)
<1> DEFINE k == used.expectations + 1
           stub == Stub(<<k, 1>>, n, SessionOf(s))
<1>1. k \in 1..MaxExpectations /\ op = <<>>
  BY DEF Expect, SdkTyped, UsedSet
<1>2. stub \in StubSet /\ stub.id = <<k, 1>> /\ stub.times = n
  <2>1. <<k, 1>> \in Ids
    BY <1>1, SdkAssumption DEF Ids
  <2>2. SessionOf(s) \in Sessions
    BY DEF SessionOf, SdkTyped, Sessions
  <2>3. n \in Nat
    BY SdkAssumption
  <2> QED BY <2>1, <2>2, <2>3 DEF Stub, StubSet
<1>3. /\ used' = [used EXCEPT !.expectations = k, !.stubs = @ + 1]
      /\ chain' = [number |-> k, links |-> 1, first |-> stub]
      /\ wanted' = wanted \cup {stub} /\ Track(stub) /\ Register(stub, <<>>)
      /\ mode' = mode /\ session' = session /\ verified' = verified /\ stubIDs' = stubIDs
      /\ opErr' = opErr /\ timer' = timer /\ expired' = expired /\ count' = count
      /\ serving' = serving /\ stranded' = stranded /\ recorded' = recorded
      /\ calls' = calls /\ taken' = taken /\ reported' = reported
  BY DEF Expect, ownVars, timerVars, callVars
<1>4. expectations' \subseteq [id : Ids, times : Nat, late : BOOLEAN]
  BY <1>2, <1>3 DEF Track, SdkTyped, StubSet
<1> HIDE DEF stub
<1>5. /\ Queued' /\ Planned(op)' /\ stubs' \subseteq StubSet /\ pending' \in Seq(StubSet)
      /\ batch' \in Seq(StubSet) /\ unsent' \subseteq Sessions
      /\ \A x : Due(x, op') => x = "send"
      /\ ~Closing(op') /\ Entered(stub)
  BY <1>1, <1>2, <1>3, Registering
<1>6. used' \in UsedSet /\ used'.expectations = k
  <2>1. used.stubs + 1 \in Nat /\ k \in 0..MaxExpectations
    BY <1>1 DEF SdkTyped, UsedSet, Spent
  <2> QED BY <1>3, <2>1 DEF SdkTyped, UsedSet, Spent
<1>7. /\ chain' \in [number : 0..MaxExpectations, links : 0..MaxLinks,
                     first : StubSet \cup {NoChain.first}]
      /\ chain'.first = stub /\ chain'.number = k /\ chain'.links = 1
  BY <1>1, <1>2, <1>3, SdkAssumption
<1>8. SdkTyped'
  <2>1. wanted' \subseteq StubSet
    BY <1>2, <1>3 DEF SdkTyped
  <2>2. ~Due("link", op)'
    BY <1>5
  <2> QED BY <1>2, <1>3, <1>4, <1>5, <1>6, <1>7, <2>1, <2>2 DEF SdkTyped
<1> QED BY <1>2, <1>3, <1>5, <1>6, <1>8

\* NextWillReturn gives the first stub of a chain without a count one, under its own ID.
LEMMA NextTyped ==
  ASSUME SdkTyped, Queued, NextWillReturn
  PROVE  /\ SdkTyped' /\ Queued' /\ ~Due("purge", op') /\ ~Closing(op')
         /\ op = <<>> /\ chain.links > 0 /\ UNCHANGED expectations
         /\ Spent
         /\ \/ chain.first.times # 0 /\ UNCHANGED <<chain, wanted, stubs, pending, batch, unsent>>
            \/ \E fixed \in StubSet :
                 /\ chain.first.times = 0 /\ fixed.times # 0
                 /\ fixed.id = chain.first.id /\ fixed.session = chain.first.session
                 /\ wanted' = (wanted \ {chain.first}) \cup {fixed}
                 /\ chain'.number = chain.number /\ chain'.links = chain.links
                 /\ chain'.first = fixed /\ Entered(fixed)
<1>1. /\ op = <<>> /\ chain.links \in 1..(MaxLinks - 1)
      /\ used' = [used EXCEPT !.stubs = @ + 1] /\ FixFirst
      /\ mode' = mode /\ session' = session /\ expectations' = expectations
      /\ verified' = verified /\ stubIDs' = stubIDs
      /\ opErr' = opErr /\ timer' = timer /\ expired' = expired /\ count' = count
      /\ serving' = serving /\ stranded' = stranded /\ recorded' = recorded
      /\ calls' = calls /\ taken' = taken /\ reported' = reported
  BY DEF NextWillReturn, ownVars, timerVars, callVars
<1>2. /\ used' \in UsedSet
      /\ Spent
  <2>1. used \in UsedSet /\ used.stubs + 1 \in Nat
    BY DEF SdkTyped, UsedSet
  <2>2. used' \in UsedSet
    BY <1>1, <2>1 DEF UsedSet
  <2>3. used'.expectations = used.expectations /\ used'.purges = used.purges
    BY <1>1, <2>1 DEF UsedSet
  <2>4. Spent
    BY <2>1, <2>3 DEF Spent, UsedSet
  <2> QED BY <2>2, <2>4
<1>3. /\ chain.first \in StubSet /\ chain.links > 0 /\ chain.first.id = <<chain.number, 1>>
      /\ chain.number = used.expectations
  BY <1>1 DEF SdkTyped
<1>4. CASE chain.first.times # 0
  <2> DEFINE one == <<"link">>
  <2>1. /\ op' = one /\ chain' = chain /\ wanted' = wanted /\ stubs' = stubs
        /\ pending' = pending /\ batch' = batch /\ unsent' = unsent
    BY <1>1, <1>4 DEF FixFirst, commitVars
  <2>2. one \in Seq(Steps) /\ Len(one) = 1 /\ one[1] = "link" /\ Head(one) = "link"
    BY DEF Steps
  <2> HIDE DEF one
  <2>3. Planned(op') /\ ~Sending(op') /\ \A x : Due(x, op') <=> x = "link"
    BY <2>1, <2>2 DEF Planned, Sending, Due
  <2>4. Planned(op)'
    BY <1>1, <2>3 DEF Planned
  <2>5. ~Sending(op)
    BY <1>1 DEF Sending
  <2>6. ~Closing(op')
    BY <2>3 DEF Closing
  <2>7. SdkTyped'
    BY <1>1, <1>2, <1>4, <2>1, <2>3, <2>4 DEF SdkTyped, Spent
  <2>8. Queued'
    BY <1>1, <2>1, <2>3, <2>5, <2>6 DEF Queued
  <2> QED BY <1>1, <1>2, <1>3, <1>4, <2>1, <2>3, <2>6, <2>7, <2>8
<1>5. CASE chain.first.times = 0
  <2> DEFINE fixed == [chain.first EXCEPT !.times = 1]
  <2>1. /\ chain' = [chain EXCEPT !.first = fixed]
        /\ wanted' = (wanted \ {chain.first}) \cup {fixed}
        /\ Register(fixed, <<"link">>)
    BY <1>1, <1>5 DEF FixFirst
  <2>2. /\ fixed \in StubSet /\ fixed.id = chain.first.id /\ fixed.times = 1
        /\ fixed.session = chain.first.session
    BY <1>3 DEF StubSet
  <2> HIDE DEF fixed
  <2>3. /\ Queued' /\ Planned(op)' /\ stubs' \subseteq StubSet /\ pending' \in Seq(StubSet)
        /\ batch' \in Seq(StubSet) /\ unsent' \subseteq Sessions
        /\ \A x : Due(x, op') => x = "send" \/ x = "link"
        /\ ~Closing(op') /\ Entered(fixed)
    BY <1>1, <2>1, <2>2, Registering
  <2>4. /\ chain' \in [number : 0..MaxExpectations, links : 0..MaxLinks,
                       first : StubSet \cup {NoChain.first}]
        /\ chain'.first = fixed /\ chain'.number = chain.number /\ chain'.links = chain.links
    BY <2>1, <2>2 DEF SdkTyped
  <2>5. wanted' \subseteq StubSet
    BY <2>1, <2>2 DEF SdkTyped
  <2>6. /\ chain'.links > 0 => /\ chain'.first \in StubSet
                               /\ chain'.first.id = <<chain'.number, 1>>
                               /\ chain'.number = used'.expectations
        /\ chain'.links \in 1..(MaxLinks - 1) /\ chain'.first.times # 0
    BY <1>1, <1>2, <1>3, <2>2, <2>4
  <2>7. Due("link", op') => /\ chain'.links \in 1..(MaxLinks - 1) /\ chain'.first.times # 0
                            /\ ~Due("shut", op') /\ ~Due("delete", op')
    BY <2>3, <2>6
  <2>8. SdkTyped'
    <3>1. /\ mode \in Modes /\ session \in {Global, Own}
          /\ expectations \subseteq [id : Ids, times : Nat, late : BOOLEAN]
          /\ verified \in BOOLEAN /\ stubIDs \subseteq Ids /\ opErr \in BOOLEAN
          /\ timer \in {"off", "armed", "deleting", "done"} /\ expired \subseteq Ids
          /\ serving \in BOOLEAN /\ stranded \subseteq Ids
          /\ count \in [Ids \X Sessions -> Nat]
          /\ recorded \in [Ids \X Sessions -> Nat] /\ taken \in [Ids \X Sessions -> Nat]
          /\ calls \in [Callers -> Matches \cup {Idle}] /\ reported \in BOOLEAN
      BY DEF SdkTyped
    <3> QED BY <1>1, <1>2, <2>3, <2>4, <2>5, <2>6, <2>7, <3>1 DEF SdkTyped
  <2>9. ~Due("purge", op')
    BY <2>3
  <2>10. /\ chain.first.times = 0 /\ fixed.times # 0
         /\ fixed.id = chain.first.id /\ fixed.session = chain.first.session
         /\ wanted' = (wanted \ {chain.first}) \cup {fixed}
         /\ chain'.number = chain.number /\ chain'.links = chain.links
         /\ chain'.first = fixed /\ Entered(fixed)
    BY <1>5, <2>1, <2>2, <2>3, <2>4
  <2>11. fixed \in StubSet
    BY <2>2
  <2> QED BY <1>1, <1>2, <1>3, <2>3, <2>8, <2>9, <2>10, <2>11
<1> QED
  <2>1. chain.first.times \in Nat
    BY <1>3 DEF StubSet
  <2> QED BY <1>4, <1>5

\* The link of a chain gets the ID behind the last one, and the session of the first stub.
LEMMA LinkTyped ==
  ASSUME SdkTyped, Queued, RegisterLink
  PROVE  /\ SdkTyped' /\ Queued' /\ ~Due("purge", op') /\ ~Closing(op')
         /\ op = <<"link">> /\ chain.links > 0 /\ chain.first.times # 0
         /\ Spent
         /\ \E stub \in StubSet :
              /\ stub.id = <<chain.number, chain.links + 1>> /\ stub.times = 1
              /\ stub.session = chain.first.session /\ wanted' = wanted \cup {stub}
              /\ chain'.number = chain.number /\ chain'.links = chain.links + 1
              /\ chain'.first = chain.first /\ Entered(stub) /\ Track(stub)
<1> DEFINE stub == Stub(<<chain.number, chain.links + 1>>, 1, chain.first.session)
<1>1. /\ op = <<"link">> /\ chain' = [chain EXCEPT !.links = @ + 1]
      /\ wanted' = wanted \cup {stub} /\ Track(stub) /\ Register(stub, <<>>)
      /\ mode' = mode /\ session' = session /\ used' = used
      /\ verified' = verified /\ stubIDs' = stubIDs
      /\ opErr' = opErr /\ timer' = timer /\ expired' = expired /\ count' = count
      /\ serving' = serving /\ stranded' = stranded /\ recorded' = recorded
      /\ calls' = calls /\ taken' = taken /\ reported' = reported
  BY DEF RegisterLink, ownVars, timerVars, callVars
<1>2. Due("link", op)
  <2> DEFINE one == <<"link">>
  <2>1. Len(one) = 1 /\ one[1] = "link"
    OBVIOUS
  <2> HIDE DEF one
  <2>2. op = one
    BY <1>1 DEF one
  <2> QED BY <2>1, <2>2 DEF Due
<1>3. /\ chain.first \in StubSet /\ chain.first.id = <<chain.number, 1>>
      /\ chain.number = used.expectations /\ chain.first.times # 0
      /\ chain.links \in 1..(MaxLinks - 1) /\ chain.number \in 1..MaxExpectations
  <2>1. chain.links \in 1..(MaxLinks - 1)
    BY <1>2 DEF SdkTyped
  <2>2. chain.links > 0
    BY <2>1, SdkAssumption
  <2>3. chain.first \in StubSet /\ chain.first.id = <<chain.number, 1>>
        /\ chain.number = used.expectations /\ chain.first.times # 0
    BY <1>2, <2>2 DEF SdkTyped
  <2>4. chain.number \in 1..MaxExpectations
    BY <2>3 DEF StubSet, Ids
  <2> QED BY <2>1, <2>3, <2>4
<1>4. /\ stub \in StubSet /\ stub.id = <<chain.number, chain.links + 1>> /\ stub.times = 1
      /\ stub.session = chain.first.session
  <2>1. <<chain.number, chain.links + 1>> \in Ids
    BY <1>3, SdkAssumption DEF Ids
  <2>2. chain.first.session \in Sessions
    BY <1>3 DEF StubSet
  <2> QED BY <2>1, <2>2 DEF Stub, StubSet
<1>5. expectations' \subseteq [id : Ids, times : Nat, late : BOOLEAN]
  BY <1>1, <1>4 DEF Track, SdkTyped, StubSet
<1> HIDE DEF stub
<1>6. /\ Queued' /\ Planned(op)' /\ stubs' \subseteq StubSet /\ pending' \in Seq(StubSet)
      /\ batch' \in Seq(StubSet) /\ unsent' \subseteq Sessions
      /\ \A x : Due(x, op') => x = "send"
      /\ ~Closing(op') /\ Entered(stub)
  BY <1>1, <1>4, Registering
<1>7. /\ chain' \in [number : 0..MaxExpectations, links : 0..MaxLinks,
                     first : StubSet \cup {NoChain.first}]
      /\ chain'.first = chain.first /\ chain'.number = chain.number
      /\ chain'.links = chain.links + 1
  <2>1. chain.links + 1 \in 0..MaxLinks
    BY <1>3, SdkAssumption
  <2> QED BY <1>1, <2>1 DEF SdkTyped
<1>8. wanted' \subseteq StubSet
  BY <1>1, <1>4 DEF SdkTyped
<1>9. SdkTyped'
  <2>1. ~Due("link", op)'
    BY <1>6
  <2> QED BY <1>1, <1>3, <1>5, <1>6, <1>7, <1>8, <2>1 DEF SdkTyped
<1>10. chain.links > 0
  BY <1>3, SdkAssumption
<1>11. Spent
  BY <1>1 DEF Spent, SdkTyped, UsedSet
<1> QED BY <1>1, <1>3, <1>4, <1>6, <1>7, <1>9, <1>10, <1>11

\* SendMessage hands the first stub of the chain to the server again.
LEMMA MessageTyped ==
  ASSUME SdkTyped, Queued, SendMessage
  PROVE  /\ SdkTyped' /\ Queued' /\ ~Due("purge", op') /\ ~Closing(op')
         /\ op = <<>> /\ chain.links > 0 /\ chain.first \in StubSet
         /\ UNCHANGED <<expectations, chain, wanted, used>> /\ Entered(chain.first)
<1>1. /\ op = <<>> /\ chain.links > 0 /\ chain' = chain
      /\ wanted' = wanted /\ expectations' = expectations /\ Register(chain.first, <<>>)
      /\ mode' = mode /\ session' = session /\ used' = used
      /\ verified' = verified /\ stubIDs' = stubIDs
      /\ opErr' = opErr /\ timer' = timer /\ expired' = expired /\ count' = count
      /\ serving' = serving /\ stranded' = stranded /\ recorded' = recorded
      /\ calls' = calls /\ taken' = taken /\ reported' = reported
  BY DEF SendMessage, ownVars, timerVars, callVars
<1>2. chain.first \in StubSet
  BY <1>1 DEF SdkTyped
<1>3. /\ Queued' /\ Planned(op)' /\ stubs' \subseteq StubSet /\ pending' \in Seq(StubSet)
      /\ batch' \in Seq(StubSet) /\ unsent' \subseteq Sessions
      /\ \A x : Due(x, op') => x = "send"
      /\ ~Closing(op') /\ Entered(chain.first)
  BY <1>1, <1>2, Registering
<1>4. SdkTyped'
  <2>1. ~Due("link", op)'
    BY <1>3
  <2> QED BY <1>1, <1>3, <2>1 DEF SdkTyped
<1> QED BY <1>1, <1>2, <1>3, <1>4

----------------------------------------------------------------------------
(* The requests of a commit, and the flush.                                *)

\* A fault is counted.
LEMMA FaultsCounted ==
  ASSUME SdkTyped, NEW outcome \in Outcomes, Answered(outcome)
  PROVE  /\ used' \in UsedSet
         /\ Spent /\ used'.faults >= used.faults
         /\ outcome # "ok" => used'.faults > 0
<1> DEFINE more == used.faults + IF outcome = "ok" THEN 0 ELSE 1
<1>1. more \in Nat /\ more >= used.faults /\ (outcome # "ok" => more > 0)
  <2>1. used.faults \in Nat
    BY DEF SdkTyped, UsedSet, Spent
  <2> QED BY <2>1
<1>2. used' = [used EXCEPT !.faults = more]
  BY DEF Answered
<1> HIDE DEF more
<1>3. used \in UsedSet
  BY DEF SdkTyped
<1>4. used' \in UsedSet
  BY <1>1, <1>2, <1>3 DEF UsedSet
<1>5. /\ used'.expectations = used.expectations /\ used'.purges = used.purges
      /\ used'.faults = more
  BY <1>2, <1>3 DEF UsedSet
<1>6. Spent
  BY <1>3, <1>5 DEF Spent, UsedSet
<1> QED BY <1>1, <1>4, <1>5, <1>6

\* A request of a commit brings one session's stubs to the server, or keeps an error.
LEMMA SendTyped ==
  ASSUME SdkTyped, Queued, NEW outcome \in Outcomes, Send(outcome)
  PROVE  /\ SdkTyped' /\ Queued' /\ Sending(op)
         /\ \A x : Due(x, op') => Due(x, op)
         /\ Closing(op) => Closing(op')
         /\ \A x : Due(x, op) /\ x # "send" => Due(x, op')
         /\ UNCHANGED <<mode, session, expectations, verified, chain, wanted, pending>>
         /\ opErr' = (opErr \/ outcome # "ok") /\ Spent
         /\ \E s \in Sessions :
              LET part == {b \in Awaited : b.session = s}
              IN  /\ stubs' = IF outcome = "refused" THEN stubs ELSE Put(part)
                  /\ Awaited' \subseteq Awaited
                  /\ outcome = "ok" => Awaited' = Awaited \ part
                  /\ part \subseteq ToSet(batch)
         /\ \/ op' = op /\ batch' = batch /\ stubIDs' = stubIDs /\ outcome = "ok"
            \/ /\ op' = Tail(op) /\ batch' = <<>>
               /\ stubIDs' = IF outcome = "ok" THEN stubIDs \cup IdsOf(ToSet(batch)) ELSE stubIDs
<1>1. PICK s \in unsent :
        LET part == {stub \in ToSet(batch) : stub.session = s}
            left == unsent \ {s}
            over == left = {} \/ outcome # "ok"
        IN  /\ op # <<>> /\ Head(op) = "send" /\ Answered(outcome)
            /\ stubs' = IF outcome = "refused" THEN stubs ELSE Put(part)
            /\ stubIDs' = IF over /\ outcome = "ok" THEN stubIDs \cup IdsOf(ToSet(batch))
                          ELSE stubIDs
            /\ opErr' = (opErr \/ outcome # "ok")
            /\ op' = IF over THEN Tail(op) ELSE op
            /\ unsent' = (IF over THEN {} ELSE left)
            /\ batch' = IF over THEN <<>> ELSE batch
            /\ UNCHANGED <<mode, session, testVars, timerVars, count, callVars, reported>>
  BY DEF Send
<1> DEFINE part == {b \in ToSet(batch) : b.session = s}
           left == unsent \ {s}
           over == left = {} \/ outcome # "ok"
<1>2. /\ mode' = mode /\ session' = session /\ expectations' = expectations
      /\ verified' = verified /\ pending' = pending /\ chain' = chain /\ wanted' = wanted
      /\ timer' = timer /\ expired' = expired /\ count' = count
      /\ serving' = serving /\ stranded' = stranded /\ recorded' = recorded
      /\ calls' = calls /\ taken' = taken /\ reported' = reported
  BY <1>1 DEF testVars, timerVars, callVars
<1>3. Sending(op) /\ s \in Sessions /\ pending = <<>> /\ ToSet(pending) = {}
  BY <1>1, Listed DEF Sending, SdkTyped, Queued
<1>4. ToSet(batch) \subseteq StubSet /\ ToSet(<<>>) = {} /\ <<>> \in Seq(StubSet)
  BY Listed DEF SdkTyped
<1>5. stubs' = (IF outcome = "refused" THEN stubs ELSE Put(part)) /\ stubs' \subseteq StubSet
  <2>1. stubs' = IF outcome = "refused" THEN stubs ELSE Put(part)
    BY <1>1
  <2> QED BY <1>4, <2>1 DEF SdkTyped, Put
<1>6. part = {b \in Awaited : b.session = s}
  BY <1>3 DEF Awaited
<1>7. Awaited' \subseteq Awaited /\ (outcome = "ok" => Awaited' = Awaited \ part)
  <2>1. Awaited' = {b \in ToSet(batch') : b.session \in unsent'}
    BY <1>2, <1>3 DEF Awaited
  <2>2. Awaited = {b \in ToSet(batch) : b.session \in unsent}
    BY <1>3 DEF Awaited
  <2>3. CASE over
    <3>1. batch' = <<>> /\ unsent' = {}
      BY <1>1, <2>3
    <3> QED BY <1>4, <2>1, <2>2, <2>3, <3>1
  <2>4. CASE ~over
    <3>1. batch' = batch /\ unsent' = left
      BY <1>1, <2>4
    <3> QED BY <2>1, <2>2, <3>1
  <2> QED BY <2>3, <2>4
<1>8. /\ used' \in UsedSet
      /\ Spent
  BY <1>1, FaultsCounted
<1>9. \/ op' = op /\ batch' = batch /\ stubIDs' = stubIDs /\ outcome = "ok"
         /\ unsent' \subseteq unsent
      \/ /\ op' = Tail(op) /\ batch' = <<>> /\ unsent' = {}
         /\ stubIDs' = IF outcome = "ok" THEN stubIDs \cup IdsOf(ToSet(batch)) ELSE stubIDs
  BY <1>1
<1>10. stubIDs' \subseteq Ids /\ batch' \in Seq(StubSet) /\ unsent' \subseteq Sessions
  <2>1. IdsOf(ToSet(batch)) \subseteq Ids
    BY <1>4 DEF IdsOf, StubSet
  <2> QED BY <1>4, <1>9, <2>1 DEF SdkTyped
<1>11. /\ Planned(op') /\ \A x : Due(x, op') => Due(x, op)
       /\ \A x : Due(x, op) /\ x # "send" => Due(x, op')
       /\ op' = op \/ ~Sending(op')
  <2>1. Planned(op) /\ op # <<>> /\ Head(op) = "send"
    BY <1>1 DEF SdkTyped
  <2>2. CASE op' = op
    BY <2>1, <2>2
  <2>3. CASE op' = Tail(op)
    <3>1. /\ Planned(Tail(op)) /\ ~Sending(Tail(op))
          /\ \A x : Due(x, op) <=> x = Head(op) \/ Due(x, Tail(op))
      BY <2>1, PlanShrinks
    <3> QED BY <2>1, <2>3, <3>1
  <2> QED BY <1>9, <2>2, <2>3
<1>12. Planned(op)'
  BY <1>2, <1>11 DEF Planned
<1>13. Closing(op) <=> Closing(op')
  BY <1>11 DEF Closing
<1>14. opErr' = (opErr \/ outcome # "ok")
  BY <1>1
<1>15. SdkTyped'
  BY <1>2, <1>5, <1>8, <1>10, <1>11, <1>12, <1>14 DEF SdkTyped, Spent
<1>16. Queued'
  <2>1. pending' = <<>> /\ mode' = mode /\ timer' = timer /\ Sending(op)
    BY <1>2, <1>3
  <2>2. ~Sending(op') => batch' = <<>> /\ unsent' = {}
    BY <1>9, <2>1
  <2>3. ASSUME Sending(op'), Live' PROVE ~opErr'
    <3>1. op' = op
      BY <1>11, <2>3
    <3>2. outcome = "ok"
      <4>1. op' # Tail(op)
        <5>1. Planned(op) /\ op # <<>>
          BY <2>1 DEF SdkTyped, Sending
        <5>2. ~Sending(Tail(op))
          BY <5>1, PlanShrinks
        <5> QED BY <2>3, <5>2
      <4> QED BY <1>9, <4>1
    <3>3. ~opErr
      BY <2>1, <2>3 DEF Queued, Live
    <3> QED BY <1>14, <3>2, <3>3
  <2>4. mode # "embedded"
    BY <1>3, HeadIsDue DEF SdkTyped, Sending
  <2> QED BY <2>1, <2>2, <2>3, <2>4 DEF Queued
<1>17. part \subseteq ToSet(batch)
  OBVIOUS
<1> HIDE DEF part
<1> QED BY <1>2, <1>3, <1>5, <1>6, <1>7, <1>8, <1>9, <1>11, <1>13, <1>14, <1>15, <1>16, <1>17

\* A flush makes the pending stubs the batch of a commit, unless an error is kept.
LEMMA FlushTyped ==
  ASSUME SdkTyped, Queued, Flush
  PROVE  /\ SdkTyped' /\ Queued' /\ ~Sending(op)
         /\ \A x : Due(x, op') => Due(x, op) \/ x = "send"
         /\ \A x : Due(x, op) /\ x # "flush" => Due(x, op')
         /\ UNCHANGED <<mode, expectations, verified, chain, wanted, stubs, opErr, used, stubIDs>>
         /\ Awaited' = IF opErr THEN {} ELSE Awaited
<1>1. /\ pending' = <<>>
      /\ mode' = mode /\ session' = session /\ expectations' = expectations /\ used' = used
      /\ verified' = verified /\ chain' = chain /\ wanted' = wanted /\ stubIDs' = stubIDs
      /\ timer' = timer /\ expired' = expired /\ serving' = serving /\ stranded' = stranded
      /\ count' = count /\ recorded' = recorded /\ calls' = calls /\ taken' = taken
      /\ reported' = reported /\ stubs' = stubs /\ opErr' = opErr
  BY DEF Flush, ownVars, timerVars, storeVars, callVars
<1>2. /\ Planned(op) /\ ~Sending(op) /\ batch = <<>> /\ unsent = {}
      /\ ToSet(<<>>) = {} /\ Awaited = ToSet(pending) /\ pending \in Seq(StubSet)
  BY Listed DEF Flush, SdkTyped, Queued, Sending, Awaited
<1>3. PICK rest :
        /\ Commit(pending, rest) /\ Planned(rest) /\ ~Sending(rest) /\ ~Due("ended", rest)
        /\ \A x : Due(x, op) /\ x # "flush" => Due(x, rest)
        /\ \A x : Due(x, rest) => Due(x, op)
        /\ rest = <<>> \/ Head(rest) # "end" \/ mode = "embedded"
  <2>1. CASE op = <<>> /\ Commit(pending, <<>>)
    <3> DEFINE none == <<>>
    <3>1. Commit(pending, none) /\ op = none /\ none = <<>>
      BY <2>1
    <3>2. Planned(none) /\ ~Sending(none) /\ \A x : ~Due(x, none)
      BY ShortPlans
    <3> HIDE DEF none
    <3> QED BY <3>1, <3>2
  <2>2. CASE op # <<>> /\ Head(op) = "flush" /\ Commit(pending, Tail(op))
    <3> DEFINE rest == Tail(op)
    <3>1. /\ Planned(rest) /\ ~Sending(rest)
          /\ \A x : Due(x, op) <=> x = "flush" \/ Due(x, rest)
      BY <1>2, <2>2, PlanShrinks
    <3>2. /\ op \in Seq(Steps) /\ Len(op) \in Nat /\ op[1] = "flush" /\ Len(rest) = Len(op) - 1
          /\ rest \in Seq(Steps) /\ \A i \in 1..Len(rest) : rest[i] = op[i + 1]
      BY <1>2, <2>2, HeadTailProperties, LenProperties DEF Planned
    <3> HIDE DEF rest
    <3>3. ~Due("ended", op)
      <4> SUFFICES ASSUME NEW i \in 1..Len(op), op[i] = "ended" PROVE FALSE
        BY DEF Due
      <4>1. i = 1
        BY <1>2 DEF Planned
      <4> QED BY <3>2, <4>1
    <3>4. rest = <<>> \/ Head(rest) # "end" \/ mode = "embedded"
      <4> SUFFICES ASSUME rest # <<>>, Head(rest) = "end", mode # "embedded" PROVE FALSE
        OBVIOUS
      <4>1. Head(rest) = rest[1] /\ 1 \in 1..Len(rest)
        BY <3>1, HeadIsDue, <3>2, LenProperties
      <4>2. op[1 + 1] = "end" /\ 1 + 1 \in 1..Len(op)
        BY <3>2, <4>1
      <4>3. op[(1 + 1) - 1] = "delete"
        BY <1>2, <4>2 DEF Planned
      <4> QED BY <3>2, <4>3
    <3>5. Commit(pending, rest)
      BY <2>2 DEF rest
    <3> QED BY <3>1, <3>3, <3>4, <3>5
  <2> QED BY <2>1, <2>2 DEF Flush
<1>7. CASE mode = "embedded"
  <2>1. pending = <<>>
    BY <1>7 DEF Queued
  <2>2. op' = rest /\ batch' = <<>> /\ unsent' = {}
    BY <1>2, <1>3, <2>1 DEF Commit, commitVars
  <2>3. Planned(op)'
    BY <1>1, <1>3, <2>2 DEF Planned
  <2>4. SdkTyped'
    BY <1>1, <1>2, <1>3, <2>1, <2>2, <2>3 DEF SdkTyped
  <2>5. Awaited' = {} /\ Awaited = {}
    BY <1>1, <1>2, <2>1, <2>2 DEF Awaited
  <2>6. Queued'
    BY <1>1, <1>3, <1>7, <2>1, <2>2 DEF Queued
  <2> QED BY <1>1, <1>2, <1>3, <2>2, <2>4, <2>5, <2>6
<1>8. CASE mode # "embedded"
  <2>1. Commit(pending, rest) /\ ~Due("ended", rest) /\ (rest = <<>> \/ Head(rest) # "end")
    BY <1>3, <1>8
  <2>2. /\ Planned(op') /\ batch' \in Seq(StubSet) /\ unsent' \subseteq Sessions
        /\ \A x : Due(x, op') <=> Due(x, rest) \/ (x = "send" /\ Sending(op'))
        /\ ~Sending(op') => batch' = <<>> /\ unsent' = {}
        /\ Sending(op') <=> pending # <<>> /\ ~opErr
        /\ {b \in ToSet(batch') : b.session \in unsent'} = IF opErr THEN {} ELSE ToSet(pending)
    BY <1>2, <1>3, <1>8, <2>1, Committed
  <2>3. Planned(op)'
    BY <1>1, <2>2 DEF Planned
  <2>4. pending' \in Seq(StubSet)
    BY <1>1, Listed
  <2>5. \A x : Due(x, op') => Due(x, op) \/ x = "send"
    BY <1>3, <2>2
  <2>6. SdkTyped'
    BY <1>1, <2>2, <2>3, <2>4, <2>5 DEF SdkTyped, Spent
  <2>7. Awaited' = IF opErr THEN {} ELSE Awaited
    BY <1>1, <1>2, <2>2 DEF Awaited
  <2>8. Queued'
    BY <1>1, <1>8, <2>2 DEF Queued, Live
  <2> QED BY <1>1, <1>2, <1>3, <2>2, <2>6, <2>7, <2>8
<1> QED BY <1>7, <1>8

----------------------------------------------------------------------------
(* The other steps of the test's goroutine, the timer and the calls.       *)

\* A verification starts with the flush and has the check due.
LEMMA VerifyTyped ==
  ASSUME SdkTyped, Queued, Verify \/ Cleanup
  PROVE  /\ SdkTyped' /\ Queued' /\ op = <<>> /\ ~Due("purge", op') /\ verified'
         /\ ~Due("ended", op')
         /\ (mode # "embedded" /\ Closing(op') => Due("delete", op'))
         /\ (~verified => Due("check", op'))
         /\ UNCHANGED <<expectations, pending, chain, wanted, commitVars, ownVars, timerVars,
                        storeVars, callVars, reported, used, mode, session>>
<1> USE DEF commitVars, ownVars, timerVars, storeVars, callVars
<1>1. /\ op = <<>>
      /\ UNCHANGED <<expectations, pending, chain, wanted, commitVars, ownVars, timerVars,
                     storeVars, callVars, reported, used, mode, session>>
  BY DEF Verify, Cleanup
<1>2. mode \in Modes /\ verified \in BOOLEAN /\ ~Sending(op)
  BY <1>1 DEF SdkTyped, Sending
<1>3. /\ Planned(op') /\ ~Sending(op') /\ ~Due("link", op') /\ ~Due("purge", op')
      /\ (mode # "embedded" /\ Closing(op') => Due("delete", op'))
      /\ (mode = "batch" /\ Due("delete", op') => Due("flush", op'))
      /\ verified' /\ (~verified => Due("check", op')) /\ ~Due("ended", op')
  <2>1. CASE Cleanup
    BY <1>2, <2>1, CleanupPlanned
  <2>2. CASE Verify
    <3> DEFINE none == <<>>
    <3>1. ThenVerify(none) /\ none = <<>>
      BY <2>2 DEF Verify
    <3>2. Planned(none) /\ ~Sending(none) /\ \A x : ~Due(x, none)
      BY ShortPlans
    <3> HIDE DEF none
    <3>3. /\ Planned(op') /\ ~Sending(op')
          /\ \A x : Due(x, op') => Due(x, none) \/ x \in {"flush", "check"}
          /\ verified' /\ (~verified => Due("check", op'))
      BY <1>2, <3>1, <3>2, VerifyPlanned
    <3> QED BY <3>2, <3>3 DEF Closing
  <2> QED BY <2>1, <2>2
<1>4. Planned(op)'
  BY <1>1, <1>3 DEF Planned
<1>5. verified' \in BOOLEAN
  BY <1>1, <1>2 DEF Verify, Cleanup, ThenVerify
<1>6. SdkTyped'
  BY <1>1, <1>3, <1>4, <1>5 DEF SdkTyped
<1>7. Queued'
  BY <1>1, <1>2, <1>3 DEF Queued
<1> QED BY <1>1, <1>3, <1>6, <1>7

\* The check of the expectations changes no stub and keeps the error of its request.
LEMMA CheckTyped ==
  ASSUME SdkTyped, Queued, NEW outcome \in Outcomes, Check(outcome)
  PROVE  /\ SdkTyped' /\ Queued' /\ op # <<>> /\ Head(op) = "check" /\ op' = Tail(op)
         /\ Spent
         /\ \A x : Due(x, op) <=> x = "check" \/ Due(x, op')
         /\ ~Sending(op) /\ ~Sending(op')
         /\ UNCHANGED <<mode, session, expectations, verified, chain, wanted, pending, batch,
                        unsent, stubs, stubIDs, timer, expired, serving, stranded, count,
                        callVars>>
<1>1. /\ op # <<>> /\ Head(op) = "check" /\ op' = Tail(op) /\ Answered(outcome)
      /\ opErr' = (opErr \/ outcome # "ok") /\ reported' \in BOOLEAN
      /\ mode = "embedded" => outcome = "ok"
      /\ UNCHANGED <<mode, session, expectations, verified, chain, wanted, pending, batch,
                     unsent, stubs, stubIDs, timer, expired, serving, stranded, count,
                     callVars>>
  BY DEF Check, SdkTyped, testVars, commitVars, timerVars, storeVars
<1>2. Planned(op) /\ ~Sending(op)
  BY <1>1 DEF SdkTyped, Sending
<1>3. /\ Planned(op') /\ ~Sending(op') /\ \A x : Due(x, op) <=> x = "check" \/ Due(x, op')
  BY <1>1, <1>2, PlanShrinks
<1>4. /\ used' \in UsedSet
      /\ Spent
  BY <1>1, FaultsCounted
<1>5. Planned(op)'
  BY <1>1, <1>3 DEF Planned
<1>6. opErr' \in BOOLEAN /\ (mode = "embedded" => opErr' = opErr)
  BY <1>1 DEF SdkTyped
<1>7. SdkTyped'
  BY <1>1, <1>3, <1>4, <1>5, <1>6 DEF SdkTyped, callVars, Spent
<1>8. Queued'
  BY <1>1, <1>2, <1>3, <1>6 DEF Queued, Closing
<1> QED BY <1>1, <1>2, <1>3, <1>4, <1>7, <1>8

\* A read of the history that fails keeps its error and touches no stub.
LEMMA ReadTyped ==
  ASSUME SdkTyped, Queued, NEW outcome \in Outcomes, ReadFails(outcome)
  PROVE  /\ SdkTyped' /\ Queued' /\ outcome # "ok" /\ op = <<>> /\ opErr' /\ mode # "embedded"
         /\ Spent
         /\ UNCHANGED <<mode, session, expectations, verified, chain, wanted, pending, batch,
                        op, unsent, stubs, stubIDs, timer, expired, serving, stranded, count,
                        callVars>>
<1>1. /\ op = <<>> /\ mode # "embedded" /\ Answered(outcome) /\ outcome # "ok"
      /\ opErr' = TRUE /\ reported' = TRUE
      /\ UNCHANGED <<mode, session, expectations, verified, chain, wanted, pending, batch, op,
                     unsent, stubs, stubIDs, timer, expired, serving, stranded, count,
                     callVars>>
  BY DEF ReadFails, SdkTyped, testVars, commitVars, timerVars, storeVars
<1>2. ~Sending(op)
  BY <1>1 DEF Sending
<1>3. /\ used' \in UsedSet
      /\ Spent
  BY <1>1, FaultsCounted
<1>4. Planned(op)'
  BY <1>1 DEF Planned, SdkTyped
<1>5. SdkTyped'
  BY <1>1, <1>3, <1>4 DEF SdkTyped, callVars, Spent
<1>6. Queued'
  BY <1>1, <1>2 DEF Queued, Closing
<1> QED BY <1>1, <1>3, <1>5, <1>6

\* Reset forgets what the test declared; a remote test has the deletion still due.
LEMMA ResetTyped ==
  ASSUME SdkTyped, Queued, Reset
  PROVE  /\ SdkTyped' /\ Queued' /\ op = <<>> /\ ~Closing(op') /\ ~Sending(op)
         /\ expectations' = {} /\ wanted' = {} /\ chain' = NoChain /\ ~verified'
         /\ Spent /\ Awaited' = {} /\ batch' = batch
         /\ \/ mode = "embedded" /\ stubs' = {} /\ count' = Zero
            \/ mode # "embedded" /\ UNCHANGED <<stubs, count>>
         /\ UNCHANGED <<mode, session, stubIDs, opErr, timer, expired, serving, stranded,
                        recorded, calls, taken, reported>>
<1>1. /\ op = <<>> /\ used' = [used EXCEPT !.resets = @ + 1]
      /\ expectations' = {} /\ verified' = FALSE /\ pending' = <<>> /\ wanted' = {}
      /\ chain' = NoChain
      /\ \/ mode = "embedded" /\ stubs' = {} /\ count' = Zero /\ op' = <<"purge">>
         \/ mode # "embedded" /\ stubs' = stubs /\ count' = count
            /\ op' = <<"delete", "purge">>
      /\ UNCHANGED <<mode, session, stubIDs, opErr, timer, expired, serving, stranded, recorded,
                     calls, taken, reported, batch, unsent>>
  BY DEF Reset, commitVars, ownVars, timerVars, callVars, storeVars
<1>2. Planned(op') /\ ~Sending(op') /\ ~Closing(op') /\ ~Due("link", op') /\ ~Due("send", op')
  <2> DEFINE one == <<"purge">>
             two == <<"delete", "purge">>
  <2>1. /\ Planned(one) /\ ~Sending(one) /\ \A x : Due(x, one) <=> x = "purge"
        /\ Planned(two) /\ ~Sending(two) /\ \A x : Due(x, two) <=> x \in {"delete", "purge"}
    BY ShortPlans
  <2>2. op' = one \/ op' = two
    BY <1>1
  <2> HIDE DEF one, two
  <2> QED BY <2>1, <2>2 DEF Closing
<1>3. ~Sending(op) /\ batch = <<>> /\ unsent = {} /\ ToSet(<<>>) = {}
  BY <1>1, Listed DEF Sending, Queued
<1>4. /\ used' \in UsedSet
      /\ Spent
  <2>1. used \in UsedSet /\ used.resets + 1 \in Nat
    BY DEF SdkTyped, UsedSet
  <2>2. used' \in UsedSet
    BY <1>1, <2>1 DEF UsedSet
  <2>3. used'.expectations = used.expectations /\ used'.purges = used.purges
    BY <1>1, <2>1 DEF UsedSet
  <2>4. Spent
    BY <2>1, <2>3 DEF Spent, UsedSet
  <2> QED BY <2>2, <2>4
<1>5. Planned(op)'
  <2>1. mode' = mode /\ Planned(op')
    BY <1>1, <1>2
  <2> QED BY <2>1 DEF Planned
<1>6. count' \in [Ids \X Sessions -> Nat]
  <2>1. Zero \in [Ids \X Sessions -> Nat]
    BY DEF Zero
  <2>2. count \in [Ids \X Sessions -> Nat]
    BY DEF SdkTyped
  <2>3. count' = Zero \/ count' = count
    BY <1>1
  <2> QED BY <2>1, <2>2, <2>3
<1>7. /\ chain' \in [number : 0..MaxExpectations, links : 0..MaxLinks,
                     first : StubSet \cup {NoChain.first}]
      /\ ~(chain'.links > 0)
  BY <1>1, SdkAssumption DEF NoChain
<1>8. stubs' \subseteq StubSet /\ pending' \in Seq(StubSet)
  BY <1>1, Listed DEF SdkTyped
<1>9. SdkTyped'
  BY <1>1, <1>2, <1>4, <1>5, <1>6, <1>7, <1>8 DEF SdkTyped
<1>10. Queued'
  BY <1>1, <1>2, <1>3 DEF Queued
<1>11. Awaited' = {}
  BY <1>1, <1>3 DEF Awaited
<1> QED BY <1>1, <1>2, <1>3, <1>4, <1>9, <1>10, <1>11

\* Deletions take stubs and counters.
LEMMA Deleted ==
  ASSUME SdkTyped, NEW ids, Delete(ids)
  PROVE  /\ stubs' \subseteq StubSet /\ count' \in [Ids \X Sessions -> Nat]
         /\ stubs' = {x \in stubs : x.id \notin ids}
         /\ \A i \in Ids \X Sessions : count'[i] = IF i[1] \in ids THEN 0 ELSE count[i]
BY DEF Delete, SdkTyped

\* The deletion removes the stubs whose IDs the test holds, unless it is refused.
LEMMA DeleteTyped ==
  ASSUME SdkTyped, Queued, NEW outcome \in Outcomes, DeleteOwned(outcome)
  PROVE  /\ SdkTyped' /\ Queued' /\ stubIDs' = {} /\ wanted' = {} /\ chain' = NoChain
         /\ ~Sending(op)
         /\ op # <<>> /\ Head(op) = "delete" /\ op' = Tail(op) /\ batch' = batch
         /\ Due("delete", op) /\ \A x : x # "delete" => (Due(x, op) <=> Due(x, op'))
         /\ Spent /\ Awaited' = Awaited
         /\ \/ outcome = "refused" /\ UNCHANGED <<stubs, count>>
            \/ outcome # "refused" /\ Delete(stubIDs)
         /\ \/ /\ reported' = (reported \/ outcome # "ok") /\ stranded' = stranded
            \/ reported' = reported /\ stranded' = stranded \cup stubIDs
         /\ UNCHANGED <<mode, session, expectations, verified, opErr, timer, expired, serving,
                        recorded, calls, taken, pending>>
<1>1. /\ op # <<>> /\ Head(op) = "delete" /\ Answered(outcome) /\ op' = Tail(op)
      /\ stubIDs' = {} /\ wanted' = {} /\ chain' = NoChain
      /\ \/ reported' = (reported \/ outcome # "ok") /\ stranded' = stranded
         \/ reported' = reported /\ stranded' = stranded \cup stubIDs
      /\ \/ outcome = "refused" /\ stubs' = stubs /\ count' = count
         \/ outcome # "refused" /\ Delete(stubIDs)
      /\ UNCHANGED <<mode, session, expectations, verified, opErr, timer, expired, serving,
                     recorded, calls, taken, pending, batch, unsent>>
  <2>1. CASE outcome # "ok" /\ Tail(op) = <<>>
    <3>1. reported' = (reported \/ (outcome # "ok" /\ ~(outcome # "ok" /\ Tail(op) = <<>>)))
      BY DEF DeleteOwned
    <3>2. reported \in BOOLEAN
      BY DEF SdkTyped
    <3>3. reported' = reported
      BY <2>1, <3>1, <3>2
    <3> QED BY <2>1, <3>3 DEF DeleteOwned, commitVars, callVars, storeVars
  <2>2. CASE ~(outcome # "ok" /\ Tail(op) = <<>>)
    BY <2>2 DEF DeleteOwned, commitVars, callVars, storeVars
  <2> QED BY <2>1, <2>2
<1>2. Planned(op) /\ ~Sending(op)
  BY <1>1 DEF SdkTyped, Sending
<1>3. /\ Planned(op') /\ ~Sending(op') /\ \A x : Due(x, op) <=> x = "delete" \/ Due(x, op')
  BY <1>1, <1>2, PlanShrinks
<1>4. /\ used' \in UsedSet
      /\ Spent
  BY <1>1, FaultsCounted
<1>5. Planned(op)'
  BY <1>1, <1>3 DEF Planned
<1>6. stubs' \subseteq StubSet /\ count' \in [Ids \X Sessions -> Nat]
  <2>1. CASE outcome = "refused"
    BY <1>1, <2>1 DEF SdkTyped
  <2>2. CASE outcome # "refused"
    BY <1>1, <2>2, Deleted
  <2> QED BY <2>1, <2>2
<1>7. /\ reported' \in BOOLEAN /\ stranded' \subseteq Ids
      /\ chain' \in [number : 0..MaxExpectations, links : 0..MaxLinks,
                     first : StubSet \cup {NoChain.first}]
      /\ ~(chain'.links > 0) /\ ~Due("link", op)
  <2>1. ~Due("link", op)
    BY <1>1, <1>3 DEF SdkTyped
  <2>2. reported' \in BOOLEAN /\ stranded' \subseteq Ids
    BY <1>1 DEF SdkTyped
  <2>3. /\ chain' \in [number : 0..MaxExpectations, links : 0..MaxLinks,
                       first : StubSet \cup {NoChain.first}]
        /\ ~(chain'.links > 0)
    BY <1>1, SdkAssumption DEF NoChain
  <2> QED BY <2>1, <2>2, <2>3
<1>8. SdkTyped'
  BY <1>1, <1>3, <1>4, <1>5, <1>6, <1>7 DEF SdkTyped
<1>9. Queued'
  BY <1>1, <1>2, <1>3 DEF Queued, Closing
<1>10. Awaited' = Awaited
  BY <1>1 DEF Awaited
<1> QED BY <1>1, <1>2, <1>3, <1>4, <1>8, <1>9, <1>10

\* The purge loses records of calls, never stubs.
LEMMA PurgeTyped ==
  ASSUME SdkTyped, Queued, NEW outcome \in Outcomes, Purge(outcome)
  PROVE  /\ SdkTyped' /\ Queued' /\ Due("purge", op) /\ ~Closing(op) /\ ~Sending(op)
         /\ \A x : ~Due(x, op')
         /\ Spent
         /\ \A i \in Ids \X Sessions : recorded'[i] = 0 \/ recorded'[i] = recorded[i]
         /\ reported' = (reported \/ outcome # "ok")
         /\ UNCHANGED <<mode, session, expectations, verified, pending, chain, wanted, batch,
                        unsent, stubIDs, opErr, timer, expired, serving, stranded, stubs, count,
                        calls, taken>>
<1>1. /\ op = <<"purge">> /\ op' = <<>> /\ Answered(outcome)
      /\ recorded' = [i \in Ids \X Sessions |->
           IF outcome # "refused" /\ (mode = "embedded" \/ session \in {Global, i[2]})
           THEN 0 ELSE recorded[i]]
      /\ reported' = (reported \/ outcome # "ok")
      /\ UNCHANGED <<mode, session, expectations, verified, pending, chain, wanted, batch,
                     unsent, stubIDs, opErr, timer, expired, serving, stranded, stubs, count,
                     calls, taken>>
  BY DEF Purge, testVars, commitVars, ownVars, timerVars, storeVars
<1>2. Planned(op') /\ ~Sending(op') /\ ~Sending(op) /\ (\A x : ~Due(x, op'))
      /\ \A x : Due(x, op) <=> x = "purge"
  <2> DEFINE none == <<>>
             one == <<"purge">>
  <2>1. /\ Planned(one) /\ ~Sending(one) /\ \A x : Due(x, one) <=> x = "purge"
        /\ Planned(none) /\ ~Sending(none) /\ \A x : ~Due(x, none)
    BY ShortPlans
  <2>2. op = one /\ op' = none
    BY <1>1
  <2> HIDE DEF one, none
  <2> QED BY <2>1, <2>2
<1>3. /\ used' \in UsedSet
      /\ Spent
  BY <1>1, FaultsCounted
<1>4. Planned(op)'
  BY <1>1, <1>2 DEF Planned
<1>5. /\ recorded' \in [Ids \X Sessions -> Nat] /\ reported' \in BOOLEAN
      /\ \A i \in Ids \X Sessions : recorded'[i] = 0 \/ recorded'[i] = recorded[i]
  BY <1>1 DEF SdkTyped
<1>6. SdkTyped'
  BY <1>1, <1>2, <1>3, <1>4, <1>5 DEF SdkTyped, Spent
<1>7. Queued'
  BY <1>1, <1>2 DEF Queued, Closing
<1> QED BY <1>1, <1>2, <1>3, <1>5, <1>6, <1>7 DEF Closing

\* Stopping the timer leaves the stubs alone.
LEMMA StopTyped ==
  ASSUME SdkTyped, Queued, StopTimer
  PROVE  /\ SdkTyped' /\ Queued' /\ ~Sending(op) /\ (Live' <=> Live)
         /\ \A x : Due(x, op) <=> x = "stop" \/ Due(x, op')
         /\ timer' = "deleting" <=> timer = "deleting"
         /\ UNCHANGED <<mode, session, expectations, verified, pending, chain, wanted, batch,
                        unsent, stubIDs, opErr, expired, serving, stranded, stubs, count, recorded, calls, taken,
                        reported, used>>
<1>1. /\ op # <<>> /\ Head(op) = "stop" /\ op' = Tail(op)
      /\ timer' = IF timer = "armed" THEN "off" ELSE timer
      /\ UNCHANGED <<mode, session, expectations, verified, pending, chain, wanted, batch,
                     unsent, stubIDs, opErr, expired, serving, stranded, stubs, count, recorded, calls, taken,
                     reported, used>>
  BY DEF StopTimer, testVars, commitVars, ownVars, storeVars, callVars
<1>2. Planned(op) /\ ~Sending(op)
  BY <1>1 DEF SdkTyped, Sending
<1>3. /\ Planned(op') /\ ~Sending(op') /\ \A x : Due(x, op) <=> x = "stop" \/ Due(x, op')
  BY <1>1, <1>2, PlanShrinks
<1>4. Planned(op)'
  BY <1>1, <1>3 DEF Planned
<1>5. SdkTyped'
  BY <1>1, <1>3, <1>4 DEF SdkTyped
<1>6. Queued'
  BY <1>1, <1>2, <1>3 DEF Queued, Closing
<1> QED BY <1>1, <1>2, <1>3, <1>5, <1>6 DEF Live

\* The end reports a kept error.
LEMMA EndTyped ==
  ASSUME SdkTyped, Queued, End
  PROVE  /\ SdkTyped' /\ Queued' /\ ~Sending(op)
         /\ \A x : Due(x, op) <=> x = "end"
         /\ \A x : Due(x, op') <=> x = "ended"
         /\ reported' = (reported \/ opErr)
         /\ UNCHANGED <<mode, session, expectations, verified, pending, chain, wanted, batch,
                        unsent, stubIDs, opErr, timer, expired, serving, stranded, stubs, count,
                        recorded, calls, taken, used>>
<1>1. /\ op = <<"end">> /\ op' = <<"ended">> /\ reported' = (reported \/ opErr)
      /\ UNCHANGED <<mode, session, expectations, verified, pending, chain, wanted, batch,
                     unsent, stubIDs, opErr, timer, expired, serving, stranded, stubs, count,
                     recorded, calls, taken, used>>
  BY DEF End, testVars, commitVars, ownVars, timerVars, storeVars, callVars
<1>2. /\ Planned(op') /\ ~Sending(op') /\ ~Sending(op)
      /\ (\A x : Due(x, op) <=> x = "end") /\ \A x : Due(x, op') <=> x = "ended"
  <2> DEFINE last == <<"ended">>
             one == <<"end">>
  <2>1. /\ Planned(one) /\ ~Sending(one) /\ \A x : Due(x, one) <=> x = "end"
        /\ Planned(last) /\ ~Sending(last) /\ \A x : Due(x, last) <=> x = "ended"
    BY ShortPlans
  <2>2. op = one /\ op' = last
    BY <1>1
  <2> HIDE DEF one, last
  <2> QED BY <2>1, <2>2
<1>3. Planned(op)'
  BY <1>1, <1>2 DEF Planned
<1>4. SdkTyped'
  BY <1>1, <1>2, <1>3 DEF SdkTyped
<1>5. Queued'
  BY <1>1, <1>2 DEF Queued, Closing
<1> QED BY <1>1, <1>2, <1>4, <1>5

\* The timer takes the IDs the test holds.
LEMMA ExpireTyped ==
  ASSUME SdkTyped, Queued, Expire
  PROVE  /\ SdkTyped' /\ Queued' /\ ~Live' /\ timer = "armed"
         /\ timer' = (IF stubIDs = {} THEN "done" ELSE "deleting")
         /\ expired' = stubIDs /\ stubIDs' = {}
         /\ UNCHANGED <<mode, session, expectations, verified, pending, chain, wanted, batch,
                        unsent, opErr, op, serving, stranded, stubs, count, recorded, calls, taken, reported, used>>
<1>1. /\ timer = "armed" /\ timer' = (IF stubIDs = {} THEN "done" ELSE "deleting")
      /\ expired' = stubIDs /\ stubIDs' = {}
      /\ UNCHANGED <<mode, session, expectations, verified, pending, chain, wanted, batch,
                     unsent, opErr, op, serving, stranded, stubs, count, recorded, calls, taken, reported, used>>
  BY DEF Expire, testVars, commitVars, storeVars, callVars
<1>2. Planned(op)'
  BY <1>1 DEF Planned, SdkTyped
<1>3. SdkTyped'
  BY <1>1, <1>2 DEF SdkTyped
<1>4. ~Live'
  BY <1>1 DEF Live
<1>5. Queued'
  BY <1>1, <1>4 DEF Queued
<1> QED BY <1>1, <1>3, <1>4, <1>5

\* What the timer took is then deleted.
LEMMA DeleteExpiredTyped ==
  ASSUME SdkTyped, Queued, NEW outcome \in Outcomes, DeleteExpired(outcome)
  PROVE  /\ SdkTyped' /\ Queued' /\ ~Live' /\ timer = "deleting" /\ timer' = "done"
         /\ expired' = {} /\ opErr' = (opErr \/ outcome # "ok")
         /\ stranded' = stranded \cup IF outcome # "ok" /\ op = <<"ended">> THEN expired ELSE {}
         /\ \/ outcome = "refused" /\ UNCHANGED <<stubs, count>>
            \/ outcome # "refused" /\ Delete(expired)
         /\ Spent
         /\ UNCHANGED <<mode, session, expectations, verified, pending, chain, wanted, batch,
                        unsent, stubIDs, op, serving, recorded, calls, taken, reported>>
<1>1. /\ timer = "deleting" /\ Answered(outcome) /\ opErr' = (opErr \/ outcome # "ok")
      /\ timer' = "done" /\ expired' = {}
      /\ stranded' = stranded \cup IF outcome # "ok" /\ op = <<"ended">> THEN expired ELSE {}
      /\ \/ outcome = "refused" /\ stubs' = stubs /\ count' = count
         \/ outcome # "refused" /\ Delete(expired)
      /\ UNCHANGED <<mode, session, expectations, verified, pending, chain, wanted, batch,
                     unsent, stubIDs, op, serving, recorded, calls, taken, reported>>
  BY DEF DeleteExpired, testVars, commitVars, callVars, storeVars
<1>2. Planned(op)'
  BY <1>1 DEF Planned, SdkTyped
<1>3. /\ used' \in UsedSet
      /\ Spent
  BY <1>1, FaultsCounted
<1>4. stubs' \subseteq StubSet /\ count' \in [Ids \X Sessions -> Nat]
  <2>1. CASE outcome = "refused"
    BY <1>1, <2>1 DEF SdkTyped
  <2>2. CASE outcome # "refused"
    BY <1>1, <2>2, Deleted
  <2> QED BY <2>1, <2>2
<1>5. opErr' \in BOOLEAN /\ stranded' \subseteq Ids
  BY <1>1 DEF SdkTyped
<1>6. SdkTyped'
  BY <1>1, <1>2, <1>3, <1>4, <1>5 DEF SdkTyped, Spent
<1>7. ~Live'
  BY <1>1 DEF Live
<1>8. mode # "embedded"
  BY <1>1 DEF Queued
<1>9. Queued'
  BY <1>1, <1>7, <1>8 DEF Queued
<1> QED BY <1>1, <1>3, <1>6, <1>7, <1>9

\* The test's own Close only plans.
LEMMA CloseTyped ==
  ASSUME SdkTyped, Queued, Close
  PROVE  /\ SdkTyped' /\ Queued' /\ op = <<>> /\ Spent /\ used'.faults = used.faults
         /\ \A x : Due(x, op') => x \in {"flush", "stop", "delete", "shut", "drain"}
         /\ UNCHANGED <<mode, session, expectations, verified, pending, chain, wanted, batch,
                        unsent, stubIDs, opErr, timer, expired, serving, stranded, stubs,
                        count, recorded, calls, taken, reported>>
<1>1. /\ op = <<>> /\ used' = [used EXCEPT !.resets = @ + 1]
      /\ UNCHANGED <<mode, session, expectations, verified, pending, chain, wanted, batch,
                     unsent, stubIDs, opErr, timer, expired, serving, stranded, stubs, count,
                     recorded, calls, taken, reported>>
  BY DEF Close, testVars, commitVars, ownVars, timerVars, storeVars, callVars
<1>2. /\ Planned(op') /\ ~Sending(op')
      /\ \A x : Due(x, op') => x \in {"flush", "stop", "delete", "shut", "drain"}
      /\ mode = "batch" => Due("flush", op')
  BY OwnClosePlanned DEF SdkTyped
<1>3. used' \in UsedSet /\ Spent /\ used'.faults = used.faults
  <2>1. used \in UsedSet /\ used.resets + 1 \in Nat
    BY DEF SdkTyped, UsedSet
  <2>2. used' \in UsedSet
    BY <1>1, <2>1 DEF UsedSet
  <2>3. /\ used'.expectations = used.expectations /\ used'.purges = used.purges
        /\ used'.faults = used.faults
    BY <1>1, <2>1 DEF UsedSet
  <2>4. Spent
    BY <2>1, <2>3 DEF Spent, UsedSet
  <2> QED BY <2>2, <2>3, <2>4
<1>4. Planned(op)'
  BY <1>1, <1>2 DEF Planned
<1>5. ~Due("link", op)'
  BY <1>2
<1>6. SdkTyped'
  BY <1>1, <1>3, <1>4, <1>5 DEF SdkTyped, Spent
<1>7. ~Sending(op)
  BY <1>1 DEF Sending
<1>8. Queued'
  BY <1>1, <1>2, <1>7 DEF Queued
<1> QED BY <1>1, <1>2, <1>3, <1>6, <1>8

\* An embedded test that closes its server wants nothing more of it.
LEMMA ShutTyped ==
  ASSUME SdkTyped, Queued, Shut
  PROVE  /\ SdkTyped' /\ Queued' /\ mode = "embedded" /\ wanted' = {} /\ chain' = NoChain
         /\ ~Sending(op) /\ \A x : Due(x, op) <=> x = "shut" \/ Due(x, op')
         /\ UNCHANGED <<mode, session, expectations, verified, pending, batch, unsent, stubIDs,
                        opErr, timer, expired, stranded, stubs, count, recorded, calls, taken,
                        reported, used>>
<1>1. /\ op # <<>> /\ Head(op) = "shut" /\ op' = Tail(op)
      /\ serving' = FALSE /\ wanted' = {} /\ chain' = NoChain
      /\ UNCHANGED <<mode, session, expectations, verified, pending, batch, unsent, stubIDs,
                     opErr, timer, expired, stranded, stubs, count, recorded, calls, taken,
                     reported, used>>
  BY DEF Shut, commitVars, ownVars, storeVars, callVars
<1>2. Planned(op) /\ ~Sending(op) /\ mode = "embedded"
  BY <1>1, HeadIsDue DEF SdkTyped, Sending
<1>3. /\ Planned(op') /\ ~Sending(op') /\ \A x : Due(x, op) <=> x = "shut" \/ Due(x, op')
  BY <1>1, <1>2, PlanShrinks
<1>4. Planned(op)'
  BY <1>1, <1>3 DEF Planned
<1>5. /\ chain' \in [number : 0..MaxExpectations, links : 0..MaxLinks,
                     first : StubSet \cup {NoChain.first}]
      /\ ~(chain'.links > 0)
  BY <1>1, SdkAssumption DEF NoChain
<1>6. ~Due("link", op)'
  BY <1>3 DEF SdkTyped
<1>7. SdkTyped'
  BY <1>1, <1>4, <1>5, <1>6 DEF SdkTyped
<1>8. Queued'
  BY <1>1, <1>2, <1>3 DEF Queued
<1> QED BY <1>1, <1>2, <1>3, <1>7, <1>8

\* Waiting for the calls changes nothing,
LEMMA DrainTyped ==
  ASSUME SdkTyped, Queued, Drain
  PROVE  /\ SdkTyped' /\ Queued' /\ ~Sending(op)
         /\ \A x : Due(x, op) <=> x = "drain" \/ Due(x, op')
         /\ UNCHANGED <<mode, session, expectations, verified, pending, chain, wanted, batch,
                        unsent, stubIDs, opErr, timer, expired, serving, stranded, stubs,
                        count, recorded, calls, taken, reported, used>>
<1>1. /\ op # <<>> /\ Head(op) = "drain" /\ op' = Tail(op)
      /\ UNCHANGED <<mode, session, expectations, verified, pending, chain, wanted, batch,
                     unsent, stubIDs, opErr, timer, expired, serving, stranded, stubs, count,
                     recorded, calls, taken, reported, used>>
  BY DEF Drain, testVars, commitVars, ownVars, timerVars, storeVars, callVars
<1>2. Planned(op) /\ ~Sending(op)
  BY <1>1 DEF SdkTyped, Sending
<1>3. /\ Planned(op') /\ ~Sending(op') /\ \A x : Due(x, op) <=> x = "drain" \/ Due(x, op')
  BY <1>1, <1>2, PlanShrinks
<1>4. Planned(op)'
  BY <1>1, <1>3 DEF Planned
<1>5. SdkTyped'
  BY <1>1, <1>3, <1>4 DEF SdkTyped
<1>6. Queued'
  BY <1>1, <1>2, <1>3 DEF Queued
<1> QED BY <1>1, <1>2, <1>3, <1>5, <1>6

\* and another test's purge takes records only.
LEMMA OthersPurgeTyped ==
  ASSUME SdkTyped, Queued, NEW s \in Sessions, OthersPurge(s)
  PROVE  /\ SdkTyped' /\ Queued' /\ Spent /\ used'.purges > 0 /\ used'.faults = used.faults
         /\ \A i \in Ids \X Sessions : recorded'[i] = 0 \/ recorded'[i] = recorded[i]
         /\ UNCHANGED <<mode, session, expectations, verified, pending, chain, wanted, batch,
                        unsent, stubIDs, opErr, op, timer, expired, serving, stranded, stubs,
                        count, calls, taken, reported>>
<1>1. /\ used' = [used EXCEPT !.purges = @ + 1]
      /\ recorded' = [i \in Ids \X Sessions |-> IF s \in {Global, i[2]} THEN 0 ELSE recorded[i]]
      /\ UNCHANGED <<mode, session, expectations, verified, pending, chain, wanted, batch,
                     unsent, stubIDs, opErr, op, timer, expired, serving, stranded, stubs,
                     count, calls, taken, reported>>
  BY DEF OthersPurge, testVars, commitVars, ownVars, timerVars, storeVars
<1>2. used' \in UsedSet /\ Spent /\ used'.purges > 0 /\ used'.faults = used.faults
  <2>1. used \in UsedSet /\ used.purges \in Nat
    BY DEF SdkTyped, UsedSet
  <2>2. used' \in UsedSet
    BY <1>1, <2>1 DEF UsedSet
  <2>3. /\ used'.expectations = used.expectations /\ used'.purges = used.purges + 1
        /\ used'.faults = used.faults
    BY <1>1, <2>1 DEF UsedSet
  <2>4. Spent /\ used'.purges > 0
    BY <2>1, <2>3 DEF Spent
  <2> QED BY <2>2, <2>3, <2>4
<1>3. /\ recorded' \in [Ids \X Sessions -> Nat]
      /\ \A i \in Ids \X Sessions : recorded'[i] = 0 \/ recorded'[i] = recorded[i]
  BY <1>1 DEF SdkTyped
<1>4. Planned(op)'
  BY <1>1 DEF Planned, SdkTyped
<1>5. SdkTyped'
  BY <1>1, <1>2, <1>3, <1>4 DEF SdkTyped, Spent
<1>6. Queued'
  BY <1>1 DEF Queued, Live
<1> QED BY <1>1, <1>2, <1>3, <1>5, <1>6

\* The stubs a call may take.
FreeFor(e, s) ==
  {x \in stubs : /\ x.id[1] = e
                 /\ x.session \in {Global, s}
                 /\ x.times = 0 \/ count[<<x.id, s>>] < x.times}

\* A call takes this stub.
Takes(best, c, e, s) ==
  /\ \A x \in FreeFor(e, s) : best.id[2] <= x.id[2]
  /\ best \in StubSet /\ <<best.id, s>> \in Ids \X Sessions
  /\ count' = [count EXCEPT ![<<best.id, s>>] = @ + 1]
  /\ taken' = [taken EXCEPT ![<<best.id, s>>] = @ + 1]
  /\ calls' = [calls EXCEPT ![c] = [id |-> best.id, session |-> s]]

\* A call takes one free stub of its service and counts it.
LEMMA CallTyped ==
  ASSUME SdkTyped, Queued, NEW c \in Callers, NEW e \in 1..MaxExpectations,
         NEW s \in {session, Other}, Call(c, e, s)
  PROVE  /\ SdkTyped' /\ Queued' /\ s \in Sessions /\ calls[c] = Idle
         /\ Spent
         /\ \E best \in FreeFor(e, s) : Takes(best, c, e, s)
         /\ UNCHANGED <<mode, session, expectations, verified, pending, chain, wanted, batch,
                        unsent, stubIDs, opErr, op, timer, expired, serving, stranded, stubs,
                        recorded, reported>>
<1>1. PICK best \in FreeFor(e, s) :
        /\ \A x \in FreeFor(e, s) : best.id[2] <= x.id[2]
        /\ calls[c] = Idle
        /\ used' = [used EXCEPT !.calls = @ + 1]
        /\ count' = [count EXCEPT ![<<best.id, s>>] = @ + 1]
        /\ taken' = [taken EXCEPT ![<<best.id, s>>] = @ + 1]
        /\ calls' = [calls EXCEPT ![c] = [id |-> best.id, session |-> s]]
        /\ UNCHANGED <<mode, session, expectations, verified, pending, chain, wanted, batch,
                       unsent, stubIDs, opErr, op, timer, expired, serving, stranded, stubs,
                       recorded, reported>>
  BY DEF Call, FreeFor, testVars, commitVars, ownVars, timerVars
<1>2. s \in Sessions /\ best \in StubSet /\ <<best.id, s>> \in Ids \X Sessions
  BY DEF SdkTyped, FreeFor, StubSet, Sessions
<1>3. /\ used' \in UsedSet
      /\ Spent
  <2>1. used \in UsedSet /\ used.calls + 1 \in Nat
    BY DEF SdkTyped, UsedSet
  <2>2. used' \in UsedSet
    BY <1>1, <2>1 DEF UsedSet
  <2>3. used'.expectations = used.expectations /\ used'.purges = used.purges
    BY <1>1, <2>1 DEF UsedSet
  <2>4. Spent
    BY <2>1, <2>3 DEF Spent, UsedSet
  <2> QED BY <2>2, <2>4
<1>4. count' \in [Ids \X Sessions -> Nat] /\ taken' \in [Ids \X Sessions -> Nat]
  <2>1. count[<<best.id, s>>] + 1 \in Nat /\ taken[<<best.id, s>>] + 1 \in Nat
    BY <1>2 DEF SdkTyped
  <2> QED BY <1>1, <2>1 DEF SdkTyped
<1>5. calls' \in [Callers -> Matches \cup {Idle}]
  <2>1. [id |-> best.id, session |-> s] \in Matches
    BY <1>2 DEF Matches
  <2> QED BY <1>1, <2>1 DEF SdkTyped
<1>6. Planned(op)'
  BY <1>1 DEF Planned, SdkTyped
<1>7. SdkTyped'
  BY <1>1, <1>3, <1>4, <1>5, <1>6 DEF SdkTyped
<1>8. Queued'
  BY <1>1 DEF Queued, Live
<1>9. Takes(best, c, e, s)
  BY <1>1, <1>2 DEF Takes
<1> QED BY <1>1, <1>2, <1>3, <1>7, <1>8, <1>9

\* The record of a call is that of the match its caller held.
LEMMA RecordTyped ==
  ASSUME SdkTyped, Queued, NEW c \in Callers, Record(c)
  PROVE  /\ SdkTyped' /\ Queued' /\ calls[c] \in Matches
         /\ <<calls[c].id, calls[c].session>> \in Ids \X Sessions
         /\ recorded' = [recorded EXCEPT ![<<calls[c].id, calls[c].session>>] = @ + 1]
         /\ calls' = [calls EXCEPT ![c] = Idle]
         /\ UNCHANGED <<mode, session, expectations, verified, pending, chain, wanted, batch,
                        unsent, stubIDs, opErr, op, timer, expired, serving, stranded, stubs,
                        count, taken, reported, used>>
<1>1. /\ calls[c] # Idle
      /\ recorded' = [recorded EXCEPT ![<<calls[c].id, calls[c].session>>] = @ + 1]
      /\ calls' = [calls EXCEPT ![c] = Idle]
      /\ UNCHANGED <<mode, session, expectations, verified, pending, chain, wanted, batch,
                     unsent, stubIDs, opErr, op, timer, expired, serving, stranded, stubs,
                     count, taken, reported, used>>
  BY DEF Record, testVars, commitVars, ownVars, timerVars, storeVars
<1>2. calls[c] \in Matches
  BY <1>1 DEF SdkTyped
<1>3. <<calls[c].id, calls[c].session>> \in Ids \X Sessions
  BY <1>2 DEF Matches
<1>4. recorded' \in [Ids \X Sessions -> Nat]
  <2> DEFINE i == <<calls[c].id, calls[c].session>>
  <2>1. recorded[i] + 1 \in Nat
    BY <1>3 DEF SdkTyped
  <2>2. recorded' = [recorded EXCEPT ![i] = recorded[i] + 1]
    BY <1>1
  <2> HIDE DEF i
  <2> QED BY <2>1, <2>2 DEF SdkTyped
<1>5. calls' \in [Callers -> Matches \cup {Idle}]
  BY <1>1 DEF SdkTyped
<1>6. Planned(op)'
  BY <1>1 DEF Planned, SdkTyped
<1>7. SdkTyped'
  BY <1>1, <1>4, <1>5, <1>6 DEF SdkTyped
<1>8. Queued'
  BY <1>1 DEF Queued, Live
<1> QED BY <1>1, <1>2, <1>3, <1>7, <1>8

\* The steps that touch none of the stubs a test wants, and lose none of them
\* without an error or the end of the TTL.
Quiet ==
  /\ chain' = chain /\ wanted' = wanted /\ mode' = mode /\ expectations' = expectations
  /\ Spent
  /\ stubs' \subseteq stubs /\ (Live' => Live /\ stubs' = stubs)
  /\ Awaited' \subseteq Awaited /\ (~opErr' => ~opErr /\ Awaited' = Awaited)
  /\ Due("purge", op') => Due("purge", op)

QuietStep ==
  \/ Flush \/ Verify \/ Close \/ Cleanup \/ StopTimer \/ Drain \/ End \/ Expire
  \/ UNCHANGED sdkVars
  \/ \E outcome \in Outcomes :
       Check(outcome) \/ ReadFails(outcome) \/ Purge(outcome) \/ DeleteExpired(outcome)
  \/ \E s \in Sessions : OthersPurge(s)
  \/ \E c \in Callers, e \in 1..MaxExpectations, s \in {session, Other} : Call(c, e, s)
  \/ \E c \in Callers : Record(c)

\* The quiet steps keep the types and the plan, and bring no stub.
LEMMA StepsQuietly ==
  ASSUME SdkTyped, Queued, QuietStep
  PROVE  SdkTyped' /\ Queued' /\ Quiet
<1>1. used.purges \in Nat /\ used.purges >= used.purges
  BY DEF SdkTyped, UsedSet
<1>2. ASSUME UNCHANGED sdkVars PROVE SdkTyped' /\ Queued' /\ Quiet
  <2>1. /\ UNCHANGED <<mode, session, expectations, verified, pending, chain, wanted, batch,
                       unsent, stubIDs, opErr, op, timer, expired, serving, stranded, stubs,
                       count, recorded, calls, taken, reported, used>>
    BY <1>2 DEF sdkVars, testVars, commitVars, ownVars, timerVars, storeVars, callVars
  <2>2. Planned(op)'
    BY <2>1 DEF Planned, SdkTyped
  <2>3. SdkTyped'
    BY <2>1, <2>2 DEF SdkTyped
  <2>4. Queued' /\ Quiet
    BY <1>1, <2>1 DEF Queued, Quiet, Live, Awaited, Spent
  <2> QED BY <2>3, <2>4
<1>3. ASSUME Flush PROVE SdkTyped' /\ Queued' /\ Quiet
  <2>1. timer' = timer
    BY <1>3 DEF Flush, timerVars
  <2> QED BY <1>3, <1>1, <2>1, FlushTyped DEF Quiet, Live, Spent
<1>4. ASSUME Verify \/ Cleanup PROVE SdkTyped' /\ Queued' /\ Quiet
  <2>1. /\ SdkTyped' /\ Queued' /\ op = <<>> /\ ~Due("purge", op')
        /\ UNCHANGED <<expectations, pending, chain, wanted, commitVars, ownVars, timerVars,
                       storeVars, callVars, reported, used, mode, session>>
    BY <1>4, VerifyTyped
  <2> QED BY <1>1, <2>1 DEF Quiet, Live, Awaited, Spent, commitVars, ownVars, timerVars, storeVars
<1>5. ASSUME NEW outcome \in Outcomes, Check(outcome) PROVE SdkTyped' /\ Queued' /\ Quiet
  <2>1. opErr' = (opErr \/ outcome # "ok")
    BY <1>5 DEF Check
  <2> QED BY <1>5, <2>1, CheckTyped DEF Quiet, Live, Awaited
<1>6. ASSUME NEW outcome \in Outcomes, ReadFails(outcome) PROVE SdkTyped' /\ Queued' /\ Quiet
  BY <1>6, ReadTyped DEF Quiet, Live, Awaited
<1>7. ASSUME NEW outcome \in Outcomes, Purge(outcome) PROVE SdkTyped' /\ Queued' /\ Quiet
  BY <1>7, PurgeTyped DEF Quiet, Live, Awaited
<1>8. ASSUME StopTimer PROVE SdkTyped' /\ Queued' /\ Quiet
  BY <1>8, <1>1, StopTyped DEF Quiet, Awaited, Spent
<1>9. ASSUME End PROVE SdkTyped' /\ Queued' /\ Quiet
  BY <1>9, <1>1, EndTyped DEF Quiet, Live, Awaited, Spent
<1>10. ASSUME Expire PROVE SdkTyped' /\ Queued' /\ Quiet
  BY <1>10, <1>1, ExpireTyped DEF Quiet, Awaited, Spent
<1>11. ASSUME NEW outcome \in Outcomes, DeleteExpired(outcome)
       PROVE  SdkTyped' /\ Queued' /\ Quiet
  <2>1. stubs' \subseteq stubs
    BY <1>11, DeleteExpiredTyped DEF Delete
  <2> QED BY <1>11, <2>1, DeleteExpiredTyped DEF Quiet, Awaited
<1>12. ASSUME NEW c \in Callers, NEW e \in 1..MaxExpectations, NEW s \in {session, Other},
              Call(c, e, s)
       PROVE  SdkTyped' /\ Queued' /\ Quiet
  BY <1>12, CallTyped DEF Quiet, Live, Awaited
<1>13. ASSUME NEW c \in Callers, Record(c) PROVE SdkTyped' /\ Queued' /\ Quiet
  BY <1>13, <1>1, RecordTyped DEF Quiet, Live, Awaited, Spent
<1>14. ASSUME Close PROVE SdkTyped' /\ Queued' /\ Quiet
  BY <1>14, CloseTyped DEF Quiet, Live, Awaited
<1>15. ASSUME Drain PROVE SdkTyped' /\ Queued' /\ Quiet
  BY <1>1, <1>15, DrainTyped DEF Quiet, Live, Awaited, Spent
<1>16. ASSUME NEW s \in Sessions, OthersPurge(s) PROVE SdkTyped' /\ Queued' /\ Quiet
  BY <1>16, OthersPurgeTyped DEF Quiet, Live, Awaited
<1> QED BY <1>2, <1>3, <1>4, <1>5, <1>6, <1>7, <1>8, <1>9, <1>10, <1>11, <1>12, <1>13, <1>14,
           <1>15, <1>16 DEF QuietStep

----------------------------------------------------------------------------
(* Builders and their chains.                                              *)

\* A builder has used this number, and this link if it is the last builder.
Known(id) ==
  /\ id[1] <= used.expectations
  /\ chain.links > 0 /\ id[1] = chain.number => id[2] <= chain.links

Kin(v, w) == v.id[1] = w.id[1]
Below(w, v) == Kin(w, v) /\ w.id[2] < v.id[2]

\* What the test wants: one stub per number, those of a builder in one session,
\* only the last of them without a limit.
WantedInOrder ==
  /\ \A v, w \in wanted : /\ v.id = w.id => v = w
                          /\ Kin(v, w) => v.session = w.session
                          /\ Below(w, v) => w.times # 0
  /\ \A w \in wanted : Known(w.id) /\ (w.id[2] > 1 => w.times # 0)

\* The server has one stub per number too, and nothing of a builder in use that
\* the test does not want.
StoredInOrder ==
  /\ \A x, y \in stubs : x.id = y.id => x = y
  /\ \A x \in stubs : /\ Known(x.id)
                      /\ \A w \in wanted : Kin(x, w) => /\ x.id \in IdsOf(wanted)
                                                        /\ x.session = w.session

\* The current builder's chain, in the order in which its links were declared.
Chained ==
  /\ chain.links = 0 => wanted = {}
  /\ chain.links > 0 => chain.first \in wanted
  /\ chain.links > 1 => chain.first.times # 0
  /\ Due("purge", op) => chain.links = 0 /\ expectations = {}
  /\ Awaited \subseteq wanted
  /\ WantedInOrder /\ StoredInOrder

\* A stub the test declares, or declares anew in another form.
Declared(stub) ==
  /\ stub \in StubSet /\ Entered(stub)
  /\ wanted' = {w \in wanted : w.id # stub.id} \cup {stub}
  /\ chain'.links > 0 /\ chain'.first \in wanted' /\ ~Due("purge", op') /\ ~Closing(op')
  /\ chain'.links > 1 => chain'.first.times # 0
  /\ (\A id \in Ids : Known(id) => Known(id)') /\ Known(stub.id)'
  /\ stub.id[2] > 1 => stub.times # 0
  /\ \A w \in wanted : Kin(w, stub) => /\ w.session = stub.session
                                       /\ Below(w, stub) => w.times # 0
                                       /\ Below(stub, w) => stub.times # 0 /\ stub \in wanted
  /\ \A x \in stubs : Kin(x, stub) => x.session = stub.session /\ \E w \in wanted : Kin(x, w)
  /\ \/ Known(stub.id) /\ stub.id[2] = 1 /\ stub.id \in IdsOf(wanted) /\ expectations' = expectations
     \/ ~Known(stub.id) /\ Track(stub)

\* The stub of an Expect is a declared one,
LEMMA ExpectDeclares ==
  ASSUME SdkTyped, Queued, Chained, NEW n \in 0..MaxTimes, NEW s \in {Global, Other}, Expect(n, s)
  PROVE  \E stub \in StubSet : Declared(stub)
<1>1. PICK stub \in StubSet :
        /\ stub.id = <<used.expectations + 1, 1>> /\ wanted' = wanted \cup {stub}
        /\ chain' = [number |-> used.expectations + 1, links |-> 1, first |-> stub]
        /\ used'.expectations = used.expectations + 1
        /\ ~Due("purge", op') /\ ~Closing(op') /\ Entered(stub) /\ Track(stub)
  BY ExpectTyped
<1>2. /\ used.expectations \in Nat /\ stub.id[1] = used.expectations + 1 /\ stub.id[2] = 1
      /\ chain'.number = used.expectations + 1 /\ chain'.links = 1 /\ chain'.first = stub
  BY <1>1, SdkAssumption DEF SdkTyped, UsedSet
<1>3. ~Known(stub.id)
  BY <1>2 DEF Known
<1>4. \A w \in wanted : ~Kin(w, stub) /\ w.id # stub.id
  <2> TAKE w \in wanted
  <2>1. Known(w.id) /\ w.id[1] \in Nat
    BY DEF Chained, WantedInOrder, SdkTyped, StubSet, Ids
  <2> QED BY <1>2, <2>1 DEF Known, Kin
<1>5. \A x \in stubs : ~Kin(x, stub)
  <2> TAKE x \in stubs
  <2>1. Known(x.id) /\ x.id[1] \in Nat
    BY DEF Chained, StoredInOrder, SdkTyped, StubSet, Ids
  <2> QED BY <1>2, <2>1 DEF Known, Kin
<1>6. wanted' = {w \in wanted : w.id # stub.id} \cup {stub}
  BY <1>1, <1>4
<1>7. (\A id \in Ids : Known(id) => Known(id)') /\ Known(stub.id)'
  <2>1. ASSUME NEW id \in Ids, Known(id) PROVE Known(id)'
    <3>1. id[1] \in Nat /\ id[1] <= used.expectations
      BY <2>1 DEF Known, Ids
    <3> QED BY <1>1, <1>2, <3>1 DEF Known
  <2> QED BY <1>1, <1>2, <2>1 DEF Known
<1> QED BY <1>1, <1>2, <1>3, <1>4, <1>5, <1>6, <1>7 DEF Declared, Below

\* and so are that of a link,
LEMMA LinkDeclares ==
  ASSUME SdkTyped, Queued, Chained, RegisterLink
  PROVE  \E stub \in StubSet : Declared(stub)
<1>1. PICK stub \in StubSet :
        /\ stub.id = <<chain.number, chain.links + 1>> /\ stub.times = 1
        /\ stub.session = chain.first.session /\ wanted' = wanted \cup {stub}
        /\ chain'.number = chain.number /\ chain'.links = chain.links + 1
        /\ chain'.first = chain.first /\ Entered(stub) /\ Track(stub)
  BY LinkTyped
<1>2. /\ op = <<"link">> /\ chain.links > 0 /\ chain.first.times # 0
      /\ ~Due("purge", op') /\ ~Closing(op') /\ Spent
  BY LinkTyped
<1>3. /\ chain.links \in Nat /\ stub.id[1] = chain.number /\ stub.id[2] = chain.links + 1
      /\ chain.first.id = <<chain.number, 1>> /\ chain.number = used.expectations
      /\ chain.number \in Nat
  BY <1>1, <1>2, SdkAssumption DEF SdkTyped
<1>4. chain.first \in wanted
  BY <1>2 DEF Chained
<1>5. Kin(chain.first, stub)
  BY <1>3 DEF Kin
<1>6. ~Known(stub.id)
  BY <1>2, <1>3 DEF Known
<1>7. ASSUME NEW w \in wanted, Kin(w, stub)
      PROVE  /\ w.session = stub.session /\ w.times # 0 /\ w.id[2] < stub.id[2] /\ w.id # stub.id
  <2>1. /\ w.id \in Ids /\ w.id[2] \in Nat /\ w.id[2] >= 1 /\ Known(w.id)
        /\ w.id[2] > 1 => w.times # 0
    BY SdkAssumption DEF Chained, WantedInOrder, SdkTyped, StubSet, Ids
  <2>2. w.session = stub.session
    <3>1. Kin(w, chain.first)
      BY <1>5, <1>7 DEF Kin
    <3> QED BY <1>1, <1>4, <3>1 DEF Chained, WantedInOrder
  <2>3. w.id[2] <= chain.links
    BY <1>2, <1>3, <1>7, <2>1 DEF Known, Kin
  <2>4. w.times # 0
    <3>1. CASE w.id[2] > 1
      BY <2>1, <3>1
    <3>2. CASE w.id[2] = 1
      <4>1. w.id = chain.first.id
        BY <1>3, <1>7, <2>1, <3>2 DEF Kin, Ids
      <4> QED BY <1>2, <1>4, <4>1 DEF Chained, WantedInOrder
    <3> QED BY <2>1, <3>1, <3>2
  <2> QED BY <1>3, <2>1, <2>2, <2>3, <2>4
<1>8. ASSUME NEW x \in stubs, Kin(x, stub)
      PROVE  x.session = stub.session /\ \E w \in wanted : Kin(x, w)
  <2>1. Kin(x, chain.first)
    BY <1>5, <1>8 DEF Kin
  <2> QED BY <1>1, <1>4, <2>1 DEF Chained, StoredInOrder
<1>9. wanted' = {w \in wanted : w.id # stub.id} \cup {stub}
  <2>1. \A w \in wanted : w.id # stub.id
    BY <1>7 DEF Kin
  <2> QED BY <1>1, <2>1
<1>10. (\A id \in Ids : Known(id) => Known(id)') /\ Known(stub.id)'
  <2>1. ASSUME NEW id \in Ids, Known(id) PROVE Known(id)'
    <3>1. id[2] \in Nat
      BY SdkAssumption DEF Ids
    <3> QED BY <1>1, <1>2, <1>3, <2>1, <3>1 DEF Known, Spent
  <2> QED BY <1>1, <1>2, <1>3, <2>1 DEF Known, Spent
<1>11. chain'.links > 0 /\ chain'.first \in wanted' /\ chain'.first.times # 0
  BY <1>1, <1>2, <1>3, <1>4
<1>12. \A w \in wanted : ~Below(stub, w)
  <2> SUFFICES ASSUME NEW w \in wanted, Below(stub, w) PROVE FALSE
    OBVIOUS
  <2>1. Kin(w, stub) /\ stub.id[2] < w.id[2]
    BY DEF Below, Kin
  <2>2. w.id[2] < stub.id[2] /\ w.id[2] \in Nat /\ stub.id[2] \in Nat
    BY <1>3, <1>7, <2>1, SdkAssumption DEF SdkTyped, StubSet, Ids
  <2> QED BY <2>1, <2>2
<1> QED BY <1>1, <1>2, <1>6, <1>7, <1>8, <1>9, <1>10, <1>11, <1>12 DEF Declared

\* The first stub of the last builder is wanted.
LEMMA FirstWanted ==
  ASSUME SdkTyped, Chained, chain.links > 0
  PROVE  /\ chain.first \in wanted /\ chain.first \in StubSet /\ Known(chain.first.id)
         /\ chain.first.id[1] = chain.number /\ chain.first.id[2] = 1
         /\ \A w \in wanted : w.id = chain.first.id => w = chain.first
<1>1. chain.first \in wanted /\ chain.first \in StubSet
  BY DEF Chained, SdkTyped
<1> QED BY <1>1 DEF Chained, WantedInOrder, SdkTyped

\* the fixed first stub of a chain,
LEMMA FixDeclares ==
  ASSUME SdkTyped, Queued, Chained, NextWillReturn, chain.first.times = 0
  PROVE  \E stub \in StubSet : Declared(stub)
<1> DEFINE first == chain.first
<1>1. /\ op = <<>> /\ chain.links > 0 /\ expectations' = expectations
      /\ Spent
      /\ ~Due("purge", op') /\ ~Closing(op')
  BY NextTyped
<1>2. PICK stub \in StubSet :
        /\ stub.times # 0 /\ stub.id = first.id /\ stub.session = first.session
        /\ wanted' = (wanted \ {first}) \cup {stub}
        /\ chain'.number = chain.number /\ chain'.links = chain.links
        /\ chain'.first = stub /\ Entered(stub)
  BY NextTyped
<1>3. /\ first \in wanted /\ first \in StubSet /\ Known(first.id)
      /\ first.id[1] = chain.number /\ first.id[2] = 1
      /\ \A w \in wanted : w.id = first.id => w = first
  BY <1>1, FirstWanted
<1>4. chain.links = 1
  BY <1>1 DEF Chained, SdkTyped
<1>5. wanted' = {w \in wanted : w.id # stub.id} \cup {stub}
  BY <1>2, <1>3
<1>6. ASSUME NEW w \in wanted, Kin(w, stub)
      PROVE  w.session = stub.session /\ ~Below(w, stub) /\ ~Below(stub, w)
  <2>1. Kin(w, first)
    BY <1>2, <1>6 DEF Kin
  <2>2. w.session = stub.session
    BY <1>2, <1>3, <2>1 DEF Chained, WantedInOrder
  <2>3. /\ Known(w.id) /\ w.id[2] \in Nat /\ w.id[2] >= 1 /\ w.id[1] = chain.number
        /\ stub.id[2] = 1
    BY <1>2, <1>3, <2>1, SdkAssumption DEF Chained, WantedInOrder, SdkTyped, StubSet, Ids, Kin
  <2>4. w.id[2] <= 1
    BY <1>1, <1>4, <2>3 DEF Known
  <2> QED BY <2>2, <2>3, <2>4 DEF Below
<1>7. ASSUME NEW x \in stubs, Kin(x, stub)
      PROVE  x.session = stub.session /\ \E w \in wanted : Kin(x, w)
  <2>1. Kin(x, first)
    BY <1>2, <1>7 DEF Kin
  <2> QED BY <1>2, <1>3, <2>1 DEF Chained, StoredInOrder
<1>8. (\A id \in Ids : Known(id) => Known(id)') /\ Known(stub.id)' /\ Known(stub.id)
  <2>1. \A id \in Ids : Known(id) => Known(id)'
    BY <1>1, <1>2 DEF Known, Spent
  <2> QED BY <1>2, <1>3, <2>1 DEF StubSet
<1>9. stub.id \in IdsOf(wanted)
  BY <1>2, <1>3 DEF IdsOf
<1>10. chain'.links > 0 /\ chain'.first \in wanted' /\ chain'.first.times # 0
  BY <1>1, <1>2
<1>11. \A w \in wanted : Below(stub, w) \/ Below(w, stub) => Kin(w, stub)
  BY DEF Below, Kin
<1> HIDE DEF first
<1> QED BY <1>1, <1>2, <1>3, <1>5, <1>6, <1>7, <1>8, <1>9, <1>10, <1>11 DEF Declared

\* and the first stub that SendMessage hands on again.
LEMMA MessageDeclares ==
  ASSUME SdkTyped, Queued, Chained, SendMessage
  PROVE  \E stub \in StubSet : Declared(stub)
<1>0. PICK first \in StubSet : first = chain.first
  BY FirstWanted, MessageTyped
<1>1. /\ op = <<>> /\ chain.links > 0 /\ UNCHANGED <<expectations, chain, wanted, used>>
      /\ ~Due("purge", op') /\ ~Closing(op') /\ Entered(first)
  BY <1>0, MessageTyped
<1>2. /\ first \in wanted /\ Known(first.id)
      /\ first.id[1] = chain.number /\ first.id[2] = 1
      /\ \A w \in wanted : w.id = first.id => w = first
  BY <1>0, <1>1, FirstWanted
<1>3. wanted' = {w \in wanted : w.id # first.id} \cup {first}
  BY <1>1, <1>2
<1>4. ASSUME NEW w \in wanted, Kin(w, first)
      PROVE  /\ w.session = first.session /\ (Below(w, first) => w.times # 0)
             /\ Below(first, w) => first.times # 0
  BY <1>2, <1>4 DEF Chained, WantedInOrder
<1>5. ASSUME NEW x \in stubs, Kin(x, first)
      PROVE  x.session = first.session /\ \E w \in wanted : Kin(x, w)
  BY <1>2, <1>5 DEF Chained, StoredInOrder
<1>6. (\A id \in Ids : Known(id) => Known(id)') /\ Known(first.id)'
  BY <1>0, <1>1, <1>2 DEF Known
<1>7. first.id \in IdsOf(wanted)
  BY <1>2 DEF IdsOf
<1>8. chain'.links > 1 => chain'.first.times # 0
  BY <1>1 DEF Chained
<1>9. chain'.links > 0 /\ chain'.first = first
  BY <1>0, <1>1
<1>10. expectations' = expectations /\ chain'.first \in wanted'
  BY <1>1, <1>2, <1>9
<1>11. first.id[2] > 1 => first.times # 0
  BY <1>2
<1>12. Declared(first)
  BY <1>1, <1>2, <1>3, <1>4, <1>5, <1>6, <1>7, <1>8, <1>9, <1>10, <1>11 DEF Declared
<1> QED BY <1>12

\* The steps that declare.
DeclareStep ==
  \/ \E n \in 0..MaxTimes, s \in {Global, Other} : Expect(n, s)
  \/ NextWillReturn /\ chain.first.times = 0
  \/ RegisterLink \/ SendMessage

\* Every step is quiet, declares, or is one of these.
LEMMA StepKinds ==
  ASSUME SdkTyped, Queued, Chained, TestNext \/ UNCHANGED sdkVars
  PROVE  /\ SdkTyped' /\ Queued'
         /\ \/ Quiet
            \/ DeclareStep /\ \E stub \in StubSet : Declared(stub)
            \/ \E outcome \in Outcomes : Send(outcome) \/ DeleteOwned(outcome)
            \/ Reset \/ Shut
<1>1. CASE QuietStep
  BY <1>1, StepsQuietly
<1>2. CASE DeclareStep
  <2>1. SdkTyped' /\ Queued'
    BY <1>2, ExpectTyped, NextTyped, LinkTyped, MessageTyped DEF DeclareStep
  <2>2. \E stub \in StubSet : Declared(stub)
    BY <1>2, ExpectDeclares, FixDeclares, LinkDeclares, MessageDeclares DEF DeclareStep
  <2> QED BY <1>2, <2>1, <2>2
<1>3. CASE NextWillReturn /\ chain.first.times # 0
  <2>1. /\ SdkTyped' /\ Queued' /\ ~Due("purge", op') /\ op = <<>> /\ expectations' = expectations
        /\ Spent
        /\ UNCHANGED <<chain, wanted, stubs, pending, batch, unsent>>
    BY <1>3, NextTyped
  <2>2. UNCHANGED <<mode, opErr, timer>>
    BY <1>3 DEF NextWillReturn, ownVars, timerVars
  <2> QED BY <2>1, <2>2 DEF Quiet, Live, Awaited
<1>4. CASE \E outcome \in Outcomes : Send(outcome)
  BY <1>4, SendTyped
<1>5. CASE \E outcome \in Outcomes : DeleteOwned(outcome)
  BY <1>5, DeleteTyped
<1>6. CASE Reset
  BY <1>6, ResetTyped
<1>7. CASE Shut
  BY <1>7, ShutTyped
<1>8. \/ QuietStep \/ DeclareStep \/ (NextWillReturn /\ chain.first.times # 0) \/ Reset \/ Shut
      \/ \E outcome \in Outcomes : Send(outcome) \/ DeleteOwned(outcome)
  BY DEF TestNext, QuietStep, DeclareStep
<1> QED BY <1>1, <1>2, <1>3, <1>4, <1>5, <1>6, <1>8, <1>7

\* Stubs that enter the server, all of them wanted and one per number.
LEMMA PutInOrder ==
  ASSUME SdkTyped, WantedInOrder, StoredInOrder, NEW ss, ss \subseteq wanted, stubs' = Put(ss),
         wanted' = wanted, \A id \in Ids : Known(id) => Known(id)'
  PROVE  StoredInOrder'
<1>1. ASSUME NEW x \in stubs', NEW y \in stubs', x.id = y.id PROVE x = y
  <2>1. (x \in ss \/ (x \in stubs /\ x.id \notin IdsOf(ss)))
        /\ (y \in ss \/ (y \in stubs /\ y.id \notin IdsOf(ss)))
    BY DEF Put
  <2>2. CASE x \in ss /\ y \in ss
    BY <1>1, <2>2 DEF WantedInOrder
  <2>3. CASE x \in stubs /\ y \in stubs
    BY <1>1, <2>3 DEF StoredInOrder
  <2> QED BY <1>1, <2>1, <2>2, <2>3 DEF IdsOf
<1>2. ASSUME NEW x \in stubs'
      PROVE  /\ Known(x.id)'
             /\ \A w \in wanted : Kin(x, w) => x.id \in IdsOf(wanted) /\ x.session = w.session
  <2>1. x \in stubs \/ x \in wanted
    BY DEF Put
  <2>2. x.id \in Ids
    BY <2>1 DEF SdkTyped, StubSet
  <2>3. CASE x \in stubs
    BY <2>2, <2>3 DEF StoredInOrder
  <2>4. CASE x \in wanted
    BY <2>2, <2>4 DEF WantedInOrder, IdsOf
  <2> QED BY <2>1, <2>3, <2>4
<1> QED BY <1>1, <1>2 DEF StoredInOrder

\* An embedded server takes every stub at once.
LEMMA EmbeddedWaitsForNothing ==
  ASSUME SdkTyped, Queued, mode = "embedded"
  PROVE  Awaited = {} /\ ~Sending(op)
<1>1. ~Sending(op)
  BY HeadIsDue DEF SdkTyped, Sending
<1>2. pending = <<>> /\ batch = <<>> /\ ToSet(<<>>) = {}
  BY <1>1, Listed DEF Queued
<1> QED BY <1>1, <1>2 DEF Awaited

\* A declaration keeps the order.
LEMMA DeclaredChained ==
  ASSUME SdkTyped, Queued, Chained, SdkTyped', Queued', NEW stub, Declared(stub)
  PROVE  Chained'
<1>1. /\ stub \in StubSet /\ wanted' = {w \in wanted : w.id # stub.id} \cup {stub}
      /\ wanted \subseteq StubSet /\ stubs \subseteq StubSet
      /\ (\A id \in Ids : Known(id) => Known(id)') /\ Known(stub.id)'
  BY DEF Declared, SdkTyped
<1>2. ASSUME NEW v \in wanted', NEW w \in wanted'
      PROVE  /\ v.id = w.id => v = w
             /\ Kin(v, w) => v.session = w.session
             /\ Below(w, v) => w.times # 0
  <2>1. (v = stub \/ (v \in wanted /\ v.id # stub.id)) /\ (w = stub \/ (w \in wanted /\ w.id # stub.id))
    BY <1>1
  <2>2. CASE v \in wanted /\ w \in wanted
    BY <2>2 DEF Chained, WantedInOrder
  <2>3. CASE v = stub /\ w = stub
    <3>1. ~Below(stub, stub)
      BY <1>1, SdkAssumption DEF Below, StubSet, Ids
    <3> QED BY <2>3, <3>1
  <2>4. CASE v = stub /\ w \in wanted /\ w.id # stub.id
    <3>1. Kin(v, w) => Kin(w, stub)
      BY <2>4 DEF Kin
    <3>2. Below(w, v) => Kin(w, stub) /\ Below(w, stub)
      BY <2>4 DEF Below
    <3> QED BY <2>4, <3>1, <3>2 DEF Declared
  <2>5. CASE w = stub /\ v \in wanted /\ v.id # stub.id
    <3>1. Kin(v, w) => Kin(v, stub)
      BY <2>5 DEF Kin
    <3>2. Below(w, v) => Kin(v, stub) /\ Below(stub, v)
      BY <2>5 DEF Below, Kin
    <3> QED BY <2>5, <3>1, <3>2 DEF Declared
  <2> QED BY <2>1, <2>2, <2>3, <2>4, <2>5
<1>3. ASSUME NEW w \in wanted' PROVE Known(w.id)' /\ (w.id[2] > 1 => w.times # 0)
  <2>1. CASE w = stub
    BY <1>1, <2>1 DEF Declared
  <2>2. CASE w \in wanted
    <3>1. w.id \in Ids
      BY <1>1, <2>2 DEF StubSet
    <3> QED BY <1>1, <2>2, <3>1 DEF Chained, WantedInOrder
  <2> QED BY <1>1, <2>1, <2>2
<1>4. WantedInOrder'
  BY <1>2, <1>3 DEF WantedInOrder
<1>5. ASSUME NEW x \in stubs' PROVE x \in stubs \/ x = stub
  BY DEF Declared, Entered, Put
<1>6. ASSUME NEW x \in stubs', NEW y \in stubs', x.id = y.id PROVE x = y
  <2>1. CASE mode = "embedded"
    BY <1>6, <2>1 DEF Declared, Entered, Put, IdsOf, Chained, StoredInOrder
  <2>2. CASE mode # "embedded"
    BY <1>6, <2>2 DEF Declared, Entered, Chained, StoredInOrder
  <2> QED BY <2>1, <2>2
<1>7. ASSUME NEW x \in stubs'
      PROVE  /\ Known(x.id)'
             /\ \A w \in wanted' : Kin(x, w) => x.id \in IdsOf(wanted') /\ x.session = w.session
  <2>1. stub \in wanted' /\ IdsOf(wanted) \subseteq IdsOf(wanted')
    BY <1>1 DEF IdsOf
  <2>2. CASE x = stub
    BY <1>1, <1>2, <2>1, <2>2 DEF IdsOf
  <2>3. CASE x \in stubs
    <3>1. x.id \in Ids /\ Known(x.id)'
      BY <1>1, <2>3 DEF StubSet, Chained, StoredInOrder
    <3>2. ASSUME NEW w \in wanted', Kin(x, w)
          PROVE  x.id \in IdsOf(wanted') /\ x.session = w.session
      <4>1. CASE w = stub
        <5>1. Kin(x, stub)
          BY <3>2, <4>1
        <5>2. x.session = stub.session /\ \E u \in wanted : Kin(x, u)
          BY <2>3, <5>1 DEF Declared
        <5> QED BY <2>1, <2>3, <4>1, <5>2 DEF Chained, StoredInOrder
      <4>2. CASE w \in wanted
        BY <2>1, <2>3, <3>2, <4>2 DEF Chained, StoredInOrder
      <4> QED BY <1>1, <4>1, <4>2
    <3> QED BY <3>1, <3>2
  <2> QED BY <1>5, <2>2, <2>3
<1>8. StoredInOrder'
  BY <1>6, <1>7 DEF StoredInOrder
<1>9. Awaited' \subseteq wanted'
  <2>1. Awaited' \subseteq {x \in Awaited : x.id # stub.id} \cup {stub}
    <3>1. CASE mode = "embedded"
      <4>1. Awaited = {}
        BY <3>1, EmbeddedWaitsForNothing
      <4> QED BY <3>1, <4>1 DEF Declared, Entered
    <3>2. CASE mode # "embedded"
      BY <3>2 DEF Declared, Entered
    <3> QED BY <3>1, <3>2
  <2> QED BY <1>1, <2>1 DEF Chained
<1>10. /\ chain'.links > 0 /\ chain'.first \in wanted' /\ ~Due("purge", op')
       /\ chain'.links > 1 => chain'.first.times # 0
  BY DEF Declared
<1>11. chain'.links # 0
  BY <1>10
<1> QED BY <1>4, <1>8, <1>9, <1>10, <1>11 DEF Chained

\* The builders keep to the order of the links, whatever the step.
LEMMA ChainedKept ==
  ASSUME SdkTyped, Queued, Chained, TestNext \/ UNCHANGED sdkVars
  PROVE  Chained'
<1>1. SdkTyped' /\ Queued'
  BY StepKinds
<1>2. ASSUME Quiet PROVE Chained'
  <2>1. \A id : Known(id) <=> Known(id)'
    BY <1>2 DEF Quiet, Known, Spent
  <2>2. wanted' = wanted /\ stubs' \subseteq stubs /\ Awaited' \subseteq Awaited
    BY <1>2 DEF Quiet
  <2>3. WantedInOrder'
    BY <2>1, <2>2 DEF Chained, WantedInOrder
  <2>4. StoredInOrder'
    BY <2>1, <2>2 DEF Chained, StoredInOrder
  <2> QED BY <1>2, <2>2, <2>3, <2>4 DEF Quiet, Chained
<1>3. ASSUME NEW stub \in StubSet, Declared(stub) PROVE Chained'
  BY <1>1, <1>3, DeclaredChained
<1>4. ASSUME NEW outcome \in Outcomes, Send(outcome) PROVE Chained'
  <2>1. /\ UNCHANGED <<mode, expectations, chain, wanted>> /\ Spent
        /\ \A x : Due(x, op') => Due(x, op)
    BY <1>4, SendTyped
  <2>2. PICK ss : /\ ss \subseteq Awaited
                  /\ stubs' = IF outcome = "refused" THEN stubs ELSE Put(ss)
                  /\ Awaited' \subseteq Awaited
    BY <1>4, SendTyped
  <2>3. \A id : Known(id) <=> Known(id)'
    BY <2>1 DEF Known, Spent
  <2>4. WantedInOrder'
    BY <2>1, <2>3 DEF Chained, WantedInOrder
  <2>5. StoredInOrder'
    <3>1. CASE outcome = "refused"
      BY <2>1, <2>2, <2>3, <3>1 DEF Chained, StoredInOrder
    <3>2. CASE outcome # "refused"
      BY <2>1, <2>2, <2>3, <3>2, PutInOrder DEF Chained
    <3> QED BY <3>1, <3>2
  <2> QED BY <2>1, <2>2, <2>4, <2>5 DEF Chained
<1>5. ASSUME NEW outcome \in Outcomes, DeleteOwned(outcome) PROVE Chained'
  <2>1. /\ wanted' = {} /\ chain' = NoChain /\ expectations' = expectations /\ ~Sending(op)
        /\ Head(op) = "delete" /\ op # <<>> /\ Due("delete", op) /\ Spent /\ Awaited' = Awaited
        /\ \A x : x # "delete" => (Due(x, op) <=> Due(x, op'))
        /\ \/ outcome = "refused" /\ stubs' = stubs
           \/ outcome # "refused" /\ Delete(stubIDs)
    BY <1>5, DeleteTyped
  <2>2. chain'.links = 0 /\ ~(chain'.links > 0) /\ ~(chain'.links > 1)
    BY <2>1 DEF NoChain
  <2>3. \A id : Known(id) => Known(id)'
    BY <2>1, <2>2 DEF Known, Spent
  <2>4. stubs' \subseteq stubs
    BY <2>1 DEF Delete
  <2>5. ~Due("flush", op)
    <3>1. Planned(op) /\ Len(op) \in Nat
      BY LenProperties DEF SdkTyped, Planned
    <3>2. op[1] = "delete" /\ Len(op) >= 1
      BY <2>1, <3>1, HeadIsDue
    <3>3. Len(op) = 1 \/ (1 + 1 = Len(op) /\ op[1 + 1] \in {"purge", "end"})
      <4>1. 1 \in 1..Len(op)
        BY <3>1, <3>2
      <4> QED BY <3>1, <3>2, <4>1 DEF Planned
    <3>4. ASSUME NEW i \in 1..Len(op) PROVE op[i] # "flush"
      <4>1. 1 + 1 = 2
        OBVIOUS
      <4>2. Len(op) = 1 \/ (Len(op) = 2 /\ op[2] \in {"purge", "end"})
        BY <3>3, <4>1
      <4>3. i = 1 \/ (i = 2 /\ op[2] \in {"purge", "end"})
        <5>1. CASE Len(op) = 1
          BY <5>1
        <5>2. CASE Len(op) = 2 /\ op[2] \in {"purge", "end"}
          BY <5>2
        <5> QED BY <4>2, <5>1, <5>2
      <4> QED BY <3>2, <4>3
    <3> QED BY <3>4 DEF Due
  <2>6. Awaited' = {}
    <3>1. batch = <<>> /\ unsent = {} /\ ToSet(<<>>) = {}
      BY <2>1, Listed DEF Queued
    <3>2. pending = <<>>
      BY <2>1, <2>5 DEF Queued
    <3> QED BY <2>1, <3>1, <3>2 DEF Awaited
  <2>7. WantedInOrder' /\ StoredInOrder'
    BY <2>1, <2>3, <2>4 DEF Chained, WantedInOrder, StoredInOrder, SdkTyped, StubSet
  <2> QED BY <2>1, <2>2, <2>6, <2>7 DEF Chained
<1>6. ASSUME Reset PROVE Chained'
  <2>1. /\ expectations' = {} /\ wanted' = {} /\ chain' = NoChain /\ Awaited' = {}
        /\ Spent
        /\ stubs' \subseteq stubs
    BY <1>6, ResetTyped
  <2>2. chain'.links = 0 /\ ~(chain'.links > 0) /\ ~(chain'.links > 1)
    BY <2>1 DEF NoChain
  <2>3. \A id : Known(id) => Known(id)'
    BY <2>1, <2>2 DEF Known, Spent
  <2>4. WantedInOrder' /\ StoredInOrder'
    BY <2>1, <2>3 DEF Chained, WantedInOrder, StoredInOrder
  <2> QED BY <2>1, <2>2, <2>4 DEF Chained
<1>7. ASSUME Shut PROVE Chained'
  <2>1. /\ mode = "embedded" /\ wanted' = {} /\ chain' = NoChain
        /\ \A x : Due(x, op) <=> x = "shut" \/ Due(x, op')
        /\ UNCHANGED <<expectations, stubs, pending, batch, unsent, used>>
    BY <1>7, ShutTyped
  <2>2. chain'.links = 0 /\ ~(chain'.links > 0) /\ ~(chain'.links > 1)
    BY <2>1 DEF NoChain
  <2>3. \A id : Known(id) => Known(id)'
    BY <2>1, <2>2 DEF Known
  <2>4. Awaited' = {}
    BY <2>1, EmbeddedWaitsForNothing DEF Awaited
  <2>5. WantedInOrder' /\ StoredInOrder'
    BY <2>1, <2>3 DEF Chained, WantedInOrder, StoredInOrder
  <2>6. Due("purge", op') => expectations' = {}
    BY <2>1 DEF Chained
  <2> QED BY <2>1, <2>2, <2>4, <2>5, <2>6 DEF Chained
<1> QED BY <1>2, <1>3, <1>4, <1>5, <1>6, <1>7, StepKinds

\* While the TTL runs: what the test wants is stored or on its way unless an
\* error is kept, and no stub of a builder is stored before those of its chain.
Accounted ==
  Live => /\ ~opErr => wanted \subseteq stubs \cup Awaited
          /\ \A v, w \in wanted : Below(w, v) /\ v.id \in IdsOf(stubs) => w \in stubs

\* A declared stub is on its way to the server or there.
LEMMA DeclaredAccounted ==
  ASSUME SdkTyped, Queued, Chained, Accounted, Queued', NEW stub, Declared(stub),
         mode' = mode, opErr' = opErr, timer' = timer
  PROVE  Accounted'
<1>1. stub \in StubSet /\ wanted' = {w \in wanted : w.id # stub.id} \cup {stub}
  BY DEF Declared
<1> SUFFICES ASSUME Live
    PROVE  /\ ~opErr => wanted' \subseteq stubs' \cup Awaited'
           /\ \A v, w \in wanted' : Below(w, v) /\ v.id \in IdsOf(stubs') => w \in stubs'
  BY DEF Accounted, Live
<1>2. CASE mode = "embedded"
  <2>1. Awaited = {} /\ ~opErr /\ wanted \subseteq stubs /\ stubs' = Put({stub})
    BY <1>2, EmbeddedWaitsForNothing DEF Queued, Accounted, Declared, Entered
  <2>2. wanted' \subseteq stubs'
    BY <1>1, <2>1 DEF Put, IdsOf
  <2> QED BY <2>2
<1>3. CASE mode # "embedded"
  <2>1. stubs' = stubs /\ (~opErr => Awaited' = {x \in Awaited : x.id # stub.id} \cup {stub})
    BY <1>3 DEF Declared, Entered
  <2>2. ASSUME ~opErr PROVE wanted' \subseteq stubs' \cup Awaited'
    BY <1>1, <2>1, <2>2 DEF Accounted
  <2>3. ASSUME NEW v \in wanted', NEW w \in wanted', Below(w, v), v.id \in IdsOf(stubs)
        PROVE  w \in stubs
    <3>1. CASE v = stub
      <4>1. PICK x \in stubs : x.id = stub.id
        BY <2>3, <3>1 DEF IdsOf
      <4>2. Known(stub.id)
        BY <4>1 DEF Chained, StoredInOrder
      <4>3. stub.id[2] = 1
        BY <4>2 DEF Declared
      <4>4. w \in wanted'
        BY <2>3
      <4>5. w.id \in Ids
        BY <1>1, <4>4 DEF SdkTyped, StubSet
      <4>6. w.id[2] \in Nat /\ w.id[2] >= 1
        BY <4>5, SdkAssumption DEF Ids
      <4> QED BY <2>3, <3>1, <4>3, <4>6 DEF Below
    <3>2. CASE v # stub
      <4>1. v \in wanted
        BY <1>1, <3>2
      <4>2. CASE w = stub
        <5>1. Kin(v, stub) /\ Below(stub, v)
          BY <2>3, <4>2 DEF Below, Kin
        <5>2. stub \in wanted
          BY <4>1, <5>1 DEF Declared
        <5> QED BY <2>3, <4>1, <4>2, <5>2 DEF Accounted
      <4>3. CASE w # stub
        BY <1>1, <2>3, <4>1, <4>3 DEF Accounted
      <4> QED BY <4>2, <4>3
    <3> QED BY <3>1, <3>2
  <2> QED BY <2>1, <2>2, <2>3
<1> QED BY <1>2, <1>3

\* No step loses a stub that the test has not deleted.
LEMMA AccountedKept ==
  ASSUME SdkTyped, Queued, Chained, Accounted, TestNext \/ UNCHANGED sdkVars
  PROVE  Accounted'
<1>1. SdkTyped' /\ Queued'
  BY StepKinds
<1>2. ASSUME Quiet PROVE Accounted'
  BY <1>2 DEF Quiet, Accounted
<1>3. ASSUME DeclareStep, NEW stub \in StubSet, Declared(stub) PROVE Accounted'
  <2>1. mode' = mode /\ opErr' = opErr /\ timer' = timer
    BY <1>3 DEF DeclareStep, Expect, NextWillReturn, RegisterLink, SendMessage, ownVars,
                timerVars
  <2> QED BY <1>1, <1>3, <2>1, DeclaredAccounted
<1>4. ASSUME NEW outcome \in Outcomes, Send(outcome) PROVE Accounted'
  <2>1. /\ wanted' = wanted /\ Sending(op) /\ opErr' = (opErr \/ outcome # "ok")
    BY <1>4, SendTyped
  <2>2. timer' = timer
    BY <1>4 DEF Send, timerVars
  <2>3. PICK s \in Sessions :
          LET part == {b \in Awaited : b.session = s}
          IN  /\ stubs' = IF outcome = "refused" THEN stubs ELSE Put(part)
              /\ outcome = "ok" => Awaited' = Awaited \ part
    BY <1>4, SendTyped
  <2> DEFINE part == {b \in Awaited : b.session = s}
  <2> SUFFICES ASSUME Live
      PROVE  /\ ~opErr' => wanted \subseteq stubs' \cup Awaited'
             /\ \A v, w \in wanted : Below(w, v) /\ v.id \in IdsOf(stubs') => w \in stubs'
    BY <2>1, <2>2 DEF Accounted, Live
  <2>4. ~opErr /\ wanted \subseteq stubs \cup Awaited /\ part \subseteq wanted
    BY <2>1 DEF Queued, Accounted, Chained
  <2>5. \A w \in wanted : w \in stubs \/ w \in part => w \in Put(part)
    <3>1. \A w \in wanted : w.id \in IdsOf(part) => w \in part
      BY <2>4 DEF Chained, WantedInOrder, IdsOf
    <3> QED BY <3>1 DEF Put
  <2>6. ASSUME ~opErr' PROVE wanted \subseteq stubs' \cup Awaited'
    <3>1. outcome = "ok" /\ stubs' = Put(part) /\ Awaited' = Awaited \ part
      BY <2>1, <2>3, <2>6
    <3> HIDE DEF part
    <3> QED BY <2>4, <2>5, <3>1
  <2>7. ASSUME NEW v \in wanted, NEW w \in wanted, Below(w, v), v.id \in IdsOf(stubs')
        PROVE  w \in stubs'
    <3>1. CASE v.id \in IdsOf(stubs)
      <4>1. w \in stubs
        BY <2>7, <3>1 DEF Accounted
      <4> QED BY <2>3, <2>5, <4>1
    <3>2. CASE v.id \notin IdsOf(stubs)
      <4>1. outcome # "refused" /\ stubs' = Put(part)
        BY <2>3, <2>7, <3>2
      <4>2. v \in part
        <5>1. PICK x \in part : x.id = v.id
          BY <2>7, <3>2, <4>1 DEF Put, IdsOf
        <5> QED BY <2>4, <5>1 DEF Chained, WantedInOrder
      <4>3. w.session = v.session
        BY <2>7 DEF Below, Chained, WantedInOrder
      <4>4. w \in stubs \/ w \in part
        BY <2>4, <4>2, <4>3
      <4> QED BY <2>5, <4>1, <4>4
    <3> QED BY <3>1, <3>2
  <2> QED BY <2>6, <2>7
<1>5. ASSUME NEW outcome \in Outcomes, DeleteOwned(outcome) PROVE Accounted'
  <2>1. wanted' = {}
    BY <1>5, DeleteTyped
  <2> QED BY <2>1 DEF Accounted
<1>6. ASSUME Reset PROVE Accounted'
  <2>1. wanted' = {}
    BY <1>6, ResetTyped
  <2> QED BY <2>1 DEF Accounted
<1>7. ASSUME Shut PROVE Accounted'
  <2>1. wanted' = {}
    BY <1>7, ShutTyped
  <2> QED BY <2>1 DEF Accounted
<1> QED BY <1>2, <1>3, <1>4, <1>5, <1>6, <1>7, StepKinds

\* A remote test knows of every stub it left on the server, by its own list, the
\* timer's, that of the commit under way or that of the deletions whose error was
\* dropped, unless an error says so in time.
Owned ==
  /\ mode # "embedded" /\ ~reported /\ (~opErr \/ Due("ended", op))
       => IdsOf(stubs) \subseteq stubIDs \cup expired \cup IdsOf(ToSet(batch)) \cup stranded
  /\ timer # "deleting" => expired = {}
  /\ mode # "embedded" /\ Closing(op) /\ ~Due("delete", op) => stubIDs = {}

\* A step that changes nothing about whose a stub is.
SameOwners ==
  /\ mode' = mode /\ stubIDs' = stubIDs /\ expired' = expired /\ stranded' = stranded
  /\ timer' = "deleting" <=> timer = "deleting"
  /\ (opErr => opErr') /\ (reported => reported')
  /\ Due("ended", op') /\ ~reported' => Due("ended", op) \/ ~opErr
  /\ mode # "embedded" => /\ stubs' = stubs /\ (batch' = batch \/ ~Sending(op))
                          /\ Closing(op') /\ ~Due("delete", op')
                               => Closing(op) /\ ~Due("delete", op)

\* Most steps keep the owners.
LEMMA OwnersSame ==
  ASSUME SdkTyped, Queued, Chained, TestNext \/ UNCHANGED sdkVars
  PROVE  \/ SameOwners \/ Expire
         \/ \E outcome \in Outcomes :
              Send(outcome) \/ DeleteOwned(outcome) \/ DeleteExpired(outcome)
<1>1. ASSUME DeclareStep PROVE SameOwners
  <2>1. PICK stub \in StubSet : Declared(stub)
    BY <1>1, ExpectDeclares, FixDeclares, LinkDeclares, MessageDeclares DEF DeclareStep
  <2>2. /\ mode' = mode /\ opErr' = opErr /\ timer' = timer /\ stubIDs' = stubIDs
        /\ expired' = expired /\ stranded' = stranded /\ reported' = reported
    BY <1>1 DEF DeclareStep, Expect, NextWillReturn, RegisterLink, SendMessage, ownVars,
                timerVars
  <2>3. ~Sending(op)
    <3> DEFINE none == <<>>
               one == <<"link">>
    <3>1. op = none \/ op = one
      BY <1>1 DEF DeclareStep, Expect, NextWillReturn, RegisterLink, SendMessage
    <3>2. ~Sending(none) /\ ~Sending(one)
      BY ShortPlans
    <3> HIDE DEF none, one
    <3> QED BY <3>1, <3>2
  <2> QED BY <2>1, <2>2, <2>3 DEF Declared, Entered, SameOwners, Closing
<1>2. ASSUME NextWillReturn, chain.first.times # 0 PROVE SameOwners
  <2>1. /\ mode' = mode /\ opErr' = opErr /\ timer' = timer /\ stubIDs' = stubIDs
        /\ expired' = expired /\ stranded' = stranded /\ reported' = reported
    BY <1>2 DEF NextWillReturn, ownVars, timerVars
  <2>2. ~Closing(op') /\ UNCHANGED <<stubs, batch>>
    BY <1>2, NextTyped
  <2> QED BY <2>1, <2>2 DEF SameOwners, Closing
<1>3. ASSUME Flush PROVE SameOwners
  <2>1. timer' = timer /\ expired' = expired /\ stranded' = stranded /\ reported' = reported
    BY <1>3 DEF Flush, timerVars
  <2> QED BY <1>3, <2>1, FlushTyped DEF SameOwners, Closing
<1>4. ASSUME Verify \/ Cleanup PROVE SameOwners
  BY <1>4, VerifyTyped DEF SameOwners, ownVars, timerVars, storeVars, commitVars
<1>5. ASSUME NEW outcome \in Outcomes, Check(outcome) PROVE SameOwners
  <2>1. opErr' = (opErr \/ outcome # "ok") /\ (reported => reported')
    BY <1>5 DEF Check
  <2> QED BY <1>5, <2>1, CheckTyped DEF SameOwners, Closing
<1>6. ASSUME NEW outcome \in Outcomes, ReadFails(outcome) PROVE SameOwners
  <2>1. reported'
    BY <1>6 DEF ReadFails
  <2> QED BY <1>6, <2>1, ReadTyped DEF SameOwners
<1>7. ASSUME NEW outcome \in Outcomes, Purge(outcome) PROVE SameOwners
  BY <1>7, PurgeTyped DEF SameOwners, Closing
<1>8. ASSUME StopTimer PROVE SameOwners
  BY <1>8, StopTyped DEF SameOwners, Closing
<1>9. ASSUME End PROVE SameOwners
  <2>1. reported => reported'
    BY <1>9 DEF End
  <2>3. ~reported' => ~opErr
    BY <1>9 DEF End
  <2>2. Closing(op) /\ ~Due("delete", op)
    BY <1>9, EndTyped DEF Closing
  <2> QED BY <1>9, <2>1, <2>2, <2>3, EndTyped DEF SameOwners
<1>10. ASSUME Reset PROVE SameOwners
  BY <1>10, ResetTyped DEF SameOwners, Closing
<1>11. ASSUME NEW c \in Callers, NEW e \in 1..MaxExpectations, NEW s \in {session, Other},
              Call(c, e, s)
       PROVE  SameOwners
  BY <1>11, CallTyped DEF SameOwners
<1>12. ASSUME NEW c \in Callers, Record(c) PROVE SameOwners
  BY <1>12, RecordTyped DEF SameOwners
<1>13. ASSUME UNCHANGED sdkVars PROVE SameOwners
  BY <1>13 DEF SameOwners, sdkVars, commitVars, ownVars, timerVars, storeVars
<1>14. ASSUME Close PROVE SameOwners
  BY <1>14, CloseTyped DEF SameOwners, Closing
<1>15. ASSUME Shut PROVE SameOwners
  <2>1. mode = "embedded"
    BY <1>15, ShutTyped
  <2> QED BY <1>15, <2>1, ShutTyped DEF SameOwners
<1>16. ASSUME Drain PROVE SameOwners
  BY <1>16, DrainTyped DEF SameOwners, Closing
<1>17. ASSUME NEW s \in Sessions, OthersPurge(s) PROVE SameOwners
  BY <1>17, OthersPurgeTyped DEF SameOwners
<1>18. DeclareStep \/ (NextWillReturn /\ chain.first.times # 0) \/ (TestNext /\ ~NextWillReturn)
       \/ UNCHANGED sdkVars
  BY DEF DeclareStep
<1>19. CASE TestNext /\ ~NextWillReturn
  BY <1>1, <1>3, <1>4, <1>5, <1>6, <1>7, <1>8, <1>9, <1>10, <1>11, <1>12, <1>19,
     <1>14, <1>15, <1>16, <1>17 DEF TestNext, DeclareStep
<1> QED BY <1>1, <1>2, <1>13, <1>18, <1>19

\* Nothing is due besides the end.
LEMMA EndedAlone ==
  ASSUME NEW o, Planned(o), Due("ended", o)
  PROVE  o = <<"ended">>
<1>1. o \in Seq(Steps) /\ Len(o) \in Nat
  BY LenProperties DEF Planned
<1>2. PICK i \in 1..Len(o) : o[i] = "ended"
  BY DEF Due
<1>3. i = 1 /\ i = Len(o)
  BY <1>2 DEF Planned
<1> DEFINE one == <<"ended">>
<1>4. one \in Seq(Steps) /\ Len(one) = 1 /\ one[1] = "ended"
  BY DEF Steps
<1> HIDE DEF one
<1>5. o = one
  BY <1>1, <1>2, <1>3, <1>4, SeqEqual
<1> QED BY <1>5 DEF one

\* A stub of a remote test is one whose ID the test or the timer has.
LEMMA OwnedKept ==
  ASSUME SdkTyped, Queued, Chained, Owned, TestNext \/ UNCHANGED sdkVars
  PROVE  Owned'
<1>1. SdkTyped' /\ Queued' /\ ToSet(<<>>) = {} /\ IdsOf({}) = {}
  BY StepKinds, Listed DEF IdsOf
<1>2. ~Sending(op) => IdsOf(ToSet(batch)) = {}
  BY <1>1 DEF Queued
<1>3. ASSUME SameOwners PROVE Owned'
  <2>1. ASSUME mode # "embedded", ~opErr' \/ Due("ended", op'), ~reported'
        PROVE  IdsOf(stubs') \subseteq stubIDs' \cup expired' \cup IdsOf(ToSet(batch'))
                                   \cup stranded'
    <3>1. IdsOf(stubs) \subseteq stubIDs \cup expired \cup IdsOf(ToSet(batch)) \cup stranded
      BY <1>3, <2>1 DEF SameOwners, Owned
    <3>2. IdsOf(ToSet(batch)) \subseteq IdsOf(ToSet(batch'))
      BY <1>2, <1>3, <2>1 DEF SameOwners
    <3> QED BY <1>3, <2>1, <3>1, <3>2 DEF SameOwners
  <2> QED BY <1>3, <2>1 DEF SameOwners, Owned
<1>4. ASSUME Expire PROVE Owned'
  BY <1>4, ExpireTyped DEF Owned
<1>5. ASSUME NEW outcome \in Outcomes, Send(outcome) PROVE Owned'
  <2>1. /\ mode' = mode /\ Sending(op) /\ opErr' = (opErr \/ outcome # "ok")
        /\ (Closing(op) => Closing(op')) /\ (\A x : Due(x, op') => Due(x, op))
        /\ \A x : Due(x, op) /\ x # "send" => Due(x, op')
        /\ \/ op' = op /\ batch' = batch /\ stubIDs' = stubIDs /\ outcome = "ok"
           \/ /\ op' = Tail(op) /\ batch' = <<>>
              /\ stubIDs' = IF outcome = "ok" THEN stubIDs \cup IdsOf(ToSet(batch)) ELSE stubIDs
    BY <1>5, SendTyped
  <2>2. timer' = timer /\ expired' = expired /\ stranded' = stranded /\ reported' = reported
    BY <1>5 DEF Send, timerVars
  <2>3. PICK ss : ss \subseteq ToSet(batch) /\ stubs' = IF outcome = "refused" THEN stubs ELSE Put(ss)
    BY <1>5, SendTyped
  <2>6. ~Due("ended", op')
    <3>1. Planned(op) /\ op # <<>> /\ op[1] = "send" /\ Len(op) \in Nat
      BY <2>1, HeadIsDue, LenProperties DEF SdkTyped, Sending, Planned
    <3>2. ~Due("ended", op)
      BY <3>1 DEF Planned, Due
    <3> QED BY <2>1, <3>2
  <2>4. ASSUME ~opErr' \/ Due("ended", op'), ~reported', mode # "embedded"
        PROVE  IdsOf(stubs') \subseteq stubIDs' \cup expired' \cup IdsOf(ToSet(batch'))
                                   \cup stranded'
    <3>1. outcome = "ok" /\ ~opErr
      BY <2>1, <2>4, <2>6
    <3>2. IdsOf(stubs') \subseteq IdsOf(stubs) \cup IdsOf(ToSet(batch))
      BY <2>3 DEF Put, IdsOf
    <3>3. IdsOf(stubs) \subseteq stubIDs \cup expired \cup IdsOf(ToSet(batch)) \cup stranded
      BY <2>2, <2>4, <3>1 DEF Owned
    <3>4. stubIDs \cup IdsOf(ToSet(batch)) \subseteq stubIDs' \cup IdsOf(ToSet(batch'))
      BY <2>1, <3>1
    <3> QED BY <2>2, <3>2, <3>3, <3>4
  <2>5. ~(mode # "embedded" /\ Closing(op') /\ ~Due("delete", op'))
    <3> SUFFICES ASSUME mode # "embedded", Closing(op') PROVE Due("delete", op')
      OBVIOUS
    <3>1. Planned(op) /\ op # <<>> /\ op[1] = "send" /\ op \in Seq(Steps) /\ Len(op) \in Nat
      BY <2>1, HeadIsDue, LenProperties DEF SdkTyped, Sending, Planned
    <3>2. ~Due("ended", op)
      BY <3>1 DEF Planned, Due
    <3>3. Due("end", op)
      BY <2>1, <3>2 DEF Closing
    <3>4. PICK i \in 1..Len(op) : op[i] = "end"
      BY <3>3 DEF Due
    <3>5. i # 1 /\ op[i - 1] = "delete" /\ i - 1 \in 1..Len(op)
      BY <3>1, <3>4 DEF Planned
    <3>6. Due("delete", op)
      BY <3>5 DEF Due
    <3> QED BY <2>1, <3>6
  <2> QED BY <2>1, <2>2, <2>4, <2>5 DEF Owned
<1>6. ASSUME NEW outcome \in Outcomes, DeleteOwned(outcome) PROVE Owned'
  <2>1. /\ stubIDs' = {} /\ ~Sending(op) /\ batch' = batch
        /\ \/ outcome = "refused" /\ stubs' = stubs
           \/ outcome # "refused" /\ Delete(stubIDs)
        /\ \/ reported' = (reported \/ outcome # "ok") /\ stranded' = stranded
           \/ reported' = reported /\ stranded' = stranded \cup stubIDs
        /\ (Due("ended", op') => Due("ended", op))
        /\ UNCHANGED <<mode, opErr, timer, expired>>
    BY <1>6, DeleteTyped
  <2>2. ASSUME ~opErr' \/ Due("ended", op'), ~reported', mode # "embedded"
        PROVE  IdsOf(stubs') \subseteq expired' \cup stranded'
    <3>1. ~reported /\ IdsOf(stubs) \subseteq stubIDs \cup expired \cup stranded
      <4>1. ~reported
        <5>1. reported' = (reported \/ outcome # "ok") \/ reported' = reported
          BY <2>1
        <5> QED BY <2>2, <5>1
      <4>2. ~opErr \/ Due("ended", op)
        BY <2>1, <2>2
      <4> QED BY <1>2, <2>1, <2>2, <4>1, <4>2 DEF Owned
    <3>2. CASE outcome = "ok"
      <4>1. stubs' = {x \in stubs : x.id \notin stubIDs} /\ stranded \subseteq stranded'
        BY <2>1, <3>2 DEF Delete
      <4> QED BY <2>1, <3>1, <4>1 DEF IdsOf
    <3>3. CASE outcome # "ok"
      <4>1. stranded' = stranded \cup stubIDs /\ stubs' \subseteq stubs
        BY <2>1, <2>2, <3>3 DEF Delete
      <4> QED BY <2>1, <3>1, <4>1 DEF IdsOf
    <3> QED BY <3>2, <3>3
  <2> QED BY <2>1, <2>2 DEF Owned
<1>7. ASSUME NEW outcome \in Outcomes, DeleteExpired(outcome) PROVE Owned'
  <2>1. /\ expired' = {} /\ opErr' = (opErr \/ outcome # "ok")
        /\ stranded' = stranded \cup IF outcome # "ok" /\ op = <<"ended">> THEN expired ELSE {}
        /\ \/ outcome = "refused" /\ stubs' = stubs
           \/ outcome # "refused" /\ Delete(expired)
        /\ UNCHANGED <<mode, stubIDs, op, batch, reported>>
    BY <1>7, DeleteExpiredTyped
  <2>2. ASSUME ~opErr' \/ Due("ended", op'), ~reported', mode # "embedded"
        PROVE  IdsOf(stubs') \subseteq stubIDs' \cup IdsOf(ToSet(batch')) \cup stranded'
    <3>1. IdsOf(stubs) \subseteq stubIDs \cup expired \cup IdsOf(ToSet(batch)) \cup stranded
      BY <2>1, <2>2 DEF Owned
    <3>2. CASE outcome = "ok"
      <4>1. stubs' = {x \in stubs : x.id \notin expired}
        BY <2>1, <3>2 DEF Delete
      <4> QED BY <2>1, <3>1, <4>1 DEF IdsOf
    <3>3. CASE outcome # "ok"
      <4>1. op = <<"ended">>
        <5>1. Due("ended", op)
          BY <2>1, <2>2, <3>3
        <5> QED BY <5>1, EndedAlone DEF SdkTyped
      <4>2. stranded' = stranded \cup expired /\ stubs' \subseteq stubs
        BY <2>1, <3>3, <4>1 DEF Delete
      <4> QED BY <2>1, <3>1, <4>2 DEF IdsOf
    <3> QED BY <3>2, <3>3
  <2>3. mode # "embedded" /\ Closing(op') /\ ~Due("delete", op') => stubIDs' = {}
    BY <2>1 DEF Owned
  <2> QED BY <2>1, <2>2, <2>3 DEF Owned
<1> QED BY <1>3, <1>4, <1>5, <1>6, <1>7, OwnersSame

----------------------------------------------------------------------------
(* The counters: those of the server, the history and what really happened. *)

Waiting(id, s) == {c \in Callers : calls[c] = [id |-> id, session |-> s]}

\* Nothing was counted for a stub before its declaration.
Unused(id) ==
  /\ \A s \in Sessions : taken[<<id, s>>] = 0 /\ count[<<id, s>>] = 0 /\ recorded[<<id, s>>] = 0
  /\ \A c \in Callers : calls[c] # Idle => calls[c].id # id

\* The history misses of a stub's calls those that are not finished, and those
\* that another test has purged.
Lags(id, s) ==
  /\ recorded[<<id, s>>] + Cardinality(Waiting(id, s)) <= taken[<<id, s>>]
  /\ used.purges = 0 => taken[<<id, s>>] = recorded[<<id, s>>] + Cardinality(Waiting(id, s))

\* The server counts every call of a stub the test wants, until the TTL is over,
\* and the history shows the calls of an expectation.
Counted ==
  /\ Live => \A w \in wanted, s \in Sessions : taken[<<w.id, s>>] = count[<<w.id, s>>]
  /\ \A id \in Ids : ~Known(id) => Unused(id)
  /\ \A e \in expectations, s \in Sessions : Lags(e.id, s)

\* Nobody waits for a stub nothing was counted for.
LEMMA UnusedCounts ==
  ASSUME SdkTyped, NEW id \in Ids, Unused(id), NEW s \in Sessions
  PROVE  Lags(id, s)
<1>1. ASSUME NEW c \in Callers PROVE calls[c] # [id |-> id, session |-> s]
  <2>1. CASE calls[c] = Idle
    <3>1. id # <<0, 0>>
      BY SdkAssumption DEF Ids
    <3> QED BY <2>1, <3>1 DEF Idle
  <2>2. CASE calls[c] # Idle
    <3>1. calls[c].id # id
      BY <2>2 DEF Unused
    <3> QED BY <3>1
  <2> QED BY <2>1, <2>2
<1>2. Waiting(id, s) = {}
  BY <1>1 DEF Waiting
<1> QED BY <1>2, FS_EmptySet DEF Unused, Lags

\* The callers of one match can be counted.
LEMMA WaitingFinite ==
  ASSUME NEW id, NEW s
  PROVE  IsFiniteSet(Waiting(id, s)) /\ Cardinality(Waiting(id, s)) \in Nat
<1>1. Waiting(id, s) \subseteq Callers
  BY DEF Waiting
<1>2. IsFiniteSet(Waiting(id, s))
  BY <1>1, SdkAssumption, FS_Subset
<1> QED BY <1>2, FS_CardinalityType

\* A step that counts nothing.
LEMMA CountersStill ==
  ASSUME SdkTyped, SdkTyped', Counted, UNCHANGED <<count, taken, recorded, calls>>,
         Live' => Live, used'.purges >= used.purges,
         \A id \in Ids : Known(id) => Known(id)',
         \A w \in wanted' : w.id \in IdsOf(wanted) \/ ~Known(w.id),
         \A e \in expectations' : e \in expectations \/ ~Known(e.id)
  PROVE  Counted'
<1>1. wanted' \subseteq StubSet /\ expectations' \subseteq [id : Ids, times : Nat, late : BOOLEAN]
  BY DEF SdkTyped
<1>2. \A id : Unused(id) <=> Unused(id)'
  BY DEF Unused
<1>3. \A id, s : Waiting(id, s)' = Waiting(id, s)
  BY DEF Waiting
<1>4. ASSUME Live', NEW w \in wanted', NEW s \in Sessions
      PROVE  taken'[<<w.id, s>>] = count'[<<w.id, s>>]
  <2>1. w.id \in Ids
    BY <1>1, <1>4 DEF StubSet
  <2>2. CASE w.id \in IdsOf(wanted)
    BY <1>4, <2>2 DEF Counted, IdsOf
  <2>3. CASE ~Known(w.id)
    BY <2>1, <2>3 DEF Counted, Unused
  <2> QED BY <2>2, <2>3
<1>5. ASSUME NEW e \in expectations', NEW s \in Sessions
      PROVE  Lags(e.id, s)'
  <2>1. e.id \in Ids
    BY <1>1
  <2>2. Lags(e.id, s)
    <3>1. CASE e \in expectations
      BY <3>1 DEF Counted
    <3>2. CASE ~Known(e.id)
      BY <2>1, <3>2, UnusedCounts DEF Counted
    <3> QED BY <1>5, <3>1, <3>2
  <2>3. used'.purges = 0 => used.purges = 0
    <3>1. used \in UsedSet /\ used' \in UsedSet
      BY DEF SdkTyped
    <3>2. used.purges \in Nat /\ used'.purges \in Nat
      BY <3>1 DEF UsedSet
    <3> QED BY <3>2
  <2>4. Waiting(e.id, s)' = Waiting(e.id, s)
    BY <1>3
  <2> QED BY <2>2, <2>3, <2>4 DEF Lags
<1>6. \A id \in Ids : ~Known(id)' => Unused(id)'
  BY <1>2 DEF Counted
<1> QED BY <1>4, <1>5, <1>6 DEF Counted

\* A call is counted at once, by the server and in truth.
LEMMA CallCounted ==
  ASSUME SdkTyped, Queued, Chained, Counted, NEW c \in Callers, NEW e \in 1..MaxExpectations,
         NEW s \in {session, Other}, Call(c, e, s)
  PROVE  Counted'
<1>0. PICK best \in FreeFor(e, s) : Takes(best, c, e, s)
  BY CallTyped
<1>1. /\ best \in StubSet /\ <<best.id, s>> \in Ids \X Sessions
      /\ count' = [count EXCEPT ![<<best.id, s>>] = @ + 1]
      /\ taken' = [taken EXCEPT ![<<best.id, s>>] = @ + 1]
      /\ calls' = [calls EXCEPT ![c] = [id |-> best.id, session |-> s]]
  BY <1>0 DEF Takes
<1>2. /\ s \in Sessions /\ calls[c] = Idle /\ Spent
      /\ UNCHANGED <<expectations, chain, wanted, timer, recorded>>
      /\ used'.purges = 0 => used.purges = 0
  <2>1. SdkTyped'
    BY CallTyped
  <2>2. used.purges \in Nat /\ used'.purges \in Nat
    BY <2>1 DEF SdkTyped, UsedSet
  <2> QED BY <2>2, CallTyped DEF Spent
<1> DEFINE i == <<best.id, s>>
<1>3. /\ count \in [Ids \X Sessions -> Nat] /\ taken \in [Ids \X Sessions -> Nat]
      /\ recorded \in [Ids \X Sessions -> Nat] /\ calls \in [Callers -> Matches \cup {Idle}]
      /\ best.id \in Ids /\ wanted \subseteq StubSet
      /\ expectations \subseteq [id : Ids, times : Nat, late : BOOLEAN]
  BY <1>1 DEF SdkTyped, StubSet
<1>4. \A j \in Ids \X Sessions : /\ taken'[j] = IF j = i THEN taken[j] + 1 ELSE taken[j]
                                 /\ count'[j] = IF j = i THEN count[j] + 1 ELSE count[j]
  BY <1>1, <1>3
<1>5. \A d \in Callers : calls'[d] = IF d = c THEN [id |-> best.id, session |-> s] ELSE calls[d]
  BY <1>1, <1>3
<1>6. Known(best.id) /\ \A id : Known(id) <=> Known(id)'
  <2>1. Known(best.id)
    BY DEF FreeFor, Chained, StoredInOrder
  <2> QED BY <1>2, <2>1 DEF Known, Spent
<1>7. ASSUME Live', NEW w \in wanted', NEW t \in Sessions
      PROVE  taken'[<<w.id, t>>] = count'[<<w.id, t>>]
  <2>1. <<w.id, t>> \in Ids \X Sessions /\ taken[<<w.id, t>>] = count[<<w.id, t>>]
    BY <1>2, <1>3, <1>7 DEF Live, Counted, StubSet
  <2> QED BY <1>4, <2>1
<1>8. ASSUME NEW id \in Ids, ~Known(id)' PROVE Unused(id)'
  <2>1. Unused(id) /\ id # best.id
    BY <1>6, <1>8 DEF Counted
  <2>2. \A t \in Sessions : <<id, t>> # i /\ <<id, t>> \in Ids \X Sessions
    BY <2>1
  <2>3. \A d \in Callers : calls'[d] # Idle => calls'[d].id # id
    BY <1>5, <2>1 DEF Unused
  <2> QED BY <1>2, <1>4, <2>1, <2>2, <2>3 DEF Unused
<1>9. ASSUME NEW x \in expectations', NEW t \in Sessions
      PROVE  Lags(x.id, t)'
  <2> DEFINE j == <<x.id, t>>
             old == Waiting(x.id, t)
             new == {d \in Callers : calls'[d] = [id |-> x.id, session |-> t]}
  <2>1. /\ x \in expectations /\ x.id \in Ids /\ j \in Ids \X Sessions
        /\ recorded[j] + Cardinality(old) <= taken[j]
        /\ used.purges = 0 => taken[j] = recorded[j] + Cardinality(old)
    BY <1>2, <1>3 DEF Counted, Lags
  <2>2. calls[c] # [id |-> x.id, session |-> t]
    <3>1. x.id # <<0, 0>>
      BY <2>1, SdkAssumption DEF Ids
    <3> QED BY <1>2, <3>1 DEF Idle
  <2>3. CASE j = i
    <3>1. new = old \cup {c} /\ c \notin old
      BY <1>5, <2>2, <2>3 DEF Waiting
    <3>2. Cardinality(new) = Cardinality(old) + 1
      BY <3>1, WaitingFinite, FS_AddElement
    <3>3. /\ recorded[j] \in Nat /\ Cardinality(old) \in Nat /\ recorded' = recorded
          /\ taken[j] \in Nat
      BY <1>2, <1>3, <2>1, WaitingFinite
    <3>4. taken'[j] = taken[j] + 1
      BY <1>4, <2>1, <2>3
    <3>5. Waiting(x.id, t)' = new
      BY DEF Waiting
    <3> HIDE DEF j, old, new
    <3>6. /\ recorded'[j] + Cardinality(new) <= taken'[j]
          /\ used'.purges = 0 => taken'[j] = recorded'[j] + Cardinality(new)
      BY <1>2, <2>1, <3>2, <3>3, <3>4
    <3> QED BY <3>5, <3>6 DEF j, Lags
  <2>4. CASE j # i
    <3>1. new = old
      <4>1. ASSUME NEW d \in Callers
            PROVE  calls'[d] = [id |-> x.id, session |-> t]
                     <=> calls[d] = [id |-> x.id, session |-> t]
        <5>1. [id |-> best.id, session |-> s] # [id |-> x.id, session |-> t]
          BY <2>4
        <5> QED BY <1>5, <2>2, <5>1
      <4> QED BY <4>1 DEF Waiting
    <3>2. taken'[j] = taken[j] /\ recorded' = recorded
      BY <1>2, <1>4, <2>1, <2>4
    <3>3. Waiting(x.id, t)' = new
      BY DEF Waiting
    <3> HIDE DEF j, old, new
    <3>4. /\ recorded'[j] + Cardinality(new) <= taken'[j]
          /\ used'.purges = 0 => taken'[j] = recorded'[j] + Cardinality(new)
      BY <1>2, <2>1, <3>1, <3>2
    <3> QED BY <3>3, <3>4 DEF j, Lags
  <2> QED BY <2>3, <2>4
<1> QED BY <1>7, <1>8, <1>9 DEF Counted

\* A finished call enters the history.
LEMMA RecordCounted ==
  ASSUME SdkTyped, Queued, Counted, NEW c \in Callers, Record(c)
  PROVE  Counted'
<1> DEFINE i == <<calls[c].id, calls[c].session>>
<1>1. /\ calls[c] \in Matches /\ i \in Ids \X Sessions
      /\ recorded' = [recorded EXCEPT ![i] = @ + 1]
      /\ calls' = [calls EXCEPT ![c] = Idle] /\ calls[c] # Idle
      /\ UNCHANGED <<expectations, chain, wanted, timer, count, taken, used>>
  BY RecordTyped DEF Record
<1>2. /\ recorded \in [Ids \X Sessions -> Nat] /\ calls \in [Callers -> Matches \cup {Idle}]
      /\ expectations \subseteq [id : Ids, times : Nat, late : BOOLEAN]
  BY DEF SdkTyped
<1>3. \A j \in Ids \X Sessions : recorded'[j] = IF j = i THEN recorded[j] + 1 ELSE recorded[j]
  BY <1>1, <1>2
<1>4. \A d \in Callers : calls'[d] = IF d = c THEN Idle ELSE calls[d]
  BY <1>1, <1>2
<1>5. \A id : Known(id) <=> Known(id)'
  BY <1>1 DEF Known
<1>6. \A w \in wanted', t \in Sessions : Live' => taken'[<<w.id, t>>] = count'[<<w.id, t>>]
  BY <1>1 DEF Live, Counted
<1>7. ASSUME NEW id \in Ids, ~Known(id)' PROVE Unused(id)'
  <2>1. Unused(id) /\ id # calls[c].id
    BY <1>1, <1>5, <1>7 DEF Counted, Unused
  <2>2. \A t \in Sessions : <<id, t>> # i /\ <<id, t>> \in Ids \X Sessions
    BY <2>1
  <2>3. \A d \in Callers : calls'[d] # Idle => calls'[d].id # id
    BY <1>4, <2>1 DEF Unused
  <2> QED BY <1>1, <1>3, <2>1, <2>2, <2>3 DEF Unused
<1>8. ASSUME NEW x \in expectations', NEW t \in Sessions
      PROVE  Lags(x.id, t)'
  <2> DEFINE j == <<x.id, t>>
             old == Waiting(x.id, t)
             new == {d \in Callers : calls'[d] = [id |-> x.id, session |-> t]}
  <2>1. /\ x \in expectations /\ x.id \in Ids /\ j \in Ids \X Sessions
        /\ recorded[j] + Cardinality(old) <= taken[j] /\ taken' = taken
        /\ used.purges = 0 => taken[j] = recorded[j] + Cardinality(old)
        /\ used' = used
    BY <1>1, <1>2 DEF Counted, Lags
  <2>2. Idle # [id |-> x.id, session |-> t]
    <3>1. x.id # <<0, 0>>
      BY <2>1, SdkAssumption DEF Ids
    <3> QED BY <3>1 DEF Idle
  <2>3. Waiting(x.id, t)' = new
    BY DEF Waiting
  <2>4. CASE j = i
    <3>1. calls[c] = [id |-> x.id, session |-> t]
      BY <1>1, <2>4 DEF Matches
    <3>2. new = old \ {c} /\ c \in old
      BY <1>4, <2>2, <3>1 DEF Waiting
    <3>3. Cardinality(new) = Cardinality(old) - 1
      BY <3>2, WaitingFinite, FS_RemoveElement
    <3>4. recorded[j] \in Nat /\ Cardinality(old) \in Nat /\ recorded'[j] = recorded[j] + 1
      BY <1>2, <1>3, <2>1, <2>4, WaitingFinite
    <3> HIDE DEF j, old, new
    <3>5. recorded'[j] + Cardinality(new) = recorded[j] + Cardinality(old)
      BY <3>3, <3>4
    <3>6. /\ recorded'[j] + Cardinality(new) <= taken'[j]
          /\ used'.purges = 0 => taken'[j] = recorded'[j] + Cardinality(new)
      BY <2>1, <3>5
    <3> QED BY <2>3, <3>6 DEF j, Lags
  <2>5. CASE j # i
    <3>1. calls[c] # [id |-> x.id, session |-> t]
      BY <2>5
    <3>2. new = old
      BY <1>4, <2>2, <3>1 DEF Waiting
    <3>3. recorded'[j] = recorded[j]
      BY <1>3, <2>1, <2>5
    <3> HIDE DEF j, old, new
    <3>4. /\ recorded'[j] + Cardinality(new) <= taken'[j]
          /\ used'.purges = 0 => taken'[j] = recorded'[j] + Cardinality(new)
      BY <2>1, <3>2, <3>3
    <3> QED BY <2>3, <3>4 DEF j, Lags
  <2> QED BY <2>4, <2>5
<1> QED BY <1>6, <1>7, <1>8 DEF Counted

\* The counts of the server are the matches, and the records lag by the callers that wait.
LEMMA CountedKept ==
  ASSUME SdkTyped, Queued, Chained, Counted, TestNext \/ UNCHANGED sdkVars
  PROVE  Counted'
<1>1. SdkTyped' /\ Queued'
  BY StepKinds
<1>2. used.purges \in Nat /\ used'.purges \in Nat
  BY <1>1 DEF SdkTyped, UsedSet
<1>3. /\ wanted \subseteq StubSet /\ stubs \subseteq StubSet
      /\ expectations \subseteq [id : Ids, times : Nat, late : BOOLEAN]
      /\ \A w \in wanted : w.id \in IdsOf(wanted)
  BY DEF SdkTyped, IdsOf
<1>4. ASSUME UNCHANGED <<count, taken, recorded, calls>>, Quiet PROVE Counted'
  <2>1. \A id \in Ids : Known(id) => Known(id)'
    BY <1>4 DEF Quiet, Known, Spent
  <2>2. Live' => Live
    BY <1>4 DEF Quiet
  <2>3. wanted' = wanted /\ expectations' = expectations /\ used'.purges >= used.purges
    BY <1>4 DEF Quiet, Spent
  <2> QED BY <1>1, <1>3, <1>4, <2>1, <2>2, <2>3, CountersStill
<1>5. ASSUME DeclareStep, NEW stub \in StubSet, Declared(stub) PROVE Counted'
  <2>1. UNCHANGED <<count, taken, recorded, calls, timer>>
    BY <1>5 DEF DeclareStep, Expect, NextWillReturn, RegisterLink, SendMessage, callVars,
                timerVars
  <2>2. \A id \in Ids : Known(id) => Known(id)'
    BY <1>5 DEF Declared
  <2>3. \A w \in wanted' : w.id \in IdsOf(wanted) \/ ~Known(w.id)
    BY <1>3, <1>5 DEF Declared
  <2>4. \A e \in expectations' : e \in expectations \/ ~Known(e.id)
    BY <1>5 DEF Declared, Track
  <2>5. Live' => Live
    BY <2>1 DEF Live
  <2>6. used'.purges >= used.purges
    <3>1. used \in UsedSet
      BY DEF SdkTyped
    <3>2. CASE \E n \in 0..MaxTimes, s \in {Global, Other} : Expect(n, s)
      <4>1. used' = [used EXCEPT !.expectations = used.expectations + 1, !.stubs = @ + 1]
        BY <3>2 DEF Expect
      <4> QED BY <3>1, <4>1 DEF UsedSet
    <3>3. CASE NextWillReturn \/ RegisterLink \/ SendMessage
      BY <3>1, <3>3, NextTyped, LinkTyped, MessageTyped DEF Spent, UsedSet
    <3> QED BY <1>5, <3>2, <3>3 DEF DeclareStep
  <2> QED BY <1>1, <2>1, <2>2, <2>3, <2>4, <2>5, <2>6, CountersStill
<1>6. ASSUME NEW outcome \in Outcomes, Send(outcome) PROVE Counted'
  <2>1. UNCHANGED <<count, taken, recorded, calls, timer>>
    BY <1>6 DEF Send, callVars, timerVars
  <2>2. UNCHANGED <<expectations, chain, wanted>> /\ Spent
    BY <1>6, SendTyped
  <2>3. \A id \in Ids : Known(id) => Known(id)'
    BY <2>2 DEF Known, Spent
  <2>4. Live' => Live
    BY <2>1 DEF Live
  <2>5. used'.purges >= used.purges
    BY <2>2 DEF Spent
  <2> QED BY <1>1, <1>3, <2>1, <2>2, <2>3, <2>4, <2>5, CountersStill
<1>7. ASSUME NEW outcome \in Outcomes, DeleteOwned(outcome) PROVE Counted'
  <2>1. /\ UNCHANGED <<expectations, taken, recorded, calls>> /\ wanted' = {}
        /\ chain' = NoChain /\ Spent
        /\ \/ outcome = "refused" /\ UNCHANGED <<stubs, count>>
           \/ outcome # "refused" /\ Delete(stubIDs)
    BY <1>7, DeleteTyped
  <2>2. \A j \in Ids \X Sessions : count'[j] = 0 \/ count'[j] = count[j]
    BY <2>1, Deleted
  <2>3. \A id \in Ids : ~Known(id)' => Unused(id)'
    <3>1. \A id : Known(id) => Known(id)'
      BY <2>1 DEF Known, NoChain, Spent
    <3>2. ASSUME NEW id \in Ids, Unused(id) PROVE Unused(id)'
      BY <2>1, <2>2, <3>2 DEF Unused
    <3> QED BY <3>1, <3>2 DEF Counted
  <2>4. \A id, s : Waiting(id, s)' = Waiting(id, s)
    BY <2>1 DEF Waiting
  <2>5. \A id, s : Lags(id, s) => Lags(id, s)'
    BY <1>2, <2>1, <2>4 DEF Lags, Spent
  <2> QED BY <2>1, <2>3, <2>5 DEF Counted
<1>8. ASSUME NEW outcome \in Outcomes, DeleteExpired(outcome) PROVE Counted'
  <2>1. /\ UNCHANGED <<expectations, chain, taken, recorded, calls>> /\ ~Live'
        /\ Spent
        /\ \/ outcome = "refused" /\ UNCHANGED <<stubs, count>>
           \/ outcome # "refused" /\ Delete(expired)
    BY <1>8, DeleteExpiredTyped
  <2>2. \A j \in Ids \X Sessions : count'[j] = 0 \/ count'[j] = count[j]
    BY <2>1, Deleted
  <2>3. \A id \in Ids : ~Known(id)' => Unused(id)'
    <3>1. \A id : Known(id) <=> Known(id)'
      BY <2>1 DEF Known, Spent
    <3>2. ASSUME NEW id \in Ids, Unused(id) PROVE Unused(id)'
      BY <2>1, <2>2, <3>2 DEF Unused
    <3> QED BY <3>1, <3>2 DEF Counted
  <2>4. \A id, s : Waiting(id, s)' = Waiting(id, s)
    BY <2>1 DEF Waiting
  <2>5. \A id, s : Lags(id, s) => Lags(id, s)'
    BY <1>2, <2>1, <2>4 DEF Lags, Spent
  <2> QED BY <2>1, <2>3, <2>5 DEF Counted
<1>9. ASSUME Reset PROVE Counted'
  <2>1. /\ expectations' = {} /\ wanted' = {} /\ chain' = NoChain
        /\ Spent
        /\ count' = Zero \/ count' = count
        /\ UNCHANGED <<recorded, calls, taken>>
    BY <1>9, ResetTyped
  <2>2. \A j \in Ids \X Sessions : count'[j] = 0 \/ count'[j] = count[j]
    BY <2>1 DEF Zero
  <2>3. \A id \in Ids : ~Known(id)' => Unused(id)'
    <3>1. \A id : Known(id) => Known(id)'
      BY <2>1 DEF Known, NoChain, Spent
    <3>2. ASSUME NEW id \in Ids, Unused(id) PROVE Unused(id)'
      BY <2>1, <2>2, <3>2 DEF Unused
    <3> QED BY <3>1, <3>2 DEF Counted
  <2> QED BY <2>1, <2>3 DEF Counted
<1>10. ASSUME NEW outcome \in Outcomes, Purge(outcome) PROVE Counted'
  <2>1. /\ UNCHANGED <<expectations, chain, wanted, timer, count, taken, calls>>
        /\ Spent /\ Due("purge", op)
        /\ \A j \in Ids \X Sessions : recorded'[j] = 0 \/ recorded'[j] = recorded[j]
    BY <1>10, PurgeTyped
  <2>2. expectations' = {}
    BY <2>1 DEF Chained
  <2>3. \A id \in Ids : ~Known(id)' => Unused(id)'
    <3>1. \A id : Known(id) <=> Known(id)'
      BY <2>1 DEF Known, Spent
    <3>2. ASSUME NEW id \in Ids, Unused(id) PROVE Unused(id)'
      BY <2>1, <3>2 DEF Unused
    <3> QED BY <3>1, <3>2 DEF Counted
  <2> QED BY <2>1, <2>2, <2>3 DEF Counted, Live
<1>11. \/ UNCHANGED <<count, taken, recorded, calls>> /\ (QuietStep \/ NextWillReturn)
       \/ DeclareStep \/ Reset \/ Shut \/ \E s \in Sessions : OthersPurge(s)
       \/ \E outcome \in Outcomes :
            Send(outcome) \/ DeleteOwned(outcome) \/ DeleteExpired(outcome) \/ Purge(outcome)
       \/ \E c \in Callers, e \in 1..MaxExpectations, s \in {session, Other} : Call(c, e, s)
       \/ \E c \in Callers : Record(c)
  <2>1. ASSUME Flush \/ Verify \/ Close \/ Cleanup \/ StopTimer \/ Drain \/ End \/ Expire
               \/ NextWillReturn \/ UNCHANGED sdkVars
        PROVE  UNCHANGED <<count, taken, recorded, calls>>
    BY <2>1 DEF Flush, Verify, Close, Cleanup, StopTimer, Drain, End, Expire, NextWillReturn,
                sdkVars, storeVars, callVars
  <2>2. ASSUME NEW outcome \in Outcomes, Check(outcome) \/ ReadFails(outcome)
        PROVE  UNCHANGED <<count, taken, recorded, calls>>
    BY <2>2 DEF Check, ReadFails, storeVars, callVars
  <2> QED BY <2>1, <2>2 DEF TestNext, QuietStep, DeclareStep
<1>12. ASSUME QuietStep PROVE Quiet
  BY <1>12, StepsQuietly
<1>13. ASSUME NextWillReturn, ~DeclareStep, UNCHANGED <<count, taken, recorded, calls>>
       PROVE Counted'
  <2>1. /\ UNCHANGED <<expectations, chain, wanted>> /\ Spent
    BY <1>13, NextTyped DEF DeclareStep
  <2>2. timer' = timer
    BY <1>13 DEF NextWillReturn, timerVars
  <2>3. (\A id \in Ids : Known(id) => Known(id)') /\ used'.purges >= used.purges
    BY <2>1 DEF Known, Spent
  <2>4. Live' => Live
    BY <2>2 DEF Live
  <2> QED BY <1>1, <1>3, <1>13, <2>1, <2>3, <2>4, CountersStill
<1>14. ASSUME DeclareStep PROVE \E stub \in StubSet : Declared(stub)
  BY <1>14, ExpectDeclares, FixDeclares, LinkDeclares, MessageDeclares DEF DeclareStep
<1>15. ASSUME Shut PROVE Counted'
  <2>1. /\ wanted' = {} /\ chain' = NoChain
        /\ UNCHANGED <<expectations, count, recorded, calls, taken, used>>
    BY <1>15, ShutTyped
  <2>2. \A id \in Ids : ~Known(id)' => Unused(id)'
    BY <2>1 DEF Known, NoChain, Unused, Counted
  <2>3. \A id, s : Lags(id, s) => Lags(id, s)'
    BY <2>1 DEF Lags, Waiting
  <2> QED BY <2>1, <2>2, <2>3 DEF Counted
<1>16. ASSUME NEW s \in Sessions, OthersPurge(s) PROVE Counted'
  <2>1. /\ UNCHANGED <<expectations, chain, wanted, timer, count, taken, calls>>
        /\ Spent /\ used'.purges > 0
        /\ \A j \in Ids \X Sessions : recorded'[j] = 0 \/ recorded'[j] = recorded[j]
    BY <1>16, OthersPurgeTyped
  <2>2. \A id \in Ids : ~Known(id)' => Unused(id)'
    <3>1. \A id : Known(id) <=> Known(id)'
      BY <2>1 DEF Known, Spent
    <3>2. ASSUME NEW id \in Ids, Unused(id) PROVE Unused(id)'
      BY <2>1, <3>2 DEF Unused
    <3> QED BY <3>1, <3>2 DEF Counted
  <2>3. ASSUME NEW e \in expectations, NEW t \in Sessions PROVE Lags(e.id, t)'
    <3> DEFINE j == <<e.id, t>>
               w == Waiting(e.id, t)
    <3>1. /\ j \in Ids \X Sessions /\ recorded[j] \in Nat /\ taken[j] \in Nat
          /\ Cardinality(w) \in Nat /\ recorded[j] + Cardinality(w) <= taken[j]
      BY <1>3, WaitingFinite DEF Counted, Lags, SdkTyped
    <3>2. Waiting(e.id, t)' = w /\ taken' = taken /\ used'.purges # 0
      BY <1>2, <2>1 DEF Waiting
    <3>3. recorded'[j] = 0 \/ recorded'[j] = recorded[j]
      BY <2>1, <3>1
    <3> HIDE DEF j, w
    <3>4. recorded'[j] + Cardinality(w) <= taken[j]
      BY <3>1, <3>3
    <3> QED BY <3>2, <3>4 DEF Lags, j
  <2> QED BY <2>1, <2>2, <2>3 DEF Counted, Live
<1> QED BY <1>4, <1>5, <1>6, <1>7, <1>8, <1>9, <1>10, <1>11, <1>12, <1>13, <1>14, <1>15, <1>16,
           CallCounted, RecordCounted

\* Only a call takes a caller from its rest.
LEMMA CallsBegin ==
  ASSUME SdkTyped, Queued, TestNext, NEW c \in Callers, calls'[c] # Idle, calls[c] = Idle
  PROVE  \E e \in 1..MaxExpectations, s \in {session, Other} :
           Call(c, e, s) /\ \E best \in FreeFor(e, s) : /\ Takes(best, c, e, s)
                                                     /\ calls'[c] = [id |-> best.id, session |-> s]
<1>1. \/ UNCHANGED calls
      \/ \E d \in Callers, e \in 1..MaxExpectations, s \in {session, Other} : Call(d, e, s)
      \/ \E d \in Callers : Record(d)
  <2>1. ASSUME Flush \/ Verify \/ Close \/ Cleanup \/ StopTimer \/ Shut \/ Drain \/ End \/ Expire
               \/ NextWillReturn \/ RegisterLink \/ SendMessage \/ Reset
               \/ \E s \in Sessions : OthersPurge(s)
        PROVE  UNCHANGED calls
    BY <2>1 DEF Flush, Verify, Close, Cleanup, StopTimer, Shut, Drain, End, Expire, NextWillReturn,
                RegisterLink, SendMessage, Reset, OthersPurge, callVars
  <2>2. ASSUME NEW outcome \in Outcomes,
               Check(outcome) \/ ReadFails(outcome) \/ Send(outcome) \/ DeleteOwned(outcome)
               \/ DeleteExpired(outcome) \/ Purge(outcome)
        PROVE  UNCHANGED calls
    BY <2>2 DEF Check, ReadFails, Send, DeleteOwned, DeleteExpired, Purge, callVars
  <2>3. ASSUME NEW n \in 0..MaxTimes, NEW s \in {Global, Other}, Expect(n, s)
        PROVE  UNCHANGED calls
    BY <2>3 DEF Expect, callVars
  <2> QED BY <2>1, <2>2, <2>3 DEF TestNext
<1>2. calls \in [Callers -> Matches \cup {Idle}]
  BY DEF SdkTyped
<1>3. \A d \in Callers : ~Record(d)
  <2> SUFFICES ASSUME NEW d \in Callers, Record(d) PROVE FALSE
    OBVIOUS
  <2>1. calls' = [calls EXCEPT ![d] = Idle]
    BY DEF Record
  <2> QED BY <1>2, <2>1
<1>4. PICK d \in Callers, e \in 1..MaxExpectations, s \in {session, Other} : Call(d, e, s)
  BY <1>1, <1>3
<1>5. PICK best \in FreeFor(e, s) : Takes(best, d, e, s)
  BY <1>4, CallTyped
<1>6. calls' = [calls EXCEPT ![d] = [id |-> best.id, session |-> s]]
  BY <1>5 DEF Takes
<1>7. d = c /\ calls'[c] = [id |-> best.id, session |-> s]
  BY <1>2, <1>6
<1> QED BY <1>4, <1>5, <1>7

\* What a call takes of the chain of a builder: the lower links are used up, and
\* if the link above is stored, this one was not.
LEMMA TakesInOrder ==
  ASSUME SdkTyped, Chained, Accounted, Counted, Live, NEW c, NEW e, NEW s \in Sessions,
         NEW best \in FreeFor(e, s), Takes(best, c, e, s), NEW v \in wanted, v.id = best.id
  PROVE  /\ \A w \in wanted : Below(w, v) => taken[<<w.id, s>>] >= w.times
         /\ \A u \in stubs : Below(v, u) => taken[<<v.id, s>>] < v.times
<1>1. /\ best \in stubs /\ best.id[1] = e /\ best.session \in {Global, s}
      /\ best.times = 0 \/ count[<<best.id, s>>] < best.times
  BY DEF FreeFor
<1>2. \A x \in FreeFor(e, s) : best.id[2] <= x.id[2]
  BY DEF Takes
<1>3. /\ wanted \subseteq StubSet /\ stubs \subseteq StubSet
      /\ count \in [Ids \X Sessions -> Nat] /\ taken \in [Ids \X Sessions -> Nat]
      /\ \A w \in wanted : taken[<<w.id, s>>] = count[<<w.id, s>>]
      /\ \A x \in StubSet : x.id[1] \in Nat /\ x.id[2] \in Nat /\ x.times \in Nat
  BY SdkAssumption DEF SdkTyped, Counted, StubSet, Ids
<1>4. best.session = v.session
  <2>1. Kin(best, v)
    BY DEF Kin
  <2> QED BY <1>1, <2>1 DEF Chained, StoredInOrder
<1>5. ASSUME NEW w \in wanted, Below(w, v) PROVE taken[<<w.id, s>>] >= w.times
  <2>1. w \in stubs
    <3>1. v.id \in IdsOf(stubs)
      BY <1>1 DEF IdsOf
    <3> QED BY <1>5, <3>1 DEF Accounted
  <2>2. w.session = best.session /\ w.times # 0
    BY <1>4, <1>5 DEF Below, Chained, WantedInOrder
  <2>3. w.id[1] = e /\ w.id[2] < best.id[2]
    BY <1>1, <1>5 DEF Below, Kin
  <2>4. w \notin FreeFor(e, s)
    BY <1>1, <1>2, <1>3, <2>3
  <2>5. ~(count[<<w.id, s>>] < w.times)
    BY <1>1, <2>1, <2>2, <2>3, <2>4 DEF FreeFor
  <2>6. <<w.id, s>> \in Ids \X Sessions /\ w.times \in Nat
    BY <1>3 DEF StubSet
  <2>7. count[<<w.id, s>>] \in Nat /\ taken[<<w.id, s>>] = count[<<w.id, s>>]
    BY <1>3, <2>6
  <2> QED BY <2>5, <2>6, <2>7
<1>6. ASSUME NEW u \in stubs, Below(v, u) PROVE taken[<<v.id, s>>] < v.times
  <2>1. Kin(u, v)
    BY <1>6 DEF Below, Kin
  <2>2. PICK x \in wanted : x.id = u.id
    BY <2>1 DEF Chained, StoredInOrder, IdsOf
  <2>3. Below(v, x) /\ x.id \in IdsOf(stubs)
    BY <1>6, <2>2 DEF Below, Kin, IdsOf
  <2>4. v \in stubs /\ v.times # 0
    BY <2>3 DEF Accounted, Chained, WantedInOrder
  <2>5. v = best
    BY <1>1, <2>4 DEF Chained, StoredInOrder
  <2> QED BY <1>1, <1>3, <2>4, <2>5
<1> QED BY <1>5, <1>6

----------------------------------------------------------------------------
(* The verdict of the test.                                                *)

\* Calls of a stub in any session.
Met(e) == Total(taken, e.id, Sessions) >= e.times

\* A check that reported nothing has seen the expectations it knew of met, and an
\* error that is kept came from a fault.
Judged ==
  /\ Closing(op) => verified
  /\ opErr => used.faults > 0
  /\ verified /\ ~Due("check", op) /\ ~reported => \A e \in expectations : e.late \/ Met(e)

\* A total over all sessions, and how it compares with another.
LEMMA Totals ==
  ASSUME NEW f \in [Ids \X Sessions -> Nat], NEW g \in [Ids \X Sessions -> Nat], NEW id \in Ids,
         NEW ss, ss \subseteq Sessions, \A s \in Sessions : f[<<id, s>>] <= g[<<id, s>>]
  PROVE  /\ Total(f, id, ss) \in Nat /\ Total(g, id, Sessions) \in Nat
         /\ Total(f, id, ss) <= Total(g, id, Sessions)
<1>1. /\ f[<<id, Global>>] \in Nat /\ f[<<id, Own>>] \in Nat /\ f[<<id, Other>>] \in Nat
      /\ g[<<id, Global>>] \in Nat /\ g[<<id, Own>>] \in Nat /\ g[<<id, Other>>] \in Nat
      /\ f[<<id, Global>>] <= g[<<id, Global>>] /\ f[<<id, Own>>] <= g[<<id, Own>>]
      /\ f[<<id, Other>>] <= g[<<id, Other>>]
  BY DEF Sessions
<1> DEFINE a == IF Global \in ss THEN f[<<id, Global>>] ELSE 0
           b == IF Own \in ss THEN f[<<id, Own>>] ELSE 0
           c == IF Other \in ss THEN f[<<id, Other>>] ELSE 0
<1>2. /\ a \in Nat /\ b \in Nat /\ c \in Nat /\ a <= g[<<id, Global>>] /\ b <= g[<<id, Own>>]
      /\ c <= g[<<id, Other>>]
  BY <1>1
<1>3. Total(f, id, ss) = a + b + c
  BY DEF Total
<1>4. Total(g, id, Sessions) = g[<<id, Global>>] + g[<<id, Own>>] + g[<<id, Other>>]
  BY DEF Total, Sessions
<1> HIDE DEF a, b, c
<1> QED BY <1>1, <1>2, <1>3, <1>4

\* The history shows no more than what happened.
LEMMA RecordedBelow ==
  ASSUME SdkTyped, Counted, NEW e \in expectations
  PROVE  e.id \in Ids /\ \A s \in Sessions : recorded[<<e.id, s>>] <= taken[<<e.id, s>>]
<1>1. e.id \in Ids
  BY DEF SdkTyped
<1>2. ASSUME NEW s \in Sessions PROVE recorded[<<e.id, s>>] <= taken[<<e.id, s>>]
  <2>1. /\ recorded[<<e.id, s>>] \in Nat /\ Cardinality(Waiting(e.id, s)) \in Nat
        /\ taken[<<e.id, s>>] \in Nat
        /\ recorded[<<e.id, s>>] + Cardinality(Waiting(e.id, s)) <= taken[<<e.id, s>>]
    BY <1>1, WaitingFinite DEF SdkTyped, Counted, Lags
  <2> QED BY <2>1
<1> QED BY <1>1, <1>2

\* The steps that judge nothing.
NoVerdict ==
  /\ expectations' = expectations /\ verified' = verified
  /\ \A i \in Ids \X Sessions : taken[i] <= taken'[i]
  /\ (Due("check", op) => Due("check", op')) /\ (reported => reported')
  /\ Closing(op') => Closing(op)
  /\ used'.faults >= used.faults /\ (opErr' => opErr \/ used'.faults > 0)

\* A step that judges nothing leaves the verdict as true as it was,
LEMMA NoVerdictJudged ==
  ASSUME SdkTyped, SdkTyped', Judged, NoVerdict
  PROVE  Judged'
<1>1. \A e \in expectations : Met(e) => Met(e)'
  <2> TAKE e \in expectations
  <2>1. /\ e.id \in Ids /\ e.times \in Nat /\ taken \in [Ids \X Sessions -> Nat]
        /\ taken' \in [Ids \X Sessions -> Nat]
    BY DEF SdkTyped
  <2>2. /\ Total(taken, e.id, Sessions) \in Nat /\ Total(taken', e.id, Sessions) \in Nat
        /\ Total(taken, e.id, Sessions) <= Total(taken', e.id, Sessions)
    <3>1. \A s \in Sessions : taken[<<e.id, s>>] <= taken'[<<e.id, s>>]
      BY <2>1 DEF NoVerdict
    <3> QED BY <2>1, <3>1, Totals
  <2>3. Met(e)' <=> Total(taken', e.id, Sessions) >= e.times
    BY DEF Met, Total
  <2> QED BY <2>1, <2>2, <2>3 DEF Met
<1>2. used.faults \in Nat /\ used'.faults \in Nat
  BY DEF SdkTyped, UsedSet
<1> QED BY <1>1, <1>2 DEF NoVerdict, Judged

\* What is not a declaration, a verification, its check or a reset is plain.
LEMMA PlainSteps ==
  ASSUME SdkTyped, Queued, TestNext \/ UNCHANGED sdkVars
  PROVE  \/ NoVerdict \/ RegisterLink \/ Verify \/ Cleanup \/ Reset
         \/ \E n \in 0..MaxTimes, s \in {Global, Other} : Expect(n, s)
         \/ \E outcome \in Outcomes : Check(outcome)
<1>1. /\ taken \in [Ids \X Sessions -> Nat] /\ used.faults \in Nat /\ used \in UsedSet
      /\ \A i \in Ids \X Sessions : taken[i] \in Nat /\ taken[i] <= taken[i]
  BY DEF SdkTyped, UsedSet
<1>2. \A x : ~Due(x, <<>>)
  BY ShortPlans
<1>3. ASSUME Flush PROVE NoVerdict
  <2>1. /\ UNCHANGED <<expectations, verified, taken, reported, used, opErr>>
    BY <1>3 DEF Flush, ownVars, callVars
  <2> QED BY <1>1, <1>3, <2>1, FlushTyped DEF NoVerdict, Closing
<1>4. ASSUME NEW outcome \in Outcomes, Send(outcome) PROVE NoVerdict
  <2>1. UNCHANGED <<expectations, verified, taken, reported>> /\ Answered(outcome)
    BY <1>4 DEF Send, testVars, callVars
  <2>2. used'.faults >= used.faults /\ (outcome # "ok" => used'.faults > 0)
    BY <2>1, FaultsCounted
  <2>3. /\ (\A x : Due(x, op') => Due(x, op)) /\ (Due("check", op) => Due("check", op'))
        /\ opErr' = (opErr \/ outcome # "ok")
    BY <1>4, SendTyped
  <2> QED BY <1>1, <2>1, <2>2, <2>3 DEF NoVerdict, Closing
<1>5. ASSUME StopTimer PROVE NoVerdict
  <2>1. UNCHANGED <<expectations, verified, taken, reported, used, opErr>>
    BY <1>5, StopTyped
  <2> QED BY <1>1, <1>5, <2>1, StopTyped DEF NoVerdict, Closing
<1>6. ASSUME End PROVE NoVerdict
  <2>1. UNCHANGED <<expectations, verified, taken, used, opErr>> /\ (reported => reported')
    BY <1>6 DEF End, testVars, callVars, ownVars
  <2> QED BY <1>1, <1>6, <2>1, EndTyped DEF NoVerdict, Closing
<1>7. ASSUME Expire PROVE NoVerdict
  BY <1>1, <1>7, ExpireTyped DEF NoVerdict
<1>8. ASSUME NEW outcome \in Outcomes, DeleteExpired(outcome) PROVE NoVerdict
  <2>1. Answered(outcome)
    BY <1>8 DEF DeleteExpired
  <2>2. used'.faults >= used.faults /\ (outcome # "ok" => used'.faults > 0)
    BY <2>1, FaultsCounted
  <2> QED BY <1>1, <1>8, <2>2, DeleteExpiredTyped DEF NoVerdict
<1>9. ASSUME NEW outcome \in Outcomes, DeleteOwned(outcome) PROVE NoVerdict
  <2>1. Answered(outcome) /\ (reported => reported')
    BY <1>9 DEF DeleteOwned
  <2>2. used'.faults >= used.faults
    BY <2>1, FaultsCounted
  <2> QED BY <1>1, <1>9, <2>1, <2>2, DeleteTyped DEF NoVerdict, Closing
<1>10. ASSUME NEW outcome \in Outcomes, ReadFails(outcome) PROVE NoVerdict
  <2>1. Answered(outcome) /\ reported' /\ outcome # "ok"
    BY <1>10 DEF ReadFails
  <2>2. used'.faults >= used.faults /\ used'.faults > 0
    BY <2>1, FaultsCounted
  <2>3. UNCHANGED <<expectations, verified, op, taken>>
    BY <1>10, ReadTyped DEF callVars
  <2> QED BY <1>1, <2>1, <2>2, <2>3 DEF NoVerdict
<1>11. ASSUME NEW outcome \in Outcomes, Purge(outcome) PROVE NoVerdict
  <2>1. Answered(outcome) /\ op = <<"purge">> /\ (reported => reported')
    BY <1>11 DEF Purge
  <2>2. used'.faults >= used.faults
    BY <2>1, FaultsCounted
  <2>3. ~Due("check", op)
    BY <2>1, ShortPlans
  <2> QED BY <1>1, <1>11, <2>1, <2>2, <2>3, PurgeTyped DEF NoVerdict, Closing
<1>12. ASSUME NEW c \in Callers, Record(c) PROVE NoVerdict
  <2>1. UNCHANGED <<expectations, verified, op, taken, reported, used, opErr>>
    BY <1>12, RecordTyped
  <2> QED BY <1>1, <2>1 DEF NoVerdict
<1>13. ASSUME NEW c \in Callers, NEW e \in 1..MaxExpectations, NEW s \in {session, Other},
              Call(c, e, s)
       PROVE  NoVerdict
  <2>1. PICK best \in FreeFor(e, s) : Takes(best, c, e, s)
    BY <1>13, CallTyped
  <2>2. /\ taken' = [taken EXCEPT ![<<best.id, s>>] = @ + 1]
        /\ <<best.id, s>> \in Ids \X Sessions
    BY <2>1 DEF Takes
  <2>3. \A i \in Ids \X Sessions : taken[i] <= taken'[i]
    BY <1>1, <2>2
  <2>4. used'.faults = used.faults
    <3>1. used' = [used EXCEPT !.calls = @ + 1]
      BY <1>13 DEF Call
    <3> QED BY <3>1 DEF SdkTyped, UsedSet
  <2> QED BY <1>1, <1>13, <2>3, <2>4, CallTyped DEF NoVerdict
<1>14. ASSUME NextWillReturn \/ SendMessage PROVE NoVerdict
  <2>1. /\ op = <<>> /\ ~Closing(op') /\ expectations' = expectations
    BY <1>14, NextTyped, MessageTyped
  <2>2. UNCHANGED <<verified, opErr, taken, reported>>
    BY <1>14 DEF NextWillReturn, SendMessage, ownVars, callVars
  <2>3. used'.faults = used.faults
    <3>1. used' = [used EXCEPT !.stubs = @ + 1] \/ used' = used
      BY <1>14 DEF NextWillReturn, SendMessage
    <3> QED BY <3>1 DEF SdkTyped, UsedSet
  <2> QED BY <1>1, <1>2, <2>1, <2>2, <2>3 DEF NoVerdict
<1>15. ASSUME UNCHANGED sdkVars PROVE NoVerdict
  <2>1. UNCHANGED <<expectations, verified, op, taken, reported, used, opErr>>
    BY <1>15 DEF sdkVars, testVars, ownVars, callVars
  <2> QED BY <1>1, <2>1 DEF NoVerdict
<1>16. ASSUME Close PROVE NoVerdict
  BY <1>1, <1>2, <1>16, CloseTyped DEF NoVerdict, Closing
<1>17. ASSUME Shut PROVE NoVerdict
  BY <1>1, <1>17, ShutTyped DEF NoVerdict, Closing
<1>18. ASSUME Drain PROVE NoVerdict
  BY <1>1, <1>18, DrainTyped DEF NoVerdict, Closing
<1>19. ASSUME NEW s \in Sessions, OthersPurge(s) PROVE NoVerdict
  BY <1>1, <1>19, OthersPurgeTyped DEF NoVerdict
<1> QED BY <1>3, <1>4, <1>5, <1>6, <1>7, <1>8, <1>9, <1>10, <1>11, <1>12, <1>13, <1>14, <1>15,
           <1>16, <1>17, <1>18, <1>19 DEF TestNext

\* and so does every other.
LEMMA JudgedKept ==
  ASSUME SdkTyped, Queued, SdkTyped', Counted, Judged, TestNext \/ UNCHANGED sdkVars
  PROVE  Judged'
<1>1. \A x : ~Due(x, <<>>)
  BY ShortPlans
<1>2. \A e : UNCHANGED taken => (Met(e)' <=> Met(e))
  BY DEF Met, Total
<1>3. ASSUME RegisterLink \/ \E n \in 0..MaxTimes, s \in {Global, Other} : Expect(n, s)
      PROVE  Judged'
  <2>1. ~Closing(op')
    BY <1>3, LinkTyped, ExpectTyped
  <2>2. UNCHANGED <<verified, opErr, taken, reported>>
    BY <1>3 DEF RegisterLink, Expect, ownVars, callVars
  <2>3. used'.faults = used.faults
    <3>1. \/ used' = used
          \/ used' = [used EXCEPT !.expectations = used.expectations + 1, !.stubs = @ + 1]
      BY <1>3 DEF RegisterLink, Expect
    <3> QED BY <3>1 DEF SdkTyped, UsedSet
  <2>4. ~Due("check", op)
    <3>1. op = <<>> \/ op = <<"link">>
      BY <1>3 DEF RegisterLink, Expect
    <3> QED BY <3>1, ShortPlans
  <2>5. verified => \A e \in expectations' : e \in expectations \/ e.late
    <3>1. PICK stub : Track(stub)
      BY <1>3 DEF RegisterLink, Expect
    <3>2. \A e \in expectations' : e \in expectations \/ e.late = verified
      BY <3>1 DEF Track
    <3> QED BY <3>2 DEF SdkTyped
  <2> QED BY <1>2, <2>1, <2>2, <2>3, <2>4, <2>5 DEF Judged
<1>4. ASSUME Verify \/ Cleanup PROVE Judged'
  <2>1. /\ op = <<>> /\ verified' /\ (~verified => Due("check", op'))
        /\ UNCHANGED <<expectations, opErr, taken, reported, used>>
    BY <1>4, VerifyTyped DEF ownVars, callVars
  <2> QED BY <1>1, <1>2, <2>1 DEF Judged
<1>5. ASSUME Reset PROVE Judged'
  <2>1. ~verified' /\ ~Closing(op') /\ opErr' = opErr
    BY <1>5, ResetTyped
  <2>2. used'.faults = used.faults
    <3>1. used' = [used EXCEPT !.resets = @ + 1]
      BY <1>5 DEF Reset
    <3> QED BY <3>1 DEF SdkTyped, UsedSet
  <2> QED BY <2>1, <2>2 DEF Judged
<1>6. ASSUME NEW outcome \in Outcomes, Check(outcome) PROVE Judged'
  <2>1. /\ UNCHANGED <<expectations, verified, taken>>
        /\ \A x : Due(x, op) <=> x = "check" \/ Due(x, op')
    BY <1>6, CheckTyped DEF callVars
  <2>2. /\ Answered(outcome) /\ opErr' = (opErr \/ outcome # "ok")
        /\ reported' = (reported \/ outcome # "ok" \/ \E e \in expectations : Unmet(e))
    BY <1>6 DEF Check
  <2>3. used'.faults >= used.faults /\ (outcome # "ok" => used'.faults > 0)
    BY <2>2, FaultsCounted
  <2>4. used.faults \in Nat /\ used'.faults \in Nat
    BY DEF SdkTyped, UsedSet
  <2>5. ASSUME ~reported', NEW e \in expectations PROVE Met(e)
    <3>1. Total(recorded, e.id, Shown) = e.times
      BY <2>2, <2>5 DEF Unmet
    <3>2. Shown \subseteq Sessions
      BY DEF Shown, Sessions, SdkTyped
    <3>3. e.id \in Ids /\ \A s \in Sessions : recorded[<<e.id, s>>] <= taken[<<e.id, s>>]
      BY RecordedBelow
    <3>4. Total(recorded, e.id, Shown) <= Total(taken, e.id, Sessions)
      BY <3>2, <3>3, Totals DEF SdkTyped
    <3>5. Total(recorded, e.id, Shown) \in Nat /\ Total(taken, e.id, Sessions) \in Nat
      BY <3>2, <3>3, Totals DEF SdkTyped
    <3> QED BY <3>1, <3>4, <3>5 DEF Met
  <2>6. Closing(op') => Closing(op)
    BY <2>1 DEF Closing
  <2>7. opErr' => used'.faults > 0
    <3>1. CASE outcome # "ok"
      BY <2>3, <3>1
    <3>2. CASE outcome = "ok"
      <4>1. opErr' => opErr
        BY <2>2, <3>2
      <4>2. opErr => used.faults > 0
        BY DEF Judged
      <4> QED BY <2>3, <2>4, <4>1, <4>2
    <3> QED BY <3>1, <3>2
  <2>8. Closing(op') => verified'
    BY <2>1, <2>6 DEF Judged
  <2>9. ~reported' => \A e \in expectations' : Met(e)'
    BY <1>2, <2>1, <2>5
  <2> QED BY <2>7, <2>8, <2>9 DEF Judged
<1> QED BY <1>3, <1>4, <1>5, <1>6, PlainSteps, NoVerdictJudged

\* The history shows the finished calls of an expectation, less those that another
\* test has purged.
LEMMA FinishedShown ==
  ASSUME SdkTyped, Counted, NEW e \in expectations
  PROVE  /\ e.times \in Nat /\ Total(recorded, e.id, Shown) \in Nat /\ Finished(e.id) \in Nat
         /\ Total(recorded, e.id, Shown) <= Finished(e.id)
         /\ used.purges = 0 => Total(recorded, e.id, Shown) = Finished(e.id)
<1> DEFINE Of(i) == {c \in Callers : calls[c] = [id |-> i[1], session |-> i[2]]}
           f == [i \in Ids \X Sessions |-> taken[i] - Cardinality(Of(i))]
           R(s) == IF s \in Shown THEN recorded[<<e.id, s>>] ELSE 0
           F(s) == IF s \in Shown THEN f[<<e.id, s>>] ELSE 0
<1>1. e.id \in Ids /\ e.times \in Nat /\ Global \in Sessions /\ Own \in Sessions /\ Other \in Sessions
  BY DEF SdkTyped, Sessions
<1>2. ASSUME NEW s \in Sessions
      PROVE  /\ R(s) \in Nat /\ F(s) \in Nat /\ R(s) <= F(s)
             /\ used.purges = 0 => R(s) = F(s)
  <2> DEFINE j == <<e.id, s>>
             w == Waiting(e.id, s)
  <2>1. /\ j \in Ids \X Sessions /\ recorded[j] \in Nat /\ taken[j] \in Nat
        /\ Cardinality(w) \in Nat /\ recorded[j] + Cardinality(w) <= taken[j]
        /\ used.purges = 0 => taken[j] = recorded[j] + Cardinality(w)
    BY <1>1, WaitingFinite DEF SdkTyped, Counted, Lags
  <2>2. f[j] = taken[j] - Cardinality(w)
    <3>1. Of(j) = w
      BY DEF Waiting
    <3> QED BY <2>1, <3>1
  <2> HIDE DEF j, w, f
  <2>3. f[j] \in Nat /\ recorded[j] <= f[j] /\ (used.purges = 0 => recorded[j] = f[j])
    BY <2>1, <2>2
  <2> QED BY <2>1, <2>3 DEF j
<1>3. /\ Total(recorded, e.id, Shown) = R(Global) + R(Own) + R(Other)
      /\ Finished(e.id) = F(Global) + F(Own) + F(Other)
  BY DEF Total, Finished
<1> HIDE DEF R, F
<1> QED BY <1>1, <1>2, <1>3

\* Who tells the test of an error.
LEMMA Reports ==
  ASSUME SdkTyped, Queued, Judged, TestNext \/ UNCHANGED sdkVars
  PROVE  /\ reported => reported'
         /\ reported' /\ ~reported /\ used'.faults = 0 => \E e \in expectations : Unmet(e)
<1>1. used.faults \in Nat
  BY DEF SdkTyped, UsedSet
<1>2. ASSUME Flush \/ Verify \/ Close \/ Cleanup \/ StopTimer \/ Shut \/ Drain \/ Expire
             \/ NextWillReturn \/ RegisterLink \/ SendMessage \/ Reset \/ UNCHANGED sdkVars
             \/ \E s \in Sessions : OthersPurge(s)
      PROVE  reported' = reported
  BY <1>2 DEF Flush, Verify, Close, Cleanup, StopTimer, Shut, Drain, Expire, NextWillReturn,
              RegisterLink, SendMessage, Reset, OthersPurge, sdkVars
<1>3. ASSUME NEW outcome \in Outcomes, Send(outcome) \/ DeleteExpired(outcome)
      PROVE  reported' = reported
  BY <1>3 DEF Send, DeleteExpired
<1>4. ASSUME NEW n \in 0..MaxTimes, NEW s \in {Global, Other}, Expect(n, s)
      PROVE  reported' = reported
  BY <1>4 DEF Expect
<1>5. ASSUME NEW c \in Callers, NEW e \in 1..MaxExpectations, NEW s \in {session, Other},
             Call(c, e, s)
      PROVE  reported' = reported
  BY <1>5, CallTyped
<1>6. ASSUME NEW c \in Callers, Record(c) PROVE reported' = reported
  BY <1>6, RecordTyped
<1>7. ASSUME NEW outcome \in Outcomes,
             ReadFails(outcome) \/ DeleteOwned(outcome) \/ Purge(outcome)
      PROVE  /\ reported => reported'
             /\ reported' /\ ~reported => used'.faults > 0
  <2>1. Answered(outcome)
    BY <1>7 DEF ReadFails, DeleteOwned, Purge
  <2>2. outcome # "ok" => used'.faults > 0
    BY <2>1, FaultsCounted
  <2>3. \/ reported' /\ outcome # "ok"
        \/ reported' = (reported \/ outcome # "ok")
        \/ reported' = reported
    <3>1. CASE ReadFails(outcome)
      BY <3>1 DEF ReadFails
    <3>2. CASE DeleteOwned(outcome)
      BY <3>2, DeleteTyped
    <3>3. CASE Purge(outcome)
      BY <3>3 DEF Purge
    <3> QED BY <1>7, <3>1, <3>2, <3>3
  <2>4. CASE reported' /\ outcome # "ok"
    BY <2>2, <2>4
  <2>5. CASE reported' = (reported \/ outcome # "ok")
    <3>1. reported => reported'
      BY <2>5
    <3>2. reported' => reported \/ outcome # "ok"
      BY <2>5
    <3> QED BY <2>2, <3>1, <3>2
  <2>6. CASE reported' = reported
    BY <2>6
  <2> QED BY <2>3, <2>4, <2>5, <2>6
<1>8. ASSUME End
      PROVE  /\ reported => reported'
             /\ reported' /\ ~reported => used'.faults > 0
  <2>1. reported' = (reported \/ opErr) /\ used' = used
    BY <1>8 DEF End
  <2>2. opErr => used.faults > 0
    BY DEF Judged
  <2> QED BY <2>1, <2>2
<1>9. ASSUME NEW outcome \in Outcomes, Check(outcome)
      PROVE  /\ reported => reported'
             /\ reported' /\ ~reported => used'.faults > 0 \/ \E e \in expectations : Unmet(e)
  <2>1. Answered(outcome)
    BY <1>9 DEF Check
  <2>2. outcome # "ok" => used'.faults > 0
    BY <2>1, FaultsCounted
  <2>3. reported' = (reported \/ outcome # "ok" \/ \E e \in expectations : Unmet(e))
    BY <1>9 DEF Check
  <2> QED BY <2>2, <2>3
<1>10. used'.faults = 0 => ~(used'.faults > 0)
  OBVIOUS
<1> QED BY <1>2, <1>3, <1>4, <1>5, <1>6, <1>7, <1>8, <1>9, <1>10 DEF TestNext

\* Nothing but a check takes the check from the plan.
LEMMA OnlyChecks ==
  ASSUME SdkTyped, TestNext, op # <<>>, Head(op) = "check", op' = Tail(op)
  PROVE  \E outcome \in Outcomes : Check(outcome)
<1>1. op' # op
  <2> DEFINE t == Tail(op)
  <2>1. Len(op) \in Nat \ {0} /\ Len(t) = Len(op) - 1
    BY HeadTailProperties, LenProperties DEF SdkTyped, Planned
  <2> HIDE DEF t
  <2>2. t # op
    BY <2>1
  <2> QED BY <2>2 DEF t
<1> DEFINE one == <<"link">>
           two == <<"purge">>
           three == <<"end">>
<1>2. Head(one) = "link" /\ Head(two) = "purge" /\ Head(three) = "end"
  OBVIOUS
<1>3. op # one /\ op # two /\ op # three
  <2> HIDE DEF one, two, three
  <2> QED BY <1>2
<1> HIDE DEF one, two, three
<1>4. ~(Flush \/ Verify \/ Reset \/ Close \/ Cleanup \/ StopTimer \/ Shut \/ Drain \/ SendMessage
        \/ NextWillReturn \/ Expire \/ \E s \in Sessions : OthersPurge(s))
  BY <1>1 DEF Flush, Verify, Reset, Close, Cleanup, StopTimer, Shut, Drain, SendMessage,
              NextWillReturn, Expire, OthersPurge
<1>5. ~RegisterLink /\ ~End
  BY <1>3 DEF RegisterLink, End, one, three
<1>6. \A n \in 0..MaxTimes, s \in {Global, Other} : ~Expect(n, s)
  BY DEF Expect
<1>7. \A outcome \in Outcomes :
        ~(Send(outcome) \/ ReadFails(outcome) \/ DeleteOwned(outcome) \/ DeleteExpired(outcome))
  BY <1>1 DEF Send, ReadFails, DeleteOwned, DeleteExpired
<1>8. \A outcome \in Outcomes : ~Purge(outcome)
  BY <1>3 DEF Purge, two
<1>9. \A c \in Callers, e \in 1..MaxExpectations, s \in {session, Other} : ~Call(c, e, s)
  BY <1>1 DEF Call
<1>10. \A c \in Callers : ~Record(c)
  BY <1>1 DEF Record
<1> QED BY <1>4, <1>5, <1>6, <1>7, <1>8, <1>9, <1>10 DEF TestNext

----------------------------------------------------------------------------
(* The theorems.                                                           *)

\* A test begins with nothing declared, stored or due.
LEMMA TestBegins ==
  ASSUME TestInit
  PROVE  SdkTyped /\ Queued /\ Chained /\ Accounted /\ Owned /\ Counted /\ Judged
<1>1. /\ mode \in Modes /\ session \in {Global, Own}
      /\ expectations = {} /\ verified = FALSE /\ pending = <<>> /\ wanted = {}
      /\ stubIDs = {} /\ opErr = FALSE /\ batch = <<>> /\ unsent = {}
      /\ chain = NoChain /\ op = <<>> /\ expired = {}
      /\ timer = IF mode # "embedded" /\ session = Own THEN "armed" ELSE "off"
      /\ stubs = {} /\ count = Zero /\ recorded = Zero /\ taken = Zero
      /\ calls = [c \in Callers |-> Idle] /\ reported = FALSE
      /\ used = [expectations |-> 0, stubs |-> 0, calls |-> 0, faults |-> 0, resets |-> 0,
                 purges |-> 0]
      /\ serving = TRUE /\ stranded = {}
  BY DEF TestInit
<1>2. Planned(op) /\ ~Sending(op) /\ \A x : ~Due(x, op)
  BY <1>1, ShortPlans
<1>3. pending \in Seq(StubSet) /\ batch \in Seq(StubSet) /\ ToSet(pending) = {} /\ ToSet(batch) = {}
  BY <1>1, Listed
<1>4. Zero \in [Ids \X Sessions -> Nat]
  BY DEF Zero
<1>5. /\ used \in UsedSet
      /\ chain \in [number : 0..MaxExpectations, links : 0..MaxLinks,
                    first : StubSet \cup {NoChain.first}]
      /\ chain.links = 0 /\ used.expectations = 0
  <2>1. 0 \in 0..MaxExpectations /\ 0 \in 0..MaxLinks /\ 0 \in Nat
    BY SdkAssumption
  <2> QED BY <1>1, <2>1 DEF NoChain, UsedSet
<1>6. SdkTyped
  <2>1. /\ calls \in [Callers -> Matches \cup {Idle}]
        /\ timer \in {"off", "armed", "deleting", "done"} /\ ~(chain.links > 0)
    BY <1>1, <1>5
  <2>2. /\ verified \in BOOLEAN /\ opErr \in BOOLEAN /\ reported \in BOOLEAN
        /\ expectations \subseteq [id : Ids, times : Nat, late : BOOLEAN]
        /\ wanted \subseteq StubSet /\ stubs \subseteq StubSet
        /\ stubIDs \subseteq Ids /\ expired \subseteq Ids /\ unsent \subseteq Sessions
        /\ serving \in BOOLEAN /\ stranded \subseteq Ids
    BY <1>1
  <2>3. count \in [Ids \X Sessions -> Nat] /\ recorded \in [Ids \X Sessions -> Nat]
        /\ taken \in [Ids \X Sessions -> Nat]
    BY <1>1, <1>4
  <2>4. mode \in Modes /\ session \in {Global, Own}
    BY <1>1
  <2> QED BY <1>2, <1>3, <1>5, <2>1, <2>2, <2>3, <2>4 DEF SdkTyped
<1>7. Queued
  BY <1>1, <1>2 DEF Queued
<1>8. Chained
  BY <1>1, <1>2, <1>3, <1>5 DEF Chained, WantedInOrder, StoredInOrder, Awaited
<1>9. Accounted
  BY <1>1 DEF Accounted
<1>10. Owned
  BY <1>1 DEF Owned, IdsOf
<1>11. Counted
  <2>1. \A id \in Ids : Unused(id)
    BY <1>1 DEF Unused, Zero
  <2> QED BY <1>1, <2>1 DEF Counted
<1>12. Judged
  BY <1>1, <1>2 DEF Judged, Closing
<1> QED BY <1>6, <1>7, <1>8, <1>9, <1>10, <1>11, <1>12

SdkInvariant ==
  SdkTyped /\ Queued /\ Chained /\ Accounted /\ Owned /\ Counted /\ Judged

\* The inductive invariant of the SDK: the plan of the test's goroutine, the order
\* of the builders' stubs, their way to the server, who deletes them, the counters
\* and the errors (upsertStub, commitStubsBatch, deleteOwnedStubs, reportRemoteErr).
THEOREM SdkInvariantHolds == TestSpec => []SdkInvariant
<1>1. TestInit => SdkInvariant
  BY TestBegins DEF SdkInvariant
<1>2. SdkInvariant /\ [TestNext]_sdkVars => SdkInvariant'
  BY StepKinds, ChainedKept, AccountedKept, OwnedKept, CountedKept, JudgedKept
     DEF SdkInvariant
<1> QED BY <1>1, <1>2, PTL DEF TestSpec

\* A declared stub is queued or stored between two operations, unless an error is
\* kept or the TTL is over.  A remote test that has ended without a report leaves on
\* the server only stubs whose deletion the timer has still to do, or failed to do
\* when nobody looked any more, or the test's own Close failed to do
\* (upsertStub, commitStubsBatch, deleteOwnedStubs, remoteMock.Close).
THEOREM StubsStayAccounted == TestSpec => []StubsAccounted
<1>1. SdkInvariant => StubsAccounted
  <2> SUFFICES ASSUME SdkInvariant PROVE StubsAccounted
    OBVIOUS
  <2> USE DEF SdkInvariant
  <2>1. ToSet(<<>>) = {}
    BY Listed
  <2>2. ASSUME op = <<>>, ~opErr, timer \in {"off", "armed"}
        PROVE  wanted \subseteq stubs \cup ToSet(pending)
    <3>1. ~Sending(op) /\ Live
      BY <2>2 DEF Sending, Live
    <3>2. batch = <<>> /\ wanted \subseteq stubs \cup Awaited
      BY <2>2, <3>1 DEF Queued, Accounted
    <3> QED BY <2>1, <3>2 DEF Awaited
  <2>3. ASSUME op = <<"ended">>, mode # "embedded", ~reported
        PROVE  IdsOf(stubs) \subseteq expired \cup stranded
    <3> DEFINE last == <<"ended">>
    <3>1. ~Sending(last) /\ Closing(last) /\ ~Due("delete", last) /\ Due("ended", last)
      BY ShortPlans DEF Closing
    <3>2. op = last
      BY <2>3
    <3> HIDE DEF last
    <3>3. batch = <<>> /\ stubIDs = {}
      BY <2>3, <3>1, <3>2 DEF Queued, Owned
    <3>4. IdsOf(ToSet(batch)) = {}
      BY <2>1, <3>3 DEF IdsOf
    <3> QED BY <2>3, <3>1, <3>2, <3>3, <3>4 DEF Owned
  <2> QED BY <2>2, <2>3 DEF StubsAccounted
<1> QED BY <1>1, SdkInvariantHolds, PTL

\* In every session the stubs of a builder answer in order, each as often as it
\* may, also when links are added between calls (fixFirstUnlimited).
THEOREM ChainsAnswerInOrder == TestSpec => ChainInOrder
<1> DEFINE Often(id, s, l) == \A w \in wanted : w.id = <<id[1], l>> => taken[<<w.id, s>>] >= w.times
           InOrder ==
             \A c \in Callers :
               calls'[c] # Idle /\ calls[c] = Idle /\ calls'[c].id \in IdsOf(wanted)
               /\ timer \in {"off", "armed"}
                 => /\ \A l \in 1..(calls'[c].id[2] - 1) : Often(calls'[c].id, calls'[c].session, l)
                    /\ <<calls'[c].id[1], calls'[c].id[2] + 1>> \in IdsOf(stubs)
                         => ~Often(calls'[c].id, calls'[c].session, calls'[c].id[2])
<1>1. SdkInvariant /\ [TestNext]_sdkVars => [InOrder]_sdkVars
  <2> SUFFICES ASSUME SdkInvariant, TestNext, NEW c \in Callers, calls'[c] # Idle,
                      calls[c] = Idle, calls'[c].id \in IdsOf(wanted), timer \in {"off", "armed"}
      PROVE  /\ \A l \in 1..(calls'[c].id[2] - 1) : Often(calls'[c].id, calls'[c].session, l)
             /\ <<calls'[c].id[1], calls'[c].id[2] + 1>> \in IdsOf(stubs)
                  => ~Often(calls'[c].id, calls'[c].session, calls'[c].id[2])
    OBVIOUS
  <2> USE DEF SdkInvariant
  <2>1. PICK e \in 1..MaxExpectations, s \in {session, Other} :
          Call(c, e, s) /\ \E best \in FreeFor(e, s) : /\ Takes(best, c, e, s)
                                                    /\ calls'[c] = [id |-> best.id, session |-> s]
    BY CallsBegin
  <2>2. PICK best \in FreeFor(e, s) : /\ Takes(best, c, e, s)
                                   /\ calls'[c] = [id |-> best.id, session |-> s]
    BY <2>1
  <2>3. s \in Sessions /\ calls'[c].id = best.id /\ calls'[c].session = s /\ Live
    BY <2>2 DEF SdkTyped, Sessions, Live
  <2>4. PICK v \in wanted : v.id = best.id
    BY <2>3 DEF IdsOf
  <2>5. /\ \A w \in wanted : Below(w, v) => taken[<<w.id, s>>] >= w.times
        /\ \A u \in stubs : Below(v, u) => taken[<<v.id, s>>] < v.times
    BY <2>2, <2>3, <2>4, TakesInOrder
  <2>6. /\ v.id \in Ids /\ v.id[2] \in Nat /\ v.times \in Nat /\ v.id = <<v.id[1], v.id[2]>>
        /\ taken[<<v.id, s>>] \in Nat
    <3>1. v.id \in Ids /\ v.times \in Nat
      BY DEF SdkTyped, StubSet
    <3>2. <<v.id, s>> \in Ids \X Sessions
      BY <2>3, <3>1
    <3>3. v.id[2] \in Nat /\ v.id = <<v.id[1], v.id[2]>>
      BY <3>1, SdkAssumption DEF Ids
    <3>4. taken[<<v.id, s>>] \in Nat
      BY <3>2 DEF SdkTyped
    <3> QED BY <3>1, <3>3, <3>4
  <2>7. ASSUME NEW l \in 1..(v.id[2] - 1) PROVE Often(v.id, s, l)
    <3>1. \A w \in wanted : w.id = <<v.id[1], l>> => Below(w, v)
      BY <2>6, <2>7 DEF Below, Kin
    <3> QED BY <2>5, <3>1
  <2>8. ASSUME <<v.id[1], v.id[2] + 1>> \in IdsOf(stubs) PROVE ~Often(v.id, s, v.id[2])
    <3>1. PICK u \in stubs : u.id = <<v.id[1], v.id[2] + 1>>
      BY <2>8 DEF IdsOf
    <3>2. Below(v, u)
      BY <2>6, <3>1 DEF Below, Kin
    <3> QED BY <2>5, <2>6, <3>2
  <2> QED BY <2>3, <2>4, <2>7, <2>8
<1>2. ChainInOrder <=> [][InOrder]_sdkVars
  BY DEF ChainInOrder
<1> QED BY <1>1, <1>2, SdkInvariantHolds, PTL DEF TestSpec

\* A verification finds an error exactly when a stub with Times was not called that
\* often, by calls that are finished and of the sessions the history shows; the
\* purges of other tests can hide calls, never add one (ExpectationsWereMet).
THEOREM VerdictsAreTrue == TestSpec => VerdictTrue
<1> DEFINE Passed == op # <<>> /\ Head(op) = "check" /\ op' = Tail(op) /\ ~reported'
           Right ==
             /\ Passed => \A e \in expectations :
                            IF used.purges = 0 THEN Finished(e.id) = e.times
                            ELSE Finished(e.id) >= e.times
             /\ reported' /\ ~reported /\ used'.faults = 0 /\ used.purges = 0 =>
                  \E e \in expectations : Finished(e.id) # e.times
             /\ op = <<"end">> /\ op' = <<"ended">> /\ ~reported' =>
                  \A e \in expectations : e.late \/ Total(taken, e.id, Sessions) >= e.times
<1>1. SdkInvariant /\ [TestNext]_sdkVars => [Right]_sdkVars
  <2> SUFFICES ASSUME SdkInvariant, TestNext PROVE Right
    OBVIOUS
  <2> USE DEF SdkInvariant
  <2>1. ASSUME op = <<"end">>, ~reported', NEW e \in expectations
        PROVE  e.late \/ Total(taken, e.id, Sessions) >= e.times
    <3> DEFINE last == <<"end">>
    <3>1. Closing(last) /\ ~Due("check", last)
      BY ShortPlans DEF Closing
    <3>2. op = last /\ ~reported
      BY <2>1, Reports
    <3> HIDE DEF last
    <3> QED BY <3>1, <3>2 DEF Judged, Met
  <2>2. ASSUME reported', ~reported, used'.faults = 0, used.purges = 0
        PROVE  \E e \in expectations : Finished(e.id) # e.times
    <3>1. PICK e \in expectations : Unmet(e)
      BY <2>2, Reports
    <3>2. Total(recorded, e.id, Shown) # e.times
      BY <3>1 DEF Unmet
    <3> QED BY <2>2, <3>1, <3>2, FinishedShown
  <2>3. ASSUME Passed, NEW e \in expectations
        PROVE  IF used.purges = 0 THEN Finished(e.id) = e.times ELSE Finished(e.id) >= e.times
    <3>1. PICK outcome \in Outcomes : Check(outcome)
      BY <2>3, OnlyChecks
    <3>2. Total(recorded, e.id, Shown) = e.times
      BY <2>3, <3>1 DEF Check, Unmet
    <3> QED BY <3>2, FinishedShown
  <2> QED BY <2>1, <2>2, <2>3
<1>2. VerdictTrue <=> [][Right]_sdkVars
  BY DEF VerdictTrue
<1> QED BY <1>1, <1>2, SdkInvariantHolds, PTL DEF TestSpec

=============================================================================
