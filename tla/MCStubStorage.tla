--------------------------- MODULE MCStubStorage ---------------------------
(***************************************************************************)
(* StubStorage on two services ("p.S" and its package-stripped form "S"),  *)
(* two methods, one session besides the global one and a catalog in which  *)
(* updates move a stub to another service, method, session, priority and   *)
(* index key; and inputs of every kind against messages in which fields    *)
(* have either spelling and hold texts, numbers and lists.                 *)
(***************************************************************************)
EXTENDS StubCandidates

MCTruncated == [s \in Services |-> IF s = "p.S" THEN "S" ELSE s]

\* Names in lexical order.  The camelCase of address_1 has no way back.
address1 == 1
address_1 == 2
userId == 3
user_id == 4

MCCamel == [k \in 1..4 |-> CASE k = address_1 -> address1 [] k = user_id -> userId [] OTHER -> k]
MCSnake == [k \in 1..4 |-> IF k = userId THEN user_id ELSE k]

MCText == 7 :> "7"
MCRegex == "^7$" :> {"7"} @@ "^[a7]" :> {"a", "7"} @@ "a" :> {"a"} @@ "b" :> {"b"}
MCLiteral == "^7$" :> "7" @@ "^[a7]" :> NoText @@ "a" :> NoText @@ "b" :> NoText
MCGlobs == "a*" :> {"a"}

A == Str("a")
B == Str("b")

CatchAll == [equals |-> <<>>, contains |-> <<>>, matches |-> <<>>, glob |-> <<>>,
        ignoreArrayOrder |-> FALSE, anyOf |-> {}]
EqualsTo(fields) == [CatchAll EXCEPT !.equals = fields]

Stub(id, service, method, session, priority, input, inputs) ==
  [id |-> id, service |-> service, method |-> method, session |-> session,
   priority |-> priority, input |-> input, inputs |-> inputs]

MCCatalog == {
  Stub(1, "p.S", "M", "",   0, EqualsTo(address_1 :> A), <<>>),
  Stub(1, "S",   "M", "s1", 1, [CatchAll EXCEPT !.anyOf = {[CatchAll EXCEPT !.glob = userId :> Str("a*")]}], <<>>),
  Stub(2, "p.S", "M", "",   1, EqualsTo(userId :> A @@ address1 :> B), <<>>),
  Stub(2, "S",   "M", "",   0, [CatchAll EXCEPT !.contains = user_id :> A], <<>>),
  Stub(3, "p.S", "M", "s1", 0, CatchAll, <<[CatchAll EXCEPT !.contains = user_id :> List(<<A>>)]>>),
  Stub(3, "p.S", "N", "s1", 2, [CatchAll EXCEPT !.matches = user_id :> Str("^7$")], <<>>),
  Stub(0, "p.S", "M", "",   1, [CatchAll EXCEPT !.equals = user_id :> List(<<A, B>>),
                                          !.ignoreArrayOrder = TRUE], <<>>)}

MCQueries == {
  user_id :> A, userId :> A, user_id :> Str("7"), user_id :> Num(7),
  address1 :> A, address_1 :> A, user_id :> A @@ address1 :> B,
  userId :> List(<<B, A>>), user_id :> List(<<A, A>>)}

\* Lists of up to two of these, and of three that are the same in part.
Elements == {A, Num(7), Str("^[a7]"), Obj(user_id :> A), Obj(user_id :> A @@ userId :> B), List(<<A>>)}
MCSamples ==
  {List(q) : q \in UNION {[1..n -> Elements] : n \in 0..2} \cup [1..3 -> {A, Str("^[a7]"), Obj(user_id :> A)}]}

Health(method, status) ==
  Stub(IF method = "M" THEN 90 ELSE 91, "S", method, "", 0, EqualsTo(userId :> Str(status)), <<>>)

MCInternalStubs == {Health(m, v) : m \in {"M", "N"}, v \in {"a", "b"}}

MCInitialInternal == <<Health("M", "a"), Health("N", "a")>>
=============================================================================
