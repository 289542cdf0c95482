----------------------------- MODULE MCSearch -----------------------------
(***************************************************************************)
(* Search on two clients, one session besides the global one, and stubs    *)
(* that compete for the same query: indexed and not, limited to one match, *)
(* global and of the session, at the full and at the short service name.   *)
(***************************************************************************)
EXTENDS Search, TLC

Stub(id, service, session, priority, times, equals) ==
  [id |-> id, service |-> service, method |-> "M", session |-> session,
   priority |-> priority, times |-> times, equals |-> equals]

KeyA == "k" :> "a"
AnyInput  == <<>>

MCInputs == {KeyA, AnyInput}

MCCatalog == {
  Stub(1, "S", "s1",   0, 1, KeyA),
  Stub(2, "S", Global, 1, 1, AnyInput),
  Stub(2, "S", Global, 0, 2, KeyA),
  Stub(3, "p.S", Global, 0, 0, AnyInput)}

\* strings.LastIndex(".") of the three names.
MCShort == [service \in {"p.S", "S", "T"} |-> IF service = "p.S" THEN "S" ELSE service]

Query(id, service, session, data, strict, internal) ==
  [id |-> id, service |-> service, method |-> "M", session |-> session,
   data |-> data, strict |-> strict, internal |-> internal]

MCQueries == {
  Query(NoId, "p.S", Global, KeyA, FALSE, FALSE),
  Query(NoId, "p.S", "s1",   KeyA, TRUE,  FALSE),
  Query(NoId, "T",   Global, KeyA, FALSE, TRUE),
  Query(1,    "S",   "s1",   AnyInput, FALSE, FALSE)}
=============================================================================
