----------------------------- MODULE StubTable -----------------------------
(***************************************************************************)
(* What GripMock promises of its stub store: a table from IDs to stubs.    *)
(* PutMany and UpdateMany write a batch at once, the last stub of an ID    *)
(* winning; DeleteByID, DeleteSession and Clear remove exactly what they   *)
(* name.  StubStorage is shown to implement it.                            *)
(***************************************************************************)
EXTENDS FiniteSetsExt

CONSTANTS
  Stubs,     \* the stubs a batch may hold, each with its ID
  Sessions,  \* the sessions DeleteSession may name
  MaxBatch   \* bound: stubs per batch

VARIABLE table

\* The stubs a batch leaves behind: at most one per ID.
PutMany(stubs) ==
  /\ \A a, b \in stubs : a.id = b.id => a = b
  /\ table' = [id \in DOMAIN table \cup {s.id : s \in stubs} |->
                 IF \E s \in stubs : s.id = id THEN CHOOSE s \in stubs : s.id = id
                 ELSE table[id]]

DeleteByID(ids) == table' = Restrict(table, DOMAIN table \ ids)

DeleteSession(session) ==
  table' = RestrictValues(table, LAMBDA s : s.session # session)

Clear == table' = <<>>

Init == table = <<>>

Next ==
  \/ \E n \in 1..MaxBatch : \E stubs \in kSubset(n, Stubs) : PutMany(stubs)
  \/ \E ids \in SUBSET DOMAIN table : DeleteByID(ids)
  \/ \E session \in Sessions : DeleteSession(session)
  \/ Clear

Spec == Init /\ [][Next]_table
=============================================================================
