---------------------------- MODULE MCStubReload ----------------------------
(***************************************************************************)
(* StubReload on one file whose contents gain, lose and keep stubs with    *)
(* and without a written ID, and one file that is only ever rewritten.     *)
(***************************************************************************)
EXTENDS StubReload

MCContents == [f \in Files |->
  IF f = "f" THEN {<<1, 0>>, <<0>>, <<>>, Unreadable} ELSE {<<0>>}]

MCMaxEdits == [f \in Files |-> IF f = "f" THEN 2 ELSE 1]
=============================================================================
