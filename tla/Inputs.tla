------------------------------- MODULE Inputs -------------------------------
(***************************************************************************)
(* The input of a stub as far as the storage looks into it: its values,    *)
(* the spellings of the names of its fields, and the one field under which *)
(* the equals index files the stub (infra/stuber/storage_equals_index.go). *)
(* The text of patterns and of names is abstracted to what they accept and *)
(* to their spellings.                                                     *)
(***************************************************************************)
EXTENDS Integers, FiniteSets, SequencesExt

CONSTANTS
  Camel, Snake,  \* the spellings of a field name; names are numbers in lexical order
  Literal,       \* Literal[p]: the text of a pattern that is one anchored literal, or NoText
  NoText

ASSUME NamesAssumption == DOMAIN Camel = DOMAIN Snake /\ DOMAIN Camel \subseteq Int

----------------------------------------------------------------------------
(* JSON values, tagged by their type.                                      *)

Str(s)  == <<"string", s>>
Num(n)  == <<"number", n>>
Obj(f)  == <<"object", f>>
List(q) == <<"list", q>>

Type(v) == v[1]
Structural(v) == Type(v) \in {"object", "list"}

----------------------------------------------------------------------------
(* The equals index.                                                       *)

\* The block of a stub that the index may file, and whether it holds patterns.
IndexableFields(stub) ==
  LET in == stub.input
  IN  IF stub.inputs # <<>> \/ DOMAIN in.glob # {} \/ in.anyOf # {} THEN [fields |-> <<>>, pattern |-> FALSE]
      ELSE IF DOMAIN in.matches # {}
      THEN [fields  |-> IF DOMAIN in.equals \cup DOMAIN in.contains = {} THEN in.matches ELSE <<>>,
            pattern |-> TRUE]
      ELSE [fields  |-> IF DOMAIN in.equals # {} THEN in.equals ELSE in.contains,
            pattern |-> FALSE]

Indexable(stub) ==
  LET block == IndexableFields(stub)
  IN  /\ DOMAIN block.fields # {}
      /\ \A k \in DOMAIN block.fields :
           /\ Type(block.fields[k]) = "string"
           /\ block.pattern => Literal[block.fields[k][2]] # NoText

\* The field an indexable stub is filed under, the first by name, and its text.
IndexKey(stub) ==
  LET block == IndexableFields(stub)
      key   == Min(DOMAIN block.fields)
      text  == block.fields[key][2]
  IN  <<key, IF block.pattern THEN Literal[text] ELSE text>>

\* The names under which a field of a message is looked up.
KeyVariations(key) == {key, Snake[key], Camel[key]}
=============================================================================
