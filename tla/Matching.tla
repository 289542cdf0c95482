------------------------------ MODULE Matching ------------------------------
(***************************************************************************)
(* How a stub's input is matched with one message                          *)
(* (infra/stuber/matcher*.go, search_fast_match_helpers.go, infra/deeply). *)
(* Pure operators over JSON values, recursive where values nest.           *)
(***************************************************************************)
EXTENDS Inputs

CONSTANTS
  Regex,         \* Regex[p]: the texts a regular expression matches
  Globs,         \* Globs[p]: the texts a glob matches
  Text,          \* Text[n]: the digits of a number
  Samples        \* values to compare

ASSUME MatchingAssumption ==
  \A p \in DOMAIN Literal : Literal[p] = NoText \/ Regex[p] = {Literal[p]}

----------------------------------------------------------------------------
(* Names.                                                                  *)

\* A name as the stub spells it, in camelCase or in snake_case: the first that
\* the message has.
Spellings(key) == <<key, Camel[key], Snake[key]>>
Found(data, key) == Range(Spellings(key)) \cap DOMAIN data # {}
FindValue(data, key) ==
  data[SelectSeq(Spellings(key), LAMBDA k : k \in DOMAIN data)[1]]

----------------------------------------------------------------------------
(* Comparison that ignores the order of lists (deeply).                    *)

\* What a mode asks of two lengths.
LengthOK(mode, left, right, type) ==
  \/ left = right
  \/ left < right /\ <<mode, type>> \in {<<"contains", "list">>, <<"contains", "object">>, <<"matches", "object">>}

RegexMatch(expect, actual) ==
  /\ Type(expect) = "string"
  /\ Type(actual) \in {"string", "number"}
  /\ (IF Type(actual) = "string" THEN actual[2] ELSE Text[actual[2]]) \in Regex[expect[2]]

\* Fault: an element that was taken can be taken again.
PairedAgain(accepts) == \A i \in DOMAIN accepts : accepts[i] # {}

\* Every expected element takes the first free one of those it accepts.
Paired(accepts) ==
  LET take(taken, accepted) ==
        LET free == accepted \ taken
        IN  IF free = {} THEN taken ELSE taken \cup {Min(free)}
  IN  Cardinality(FoldLeft(take, {}, accepts)) = Len(accepts)

\* EqualsIgnoreArrayOrder, ContainsIgnoreArrayOrder, MatchesIgnoreArrayOrder.
RECURSIVE Deep(_, _, _)
Deep(mode, expect, actual) ==
  \/ /\ Type(expect) = "object" /\ Type(actual) = "object"
     /\ LengthOK(mode, Cardinality(DOMAIN expect[2]), Cardinality(DOMAIN actual[2]), "object")
     /\ \A k \in DOMAIN expect[2] :
          k \in DOMAIN actual[2] /\ Deep(mode, expect[2][k], actual[2][k])
  \/ /\ Type(expect) = "list" /\ Type(actual) = "list"
     /\ LengthOK(mode, Len(expect[2]), Len(actual[2]), "list")
     /\ Paired([i \in DOMAIN expect[2] |->
                  {j \in DOMAIN actual[2] : Deep(mode, expect[2][i], actual[2][j])}])
  \/ mode = "matches" /\ RegexMatch(expect, actual)
  \/ ~Structural(expect) /\ expect = actual

----------------------------------------------------------------------------
(* Matchers.  An input is a record of equals, contains, matches and glob,  *)
(* each a function from names to values, with anyOf, the set of its        *)
(* alternatives.                                                           *)

EqualFields(expected, data, orderIgnore) ==
  \A k \in DOMAIN expected :
    /\ Found(data, k)
    /\ LET e == expected[k]
           a == FindValue(data, k)
       IN  IF orderIgnore /\ Type(e) = "list" /\ Type(a) = "list"
           THEN Deep("equals", e, a) ELSE e = a

ContainsAll(expected, data) == DOMAIN expected = {} \/ Deep("contains", Obj(expected), Obj(data))
MatchesAll(expected, data) == DOMAIN expected = {} \/ Deep("matches", Obj(expected), Obj(data))

RECURSIVE GlobValue(_, _)
GlobValue(pattern, actual) ==
  \/ /\ Type(pattern) = "string" /\ Type(actual) = "string"
     /\ actual[2] \in Globs[pattern[2]]
  \/ /\ Type(pattern) = "object" /\ Type(actual) = "object"
     /\ \A k \in DOMAIN pattern[2] :
          k \in DOMAIN actual[2] /\ GlobValue(pattern[2][k], actual[2][k])

GlobMatch(expected, data) ==
  \A k \in DOMAIN expected : Found(data, k) /\ GlobValue(expected[k], FindValue(data, k))

MatchAll(data, block) ==
  /\ EqualFields(block.equals, data, block.ignoreArrayOrder)
  /\ ContainsAll(block.contains, data)
  /\ MatchesAll(block.matches, data)
  /\ GlobMatch(block.glob, data)

MatchInput(data, input) ==
  MatchAll(data, input) /\ (input.anyOf = {} \/ \E alt \in input.anyOf : MatchAll(data, alt))

HasFields(block) ==
  DOMAIN block.equals \cup DOMAIN block.contains \cup DOMAIN block.matches \cup DOMAIN block.glob # {}

InputHasConditions(input) == HasFields(input) \/ \E alt \in input.anyOf : HasFields(alt)

FastMatchInput(data, input) ==
  IF DOMAIN data = {} THEN ~InputHasConditions(input) ELSE MatchInput(data, input)

\* One message against a stub: inputs, if it has them, stand for input; one
\* message is never a match for several.
FastMatchBody(data, stub) ==
  IF stub.inputs = <<>> THEN FastMatchInput(data, stub.input)
                        ELSE Len(stub.inputs) = 1 /\ FastMatchInput(data, stub.inputs[1])

----------------------------------------------------------------------------
(* Reference for the comparison of lists.                                  *)

\* Reference: some one-to-one assignment of the expected elements, not the
\* first that is free.
RECURSIVE Assignable(_, _, _)
Assignable(mode, expect, actual) ==
  IF Type(expect) = "list" /\ Type(actual) = "list"
  THEN /\ LengthOK(mode, Len(expect[2]), Len(actual[2]), "list")
       /\ \E f \in [DOMAIN expect[2] -> DOMAIN actual[2]] :
            /\ IsInjective(f)
            /\ \A i \in DOMAIN f : Assignable(mode, expect[2][i], actual[2][f[i]])
  ELSE Deep(mode, expect, actual)

PairsOff(expect, actual) ==
  /\ \A mode \in {"equals", "contains", "matches"} :
       Deep(mode, expect, actual) => Assignable(mode, expect, actual)
  /\ Assignable("equals", expect, actual) => Deep("equals", expect, actual)
=============================================================================
