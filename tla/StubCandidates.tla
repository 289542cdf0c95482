--------------------------- MODULE StubCandidates ---------------------------
(***************************************************************************)
(* The equals index of the storage against the matchers it spares work:    *)
(* which of the stubs that a message matches the index may leave out.      *)
(***************************************************************************)
EXTENDS StubStorage, Matching

CONSTANT Queries  \* messages of calls

MatchesAt(st, positions, data) ==
  {s \in Stored(st) : Position(s) \in positions /\ FastMatchBody(data, s)}

\* A field is looked up under the spellings of the query's names, and by text:
\* a name whose other spelling does not lead back to it, or the digits of a
\* number that a pattern accepts, is not found.
Overlooked(stub, data) ==
  LET key == IndexKey(stub)[1]
  IN  /\ Indexable(stub)
      /\ \/ \A q \in Range(Spellings(key)) \cap DOMAIN data : key \notin KeyVariations(q)
         \/ IndexableFields(stub).pattern /\ Type(data[key]) = "number"

\* "Probing the query's own fields therefore cannot miss a stub that would have
\* matched" (storage_equals_index.go:15): whatever was put, moved and deleted,
\* every stub that the matcher accepts at a position the index answers for is
\* a candidate, but for the two kinds that Overlooked names.
IndexCompleteAtUsable ==
  \A service \in Services, method \in Methods, data \in Queries :
    LET indexes == PosByPN(external, service, method).indexes
        usable  == {indexes[i] : i \in UsableIndexes(external, indexes)}
    IN  \A s \in MatchesAt(external, usable, data) :
          s \in IndexedCandidates(external, indexes, data) \/ Overlooked(s, data)

\* Lists compared without order are compared as bags: no element is matched by
\* two expected ones, and where elements must be equal the first free one is as
\* good as any (deeply/common.go:50).  Only the values decide it, so it is asked
\* once, of the storage that holds nothing yet.
ListsPairOff ==
  external = EmptyStore => \A expect, actual \in Samples : PairsOff(expect, actual)
=============================================================================
