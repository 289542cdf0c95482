--------------------------- MODULE MCSearchLocks ---------------------------
(***************************************************************************)
(* SearchLocks with one goroutine that calls everything except the search  *)
(* for a similar stub, next to two with fewer operations; and with that    *)
(* search next to a deletion.                                              *)
(***************************************************************************)
EXTENDS SearchLocks

CONSTANTS g1, g2, g3

AllButSimilar == DOMAIN Program \ {"find_similar"}

MCOperations == [g \in Goroutines |->
  CASE g = g1 -> AllButSimilar
    [] g = g2 -> {"find_indexed", "find_scan", "upsert", "del", "clear"}
    [] g = g3 -> {"find_scan", "used", "del"}]

SimilarOperations == [g \in Goroutines |-> IF g = g1 THEN {"find_similar"} ELSE {"del"}]
=============================================================================
