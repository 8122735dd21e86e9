---------------------------- MODULE MCHashTable ----------------------------
(***************************************************************************)
(* Hash codes for the runs: with 3, 7, 9, 15 and 21 buckets they collide,  *)
(* wrap round the end of the table, or both.  Keys are interchangeable, so *)
(* one hash function is taken from each class of functions that differ by  *)
(* a permutation of the keys: the nondecreasing one.                       *)
(***************************************************************************)
EXTENDS HashTable

Codes == {0, 6, 13}

MCInit == Init /\ \A k, l \in Keys : k < l => hash[k] <= hash[l]

MCSpec == MCInit /\ [][Next]_vars /\ WF_vars(Step)
=============================================================================
