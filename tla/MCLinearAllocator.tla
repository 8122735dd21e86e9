------------------------- MODULE MCLinearAllocator -------------------------
(* LinearAllocator on a first page of 9 units and pages of at least 8 from  *)
(* malloc: a third block, or a big one, needs a page of its own.           *)
EXTENDS LinearAllocator, TLC

(* Callers do not depend on which handle holds which block. *)
HandlesAreAlike == Permutations(Handles)
=============================================================================
