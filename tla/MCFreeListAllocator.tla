------------------------ MODULE MCFreeListAllocator ------------------------
(***************************************************************************)
(* 19 words from an even address, so that pointers, three words behind the *)
(* start of their block, need a padding of a word or none, for up to three *)
(* blocks at a time.                                                       *)
(***************************************************************************)
EXTENDS FreeListAllocator

ThreeHandles == {-1, -2, -3}
=============================================================================
