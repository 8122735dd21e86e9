------------------------------- MODULE MCFile -------------------------------
(***************************************************************************)
(* One file with all calls, or three files that compete for two buffers.   *)
(* With buffers of three bytes a write of one byte is buffered, one of     *)
(* three goes straight to the system, and after another it fills, flushes  *)
(* and refills the buffer.                                                 *)
(***************************************************************************)
EXTENDS File

CONSTANTS f1, f2, f3

OneFile == {f1}
ThreeFiles == {f1, f2, f3}
ThreeBytes == [f \in Files |-> <<-3, -4, -5>>]
Empty == [f \in Files |-> <<>>]
SeekDistances == {-1, 1}
NoDistances == {}
NoSizes == {}

(* last only reports what a call did, no later call depends on it. *)
ButLast == <<os, mine, buffers, written, failures>>
=============================================================================
