---------------------------- MODULE MCD3d12Frame ----------------------------
(***************************************************************************)
(* The two buffers of D3d12_t, the passes eins draws and those it also     *)
(* creates, two textures whose rows need padding and a cube.  Units are 64 *)
(* bytes: rows are read at multiples of 256, textures placed at 512.       *)
(***************************************************************************)
EXTENDS D3d12Frame

EinsFrames == {<<"shadow", "final">>, <<"shadow", "final", "cube", "pbr">>}

SomeTextures ==
  {[cube |-> FALSE, pitch |-> 3, rows |-> 2],
   [cube |-> FALSE, pitch |-> 5, rows |-> 3],
   [cube |-> TRUE, pitch |-> 4, rows |-> 2]}
=============================================================================
