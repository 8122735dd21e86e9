---------------------------- MODULE GpuInterface ----------------------------
(***************************************************************************)
(* What the two backends of Gpu_t (core/gpu) share: the records an         *)
(* application describes resources with, and what both make of them.       *)
(* A resource is its name; a backend is a record with the fields that      *)
(* matter of its class.  A call the device does not allow leaves its       *)
(* reason in the field broken.                                             *)
(***************************************************************************)
EXTENDS Integers, Sequences, SequencesExt, FiniteSetsExt

AlignedTo(x, n) == ((x + n - 1) \div n) * n

NoResource == "none"

Breaks(g, why) == [g EXCEPT !.broken = why]

(* The element r of a function is set, or added.                           *)
Put(f, r, x) == (r :> x) @@ f

(* A set of resources has one kind; when it is given counts of several the *)
(* last one wins.                                                          *)
KindOf(ci) == IF ci.images > 0 THEN "image" ELSE IF ci.samplers > 0 THEN "sampler" ELSE "uniform"
CountOf(ci) == IF ci.images > 0 THEN ci.images ELSE IF ci.samplers > 0 THEN ci.samplers ELSE ci.uniforms

FormatSize(format) ==
  CASE format \in {"r32g32b32a32_float", "r32g32b32a32_uint"} -> 16
    [] format = "r32g32b32_float" -> 12
    [] format = "r32g32_float" -> 8

(* An input element is one attribute, or one for each row of a matrix.     *)
Rows(slot) ==
  FlattenSeq([e \in DOMAIN slot.elements |->
    [k \in 1 .. slot.elements[e].rows |-> slot.elements[e].format]])

SizeOfRows(rows) == SumFunction([k \in DOMAIN rows |-> FormatSize(rows[k])])

(* Mutant: a matrix takes one location. *)
AttributesOneForMatrix(slots) ==
  FlattenSeq([s \in DOMAIN slots |->
    LET rows == [e \in DOMAIN slots[s].elements |-> slots[s].elements[e].format]
        before == SumFunction([t \in 1 .. s - 1 |-> Len(Rows(slots[t]))])
    IN  [k \in DOMAIN rows |->
          [slot |-> slots[s].slot, location |-> before + k - 1, format |-> rows[k],
           offset |-> SizeOfRows(SubSeq(rows, 1, k - 1))]]])

(* The attributes of a pipeline: each has the next location, and follows   *)
(* in its slot the one before.                                             *)
Attributes(slots) ==
  FlattenSeq([s \in DOMAIN slots |->
    LET rows == Rows(slots[s])
        before == SumFunction([t \in 1 .. s - 1 |-> Len(Rows(slots[t]))])
    IN  [k \in DOMAIN rows |->
          [slot |-> slots[s].slot, location |-> before + k - 1, format |-> rows[k],
           offset |-> SizeOfRows(SubSeq(rows, 1, k - 1))]]])

(* The sub-buffer a call asks for lies at the next offset that is aligned. *)
SubBufferAt(g, buffer, alignment) == AlignedTo(g.offsets[buffer], alignment)

Allocated(g, name, buffer, at, size) ==
  [g EXCEPT !.subBuffers = Put(@, name, [buffer |-> buffer, offset |-> at, size |-> size]),
            !.offsets[buffer] = at + size]

=============================================================================
