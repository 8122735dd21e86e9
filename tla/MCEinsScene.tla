---------------------------- MODULE MCEinsScene ----------------------------
(***************************************************************************)
(* Plain machines with one to five images, machines with odd queue         *)
(* families and kinds of memory, and machines that lack a function or the  *)
(* validation layer.                                                       *)
(***************************************************************************)
EXTENDS EinsScene

Family(graphics, present, transfer) ==
  [graphics |-> graphics, present |-> present, transfer |-> transfer]
Common == Family(TRUE, TRUE, TRUE)
SomeMemory == <<{}, {"visible"}, {"visible", "coherent"}>>
Device(discrete, families_, memory_) ==
  [discrete |-> discrete, families |-> families_, memory |-> memory_]
Built(missing, gpus, min, max, more) ==
  [missing |-> missing, validation |-> TRUE, gpus |-> gpus,
   minImages |-> min, maxImages |-> max, more |-> more]
Simple == Built({}, <<Device(FALSE, <<Common>>, SomeMemory)>>, 2, 2, 0)

SomeFamilies ==
  { <<Common>>, <<Common, Family(FALSE, FALSE, TRUE)>>, <<Family(FALSE, FALSE, TRUE), Common>>,
    <<Family(TRUE, FALSE, TRUE), Common>>,
    <<Family(TRUE, FALSE, FALSE), Family(FALSE, TRUE, TRUE)>>,
    <<Family(TRUE, TRUE, FALSE), Family(FALSE, FALSE, TRUE)>>,
    <<Family(TRUE, TRUE, FALSE)>>, <<Family(TRUE, FALSE, FALSE), Family(FALSE, TRUE, FALSE)>> }

SomeMachines ==
  {Built({}, <<Device(FALSE, <<Common>>, <<{"visible"}>>), Device(TRUE, f, SomeMemory)>>, 2, 0, 0) :
     f \in SomeFamilies}
  \cup {[Simple EXCEPT !.missing = {f}] : f \in Functions}
  \cup {[Simple EXCEPT !.more = more] : more \in 0 .. 3}
  \cup {[Simple EXCEPT !.minImages = 1, !.maxImages = 1], [Simple EXCEPT !.validation = FALSE]}
=============================================================================
