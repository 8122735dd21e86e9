------------------------------ MODULE HashMap ------------------------------
(***************************************************************************)
(* What Hash_map_t promises its users (string_format, the XML attributes,  *)
(* the ttf tables, the flags of the command line): a map that keeps the    *)
(* last value put under each key, whatever the table does inside.          *)
(***************************************************************************)
CONSTANTS Keys, Values, Missing

VARIABLE dict

Init == dict = [k \in Keys |-> Missing]

Put(k, v) == dict' = [dict EXCEPT ![k] = v]

Next == \E k \in Keys, v \in Values : Put(k, v)

Spec == Init /\ [][Next]_dict
=============================================================================
