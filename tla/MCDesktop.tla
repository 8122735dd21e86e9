----------------------------- MODULE MCDesktop ------------------------------
(***************************************************************************)
(* An instance of EinsMain for TLC: flags of which one has two names       *)
(* and one takes a name of another, all lists of up to three arguments,    *)
(* and a user who does up to four things.                                  *)
(***************************************************************************)
EXTENDS EinsMain

Flag(short, long, type) == [short |-> short, long |-> long, type |-> type, wellFormed |-> TRUE]
MCRegistrations ==
  {Flag("s", "long", "string"), Flag("b", "bool", "bool"), Flag("b", None, "string"),
   Flag(None, "long", "bool"), Flag("z", "zoom", "bool"), [Flag("t", "x", "bool") EXCEPT !.wellFormed = FALSE]}

Argument(kind, name) == [kind |-> kind, name |-> name]
MCArguments ==
  {Argument("long", "gpu"), Argument("plain", "dx12"), Argument("long", "x"), Argument("bad", "-"),
   Argument("short", "s"), Argument("short", "z"), Argument("short", "b"), Argument("long", "long")}

Gpu(value) == <<Argument("long", "gpu"), Argument("plain", value)>>
MCEinsArguments ==
  {<<>>, <<Argument("short", "z")>>, <<Argument("plain", "dx12")>>, Gpu("dx12"), Gpu("dx12") \o <<Argument("bad", "-")>>}
=============================================================================
