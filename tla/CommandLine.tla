---------------------------- MODULE CommandLine ----------------------------
(***************************************************************************)
(* Command_line_t (core/command_line.cpp): flags are registered, each by a *)
(* long name, by one letter, or by both, and then the arguments are read   *)
(* one after the other.                                                    *)
(*                                                                         *)
(* An argument is [kind, name]: a "short" (-a) or "long" (--name) flag, a  *)
(* "plain" one that does not start with a dash or is nothing but a dash,   *)
(* or a "bad" one (two dashes with less than two characters behind them,   *)
(* one dash with more than one).                                           *)
(***************************************************************************)
EXTENDS Integers, Sequences, SequencesExt

CONSTANTS
  Registrations, \* what programs call register_flag with
  Arguments,     \* the arguments that may be given
  PastTable,     \* the letters behind m_short_to_long_flag_map, which ends before z
  MaxArguments,  \* bound: how many
  None           \* no name, no value, no flag

Kinds == {"short", "long", "plain", "bad"}

ASSUME ArgumentsAssumption ==
  /\ \A a \in Arguments : a.kind \in Kinds /\ a = [kind |-> a.kind, name |-> a.name]
  /\ MaxArguments \in Nat

VARIABLES
  flags,       \* m_flags: name -> [type, value]
  shortToLong, \* m_short_to_long_flag_map: letter -> name
  unnamed,     \* m_unnamed_args
  args,        \* argv without the name of the program
  pending,     \* the flag that the next argument is the value of
  read,        \* how many arguments have been read
  parse        \* "before", "reading", what parse returned, or "beyond" the table

lineVars == <<flags, shortToLong, unnamed, args, pending, read, parse>>

InitLine ==
  /\ flags = <<>> /\ shortToLong = <<>> /\ unnamed = <<>>
  /\ args = <<>> /\ pending = None /\ read = 0 /\ parse = "before"

Exists(name) == name \in DOMAIN flags
With(map, name, value) == [n \in DOMAIN map \cup {name} |-> IF n = name THEN value ELSE map[n]]
NewValue(type) == [type |-> type, value |-> IF type = "bool" THEN FALSE ELSE None]

(* Mutant: the letter is noted before the long name is looked at. *)
RegisterLetterFirst(short, long, type, wellFormed) ==
  /\ shortToLong' = IF short = None THEN shortToLong
                    ELSE With(shortToLong, short, IF long = None THEN short ELSE long)
  /\ flags' = IF wellFormed /\ long # None /\ ~Exists(long) THEN With(flags, long, NewValue(type))
              ELSE flags
  /\ UNCHANGED <<unnamed, args, pending, read, parse>>

(* register_flag.  A name that is not well formed is refused before        *)
(* anything is done; one that exists, only after the letter has become     *)
(* another name of it.  A letter past the table is written into m_flags.   *)
Register(short, long, type, wellFormed) ==
  LET accepted == wellFormed /\ (short # None \/ long # None)
      name == IF long = None THEN short ELSE long
      noted == accepted /\ short # None /\ (long # None \/ ~Exists(short))
  IN  /\ IF noted /\ short \in PastTable THEN parse' = "beyond" /\ UNCHANGED <<flags, shortToLong>>
         ELSE /\ flags' = IF accepted /\ ~Exists(name) THEN With(flags, name, NewValue(type)) ELSE flags
              /\ shortToLong' = IF noted THEN With(shortToLong, short, name) ELSE shortToLong
              /\ UNCHANGED parse
      /\ UNCHANGED <<unnamed, args, pending, read>>

StartParsing ==
  /\ parse = "before" /\ parse' = "reading"
  /\ args' \in UNION {[1 .. n -> Arguments] : n \in 0 .. MaxArguments}
  /\ UNCHANGED <<flags, shortToLong, unnamed, pending, read>>

IsPastTable(arg) == arg.kind = "short" /\ arg.name \in PastTable

(* The name that an argument calls a flag by.                              *)
NameIn(arg) ==
  CASE arg.kind = "short" -> IF arg.name \in DOMAIN shortToLong THEN shortToLong[arg.name] ELSE None
    [] arg.kind = "long" -> IF Exists(arg.name) THEN arg.name ELSE None
    [] OTHER -> None

ReadValue ==
  /\ parse = "reading" /\ read < Len(args) /\ pending # None
  /\ flags' = [flags EXCEPT ![pending].value = args[read + 1]]
  /\ pending' = None /\ read' = read + 1
  /\ UNCHANGED <<shortToLong, unnamed, args, parse>>

ReadUnnamed ==
  /\ parse = "reading" /\ read < Len(args) /\ pending = None /\ args[read + 1].kind = "plain"
  /\ unnamed' = Append(unnamed, args[read + 1]) /\ read' = read + 1
  /\ UNCHANGED <<flags, shortToLong, args, pending, parse>>

ReadFlag ==
  /\ parse = "reading" /\ read < Len(args) /\ pending = None
  /\ LET name == NameIn(args[read + 1])
     IN  /\ name # None
         /\ IF flags[name].type = "bool"
            THEN flags' = [flags EXCEPT ![name].value = TRUE] /\ UNCHANGED pending
            ELSE pending' = name /\ UNCHANGED flags
  /\ read' = read + 1
  /\ UNCHANGED <<shortToLong, unnamed, args, parse>>

(* A bad or unregistered flag: what was read before stays.                 *)
RefuseArgument ==
  /\ parse = "reading" /\ read < Len(args) /\ pending = None
  /\ args[read + 1].kind # "plain" /\ NameIn(args[read + 1]) = None /\ ~IsPastTable(args[read + 1])
  /\ parse' = "false"
  /\ UNCHANGED <<flags, shortToLong, unnamed, args, pending, read>>

(* A letter past the table: what is in m_flags is taken for a name.        *)
ReadBeyond ==
  /\ parse = "reading" /\ read < Len(args) /\ pending = None /\ IsPastTable(args[read + 1])
  /\ parse' = "beyond"
  /\ UNCHANGED <<flags, shortToLong, unnamed, args, pending, read>>

(* A flag that is left without a value makes parse fail.                   *)
EndParsing ==
  /\ parse = "reading" /\ read = Len(args)
  /\ parse' = IF pending = None THEN "true" ELSE "false"
  /\ UNCHANGED <<flags, shortToLong, unnamed, args, pending, read>>

Parse ==
  StartParsing \/ ReadValue \/ ReadUnnamed \/ ReadFlag \/ RefuseArgument \/ ReadBeyond \/ EndParsing

(* get_flag_value of a long name.                                          *)
GetFlagValue(name) == IF Exists(name) THEN flags[name].value ELSE None

-----------------------------------------------------------------------------
(* A letter leads to a flag, whichever registrations were refused: parse   *)
(* follows the pointer that it finds by a letter without a look at it      *)
(* (command_line.cpp:97).                                                  *)
LettersLead == \A letter \in DOMAIN shortToLong : Exists(shortToLong[letter])

(* Which arguments are the value of the one before.                        *)
ValuesAmong(takes, n) ==
  LET v[i \in 0 .. n] == i > 1 /\ ~v[i - 1] /\ takes[i - 1]
  IN  v
Takes(arg) == NameIn(arg) # None /\ flags[NameIn(arg)].type # "bool"
IsValue == ValuesAmong([i \in 1 .. read |-> Takes(args[i])], read)

(* Where a flag is mentioned by any of its names, and where it is given a  *)
(* value.                                                                  *)
Mentions(name) == {i \in 1 .. read : ~IsValue[i] /\ NameIn(args[i]) = name}
Given(name) == {i \in Mentions(name) : i < read}
Others == {i \in 1 .. read : args[i].kind = "plain" /\ ~IsValue[i]}

(* Each flag has the value that its last mention gives it.                 *)
HasItsValue(name) ==
  flags[name].value =
    IF flags[name].type = "bool" THEN Mentions(name) # {}
    ELSE IF Given(name) = {} THEN None ELSE args[Max(Given(name)) + 1]

(* The unnamed arguments are the others, in order.                         *)
UnnamedAreTheOthers ==
  \E at \in [DOMAIN unnamed -> Others] :
    /\ Others = {at[k] : k \in DOMAIN unnamed}
    /\ \A k \in DOMAIN unnamed : unnamed[k] = args[at[k]] /\ \A j \in 1 .. k - 1 : at[j] < at[k]

(* After any number of arguments, also when a later one is refused: each   *)
(* flag has its value, an argument that looks like a flag is a value where *)
(* one is due, and the unnamed arguments are what is left.                 *)
ParsedAsGiven ==
  parse # "before" =>
    /\ \A name \in DOMAIN flags : HasItsValue(name)
    /\ UnnamedAreTheOthers
    /\ pending # None <=> read > 0 /\ ~IsValue[read] /\ Takes(args[read])

(* The command line, whatever was registered and given. *)
ReadsAsGiven == LettersLead /\ ParsedAsGiven

=============================================================================
