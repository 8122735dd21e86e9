--------------------------- MODULE EinsMainProofs ---------------------------
(***************************************************************************)
(* Proofs about EinsMain, for any registrations, arguments, places and     *)
(* sizes, and any number of them.                                          *)
(*                                                                         *)
(* The invariant has three parts.  LineInv: what has been read of the      *)
(* command line is understood as its properties read it, argument by       *)
(* argument.  MainInv: what each stage of main leaves for the next.        *)
(* WindowInv: when the events that are queued will have been handled       *)
(* (Leads), the window will have noted what the user holds now, and the    *)
(* camera will have turned and orbited by what was dragged (Foretold).     *)
(***************************************************************************)
EXTENDS EinsMain, SequenceTheorems, WellFoundedInduction, TLAPS

-----------------------------------------------------------------------------
(* Numbers. *)

(* Every nonempty set of naturals has a least element. *)
LEMMA LeastNatural ==
  ASSUME NEW S, S \subseteq Nat, S # {}
  PROVE  \E n \in S : \A m \in S : n <= m
<1> DEFINE R == OpToRel(<, Nat)
<1>1. IsWellFoundedOn(R, Nat)
  BY NatLessThanWellFounded
<1>2. \A x, y \in Nat : y < x => <<y, x>> \in R
  BY DEF OpToRel
<1> HIDE DEF R
<1>3. PICK n \in S : \A m \in S : <<m, n>> \notin R
  BY <1>1, WFMin
<1>4. \A m \in S : ~(m < n)
  BY <1>2, <1>3
<1> QED
  BY <1>3, <1>4

(* A nonempty set of numbers up to some other has a greatest element. *)
LEMMA GreatestNatural ==
  ASSUME NEW n \in Nat, NEW S, S \subseteq 1 .. n, S # {}
  PROVE  \E m \in S : \A k \in S : k <= m
<1> DEFINE Rest == {n - k : k \in S}
<1>1. Rest \subseteq Nat /\ Rest # {}
  <2>1. \A k \in S : n - k \in Nat
    OBVIOUS
  <2> QED
    BY <2>1
<1> HIDE DEF Rest
<1>2. PICK r \in Rest : \A q \in Rest : r <= q
  BY <1>1, LeastNatural
<1>3. PICK m \in S : r = n - m
  BY DEF Rest
<1>4. ASSUME NEW k \in S
      PROVE  k <= m
  <2>1. n - k \in Rest
    BY DEF Rest
  <2>2. n - m <= n - k
    BY <1>2, <1>3, <2>1
  <2> QED
    BY <2>2
<1> QED
  BY <1>4

-----------------------------------------------------------------------------
(* The arguments that are values.                                          *)

(* What ValuesAmong is defined to be. *)
Alternates(v, takes, n) == v = [i \in 0 .. n |-> i > 1 /\ ~v[i - 1] /\ takes[i - 1]]

(* There is such a function for every number of arguments. *)
LEMMA AlternatesExists ==
  ASSUME NEW takes, NEW n \in Nat
  PROVE  \E v : Alternates(v, takes, n)
<1> DEFINE Without == {m \in Nat : ~ \E v : Alternates(v, takes, m)}
<1> SUFFICES ASSUME Without # {}
             PROVE  FALSE
  OBVIOUS
<1>1. PICK m \in Without : \A k \in Without : m <= k
  <2> HIDE DEF Without
  <2>1. Without \subseteq Nat
    BY DEF Without
  <2> QED
    BY <2>1, LeastNatural
<1>2. m \in Nat /\ ~ \E v : Alternates(v, takes, m)
  OBVIOUS
<1>3. m # 0
  <2> DEFINE z == [i \in 0 .. 0 |-> FALSE]
  <2>1. Alternates(z, takes, 0)
    <3>1. \A i \in 0 .. 0 : FALSE = (i > 1 /\ ~z[i - 1] /\ takes[i - 1])
      OBVIOUS
    <3> QED
      BY <3>1, Zenon DEF Alternates
  <2> QED
    BY <1>2, <2>1
<1>4. m - 1 \in Nat /\ m - 1 \notin Without
  BY <1>1, <1>2, <1>3
<1>5. PICK v : Alternates(v, takes, m - 1)
  BY <1>4
<1> DEFINE w == [i \in 0 .. m |-> i > 1 /\ ~v[i - 1] /\ takes[i - 1]]
<1>6. ASSUME NEW i \in 0 .. m - 1
      PROVE  w[i] = v[i]
  <2> DEFINE follows == i > 1 /\ ~v[i - 1] /\ takes[i - 1]
  <2>1. w[i] = follows
    <3>1. i \in 0 .. m
      BY <1>2
    <3> QED
      BY <3>1, Zenon
  <2>2. v[i] = follows
    BY <1>5, Zenon DEF Alternates
  <2> HIDE DEF w, follows
  <2> QED
    BY <2>1, <2>2, Zenon
<1>7. w = [i \in 0 .. m |-> i > 1 /\ ~w[i - 1] /\ takes[i - 1]]
  <2>1. ASSUME NEW i \in 0 .. m
        PROVE  (i > 1 /\ ~v[i - 1] /\ takes[i - 1]) = (i > 1 /\ ~w[i - 1] /\ takes[i - 1])
    <3>1. CASE i > 1
      <4>1. i - 1 \in 0 .. m - 1
        BY <1>2, <3>1
      <4>2. w[i - 1] = v[i - 1]
        BY <1>6, <4>1
      <4> HIDE DEF w
      <4> QED
        BY <4>2, Zenon
    <3>2. CASE ~(i > 1)
      BY <3>2, Zenon
    <3> QED
      BY <3>1, <3>2
  <2> QED
    BY <2>1, Zenon
<1>8. Alternates(w, takes, m)
  BY <1>7 DEF Alternates
<1> QED
  BY <1>2, <1>8

LEMMA ValuesAmongIs ==
  ASSUME NEW takes, NEW n \in Nat, NEW v, v = ValuesAmong(takes, n)
  PROVE  /\ DOMAIN v = 0 .. n
         /\ \A i \in 0 .. n : v[i] \in BOOLEAN /\ (v[i] <=> i > 1 /\ ~v[i - 1] /\ takes[i - 1])
<1> DEFINE w == CHOOSE u : Alternates(u, takes, n)
<1>1. Alternates(w, takes, n)
  BY AlternatesExists
<1>2. w = ValuesAmong(takes, n)
  BY DEF Alternates, ValuesAmong
<1>3. Alternates(v, takes, n)
  BY <1>1, <1>2
<1>4. v = [i \in 0 .. n |-> i > 1 /\ ~v[i - 1] /\ takes[i - 1]]
  BY <1>3 DEF Alternates
<1>5. DOMAIN v = 0 .. n
  BY <1>4, Zenon
<1>6. ASSUME NEW i \in 0 .. n
      PROVE  v[i] \in BOOLEAN /\ (v[i] <=> i > 1 /\ ~v[i - 1] /\ takes[i - 1])
  <2>1. v[i] = (i > 1 /\ ~v[i - 1] /\ takes[i - 1])
    BY <1>4, Zenon
  <2> QED
    BY <2>1, Zenon
<1> QED
  BY <1>5, <1>6

(* What was a value stays one when there is one argument more. *)
LEMMA ValuesStay ==
  ASSUME NEW n \in Nat, NEW m \in {n, n + 1}, NEW takes, NEW more,
         \A i \in 1 .. n : more[i] = takes[i],
         NEW v, v = ValuesAmong(takes, n), NEW w, w = ValuesAmong(more, m)
  PROVE  /\ \A i \in 0 .. n : w[i] <=> v[i]
         /\ m = n + 1 => (w[n + 1] <=> n > 0 /\ ~v[n] /\ takes[n])
<1>1. \A i \in 0 .. n : v[i] \in BOOLEAN /\ (v[i] <=> i > 1 /\ ~v[i - 1] /\ takes[i - 1])
  BY ValuesAmongIs
<1>2. m \in Nat
  OBVIOUS
<1>3. \A i \in 0 .. m : w[i] \in BOOLEAN /\ (w[i] <=> i > 1 /\ ~w[i - 1] /\ more[i - 1])
  BY <1>2, ValuesAmongIs
<1>4. \A i \in 0 .. n : w[i] <=> v[i]
  <2> DEFINE Bad == {i \in 0 .. n : ~(w[i] <=> v[i])}
  <2> SUFFICES ASSUME Bad # {}
               PROVE  FALSE
    OBVIOUS
  <2>1. PICK i \in Bad : \A k \in Bad : i <= k
    <3>1. Bad \subseteq Nat
      OBVIOUS
    <3> HIDE DEF Bad
    <3> QED
      BY <3>1, LeastNatural
  <2>2. i \in 0 .. n /\ i \in 0 .. m /\ ~(w[i] <=> v[i])
    OBVIOUS
  <2>3. i > 1
    BY <1>1, <1>3, <2>2
  <2>4. i - 1 \in 0 .. n /\ i - 1 \in 1 .. n /\ ~(i <= i - 1)
    BY <2>2, <2>3
  <2>5. w[i - 1] <=> v[i - 1]
    BY <2>1, <2>4
  <2>6. more[i - 1] = takes[i - 1]
    BY <2>4
  <2> QED
    BY <1>1, <1>3, <2>2, <2>5, <2>6
<1>5. ASSUME m = n + 1
      PROVE  w[n + 1] <=> n > 0 /\ ~v[n] /\ takes[n]
  <2>1. n + 1 \in 0 .. m /\ (n + 1) - 1 = n /\ n \in 0 .. n /\ (n + 1 > 1 <=> n > 0)
    BY <1>5
  <2>2. w[n + 1] <=> n > 0 /\ ~w[n] /\ more[n]
    BY <1>3, <2>1
  <2>3. w[n] <=> v[n]
    BY <1>4, <2>1
  <2>4. n > 0 => more[n] = takes[n]
    OBVIOUS
  <2> QED
    BY <2>2, <2>3, <2>4
<1> QED
  BY <1>4, <1>5

-----------------------------------------------------------------------------
(* The command line. *)

LineTypes ==
  /\ args \in Seq(Arguments) /\ read \in 0 .. Len(args) /\ unnamed \in Seq(Arguments)
  /\ flags = [name \in DOMAIN flags |-> flags[name]] /\ None \notin DOMAIN flags
  /\ \A name \in DOMAIN flags : flags[name] = [type |-> flags[name].type, value |-> flags[name].value]

NothingRead ==
  parse = "before" =>
    /\ read = 0 /\ unnamed = <<>> /\ pending = None
    /\ \A name \in DOMAIN flags : flags[name] = NewValue(flags[name].type)

(* What was read was understood. *)
Understood ==
  /\ \A i \in 1 .. read : ~IsValue[i] /\ args[i].kind # "plain" => NameIn(args[i]) # None
  /\ pending # None => pending = NameIn(args[read]) /\ pending \in DOMAIN flags

Parsed ==
  /\ \A name \in DOMAIN flags : HasItsValue(name)
  /\ UnnamedAreTheOthers
  /\ pending # None <=> read > 0 /\ ~IsValue[read] /\ Takes(args[read])

LineInv == LineTypes /\ LettersLead /\ NothingRead /\ (parse # "before" => Understood /\ Parsed)

LEMMA NameInIs ==
  ASSUME LineInv, NEW a
  PROVE  \/ NameIn(a) = None
         \/ NameIn(a) # None /\ NameIn(a) \in DOMAIN flags /\ a.kind # "plain"
<1>1. CASE a.kind = "short"
  BY <1>1 DEF NameIn, LineInv, LineTypes, LettersLead, Exists
<1>2. CASE a.kind = "long"
  BY <1>2 DEF NameIn, LineInv, LineTypes, Exists
<1>3. CASE ~(a.kind = "short") /\ ~(a.kind = "long")
  BY <1>3 DEF NameIn
<1> QED
  BY <1>1, <1>2, <1>3

(* Before anything is read. *)
LEMMA NothingToUnderstand ==
  ASSUME read' = 0, pending' = None, unnamed' = <<>>,
         \A name \in DOMAIN flags' : flags'[name] = NewValue(flags'[name].type)
  PROVE  Understood' /\ Parsed'
<1>1. Understood'
  BY DEF Understood
<1>2. ASSUME NEW name \in DOMAIN flags'
      PROVE  HasItsValue(name)'
  <2>1. Mentions(name)' = {} /\ Given(name)' = {}
    BY DEF Mentions, Given
  <2>2. flags'[name].value = IF flags'[name].type = "bool" THEN FALSE ELSE None
    <3>1. flags'[name] = NewValue(flags'[name].type)
      BY <1>2
    <3> DEFINE type == flags'[name].type
               value == IF type = "bool" THEN FALSE ELSE None
    <3>2. flags'[name] = [type |-> type, value |-> value]
      BY <3>1, Zenon DEF NewValue
    <3> HIDE DEF type, value
    <3>3. flags'[name].value = value
      BY <3>2
    <3> QED
      BY <3>3, Zenon DEF value, type
  <2> QED
    BY <2>1, <2>2 DEF HasItsValue
<1>3. UnnamedAreTheOthers'
  <2>1. Others' = {} /\ DOMAIN unnamed' = {}
    BY DEF Others
  <2> DEFINE none == [k \in {} |-> 0]
  <2>2. none \in [DOMAIN unnamed' -> Others'] /\ Others' = {none[k] : k \in DOMAIN unnamed'}
    BY <2>1
  <2> QED
    BY <2>1, <2>2 DEF UnnamedAreTheOthers
<1> QED
  BY <1>1, <1>2, <1>3 DEF Parsed

LEMMA RegisterKeeps ==
  ASSUME LineInv, parse = "before", NEW short, NEW long, NEW type, NEW wellFormed,
         Register(short, long, type, wellFormed)
  PROVE  LineInv'
<1> DEFINE accepted == wellFormed /\ (short # None \/ long # None)
           name == IF long = None THEN short ELSE long
           noted == accepted /\ short # None /\ (long # None \/ ~Exists(short))
           grown == With(flags, name, NewValue(type))
<1>a. CASE noted /\ short \in PastTable
  <2>1. /\ parse' = "beyond" /\ UNCHANGED <<flags, shortToLong, unnamed, args, pending, read>>
    BY <1>a, Zenon DEF Register
  <2>2. LineTypes' /\ LettersLead' /\ NothingRead'
    BY <2>1 DEF LineInv, LineTypes, LettersLead, NothingRead, Exists
  <2>3. /\ read' = 0 /\ pending' = None /\ unnamed' = <<>>
        /\ \A n \in DOMAIN flags' : flags'[n] = NewValue(flags'[n].type)
    BY <2>1 DEF LineInv, NothingRead
  <2>4. Understood' /\ Parsed'
    BY <2>3, NothingToUnderstand
  <2> QED
    BY <2>2, <2>4 DEF LineInv
<1> SUFFICES ASSUME ~(noted /\ short \in PastTable)
             PROVE  LineInv'
  BY <1>a
<1>1. /\ flags' = IF accepted /\ ~Exists(name) THEN grown ELSE flags
      /\ shortToLong' = IF accepted /\ short # None /\ (long # None \/ ~Exists(short))
                        THEN With(shortToLong, short, name) ELSE shortToLong
      /\ UNCHANGED <<unnamed, args, pending, read, parse>>
  BY Zenon DEF Register
<1>2. accepted => name # None
  OBVIOUS
<1>3. /\ grown = [n \in DOMAIN flags \cup {name} |-> IF n = name THEN NewValue(type) ELSE flags[n]]
      /\ DOMAIN grown = DOMAIN flags \cup {name}
      /\ grown[name] = NewValue(type)
      /\ \A n \in DOMAIN flags : n # name => grown[n] = flags[n]
  BY DEF With
<1> HIDE DEF accepted, name, grown, noted
<1>4. LineTypes' /\ NothingRead'
  <2>1. CASE accepted /\ ~Exists(name)
    <3>1. flags' = grown
      BY <1>1, <2>1
    <3>2. grown = [n \in DOMAIN grown |-> grown[n]]
      BY <1>3
    <3>3. \A n \in DOMAIN grown :
            /\ grown[n] = [type |-> grown[n].type, value |-> grown[n].value]
            /\ grown[n] = NewValue(grown[n].type)
      <4> TAKE n \in DOMAIN grown
      <4>1. CASE n = name
        BY <1>3, <4>1 DEF NewValue
      <4>2. CASE n # name
        <5>1. grown[n] = flags[n] /\ n \in DOMAIN flags
          BY <1>3, <4>2
        <5> QED
          BY <5>1 DEF LineInv, LineTypes, NothingRead
      <4> QED
        BY <4>1, <4>2
    <3>4. LineTypes'
      <4>1. None \notin DOMAIN flags'
        BY <1>2, <1>3, <2>1, <3>1 DEF LineInv, LineTypes
      <4>2. flags' = [n \in DOMAIN flags' |-> flags'[n]]
        BY <3>1, <3>2, Zenon
      <4> QED
        BY <1>1, <3>1, <3>3, <4>1, <4>2 DEF LineInv, LineTypes
    <3>5. NothingRead'
      BY <1>1, <3>1, <3>3 DEF LineInv, NothingRead
    <3> QED
      BY <3>4, <3>5
  <2>2. CASE ~(accepted /\ ~Exists(name))
    BY <1>1, <2>2 DEF LineInv, LineTypes, NothingRead, NewValue
  <2> QED
    BY <2>1, <2>2
<1>5. LettersLead'
  <2>1. DOMAIN flags \subseteq DOMAIN flags' /\ (accepted => name \in DOMAIN flags')
    BY <1>1, <1>3 DEF Exists
  <2>2. ASSUME NEW letter \in DOMAIN shortToLong'
        PROVE  \/ accepted /\ shortToLong'[letter] = name
               \/ letter \in DOMAIN shortToLong /\ shortToLong'[letter] = shortToLong[letter]
    BY <1>1 DEF With
  <2> QED
    BY <2>1, <2>2 DEF LineInv, LettersLead, Exists
<1> QED
  BY <1>1, <1>4, <1>5 DEF LineInv

LEMMA StartKeeps ==
  ASSUME LineInv, StartParsing
  PROVE  LineInv'
<1>1. /\ parse = "before" /\ parse' = "reading"
      /\ UNCHANGED <<flags, shortToLong, unnamed, pending, read>>
      /\ args' \in UNION {[1 .. n -> Arguments] : n \in 0 .. MaxArguments}
  BY DEF StartParsing
<1>2. read' = 0 /\ pending' = None /\ unnamed' = <<>>
  BY <1>1 DEF LineInv, NothingRead
<1>3. args' \in Seq(Arguments) /\ Len(args') \in Nat
  <2>1. PICK n \in Nat : args' \in [1 .. n -> Arguments]
    BY <1>1, ArgumentsAssumption
  <2> QED
    BY <2>1, SeqDef, LenProperties
<1>4. LineTypes' /\ LettersLead' /\ NothingRead'
  BY <1>1, <1>2, <1>3 DEF LineInv, LineTypes, LettersLead, NothingRead, Exists
<1>5. \A name \in DOMAIN flags' : flags'[name] = NewValue(flags'[name].type)
  BY <1>1 DEF LineInv, NothingRead
<1>6. Understood' /\ Parsed'
  BY <1>2, <1>5, NothingToUnderstand
<1> QED
  BY <1>4, <1>6 DEF LineInv

(* When one argument more is read, what the earlier ones mean stays, and   *)
(* it is a value if one is due.                                            *)
OneMore ==
  /\ parse = "reading" /\ read < Len(args) /\ read' = read + 1
  /\ UNCHANGED <<shortToLong, args, parse>>
  /\ flags' = [name \in DOMAIN flags' |-> flags'[name]]
  /\ DOMAIN flags' = DOMAIN flags /\ \A name \in DOMAIN flags : flags'[name].type = flags[name].type

LEMMA ReadingOn ==
  ASSUME LineInv, OneMore
  PROVE  /\ read \in Nat /\ read + 1 \in 1 .. Len(args) /\ args[read + 1] \in Arguments
         /\ \A i \in 1 .. read + 1 : NameIn(args[i])' = NameIn(args[i]) /\ (Takes(args[i])' <=> Takes(args[i]))
         /\ \A i \in 0 .. read : IsValue'[i] <=> IsValue[i]
         /\ IsValue'[read + 1] <=> pending # None
<1>1. read \in Nat /\ Len(args) \in Nat /\ read + 1 \in 1 .. Len(args) /\ args[read + 1] \in Arguments
  BY LenProperties, ElementOfSeq DEF LineInv, LineTypes, OneMore
<1>2. \A i \in 1 .. read + 1 : NameIn(args[i])' = NameIn(args[i]) /\ (Takes(args[i])' <=> Takes(args[i]))
  <2> TAKE i \in 1 .. read + 1
  <2>1. NameIn(args[i])' = NameIn(args[i])
    BY DEF NameIn, Exists, OneMore
  <2>2. NameIn(args[i]) # None => NameIn(args[i]) \in DOMAIN flags
    BY NameInIs
  <2> QED
    BY <2>1, <2>2 DEF Takes, OneMore
<1> DEFINE takes == [i \in 1 .. read |-> Takes(args[i])]
           more == [i \in 1 .. read' |-> Takes(args[i])']
<1>3. IsValue = ValuesAmong(takes, read) /\ IsValue' = ValuesAmong(more, read')
  BY DEF IsValue
<1>4. \A i \in 1 .. read : takes[i] \in BOOLEAN /\ (takes[i] <=> Takes(args[i]))
  BY DEF Takes
<1>5. \A i \in 1 .. read : more[i] = takes[i]
  <2> TAKE i \in 1 .. read
  <2>1. i \in 1 .. read' /\ i \in 1 .. read + 1
    BY <1>1 DEF OneMore
  <2>2. more[i] = Takes(args[i])' /\ takes[i] = Takes(args[i])
    BY <2>1
  <2>3. Takes(args[i])' <=> Takes(args[i])
    BY <1>2, <2>1
  <2>4. Takes(args[i])' \in BOOLEAN /\ Takes(args[i]) \in BOOLEAN
    BY DEF Takes
  <2> QED
    BY <2>2, <2>3, <2>4
<1> HIDE DEF takes, more
<1>6. read' \in {read, read + 1}
  BY DEF OneMore
<1>7. PICK v : v = IsValue
  OBVIOUS
<1>8. PICK w : w = IsValue'
  OBVIOUS
<1>9. /\ \A i \in 0 .. read : w[i] <=> v[i]
      /\ w[read + 1] <=> read > 0 /\ ~v[read] /\ takes[read]
  <2>1. PICK n : n = read
    OBVIOUS
  <2>2. PICK m : m = read'
    OBVIOUS
  <2>3. n \in Nat /\ m \in {n, n + 1} /\ m = n + 1 /\ v = ValuesAmong(takes, n) /\ w = ValuesAmong(more, m)
    BY <1>1, <1>3, <1>6, <1>7, <1>8, <2>1, <2>2 DEF OneMore
  <2>4. \A i \in 1 .. n : more[i] = takes[i]
    BY <1>5, <2>1
  <2>5. /\ \A i \in 0 .. n : w[i] <=> v[i]
        /\ w[n + 1] <=> n > 0 /\ ~v[n] /\ takes[n]
    BY <2>3, <2>4, ValuesStay
  <2> QED
    BY <2>1, <2>5
<1>10. pending # None <=> read > 0 /\ ~v[read] /\ takes[read]
  <2>1. pending # None <=> read > 0 /\ ~IsValue[read] /\ Takes(args[read])
    BY DEF LineInv, Parsed, OneMore
  <2>2. read > 0 => read \in 1 .. read
    BY <1>1
  <2> QED
    BY <1>4, <1>7, <2>1, <2>2
<1> QED
  BY <1>1, <1>2, <1>7, <1>8, <1>9, <1>10

(* What one argument more adds. *)
LEMMA MentionsGrow ==
  ASSUME LineInv, OneMore
  PROVE  /\ \A name \in DOMAIN flags :
              /\ pending = None /\ NameIn(args[read + 1]) = name =>
                   Mentions(name)' = Mentions(name) \cup {read + 1}
              /\ ~(pending = None /\ NameIn(args[read + 1]) = name) => Mentions(name)' = Mentions(name)
              /\ Given(name)' = Mentions(name)
              /\ Given(name) = Mentions(name) \ {read}
              /\ flags[name].type # "bool" =>
                   (read \in Mentions(name) <=> pending = name)
         /\ pending = None /\ args[read + 1].kind = "plain" => Others' = Others \cup {read + 1}
         /\ ~(pending = None /\ args[read + 1].kind = "plain") => Others' = Others
<1>1. /\ read \in Nat /\ read + 1 \in 1 .. Len(args)
      /\ \A i \in 1 .. read + 1 : NameIn(args[i])' = NameIn(args[i]) /\ (Takes(args[i])' <=> Takes(args[i]))
      /\ \A i \in 0 .. read : IsValue'[i] <=> IsValue[i]
      /\ IsValue'[read + 1] <=> pending # None
  BY ReadingOn
<1>2. \A i : i \in 1 .. read' <=> i \in 1 .. read \/ i = read + 1
  BY <1>1 DEF OneMore
<1>3. \A i \in 1 .. read : i \in 0 .. read /\ i \in 1 .. read + 1 /\ i # read + 1
  BY <1>1
<1>4. args' = args
  BY DEF OneMore
<1>5. ASSUME NEW name \in DOMAIN flags
      PROVE  /\ pending = None /\ NameIn(args[read + 1]) = name =>
                   Mentions(name)' = Mentions(name) \cup {read + 1}
             /\ ~(pending = None /\ NameIn(args[read + 1]) = name) => Mentions(name)' = Mentions(name)
             /\ Given(name)' = Mentions(name)
             /\ Given(name) = Mentions(name) \ {read}
             /\ flags[name].type # "bool" => (read \in Mentions(name) <=> pending = name)
  <2>1. \A i : i \in Mentions(name) <=> i \in 1 .. read /\ ~IsValue[i] /\ NameIn(args[i]) = name
    BY DEF Mentions
  <2>2. \A i : i \in Mentions(name)' <=> i \in 1 .. read' /\ ~IsValue'[i] /\ NameIn(args[i])' = name
    BY DEF Mentions
  <2>3. \A i \in 1 .. read : i \in Mentions(name)' <=> i \in Mentions(name)
    BY <1>1, <1>2, <1>3, <2>1, <2>2
  <2>4. read + 1 \in Mentions(name)' <=> pending = None /\ NameIn(args[read + 1]) = name
    BY <1>1, <1>2, <2>2
  <2>5. Mentions(name) \subseteq 1 .. read /\ Mentions(name)' \subseteq 1 .. read'
    BY DEF Mentions
  <2>6. Given(name) = Mentions(name) \ {read}
    BY <1>1, <2>5 DEF Given
  <2>7. Given(name)' = Mentions(name)
    <3>1. \A i \in 1 .. read' : i < read' <=> i \in 1 .. read
      BY <1>1 DEF OneMore
    <3>2. \A i : i \in Given(name)' <=> i \in Mentions(name)' /\ i < read'
      BY DEF Given
    <3> QED
      BY <2>3, <2>5, <3>1, <3>2
  <2>8. ASSUME flags[name].type # "bool"
        PROVE  read \in Mentions(name) <=> pending = name
    <3>1. pending # None <=> read > 0 /\ ~IsValue[read] /\ Takes(args[read])
      BY DEF LineInv, Parsed, OneMore
    <3>2. name # None
      BY DEF LineInv, LineTypes
    <3>3. ASSUME read \in Mentions(name)
          PROVE  pending = name
      <4>1. read > 0 /\ ~IsValue[read] /\ NameIn(args[read]) = name
        BY <1>1, <2>1, <3>3
      <4>2. Takes(args[read])
        BY <2>8, <3>2, <4>1 DEF Takes
      <4> QED
        BY <3>1, <4>1, <4>2 DEF LineInv, Understood, OneMore
    <3>4. ASSUME pending = name
          PROVE  read \in Mentions(name)
      <4>1. NameIn(args[read]) = name /\ read > 0 /\ ~IsValue[read]
        BY <3>1, <3>2, <3>4 DEF LineInv, Understood, OneMore
      <4> QED
        BY <1>1, <2>1, <4>1
    <3> QED
      BY <3>3, <3>4
  <2>9. \A i : i \in Mentions(name)' => i \in 1 .. read \/ i = read + 1
    BY <1>2, <2>5
  <2> QED
    BY <2>3, <2>4, <2>5, <2>6, <2>7, <2>8, <2>9
<1>6. /\ pending = None /\ args[read + 1].kind = "plain" => Others' = Others \cup {read + 1}
      /\ ~(pending = None /\ args[read + 1].kind = "plain") => Others' = Others
  <2>1. \A i : i \in Others <=> i \in 1 .. read /\ args[i].kind = "plain" /\ ~IsValue[i]
    BY DEF Others
  <2>2. \A i : i \in Others' <=> i \in 1 .. read' /\ args[i].kind = "plain" /\ ~IsValue'[i]
    BY <1>4 DEF Others
  <2>3. \A i \in 1 .. read : i \in Others' <=> i \in Others
    BY <1>1, <1>2, <1>3, <2>1, <2>2
  <2>4. read + 1 \in Others' <=> args[read + 1].kind = "plain" /\ pending = None
    BY <1>1, <1>2, <2>2
  <2>5. \A i : (i \in Others => i \in 1 .. read) /\ (i \in Others' => i \in 1 .. read \/ i = read + 1)
    BY <1>2, <2>1, <2>2
  <2> QED
    BY <2>3, <2>4, <2>5
<1> QED
  BY <1>5, <1>6

(* A flag that the argument is not about keeps its value. *)
LEMMA OtherFlagsKeep ==
  ASSUME LineInv, OneMore, NEW name \in DOMAIN flags, flags'[name] = flags[name], pending # name,
         flags[name].type = "bool" => ~(pending = None /\ NameIn(args[read + 1]) = name)
  PROVE  HasItsValue(name)'
<1>1. HasItsValue(name) /\ args' = args
  BY DEF LineInv, Parsed, OneMore
<1>2. CASE flags[name].type = "bool"
  <2>1. Mentions(name)' = Mentions(name)
    BY <1>2, MentionsGrow
  <2> QED
    BY <1>1, <1>2, <2>1 DEF HasItsValue
<1>3. CASE flags[name].type # "bool"
  <2>1. Given(name)' = Given(name)
    BY <1>3, MentionsGrow
  <2> QED
    BY <1>1, <1>3, <2>1 DEF HasItsValue
<1> QED
  BY <1>2, <1>3

(* The greatest number of a set, when there is one. *)
LEMMA MaxIs ==
  ASSUME NEW S, S \subseteq Int, NEW n \in S, \A k \in S : k <= n
  PROVE  Max(S) = n
<1>1. \A y \in S : n >= y
  OBVIOUS
<1>2. Max(S) \in S /\ \A y \in S : Max(S) >= y
  BY <1>1, Zenon DEF Max
<1>3. PICK m : m = Max(S)
  OBVIOUS
<1>4. n \in Int /\ m \in Int /\ m >= n /\ m <= n
  BY <1>2, <1>3
<1> QED
  BY <1>3, <1>4

LEMMA UnnamedKeep ==
  ASSUME LineInv, OneMore, UNCHANGED unnamed, ~(pending = None /\ args[read + 1].kind = "plain")
  PROVE  UnnamedAreTheOthers'
<1>1. Others' = Others /\ args' = args /\ unnamed' = unnamed
  BY MentionsGrow DEF OneMore
<1>2. UnnamedAreTheOthers
  BY DEF LineInv, Parsed, OneMore
<1> QED
  BY <1>1, <1>2 DEF UnnamedAreTheOthers

(* So is one argument more understood. *)
LEMMA UnderstandsOneMore ==
  ASSUME LineInv, OneMore,
         pending # None \/ args[read + 1].kind = "plain" \/ NameIn(args[read + 1]) # None
  PROVE  \A i \in 1 .. read' : ~IsValue'[i] /\ args'[i].kind # "plain" => NameIn(args[i])' # None
<1>1. /\ read \in Nat /\ read + 1 \in 1 .. Len(args) /\ read' = read + 1 /\ args' = args
      /\ \A i \in 1 .. read + 1 : NameIn(args[i])' = NameIn(args[i])
      /\ \A i \in 0 .. read : IsValue'[i] <=> IsValue[i]
      /\ IsValue'[read + 1] <=> pending # None
  BY ReadingOn DEF OneMore
<1> SUFFICES ASSUME NEW i \in 1 .. read', ~IsValue'[i], args[i].kind # "plain"
             PROVE  NameIn(args[i])' # None
  BY <1>1
<1>2. i \in 1 .. read + 1
  BY <1>1
<1>3. CASE i = read + 1
  BY <1>1, <1>2, <1>3
<1>4. CASE i # read + 1
  <2>1. i \in 1 .. read /\ i \in 0 .. read
    BY <1>1, <1>2, <1>4
  <2>2. ~IsValue[i]
    BY <1>1, <2>1
  <2> QED
    BY <1>1, <1>2, <2>1, <2>2 DEF LineInv, Understood, OneMore
<1> QED
  BY <1>3, <1>4

LEMMA ReadValueKeeps ==
  ASSUME LineInv, ReadValue
  PROVE  LineInv'
<1>1. /\ parse = "reading" /\ read < Len(args) /\ pending # None
      /\ flags' = [flags EXCEPT ![pending].value = args[read + 1]]
      /\ pending' = None /\ read' = read + 1
      /\ UNCHANGED <<shortToLong, unnamed, args, parse>>
  BY DEF ReadValue
<1>2. pending \in DOMAIN flags /\ pending = NameIn(args[read])
  BY <1>1 DEF LineInv, Understood
<1>3. /\ flags' = [name \in DOMAIN flags' |-> flags'[name]] /\ DOMAIN flags' = DOMAIN flags
      /\ \A name \in DOMAIN flags : name # pending => flags'[name] = flags[name]
      /\ flags'[pending] = [flags[pending] EXCEPT !.value = args[read + 1]]
  BY <1>1, <1>2 DEF LineInv, LineTypes
<1>4. /\ flags'[pending].type = flags[pending].type /\ flags'[pending].value = args[read + 1]
      /\ flags'[pending] = [type |-> flags'[pending].type, value |-> flags'[pending].value]
  BY <1>2, <1>3 DEF LineInv, LineTypes
<1>5. OneMore
  BY <1>1, <1>3, <1>4 DEF OneMore
<1>6. /\ read \in Nat /\ read + 1 \in 1 .. Len(args) /\ args[read + 1] \in Arguments
      /\ \A i \in 1 .. read + 1 : NameIn(args[i])' = NameIn(args[i])
      /\ \A i \in 0 .. read : IsValue'[i] <=> IsValue[i]
      /\ IsValue'[read + 1] <=> pending # None
  BY <1>5, ReadingOn
<1>7. LineTypes' /\ LettersLead' /\ NothingRead'
  BY <1>1, <1>3, <1>4, <1>6 DEF LineInv, LineTypes, LettersLead, NothingRead, Exists
<1>8. Understood'
  BY <1>1, <1>5, UnderstandsOneMore DEF Understood
<1>9. ASSUME NEW name \in DOMAIN flags'
      PROVE  HasItsValue(name)'
  <2>1. name \in DOMAIN flags
    BY <1>3
  <2>2. CASE name # pending
    BY <1>1, <1>3, <1>5, <2>1, <2>2, OtherFlagsKeep
  <2>3. CASE name = pending
    <3>1. flags[name].type # "bool"
      BY <1>1, <1>2, <2>3 DEF LineInv, Parsed, Takes
    <3>2. read \in Mentions(name) /\ Given(name)' = Mentions(name)
      BY <1>5, <2>1, <2>3, <3>1, MentionsGrow
    <3>3. Mentions(name) \subseteq Int /\ \A i \in Mentions(name) : i <= read
      BY DEF Mentions
    <3>4. Max(Mentions(name)) = read
      BY <3>2, <3>3, MaxIs
    <3>5. /\ flags'[name].value = args[read + 1]
          /\ flags'[name].type # "bool" /\ args' = args
      BY <1>1, <1>4, <2>3, <3>1
    <3>6. /\ Given(name)' # {}
          /\ flags'[name].value = args'[Max(Given(name)') + 1]
      BY <3>2, <3>4, <3>5
    <3> QED
      BY <3>5, <3>6 DEF HasItsValue
  <2> QED
    BY <2>2, <2>3
<1>10. UnnamedAreTheOthers'
  BY <1>1, <1>5, UnnamedKeep
<1>11. Parsed'
  BY <1>1, <1>6, <1>9, <1>10 DEF Parsed
<1> QED
  BY <1>7, <1>8, <1>11 DEF LineInv

LEMMA ReadUnnamedKeeps ==
  ASSUME LineInv, ReadUnnamed
  PROVE  LineInv'
<1>1. /\ parse = "reading" /\ read < Len(args) /\ pending = None /\ args[read + 1].kind = "plain"
      /\ unnamed' = Append(unnamed, args[read + 1]) /\ read' = read + 1
      /\ UNCHANGED <<flags, shortToLong, args, pending, parse>>
  BY DEF ReadUnnamed
<1>2. OneMore
  BY <1>1 DEF OneMore, LineInv, LineTypes
<1>3. /\ read \in Nat /\ read + 1 \in 1 .. Len(args) /\ args[read + 1] \in Arguments
      /\ \A i \in 1 .. read + 1 : NameIn(args[i])' = NameIn(args[i]) /\ (Takes(args[i])' <=> Takes(args[i]))
  BY <1>2, ReadingOn
<1>4. NameIn(args[read + 1]) = None
  BY <1>1 DEF NameIn
<1>5. LineTypes' /\ LettersLead' /\ NothingRead'
  <2>1. unnamed' \in Seq(Arguments)
    BY <1>1, <1>3, AppendProperties DEF LineInv, LineTypes
  <2> QED
    BY <1>1, <1>3, <2>1 DEF LineInv, LineTypes, LettersLead, NothingRead, Exists
<1>6. Understood'
  BY <1>1, <1>2, UnderstandsOneMore DEF Understood
<1>7. ASSUME NEW name \in DOMAIN flags'
      PROVE  HasItsValue(name)'
  <2>1. name \in DOMAIN flags /\ name # None
    BY <1>1 DEF LineInv, LineTypes
  <2> QED
    BY <1>1, <1>2, <1>4, <2>1, OtherFlagsKeep
<1>8. UnnamedAreTheOthers'
  <2>1. Others' = Others \cup {read + 1}
    BY <1>1, <1>2, MentionsGrow
  <2>2. PICK at \in [DOMAIN unnamed -> Others] :
          /\ Others = {at[k] : k \in DOMAIN unnamed}
          /\ \A k \in DOMAIN unnamed : unnamed[k] = args[at[k]] /\ \A j \in 1 .. k - 1 : at[j] < at[k]
    BY <1>1 DEF LineInv, Parsed, UnnamedAreTheOthers
  <2>3. PICK n \in Nat : n = Len(unnamed) /\ DOMAIN unnamed = 1 .. n
    BY LenProperties DEF LineInv, LineTypes
  <2>4. /\ DOMAIN unnamed' = 1 .. n + 1 /\ unnamed'[n + 1] = args[read + 1]
        /\ \A k \in 1 .. n : unnamed'[k] = unnamed[k]
    <3>1. unnamed' \in Seq(Arguments) /\ Len(unnamed') = n + 1
      BY <1>1, <1>3, <2>3, AppendProperties DEF LineInv, LineTypes
    <3>2. DOMAIN unnamed' = 1 .. n + 1
      BY <3>1, LenProperties
    <3> QED
      BY <1>1, <1>3, <2>3, <3>2, AppendProperties DEF LineInv, LineTypes
  <2> DEFINE on == [k \in 1 .. n + 1 |-> IF k <= n THEN at[k] ELSE read + 1]
  <2>5. /\ on \in [DOMAIN unnamed' -> Others'] /\ on[n + 1] = read + 1
        /\ \A k \in 1 .. n : on[k] = at[k] /\ at[k] \in Others
    <3>1. \A k \in 1 .. n : at[k] \in Others
      BY <2>2, <2>3
    <3> QED
      BY <2>1, <2>3, <2>4, <3>1
  <2> HIDE DEF on
  <2>6. Others' = {on[k] : k \in DOMAIN unnamed'}
    <3>1. \A k \in 1 .. n + 1 : k \in 1 .. n \/ k = n + 1
      BY <2>3
    <3>2. n + 1 \in 1 .. n + 1 /\ \A k \in 1 .. n : k \in 1 .. n + 1
      BY <2>3
    <3> QED
      BY <2>1, <2>2, <2>3, <2>4, <2>5, <3>1, <3>2
  <2>7. Others \subseteq 1 .. read
    BY DEF Others
  <2>8. \A k \in DOMAIN unnamed' : unnamed'[k] = args'[on[k]] /\ \A j \in 1 .. k - 1 : on[j] < on[k]
    <3> TAKE k \in DOMAIN unnamed'
    <3>1. CASE k \in 1 .. n
      <4>1. \A j \in 1 .. k - 1 : j \in 1 .. n
        BY <2>3, <3>1
      <4> QED
        BY <1>1, <2>2, <2>3, <2>4, <2>5, <3>1, <4>1
    <3>2. CASE k = n + 1
      <4>1. \A j \in 1 .. k - 1 : j \in 1 .. n
        BY <2>3, <3>2
      <4>2. \A i \in 1 .. read : i < read + 1
        BY <1>3
      <4>3. \A j \in 1 .. n : on[j] \in 1 .. read
        BY <2>5, <2>7
      <4> QED
        BY <1>1, <2>4, <2>5, <3>2, <4>1, <4>2, <4>3
    <3> QED
      BY <2>3, <2>4, <3>1, <3>2
  <2> QED
    BY <2>5, <2>6, <2>8 DEF UnnamedAreTheOthers
<1>9. Parsed'
  <2>1. PICK i : i = read + 1
    OBVIOUS
  <2>2. ~Takes(args[i])'
    BY <1>3, <1>4, <2>1 DEF Takes
  <2>3. read' = i /\ pending' = None
    BY <1>1, <2>1
  <2> QED
    BY <1>7, <1>8, <2>2, <2>3 DEF Parsed
<1> QED
  BY <1>5, <1>6, <1>9 DEF LineInv

LEMMA ReadFlagKeeps ==
  ASSUME LineInv, ReadFlag
  PROVE  LineInv'
<1> DEFINE given == NameIn(args[read + 1])
<1>1. /\ parse = "reading" /\ read < Len(args) /\ pending = None /\ given # None
      /\ IF flags[given].type = "bool"
         THEN flags' = [flags EXCEPT ![given].value = TRUE] /\ UNCHANGED pending
         ELSE pending' = given /\ UNCHANGED flags
      /\ read' = read + 1
      /\ UNCHANGED <<shortToLong, unnamed, args, parse>>
  BY Zenon DEF ReadFlag
<1>2. PICK flag : flag = given
  OBVIOUS
<1>3. flag \in DOMAIN flags /\ args[read + 1].kind # "plain" /\ flag # None
  BY <1>1, <1>2, NameInIs
<1> HIDE DEF given
<1>4. /\ flags' = [name \in DOMAIN flags' |-> flags'[name]] /\ DOMAIN flags' = DOMAIN flags
      /\ \A name \in DOMAIN flags : name # flag => flags'[name] = flags[name]
      /\ flags[flag].type # "bool" => flags' = flags
      /\ flags[flag].type = "bool" => flags'[flag] = [flags[flag] EXCEPT !.value = TRUE]
  BY <1>1, <1>2, <1>3 DEF LineInv, LineTypes
<1>5. /\ flags'[flag].type = flags[flag].type
      /\ flags'[flag] = [type |-> flags'[flag].type, value |-> flags'[flag].value]
      /\ flags[flag].type = "bool" => flags'[flag].value = TRUE
  BY <1>3, <1>4 DEF LineInv, LineTypes
<1>6. OneMore
  BY <1>1, <1>4, <1>5 DEF OneMore
<1>7. /\ read \in Nat /\ read + 1 \in 1 .. Len(args) /\ args[read + 1] \in Arguments
      /\ \A i \in 1 .. read + 1 : NameIn(args[i])' = NameIn(args[i]) /\ (Takes(args[i])' <=> Takes(args[i]))
      /\ IsValue'[read + 1] <=> pending # None
  BY <1>6, ReadingOn
<1>8. PICK i : i = read + 1
  OBVIOUS
<1>9. NameIn(args[i])' = flag /\ (Takes(args[i])' <=> flags[flag].type # "bool") /\ ~IsValue'[i] /\ i = read'
  BY <1>1, <1>2, <1>3, <1>7, <1>8 DEF given, Takes
<1>10. LineTypes' /\ LettersLead' /\ NothingRead'
  BY <1>1, <1>3, <1>4, <1>5, <1>7 DEF LineInv, LineTypes, LettersLead, NothingRead, Exists
<1>11. Understood'
  <2>1. pending' # None => pending' = flag
    BY <1>1, <1>2
  <2>2. \A k \in 1 .. read' : ~IsValue'[k] /\ args'[k].kind # "plain" => NameIn(args[k])' # None
    BY <1>1, <1>6, UnderstandsOneMore DEF given
  <2> QED
    BY <1>3, <1>4, <1>9, <2>1, <2>2 DEF Understood
<1>12. ASSUME NEW name \in DOMAIN flags'
       PROVE  HasItsValue(name)'
  <2>1. name \in DOMAIN flags /\ name # None
    BY <1>4 DEF LineInv, LineTypes
  <2>2. CASE name # flag \/ flags[name].type # "bool"
    <3>1. flags'[name] = flags[name]
      BY <1>4, <2>1, <2>2
    <3>2. flags[name].type = "bool" => ~(pending = None /\ NameIn(args[read + 1]) = name)
      BY <1>2, <2>2 DEF given
    <3> QED
      BY <1>1, <1>6, <2>1, <3>1, <3>2, OtherFlagsKeep
  <2>3. CASE name = flag /\ flags[name].type = "bool"
    <3>1. Mentions(name)' = Mentions(name) \cup {read + 1}
      BY <1>1, <1>2, <1>6, <2>1, <2>3, MentionsGrow DEF given
    <3>2. Mentions(name)' # {}
      BY <3>1
    <3>3. flags'[name].type = "bool" /\ flags'[name].value = TRUE
      BY <1>5, <2>3
    <3> QED
      BY <3>2, <3>3 DEF HasItsValue
  <2> QED
    BY <2>2, <2>3
<1>13. UnnamedAreTheOthers'
  BY <1>1, <1>3, <1>6, UnnamedKeep
<1>14. Parsed'
  <2>1. pending' # None <=> flags[flag].type # "bool"
    BY <1>1, <1>2, <1>3
  <2>2. read' > 0
    BY <1>1, <1>7
  <2> QED
    BY <1>9, <1>12, <1>13, <2>1, <2>2 DEF Parsed
<1> QED
  BY <1>10, <1>11, <1>14 DEF LineInv

(* What only changes whether there is more to read. *)
LEMMA StoppingKeeps ==
  ASSUME LineInv, parse # "before", parse' # "before",
         UNCHANGED <<flags, shortToLong, unnamed, args, pending, read>>
  PROVE  LineInv'
<1>1. /\ LineTypes' /\ LettersLead' /\ NothingRead'
  BY DEF LineInv, LineTypes, LettersLead, NothingRead, Exists
<1>2. \A a : NameIn(a)' = NameIn(a) /\ (Takes(a)' = Takes(a))
  BY DEF NameIn, Takes, Exists
<1>3. IsValue' = IsValue
  BY <1>2 DEF IsValue
<1>4. Understood'
  BY <1>2, <1>3 DEF LineInv, Understood
<1>5. Parsed'
  <2>1. \A name : Mentions(name)' = Mentions(name) /\ Given(name)' = Given(name)
    BY <1>2, <1>3 DEF Mentions, Given
  <2>2. Others' = Others
    BY <1>3 DEF Others
  <2> QED
    BY <1>2, <1>3, <2>1, <2>2 DEF LineInv, Parsed, HasItsValue, UnnamedAreTheOthers
<1> QED
  BY <1>1, <1>4, <1>5 DEF LineInv

LEMMA ParseKeeps ==
  ASSUME LineInv, Parse
  PROVE  LineInv'
<1>1. CASE StartParsing
  BY <1>1, StartKeeps
<1>2. CASE ReadValue
  BY <1>2, ReadValueKeeps
<1>3. CASE ReadUnnamed
  BY <1>3, ReadUnnamedKeeps
<1>4. CASE ReadFlag
  BY <1>4, ReadFlagKeeps
<1>5. CASE RefuseArgument
  BY <1>5, StoppingKeeps DEF RefuseArgument
<1>6. CASE ReadBeyond
  BY <1>6, StoppingKeeps DEF ReadBeyond
<1>7. CASE EndParsing
  BY <1>7, StoppingKeeps DEF EndParsing
<1> QED
  BY <1>1, <1>2, <1>3, <1>4, <1>5, <1>6, <1>7 DEF Parse

LEMMA LineUnchanged ==
  ASSUME LineInv, UNCHANGED lineVars
  PROVE  LineInv'
<1>1. UNCHANGED <<flags, shortToLong, unnamed, args, pending, read, parse>>
  BY DEF lineVars
<1>2. CASE parse = "before"
  BY <1>1, <1>2 DEF LineInv, LineTypes, LettersLead, NothingRead, Exists
<1>3. CASE parse # "before"
  BY <1>1, <1>3, StoppingKeeps
<1> QED
  BY <1>2, <1>3

-----------------------------------------------------------------------------
(* From main to the loop. *)

(* Only eins goes on behind the parsing, and the loop runs when all the    *)
(* steps before it are done.                                               *)
Stages ==
  /\ program \in {"eins", "test"} /\ (program = "test" => stage = "core_init")
  /\ os_loop # "before" <=> stage = "os_loop"
  /\ m_gpu \in BOOLEAN /\ (m_gpu <=> os_loop # "before")
  /\ program = "eins" /\ stage \in {"core_init", "parse"} => parse \in {"before", "reading", "beyond"}
  /\ program = "eins" /\ stage \notin {"core_init", "parse"} => parse \in {"true", "false"}

(* eins has one flag, without a letter. *)
OneFlag ==
  program = "eins" =>
    /\ stage = "core_init" => parse = "before" /\ DOMAIN flags = {}
    /\ stage # "core_init" => DOMAIN flags = {"gpu"} /\ flags["gpu"].type = "string"
    /\ DOMAIN shortToLong = {}

GpuChosen ==
  /\ stage \in {"view", "os_loop"} /\ broken = "no" =>
       gpu = IF GetFlagValue("gpu") = Dx12 THEN "d3d12" ELSE "vulkan"
  /\ stage = "os_loop" => broken = "no"

MainInv == Stages /\ OneFlag /\ GpuChosen /\ SizeFollows

(* Reading keeps the names and types of the flags. *)
LEMMA ParseTypes ==
  ASSUME LineInv, Parse
  PROVE  /\ DOMAIN flags' = DOMAIN flags /\ shortToLong' = shortToLong
         /\ \A name \in DOMAIN flags : flags'[name].type = flags[name].type
         /\ parse \in {"before", "reading"} /\ parse' \in {"reading", "true", "false", "beyond"}
<1>1. CASE StartParsing \/ ReadUnnamed \/ RefuseArgument \/ ReadBeyond \/ EndParsing
  BY <1>1 DEF StartParsing, ReadUnnamed, RefuseArgument, ReadBeyond, EndParsing
<1>2. ASSUME NEW name \in DOMAIN flags, NEW value,
             flags' = [flags EXCEPT ![name].value = value]
      PROVE  DOMAIN flags' = DOMAIN flags /\ \A n \in DOMAIN flags : flags'[n].type = flags[n].type
  <2>1. \A n \in DOMAIN flags : flags[n] = [type |-> flags[n].type, value |-> flags[n].value]
    BY DEF LineInv, LineTypes
  <2>2. flags'[name] = [flags[name] EXCEPT !.value = value]
        /\ \A n \in DOMAIN flags : n # name => flags'[n] = flags[n]
    BY <1>2
  <2>3. flags'[name].type = flags[name].type
    BY <2>1, <2>2
  <2> QED
    BY <1>2, <2>2, <2>3
<1>3. CASE ReadValue
  <2>1. pending \in DOMAIN flags
    BY <1>3 DEF ReadValue, LineInv, Understood
  <2> QED
    BY <1>2, <1>3, <2>1 DEF ReadValue
<1>4. CASE ReadFlag
  <2>1. PICK name : /\ name = NameIn(args[read + 1]) /\ name # None
                    /\ flags' = [flags EXCEPT ![name].value = TRUE] \/ UNCHANGED flags
                    /\ parse = "reading" /\ UNCHANGED <<shortToLong, parse>>
    BY <1>4, Zenon DEF ReadFlag
  <2>2. name \in DOMAIN flags
    BY <2>1, NameInIs
  <2> QED
    BY <1>2, <2>1, <2>2
<1> QED
  BY <1>1, <1>3, <1>4 DEF Parse

(* What the window does, as far as eins' main looks at it. *)
LEMMA InputSizes ==
  ASSUME Input, MainInv, os_loop # "before"
  PROVE  UNCHANGED <<m_gpu, os_loop>> /\ SizeFollows'
<1>1. CASE \E width \in Sizes, plain \in BOOLEAN : IsResized(width, plain)
  <2>1. PICK width \in Sizes, plain \in BOOLEAN : IsResized(width, plain)
    BY <1>1
  <2> QED
    BY <2>1 DEF IsResized, on_resized, MainInv, Stages, SizeFollows, fixedVars
<1>2. CASE ~ \E width \in Sizes, plain \in BOOLEAN : IsResized(width, plain)
  <2>1. UNCHANGED <<m_gpu, os_loop, m_width, proj, size, plainSize>>
    BY <1>2 DEF Input, UsesKey, LosesKey, UsesButton, LosesButton, TurnsWheel, MovesCursor, ClosesWindow,
                DoesInput, windowVars, camVars, fixedVars
  <2> QED
    BY <2>1 DEF MainInv, SizeFollows
<1> QED
  BY <1>1, <1>2

LEMMA OsLoopSizes ==
  ASSUME OsLoop, MainInv
  PROVE  UNCHANGED m_gpu /\ os_loop # "before" /\ os_loop' # "before" /\ SizeFollows'
<1>1. /\ UNCHANGED <<m_gpu, m_width, proj, size, plainSize>>
      /\ os_loop \in {"runs", "quits"} /\ os_loop' \in {"runs", "quits", "ended"}
  BY DEF OsLoop, HandleKey, HandleButton, HandleMotion, HandleClose, DrawFrame, Quit, Handles,
         userVars, windowVars, camVars, fixedVars
<1> QED
  BY <1>1 DEF MainInv, SizeFollows

LEMMA MainKeeps ==
  ASSUME LineInv, MainInv, Next
  PROVE  LineInv' /\ MainInv'
<1>1. CASE CoreInit
  <2>1. /\ program = "eins" /\ stage = "core_init" /\ stage' = "parse"
        /\ Register(None, "gpu", "string", TRUE)
        /\ UNCHANGED <<windowAll, program, gpu, broken>>
    BY <1>1 DEF CoreInit
  <2>2. parse = "before" /\ DOMAIN flags = {} /\ DOMAIN shortToLong = {}
    BY <2>1 DEF MainInv, OneFlag
  <2>3. LineInv'
    BY <2>1, <2>2, RegisterKeeps
  <2>4. /\ flags' = With(flags, "gpu", NewValue("string"))
        /\ shortToLong' = shortToLong /\ parse' = parse
    BY <2>1, <2>2, EinsAssumption DEF Register, Exists
  <2>5. DOMAIN flags' = {"gpu"} /\ flags'["gpu"] = NewValue("string")
    BY <2>2, <2>4 DEF With
  <2>6. flags'["gpu"].type = "string"
    BY <2>5 DEF NewValue
  <2> QED
    BY <2>1, <2>2, <2>3, <2>4, <2>5, <2>6
    DEF MainInv, Stages, OneFlag, GpuChosen, SizeFollows, windowAll, userVars, windowVars, camVars, fixedVars
<1>2. CASE RegisterAny
  <2>1. PICK r \in Registrations : Register(r.short, r.long, r.type, r.wellFormed)
    BY <1>2 DEF RegisterAny
  <2>2. program = "test" /\ parse = "before" /\ UNCHANGED <<windowAll, mainVars>>
    BY <1>2 DEF RegisterAny
  <2>3. LineInv'
    BY <2>1, <2>2, RegisterKeeps
  <2> QED
    BY <2>2, <2>3
    DEF MainInv, Stages, OneFlag, GpuChosen, SizeFollows, windowAll, userVars, windowVars, camVars, fixedVars, mainVars
<1>3. CASE ParseArguments
  <2>1. /\ program = "test" \/ stage = "parse"
        /\ Parse
        /\ stage' = IF program = "eins" /\ parse' \in {"true", "false"} THEN "window" ELSE stage
        /\ UNCHANGED <<windowAll, program, gpu>>
    BY <1>3 DEF ParseArguments
  <2>2. LineInv'
    BY <2>1, ParseKeeps
  <2>3. /\ DOMAIN flags' = DOMAIN flags /\ shortToLong' = shortToLong
        /\ \A name \in DOMAIN flags : flags'[name].type = flags[name].type
        /\ parse \in {"before", "reading"} /\ parse' \in {"reading", "true", "false", "beyond"}
    BY <2>1, ParseTypes
  <2>4. UNCHANGED <<program, gpu, os_loop, m_gpu, proj, m_width, plainSize, size>>
    BY <2>1 DEF windowAll, userVars, windowVars, camVars, fixedVars
  <2>5. Stages'
    BY <2>1, <2>3, <2>4 DEF MainInv, Stages
  <2>6. OneFlag'
    BY <2>1, <2>3, <2>4 DEF MainInv, Stages, OneFlag
  <2>7. GpuChosen' /\ SizeFollows'
    BY <2>1, <2>4 DEF MainInv, Stages, GpuChosen, SizeFollows
  <2> QED
    BY <2>2, <2>5, <2>6, <2>7 DEF MainInv
<1>4. CASE OpenWindow
  <2>1. LineInv'
    BY <1>4, LineUnchanged DEF OpenWindow
  <2> QED
    BY <1>4, <2>1
    DEF OpenWindow, MainInv, Stages, OneFlag, GpuChosen, SizeFollows, lineVars,
        windowAll, userVars, windowVars, camVars, fixedVars
<1>5. CASE GpuInit
  <2>1. LineInv'
    BY <1>5, LineUnchanged DEF GpuInit
  <2>2. /\ stage = "gpu" /\ stage' = "view"
        /\ gpu' = IF GetFlagValue("gpu") = Dx12
                  THEN (IF platform = "win" THEN "d3d12" ELSE None) ELSE "vulkan"
        /\ broken' \in IF gpu' = None THEN {"no GPU"} ELSE {"no", "no device"}
        /\ UNCHANGED <<lineVars, windowAll, program>>
    BY <1>5 DEF GpuInit
  <2>3. GetFlagValue("gpu")' = GetFlagValue("gpu")
    BY <2>2 DEF GetFlagValue, Exists, lineVars
  <2>4. GpuChosen'
    BY <2>2, <2>3 DEF GpuChosen
  <2> QED
    BY <2>1, <2>2, <2>4
    DEF MainInv, Stages, OneFlag, SizeFollows, lineVars, windowAll, userVars, windowVars, camVars, fixedVars
<1>6. CASE StartLoop
  <2>1. LineInv'
    BY <1>6, LineUnchanged DEF StartLoop
  <2>2. /\ stage = "view" /\ broken = "no" /\ stage' = "os_loop" /\ os_loop' = "runs"
        /\ m_gpu' = TRUE /\ proj' = m_width /\ UNCHANGED <<m_width, size, plainSize>>
        /\ UNCHANGED <<lineVars, program, gpu, broken>>
    BY <1>6 DEF StartLoop, InitView, userVars, windowVars
  <2>3. GetFlagValue("gpu")' = GetFlagValue("gpu")
    BY <2>2 DEF GetFlagValue, Exists, lineVars
  <2> QED
    BY <2>1, <2>2, <2>3 DEF MainInv, Stages, OneFlag, GpuChosen, SizeFollows, lineVars
<1>7. CASE ResizeEarly
  <2>1. PICK width \in Sizes, plain \in BOOLEAN : IsResized(width, plain)
    BY <1>7 DEF ResizeEarly
  <2>2. stage \in {"gpu", "view"} /\ broken = "no" /\ UNCHANGED <<lineVars, program, stage, gpu>>
    BY <1>7 DEF ResizeEarly
  <2>3. LineInv'
    BY <2>2, LineUnchanged
  <2>4. GetFlagValue("gpu")' = GetFlagValue("gpu")
    BY <2>2 DEF GetFlagValue, Exists, lineVars
  <2>5. UNCHANGED <<os_loop, m_gpu>>
    BY <2>1 DEF IsResized, fixedVars
  <2>6. SizeFollows'
    BY <2>1, <2>2 DEF IsResized, on_resized, MainInv, Stages, SizeFollows
  <2> QED
    BY <2>2, <2>3, <2>4, <2>5, <2>6 DEF MainInv, Stages, OneFlag, GpuChosen, lineVars
<1>8. CASE Input /\ stage = "os_loop" /\ Elsewhere
  <2>1. UNCHANGED <<lineVars, mainVars>>
    BY <1>8 DEF Elsewhere
  <2>2. LineInv'
    BY <2>1, LineUnchanged
  <2>3. os_loop # "before"
    BY <1>8 DEF MainInv, Stages
  <2>4. UNCHANGED <<m_gpu, os_loop>> /\ SizeFollows'
    BY <1>8, <2>3, InputSizes
  <2>5. GetFlagValue("gpu")' = GetFlagValue("gpu")
    BY <2>1 DEF GetFlagValue, Exists, lineVars
  <2> QED
    BY <2>1, <2>2, <2>4, <2>5 DEF MainInv, Stages, OneFlag, GpuChosen, lineVars, mainVars
<1>9. CASE OsLoop /\ Elsewhere
  <2>1. UNCHANGED <<lineVars, mainVars>>
    BY <1>9 DEF Elsewhere
  <2>2. LineInv'
    BY <2>1, LineUnchanged
  <2>3. UNCHANGED m_gpu /\ os_loop # "before" /\ os_loop' # "before" /\ SizeFollows'
    BY <1>9, OsLoopSizes
  <2>4. GetFlagValue("gpu")' = GetFlagValue("gpu")
    BY <2>1 DEF GetFlagValue, Exists, lineVars
  <2> QED
    BY <2>1, <2>2, <2>3, <2>4 DEF MainInv, Stages, OneFlag, GpuChosen, lineVars, mainVars
<1> QED
  BY <1>1, <1>2, <1>3, <1>4, <1>5, <1>6, <1>7, <1>8, <1>9 DEF Next

LEMMA MainInit ==
  ASSUME Init
  PROVE  LineInv /\ MainInv
<1>1. /\ flags = <<>> /\ shortToLong = <<>> /\ unnamed = <<>> /\ args = <<>>
      /\ pending = None /\ read = 0 /\ parse = "before" /\ stage = "core_init"
  BY DEF Init, InitLine
<1>2. LineTypes
  <2>1. flags = [name \in {} |-> 0] /\ args \in Seq(Arguments) /\ unnamed \in Seq(Arguments)
    BY <1>1
  <2> QED
    BY <1>1, <2>1 DEF LineTypes
<1>3. LineInv
  BY <1>1, <1>2 DEF LineInv, LettersLead, NothingRead
<1>4. MainInv
  <2>1. DOMAIN flags = {} /\ DOMAIN shortToLong = {}
    BY <1>1
  <2>2. /\ program \in {"eins", "test"} /\ os_loop = "before" /\ m_gpu = FALSE
        /\ m_width = Width /\ size = Width
    BY DEF Init, InitWindow
  <2> QED
    BY <1>1, <2>1, <2>2 DEF MainInv, Stages, OneFlag, GpuChosen, SizeFollows
<1> QED
  BY <1>3, <1>4

LEMMA MainStutters ==
  ASSUME LineInv, MainInv, UNCHANGED vars
  PROVE  LineInv' /\ MainInv'
<1>1. UNCHANGED <<lineVars, program, stage, gpu, broken, m_gpu, os_loop, proj, m_width, plainSize, size>>
  BY DEF vars, windowAll, userVars, windowVars, camVars, fixedVars, mainVars
<1>2. LineInv'
  BY <1>1, LineUnchanged
<1>3. GetFlagValue("gpu")' = GetFlagValue("gpu")
  BY <1>1 DEF GetFlagValue, Exists, lineVars
<1> QED
  BY <1>1, <1>2, <1>3 DEF MainInv, Stages, OneFlag, GpuChosen, SizeFollows, lineVars

(* The program chooses its GPU by what the command line says. *)
LEMMA ChosenAsAsked ==
  ASSUME LineInv, MainInv
  PROVE  BackendAsAsked
<1> DEFINE asked == {i \in 2 .. read : ~IsValue[i - 1] /\ args[i - 1] = [kind |-> "long", name |-> "gpu"]}
           G == Given("gpu")
<1> SUFFICES ASSUME os_loop # "before"
             PROVE  gpu = IF asked # {} /\ args[Max(asked)] = Dx12 THEN "d3d12" ELSE "vulkan"
  BY Zenon DEF BackendAsAsked
<1>1. /\ stage = "os_loop" /\ program = "eins" /\ parse \in {"true", "false"}
      /\ DOMAIN flags = {"gpu"} /\ flags["gpu"].type = "string" /\ DOMAIN shortToLong = {}
      /\ gpu = IF flags["gpu"].value = Dx12 THEN "d3d12" ELSE "vulkan"
  BY DEF MainInv, Stages, OneFlag, GpuChosen, GetFlagValue, Exists
<1>2. read \in Nat /\ \A i \in 1 .. read : args[i] \in Arguments
  BY ElementOfSeq, LenProperties DEF LineInv, LineTypes
<1>3. flags["gpu"].value = IF G = {} THEN None ELSE args[Max(G) + 1]
  BY <1>1 DEF LineInv, Parsed, HasItsValue
<1>4. \A i \in 1 .. read : NameIn(args[i]) = "gpu" <=> args[i] = [kind |-> "long", name |-> "gpu"]
  <2> TAKE i \in 1 .. read
  <2>1. PICK a : a = args[i]
    OBVIOUS
  <2>2. a = [kind |-> a.kind, name |-> a.name]
    BY <1>2, <2>1, ArgumentsAssumption
  <2>3. NameIn(a) = "gpu" <=> a.kind = "long" /\ a.name = "gpu"
    BY <1>1, EinsAssumption DEF NameIn, Exists
  <2> QED
    BY <2>1, <2>2, <2>3
<1>5. /\ \A m \in G : m \in 1 .. read - 1 /\ m + 1 \in asked
      /\ \A i \in asked : i - 1 \in G
  <2>1. \A m : m \in G <=> m \in 1 .. read /\ m < read /\ ~IsValue[m] /\ NameIn(args[m]) = "gpu"
    BY DEF Given, Mentions
  <2>2. ASSUME NEW m \in G
        PROVE  m \in 1 .. read - 1 /\ m + 1 \in asked
    <3>1. m \in 1 .. read /\ m < read /\ ~IsValue[m] /\ args[m] = [kind |-> "long", name |-> "gpu"]
      BY <1>4, <2>1
    <3>2. m + 1 \in 2 .. read /\ (m + 1) - 1 = m /\ m \in 1 .. read - 1
      BY <1>2, <3>1
    <3> QED
      BY <3>1, <3>2
  <2>3. ASSUME NEW i \in asked
        PROVE  i - 1 \in G
    <3>1. i \in 2 .. read /\ ~IsValue[i - 1] /\ args[i - 1] = [kind |-> "long", name |-> "gpu"]
      OBVIOUS
    <3>2. i - 1 \in 1 .. read /\ i - 1 < read
      BY <1>2, <3>1
    <3> QED
      BY <1>4, <2>1, <3>1, <3>2
  <2> QED
    BY <2>2, <2>3
<1>6. asked \subseteq 2 .. read
  OBVIOUS
<1> HIDE DEF asked, G
<1>7. CASE G = {}
  BY <1>1, <1>3, <1>5, <1>7, EinsAssumption
<1>8. CASE G # {}
  <2>1. PICK g \in G : \A m \in G : m <= g
    <3>1. G \subseteq 1 .. read
      BY <1>2, <1>5
    <3> QED
      BY <1>2, <1>8, <3>1, GreatestNatural
  <2>2. Max(G) = g
    <3>1. G \subseteq Int
      BY <1>2, <1>5
    <3> QED
      BY <2>1, <3>1, MaxIs
  <2>3. g + 1 \in asked /\ g \in Nat
    BY <1>2, <1>5
  <2>4. \A i \in asked : i <= g + 1
    <3> TAKE i \in asked
    <3>1. i - 1 <= g /\ i \in Nat
      BY <1>2, <1>5, <1>6, <2>1
    <3> QED
      BY <2>3, <3>1
  <2>5. Max(asked) = g + 1
    <3>1. asked \subseteq Int
      BY <1>2, <1>6
    <3> QED
      BY <2>3, <2>4, <3>1, MaxIs
  <2> QED
    BY <1>1, <1>3, <1>8, <2>2, <2>3, <2>5
<1> QED
  BY <1>7, <1>8

-----------------------------------------------------------------------------
(* What the window will have noted when it has handled a queue of events.  *)
Noticed == Buttons \cup {"none"}

Occurrences ==
  [kind : {"key"}, key : Keys, down : BOOLEAN] \cup [kind : {"button"}, button : Noticed, down : BOOLEAN, x : Int]
  \cup [kind : {"motion"}, x : Int] \cup [kind : {"close"}]

LEMMA OccurrencesAre ==
  /\ \A e \in Occurrences :
       \/ e.kind = "key" /\ e.key \in Keys /\ e.down \in BOOLEAN
       \/ e.kind = "button" /\ e.button \in Noticed /\ e.down \in BOOLEAN /\ e.x \in Int
       \/ e.kind = "motion" /\ e.x \in Int
       \/ e.kind = "close"
  /\ \A k \in Keys, down \in BOOLEAN : Key(k, down) \in Occurrences
  /\ \A x \in Int : Motion(x) \in Occurrences
  /\ Close \in Occurrences
  /\ cursor \in Int => \A b \in Noticed, down \in BOOLEAN : Button(b, down) \in Occurrences
<1>1. \A e \in Occurrences :
       \/ e.kind = "key" /\ e.key \in Keys /\ e.down \in BOOLEAN
       \/ e.kind = "button" /\ e.button \in Noticed /\ e.down \in BOOLEAN /\ e.x \in Int
       \/ e.kind = "motion" /\ e.x \in Int
       \/ e.kind = "close"
  BY DEF Occurrences
<1>2. \A k \in Keys, down \in BOOLEAN : Key(k, down) \in Occurrences
  BY DEF Occurrences, Key
<1>3. \A x \in Int : Motion(x) \in Occurrences
  BY DEF Occurrences, Motion
<1>4. Close \in Occurrences
  BY DEF Occurrences, Close
<1>5. cursor \in Int => \A b \in Noticed, down \in BOOLEAN : Button(b, down) \in Occurrences
  BY DEF Occurrences, Button
<1> QED
  BY <1>1, <1>2, <1>3, <1>4, <1>5

(* What is noted and what the camera has done, as far as the properties    *)
(* look at it: left and middle are m_old_mouse of these buttons, and met   *)
(* is whether both were down at the same time (or may have been).          *)
States ==
  [mouse : SUBSET Noticed, keys : SUBSET {"w", "none"}, left : Int, middle : Int, turned : Int, orbited : Int,
   met : BOOLEAN]

Together(mouse) == "left" \in mouse /\ "middle" \in mouse

MouseAfter(e, p) ==
  IF e.kind # "button" THEN p.mouse
  ELSE IF IsDown(e) THEN p.mouse \cup {ButtonOf(e.button)} ELSE p.mouse \ {ButtonOf(e.button)}

KeysAfter(e, p) ==
  IF e.kind # "key" THEN p.keys
  ELSE IF e.down \/ platform = "x11" THEN p.keys \cup {KeyOf(e.key)} ELSE p.keys \ {KeyOf(e.key)}

(* Whether a motion is noted for a button.                                 *)
IsFollowed(b, mouse) == IF platform = "win" THEN "left" \notin mouse ELSE b \in mouse

OldAfter(e, p, b, old) ==
  IF \/ e.kind = "button" /\ ButtonOf(e.button) = b
     \/ e.kind = "motion" /\ IsFollowed(b, p.mouse)
  THEN e.x ELSE old

MovedAfter(e, p, b, old, moved) ==
  IF e.kind = "motion" /\ b \in p.mouse THEN moved + (old - e.x) ELSE moved

After(e, p) ==
  [mouse |-> MouseAfter(e, p), keys |-> KeysAfter(e, p),
   left |-> OldAfter(e, p, "left", p.left), middle |-> OldAfter(e, p, "middle", p.middle),
   turned |-> MovedAfter(e, p, "left", p.left, p.turned),
   orbited |-> MovedAfter(e, p, "middle", p.middle, p.orbited),
   met |-> p.met \/ Together(MouseAfter(e, p))]

LEMMA AfterIs ==
  ASSUME NEW e, NEW p, NEW s, s = After(e, p)
  PROVE  /\ s.mouse = MouseAfter(e, p) /\ s.keys = KeysAfter(e, p)
         /\ s.left = OldAfter(e, p, "left", p.left) /\ s.middle = OldAfter(e, p, "middle", p.middle)
         /\ s.turned = MovedAfter(e, p, "left", p.left, p.turned)
         /\ s.orbited = MovedAfter(e, p, "middle", p.middle, p.orbited)
         /\ s.met = (p.met \/ Together(s.mouse))
  BY DEF After

ButtonsDiffer ==
  \A b, c \in Noticed : ButtonOf(b) = ButtonOf(c) => b = c

LEMMA ButtonsAre ==
  ASSUME platform \in {"x11", "win"}
  PROVE  /\ ButtonsDiffer /\ ButtonOf("left") = "left"
         /\ \A b \in Noticed : ButtonOf(b) \in Noticed /\ (ButtonOf(b) = "left" <=> b = "left")
         /\ \A b \in Noticed : ButtonOf(b) = "middle" <=> b = (IF platform = "win" THEN "middle" ELSE "right")
  BY DEF ButtonsDiffer, ButtonOf, Buttons, Noticed

(* A key or the close button.                                              *)
LEMMA AfterKey ==
  ASSUME NEW e, e.kind \in {"key", "close"}, NEW p, NEW s, s = After(e, p)
  PROVE  /\ s.mouse = p.mouse /\ s.keys = KeysAfter(e, p) /\ s.left = p.left /\ s.middle = p.middle
         /\ s.turned = p.turned /\ s.orbited = p.orbited /\ s.met = (p.met \/ Together(p.mouse))
<1>1. s.mouse = p.mouse
  BY AfterIs DEF MouseAfter
<1>2. s.left = p.left /\ s.middle = p.middle
  BY AfterIs DEF OldAfter
<1>3. s.turned = p.turned /\ s.orbited = p.orbited
  BY AfterIs DEF MovedAfter
<1> QED
  BY <1>1, <1>2, <1>3, AfterIs

LEMMA AfterButton ==
  ASSUME NEW e, e.kind = "button", NEW p, NEW s, s = After(e, p)
  PROVE  /\ s.mouse = IF IsDown(e) THEN p.mouse \cup {ButtonOf(e.button)} ELSE p.mouse \ {ButtonOf(e.button)}
         /\ s.keys = p.keys /\ s.turned = p.turned /\ s.orbited = p.orbited
         /\ s.left = IF ButtonOf(e.button) = "left" THEN e.x ELSE p.left
         /\ s.middle = IF ButtonOf(e.button) = "middle" THEN e.x ELSE p.middle
         /\ s.met = (p.met \/ Together(s.mouse))
<1>1. s.mouse = IF IsDown(e) THEN p.mouse \cup {ButtonOf(e.button)} ELSE p.mouse \ {ButtonOf(e.button)}
  <2>1. s.mouse = MouseAfter(e, p)
    BY AfterIs
  <2> QED
    BY <2>1, Zenon DEF MouseAfter
<1>2. s.keys = p.keys
  <2>1. s.keys = KeysAfter(e, p)
    BY AfterIs
  <2> QED
    BY <2>1, Zenon DEF KeysAfter
<1>3. /\ s.left = IF ButtonOf(e.button) = "left" THEN e.x ELSE p.left
      /\ s.middle = IF ButtonOf(e.button) = "middle" THEN e.x ELSE p.middle
  BY AfterIs DEF OldAfter
<1>4. s.turned = p.turned /\ s.orbited = p.orbited
  BY AfterIs DEF MovedAfter
<1> QED
  BY <1>1, <1>2, <1>3, <1>4, AfterIs

LEMMA AfterMotion ==
  ASSUME NEW e, e.kind = "motion", NEW p, NEW s, s = After(e, p)
  PROVE  /\ s.mouse = p.mouse /\ s.keys = p.keys /\ s.met = (p.met \/ Together(p.mouse))
         /\ s.turned = IF "left" \in p.mouse THEN p.turned + (p.left - e.x) ELSE p.turned
         /\ s.orbited = IF "middle" \in p.mouse THEN p.orbited + (p.middle - e.x) ELSE p.orbited
         /\ s.left = IF IsFollowed("left", p.mouse) THEN e.x ELSE p.left
         /\ s.middle = IF IsFollowed("middle", p.mouse) THEN e.x ELSE p.middle
<1>1. s.mouse = p.mouse /\ s.keys = p.keys
  <2>1. s.mouse = MouseAfter(e, p) /\ s.keys = KeysAfter(e, p)
    BY AfterIs
  <2> QED
    BY <2>1, Zenon DEF MouseAfter, KeysAfter
<1>2. /\ s.left = IF IsFollowed("left", p.mouse) THEN e.x ELSE p.left
      /\ s.middle = IF IsFollowed("middle", p.mouse) THEN e.x ELSE p.middle
  BY AfterIs DEF OldAfter
<1>3. /\ s.turned = IF "left" \in p.mouse THEN p.turned + (p.left - e.x) ELSE p.turned
      /\ s.orbited = IF "middle" \in p.mouse THEN p.orbited + (p.middle - e.x) ELSE p.orbited
  BY AfterIs DEF MovedAfter
<1> QED
  BY <1>1, <1>2, <1>3, AfterIs

LEMMA StatesAre ==
  ASSUME NEW s
  PROVE  s \in States <=>
           /\ s = [mouse |-> s.mouse, keys |-> s.keys, left |-> s.left, middle |-> s.middle, turned |-> s.turned,
                   orbited |-> s.orbited, met |-> s.met]
           /\ s.mouse \subseteq Noticed /\ s.keys \subseteq {"w", "none"} /\ s.left \in Int /\ s.middle \in Int
           /\ s.turned \in Int /\ s.orbited \in Int /\ s.met \in BOOLEAN
  BY DEF States

LEMMA AfterIsAState ==
  ASSUME platform \in {"x11", "win"}, NEW e \in Occurrences, NEW p \in States
  PROVE  After(e, p) \in States
<1>1. PICK s : s = After(e, p)
  OBVIOUS
<1>2. s = [mouse |-> s.mouse, keys |-> s.keys, left |-> s.left, middle |-> s.middle, turned |-> s.turned,
           orbited |-> s.orbited, met |-> s.met]
  BY <1>1 DEF After
<1>3. s.met \in BOOLEAN
  <2>1. s.met = (p.met \/ Together(s.mouse))
    BY <1>1, AfterIs
  <2> QED
    BY <2>1, Zenon
<1>4. /\ p.mouse \subseteq Noticed /\ p.keys \subseteq {"w", "none"} /\ p.left \in Int /\ p.middle \in Int
      /\ p.turned \in Int /\ p.orbited \in Int
  BY StatesAre
<1>5. CASE e.kind \in {"key", "close"}
  <2>1. /\ s.mouse = p.mouse /\ s.keys = KeysAfter(e, p) /\ s.left = p.left /\ s.middle = p.middle
        /\ s.turned = p.turned /\ s.orbited = p.orbited
    BY <1>1, <1>5, AfterKey
  <2>2. KeysAfter(e, p) \subseteq {"w", "none"}
    BY <1>4 DEF KeysAfter, KeyOf
  <2> QED
    BY <1>1, <1>2, <1>3, <1>4, <2>1, <2>2, StatesAre
<1>6. CASE e.kind = "button"
  <2>1. ButtonOf(e.button) \in Noticed /\ e.x \in Int
    BY <1>6, ButtonsAre, OccurrencesAre
  <2>2. /\ s.mouse = IF IsDown(e) THEN p.mouse \cup {ButtonOf(e.button)} ELSE p.mouse \ {ButtonOf(e.button)}
        /\ s.keys = p.keys /\ s.turned = p.turned /\ s.orbited = p.orbited
        /\ s.left = IF ButtonOf(e.button) = "left" THEN e.x ELSE p.left
        /\ s.middle = IF ButtonOf(e.button) = "middle" THEN e.x ELSE p.middle
    BY <1>1, <1>6, AfterButton
  <2>3. s.mouse \subseteq Noticed
    BY <1>4, <2>1, <2>2
  <2>4. s.left \in Int /\ s.middle \in Int
    BY <1>4, <2>1, <2>2
  <2> QED
    BY <1>1, <1>2, <1>3, <1>4, <2>2, <2>3, <2>4, StatesAre
<1>7. CASE e.kind = "motion"
  <2>1. e.x \in Int
    BY <1>7, OccurrencesAre
  <2>2. /\ s.mouse = p.mouse /\ s.keys = p.keys
        /\ s.turned = IF "left" \in p.mouse THEN p.turned + (p.left - e.x) ELSE p.turned
        /\ s.orbited = IF "middle" \in p.mouse THEN p.orbited + (p.middle - e.x) ELSE p.orbited
        /\ s.left = IF IsFollowed("left", p.mouse) THEN e.x ELSE p.left
        /\ s.middle = IF IsFollowed("middle", p.mouse) THEN e.x ELSE p.middle
    BY <1>1, <1>7, AfterMotion
  <2>3. s.turned \in Int /\ s.orbited \in Int
    BY <1>4, <2>1, <2>2
  <2>4. s.left \in Int /\ s.middle \in Int
    BY <1>4, <2>1, <2>2
  <2> QED
    BY <1>1, <1>2, <1>3, <1>4, <2>2, <2>3, <2>4, StatesAre
<1> QED
  BY <1>5, <1>6, <1>7, OccurrencesAre

(* The steps from p through the queue. *)
Path(f, p, queue) ==
  /\ f = [i \in 0 .. Len(queue) |-> f[i]] /\ f[0] = p
  /\ \A i \in 1 .. Len(queue) : f[i] = After(queue[i], f[i - 1])
Leads(p, queue, r) == \E f : Path(f, p, queue) /\ f[Len(queue)] = r

LEMMA LeadsNowhere ==
  ASSUME NEW p, NEW r
  PROVE  Leads(p, <<>>, r) <=> r = p
<1>1. Leads(p, <<>>, r) => r = p
  BY DEF Leads, Path
<1>2. Leads(p, <<>>, p)
  <2> DEFINE f == [i \in 0 .. 0 |-> p]
  <2>1. Path(f, p, <<>>) /\ f[Len(<<>>)] = p
    BY DEF Path
  <2> QED
    BY <2>1, Zenon DEF Leads
<1> QED
  BY <1>1, <1>2

LEMMA LeadsOneFurther ==
  ASSUME NEW S, NEW queue \in Seq(S), NEW e \in S, NEW p, NEW r, Leads(p, queue, r)
  PROVE  Leads(p, Append(queue, e), After(e, r))
<1>1. PICK f : Path(f, p, queue) /\ f[Len(queue)] = r
  BY DEF Leads
<1>2. PICK n \in Nat : n = Len(queue)
  BY LenProperties
<1>3. PICK longer : longer = Append(queue, e)
  OBVIOUS
<1>4. Len(longer) = n + 1 /\ longer[n + 1] = e /\ \A i \in 1 .. n : longer[i] = queue[i]
  BY <1>2, <1>3, AppendProperties
<1> DEFINE g == [i \in 0 .. n + 1 |-> IF i <= n THEN f[i] ELSE After(e, r)]
<1>5. g = [i \in 0 .. n + 1 |-> g[i]]
  OBVIOUS
<1>6. g[n + 1] = After(e, r) /\ \A i \in 0 .. n : g[i] = f[i]
  OBVIOUS
<1> HIDE DEF g
<1>7. f[0] = p /\ f[n] = r /\ \A i \in 1 .. n : f[i] = After(queue[i], f[i - 1])
  BY <1>1, <1>2 DEF Path
<1>8. \A i \in 1 .. n + 1 : g[i] = After(longer[i], g[i - 1])
  <2> TAKE i \in 1 .. n + 1
  <2>1. i - 1 \in 0 .. n /\ (i = n + 1 \/ i \in 1 .. n) /\ (i \in 1 .. n => i \in 0 .. n)
    OBVIOUS
  <2>2. CASE i = n + 1
    BY <1>4, <1>6, <1>7, <2>1, <2>2
  <2>3. CASE i \in 1 .. n
    BY <1>4, <1>6, <1>7, <2>1, <2>3
  <2> QED
    BY <2>1, <2>2, <2>3
<1>9. g[0] = p
  BY <1>6, <1>7
<1>10. Path(g, p, longer) /\ g[Len(longer)] = After(e, r)
  BY <1>4, <1>5, <1>6, <1>8, <1>9 DEF Path
<1> QED
  BY <1>3, <1>10 DEF Leads

LEMMA LeadsFromNext ==
  ASSUME NEW S, NEW queue \in Seq(S), queue # <<>>, NEW p, NEW r, Leads(p, queue, r)
  PROVE  Leads(After(Head(queue), p), Tail(queue), r)
<1>1. PICK f : Path(f, p, queue) /\ f[Len(queue)] = r
  BY DEF Leads
<1>2. PICK n \in Nat : n + 1 = Len(queue)
  <2>1. Len(queue) \in Nat \ {0}
    BY EmptySeq
  <2>2. Len(queue) - 1 \in Nat /\ (Len(queue) - 1) + 1 = Len(queue)
    BY <2>1
  <2> QED
    BY <2>2
<1>3. PICK rest : rest = Tail(queue)
  OBVIOUS
<1>4. Len(rest) = n /\ \A i \in 1 .. n : rest[i] = queue[i + 1]
  <2>1. Len(rest) = Len(queue) - 1 /\ \A i \in 1 .. Len(rest) : rest[i] = queue[i + 1]
    BY <1>3, HeadTailProperties
  <2>2. Len(rest) = n
    BY <1>2, <2>1
  <2> QED
    BY <2>1, <2>2
<1>5. Head(queue) = queue[1]
  OBVIOUS
<1> DEFINE g == [i \in 0 .. n |-> f[i + 1]]
<1>6. g = [i \in 0 .. n |-> g[i]]
  OBVIOUS
<1>7. \A i \in 0 .. n : g[i] = f[i + 1]
  OBVIOUS
<1> HIDE DEF g
<1>8. f[0] = p /\ f[n + 1] = r /\ \A i \in 1 .. n + 1 : f[i] = After(queue[i], f[i - 1])
  BY <1>1, <1>2 DEF Path
<1>9. \A i \in 1 .. n : g[i] = After(rest[i], g[i - 1])
  <2> TAKE i \in 1 .. n
  <2>1. i \in 0 .. n /\ i - 1 \in 0 .. n /\ i + 1 \in 1 .. n + 1 /\ (i - 1) + 1 = i /\ (i + 1) - 1 = i
    OBVIOUS
  <2>2. g[i] = f[i + 1] /\ g[i - 1] = f[i]
    BY <1>7, <2>1
  <2>3. f[i + 1] = After(queue[i + 1], f[i])
    BY <1>8, <2>1
  <2> QED
    BY <1>4, <2>2, <2>3
<1>10. g[0] = After(Head(queue), p) /\ g[n] = r
  <2>1. 0 \in 0 .. n /\ n \in 0 .. n /\ 0 + 1 = 1 /\ 1 \in 1 .. n + 1 /\ 1 - 1 = 0
    OBVIOUS
  <2>2. g[0] = f[1] /\ g[n] = f[n + 1]
    BY <1>7, <2>1
  <2>3. f[1] = After(queue[1], f[0])
    BY <1>8, <2>1
  <2> QED
    BY <1>5, <1>8, <2>2, <2>3
<1>11. Path(g, After(Head(queue), p), rest) /\ g[Len(rest)] = r
  BY <1>4, <1>6, <1>9, <1>10 DEF Path
<1> QED
  BY <1>3, <1>11 DEF Leads

LEMMA LeadsToTheLast ==
  ASSUME NEW S, NEW queue \in Seq(S), queue # <<>>, NEW p, NEW r, Leads(p, queue, r)
  PROVE  \E s : Leads(p, Front(queue), s) /\ r = After(Last(queue), s)
<1>1. PICK f : Path(f, p, queue) /\ f[Len(queue)] = r
  BY DEF Leads
<1>2. PICK n \in Nat : n + 1 = Len(queue)
  <2>1. Len(queue) \in Nat \ {0}
    BY EmptySeq
  <2>2. Len(queue) - 1 \in Nat /\ (Len(queue) - 1) + 1 = Len(queue)
    BY <2>1
  <2> QED
    BY <2>2
<1>3. PICK front : front = Front(queue)
  OBVIOUS
<1>4. Len(front) = n /\ \A i \in 1 .. n : front[i] = queue[i]
  BY <1>2, <1>3 DEF Front
<1> DEFINE g == [i \in 0 .. n |-> f[i]]
<1>5. g = [i \in 0 .. n |-> g[i]]
  OBVIOUS
<1>6. \A i \in 0 .. n : g[i] = f[i]
  OBVIOUS
<1> HIDE DEF g
<1>7. f[0] = p /\ f[n + 1] = r /\ \A i \in 1 .. n + 1 : f[i] = After(queue[i], f[i - 1])
  BY <1>1, <1>2 DEF Path
<1>8. \A i \in 1 .. n : g[i] = After(front[i], g[i - 1])
  <2> TAKE i \in 1 .. n
  <2>1. i \in 0 .. n /\ i - 1 \in 0 .. n /\ i \in 1 .. n + 1
    OBVIOUS
  <2> QED
    BY <1>4, <1>6, <1>7, <2>1
<1>9. Path(g, p, front) /\ g[Len(front)] = f[n]
  <2>1. 0 \in 0 .. n /\ n \in 0 .. n
    OBVIOUS
  <2>2. g[0] = p /\ g[n] = f[n]
    BY <1>6, <1>7, <2>1
  <2> QED
    BY <1>4, <1>5, <1>8, <2>2 DEF Path
<1>10. r = After(Last(queue), f[n])
  <2>1. n + 1 \in 1 .. n + 1 /\ (n + 1) - 1 = n
    OBVIOUS
  <2> QED
    BY <1>2, <1>7, <2>1 DEF Last
<1> QED
  BY <1>3, <1>9, <1>10 DEF Leads

(* What every event keeps, the queue keeps. *)
LEMMA LeadsWithin ==
  ASSUME NEW S, NEW queue \in Seq(S), NEW p, NEW r, Leads(p, queue, r),
         NEW G, p \in G, \A i \in DOMAIN queue : \A q \in G : After(queue[i], q) \in G
  PROVE  r \in G
<1>1. PICK f : Path(f, p, queue) /\ f[Len(queue)] = r
  BY DEF Leads
<1>2. PICK n \in Nat : n = Len(queue) /\ DOMAIN queue = 1 .. n
  BY LenProperties
<1> DEFINE Bad == {i \in 0 .. n : f[i] \notin G}
<1> SUFFICES ASSUME Bad # {}
             PROVE  FALSE
  <2>1. n \in 0 .. n /\ f[n] = r
    BY <1>1, <1>2
  <2> QED
    BY <2>1
<1>3. PICK i \in Bad : \A k \in Bad : i <= k
  <2>1. Bad \subseteq Nat
    OBVIOUS
  <2> HIDE DEF Bad
  <2> QED
    BY <2>1, LeastNatural
<1>4. i \in 0 .. n /\ f[i] \notin G
  OBVIOUS
<1>5. i # 0
  BY <1>1, <1>4 DEF Path
<1>6. i \in 1 .. n /\ i - 1 \in 0 .. n /\ ~(i <= i - 1)
  BY <1>4, <1>5
<1>7. f[i - 1] \in G
  BY <1>3, <1>6
<1>8. f[i] = After(queue[i], f[i - 1])
  BY <1>1, <1>2, <1>6 DEF Path
<1> QED
  BY <1>2, <1>4, <1>6, <1>7, <1>8

LEMMA LeadsToAState ==
  ASSUME platform \in {"x11", "win"}, NEW queue \in Seq(Occurrences), NEW p \in States, NEW r, Leads(p, queue, r)
  PROVE  r \in States
<1>1. \A i \in DOMAIN queue : queue[i] \in Occurrences
  BY ElementOfSeq, LenProperties
<1>2. \A i \in DOMAIN queue : \A q \in States : After(queue[i], q) \in States
  BY <1>1, AfterIsAState
<1> QED
  BY <1>2, LeadsWithin

(* Where no motion comes and no button goes down, a button that is down    *)
(* has been all the time.                                                  *)
LEMMA AfterUndisturbed ==
  ASSUME NEW e \in Occurrences, ~Misleads(e), NEW q, NEW s, s = After(e, q)
  PROVE  /\ s.mouse \subseteq q.mouse /\ ("left" \in s.mouse => s.left = q.left)
         /\ q.met => s.met
<1>1. CASE e.kind = "button"
  <2>0. /\ s.mouse = IF IsDown(e) THEN q.mouse \cup {ButtonOf(e.button)} ELSE q.mouse \ {ButtonOf(e.button)}
        /\ s.keys = q.keys /\ s.turned = q.turned /\ s.orbited = q.orbited
        /\ s.left = IF ButtonOf(e.button) = "left" THEN e.x ELSE q.left
        /\ s.middle = IF ButtonOf(e.button) = "middle" THEN e.x ELSE q.middle
        /\ s.met = (q.met \/ Together(s.mouse))
    BY <1>1, AfterButton
  <2>1. ~IsDown(e)
    BY <1>1 DEF Misleads, IsDown
  <2>2. s.mouse = q.mouse \ {ButtonOf(e.button)}
    BY <2>0, <2>1, Zenon
  <2>3. "left" \in s.mouse => s.left = q.left
    BY <2>0, <2>2, Zenon
  <2>4. q.met => s.met
    BY <2>0, Zenon
  <2> QED
    BY <2>2, <2>3, <2>4
<1>2. CASE e.kind # "button"
  <2>1. e.kind \in {"key", "close"}
    BY <1>2, OccurrencesAre DEF Misleads
  <2>2. s.mouse = q.mouse /\ s.left = q.left /\ s.met = (q.met \/ Together(q.mouse))
    BY <2>1, AfterKey
  <2> QED
    BY <2>2
<1> QED
  BY <1>1, <1>2

LEMMA LeadsUndisturbed ==
  ASSUME platform \in {"x11", "win"}, NEW queue \in Seq(Occurrences), NEW p \in States, NEW r, Leads(p, queue, r),
         \A i \in DOMAIN queue : ~Misleads(queue[i])
  PROVE  /\ r.mouse \subseteq p.mouse /\ ("left" \in r.mouse => r.left = p.left)
         /\ p.met => r.met
<1> DEFINE G == {q \in States : /\ q.mouse \subseteq p.mouse /\ ("left" \in q.mouse => q.left = p.left)
                                /\ p.met => q.met}
<1>1. p \in G
  OBVIOUS
<1>2. ASSUME NEW i \in DOMAIN queue, NEW q \in G
      PROVE  After(queue[i], q) \in G
  <2>1. PICK e \in Occurrences : e = queue[i] /\ ~Misleads(e)
    BY ElementOfSeq, LenProperties
  <2>2. PICK s \in States : s = After(e, q)
    BY AfterIsAState
  <2>3. q.mouse \subseteq p.mouse /\ ("left" \in q.mouse => q.left = p.left) /\ (p.met => q.met)
    OBVIOUS
  <2>4. s.mouse \subseteq q.mouse /\ ("left" \in s.mouse => s.left = q.left) /\ (q.met => s.met)
    BY <2>1, <2>2, AfterUndisturbed
  <2> QED
    BY <2>1, <2>2, <2>3, <2>4
<1>3. r \in G
  <2> HIDE DEF G
  <2> QED
    BY <1>1, <1>2, LeadsWithin
<1> QED
  BY <1>3

(* Without a motion the left button only goes down where the cursor is. *)
LeftIsAt(q, c) == "left" \in q.mouse => q.left = c
IsUsedAt(e, c) == e.kind # "motion" /\ (e.kind = "button" => e.x = c)

LEMMA AfterUnmoved ==
  ASSUME NEW e \in Occurrences, NEW c, IsUsedAt(e, c), NEW q, NEW s, s = After(e, q), LeftIsAt(q, c)
  PROVE  LeftIsAt(s, c)
<1>1. CASE e.kind = "button"
  <2>1. /\ s.mouse = IF IsDown(e) THEN q.mouse \cup {ButtonOf(e.button)} ELSE q.mouse \ {ButtonOf(e.button)}
        /\ s.keys = q.keys /\ s.turned = q.turned /\ s.orbited = q.orbited
        /\ s.left = IF ButtonOf(e.button) = "left" THEN e.x ELSE q.left
        /\ s.middle = IF ButtonOf(e.button) = "middle" THEN e.x ELSE q.middle
        /\ s.met = (q.met \/ Together(s.mouse))
    BY <1>1, AfterButton
  <2>2. s.mouse = IF IsDown(e) THEN q.mouse \cup {ButtonOf(e.button)} ELSE q.mouse \ {ButtonOf(e.button)}
    BY <2>1, Zenon
  <2>3. s.left = IF ButtonOf(e.button) = "left" THEN e.x ELSE q.left
    BY <2>1, Zenon
  <2>4. s.mouse \subseteq q.mouse \cup {ButtonOf(e.button)}
    BY <2>2
  <2> QED
    BY <1>1, <2>3, <2>4 DEF LeftIsAt, IsUsedAt
<1>2. CASE e.kind # "button"
  <2>1. e.kind \in {"key", "close"}
    BY <1>2, OccurrencesAre DEF IsUsedAt
  <2>2. s.mouse = q.mouse /\ s.left = q.left
    BY <2>1, AfterKey
  <2> QED
    BY <2>2 DEF LeftIsAt
<1> QED
  BY <1>1, <1>2

LEMMA LeadsUnmoved ==
  ASSUME platform \in {"x11", "win"}, NEW queue \in Seq(Occurrences), NEW p \in States, NEW r, Leads(p, queue, r),
         NEW c, \A i \in DOMAIN queue : IsUsedAt(queue[i], c), LeftIsAt(p, c)
  PROVE  LeftIsAt(r, c)
<1> DEFINE G == {q \in States : LeftIsAt(q, c)}
<1>1. p \in G
  OBVIOUS
<1>2. ASSUME NEW i \in DOMAIN queue, NEW q \in G
      PROVE  After(queue[i], q) \in G
  <2>1. PICK e \in Occurrences : e = queue[i] /\ IsUsedAt(e, c)
    BY ElementOfSeq, LenProperties
  <2>2. PICK s \in States : s = After(e, q)
    BY AfterIsAState
  <2>3. LeftIsAt(s, c)
    BY <2>1, <2>2, AfterUnmoved
  <2> QED
    BY <2>1, <2>2, <2>3
<1>3. r \in G
  <2> HIDE DEF G
  <2> QED
    BY <1>1, <1>2, LeadsWithin
<1> QED
  BY <1>3

(* All of this only depends on the platform. *)
LEMMA LeadsStays ==
  ASSUME UNCHANGED <<platform, keysKnown>>, NEW p, NEW queue, NEW r
  PROVE  Leads(p, queue, r)' <=> Leads(p, queue, r)
<1>1. \A e, q : MouseAfter(e, q)' = MouseAfter(e, q) /\ KeysAfter(e, q)' = KeysAfter(e, q)
  BY DEF MouseAfter, KeysAfter, IsDown, ButtonOf, KeyOf
<1>2. \A e, q, b, old : OldAfter(e, q, b, old)' = OldAfter(e, q, b, old)
  BY DEF OldAfter, IsFollowed, ButtonOf
<1>3. \A e, q : After(e, q)' = After(e, q)
  BY <1>1, <1>2 DEF After, MovedAfter, Together
<1>4. \A f : Path(f, p, queue)' <=> Path(f, p, queue)
  BY <1>3 DEF Path
<1> QED
  BY <1>4 DEF Leads

-----------------------------------------------------------------------------
(* What the window will have noted is what the user does. *)
Live == platform = "x11" \/ os_loop \in {"before", "runs"}

(* The button that the camera orbits with.                                 *)
OrbitButton == IF platform = "win" THEN "middle" ELSE "right"

AreNoted(mouse, held, lost) ==
  \A b \in Buttons \ lost : ButtonOf(b) \in mouse <=> b \in held /\ (platform = "win" => b # "right")

HeldAsNoted(r) ==
  /\ AreNoted(r.mouse, heldButtons, lostButtons)
  /\ keysKnown /\ "w" \notin lostKeys =>
       /\ "w" \in heldKeys => "w" \in r.keys
       /\ platform = "win" => ("w" \in r.keys => "w" \in heldKeys)

(* On X11 the camera follows the cursor, on Windows what it is set back to. *)
TurnedAsDragged(r) ==
  ~unfollowed =>
    /\ r.turned = -dragged["left"]
    /\ platform = "x11" /\ "left" \in r.mouse => r.left = cursor

OrbitedAsDragged(r) ==
  ~unfollowed /\ ~unorbited =>
    /\ r.orbited = -dragged[OrbitButton]
    /\ "middle" \in r.mouse => r.middle = cursor
    /\ platform = "win" => ~r.met /\ ~Together(r.mouse)

Fits(r) == HeldAsNoted(r) /\ TurnedAsDragged(r) /\ OrbitedAsDragged(r)

IsNow(p) ==
  /\ p \in States /\ p.mouse = m_mouse_down /\ p.keys = m_key_down
  /\ p.left = m_old_mouse["left"] /\ p.middle = m_old_mouse["middle"]
  /\ p.turned = turned /\ p.orbited = orbited /\ (Together(m_mouse_down) => p.met)

Foretold == Live => \E p, r : IsNow(p) /\ Leads(p, events, r) /\ Fits(r)

WindowTypes ==
  /\ platform \in {"x11", "win"} /\ keysKnown \in BOOLEAN
  /\ events \in Seq(Occurrences)
  /\ cursor \in Int /\ turned \in Int /\ orbited \in Int
  /\ dragged \in [Buttons -> Int] /\ m_old_mouse \in [Buttons -> Int]
  /\ unfollowed \in BOOLEAN /\ unorbited \in BOOLEAN /\ m_is_cursor_visible \in BOOLEAN

(* A button or motion that no motion is queued behind was where the cursor *)
(* is.                                                                     *)
AtCursor ==
  \A i \in DOMAIN events :
    events[i].kind \in {"button", "motion"} /\ (\A j \in DOMAIN events : j > i => events[j].kind # "motion")
      => events[i].x = cursor

Cursor ==
  /\ m_is_cursor_visible <=> ~(platform = "win" /\ "left" \in m_mouse_down)
  /\ platform = "win" /\ Live =>
       /\ AtCursor
       /\ "left" \in m_mouse_down /\ ~HasMotion(events) => cursor = m_old_mouse["left"]

Losses ==
  /\ "left" \in lostButtons => unfollowed
  /\ OrbitButton \in lostButtons => unorbited

WindowInv == WindowTypes /\ Cursor /\ Losses /\ Foretold

dragVars == <<cursor, dragged, unfollowed, unorbited, platform>>
seenVars == <<heldKeys, heldButtons, lostKeys, lostButtons, keysKnown, dragVars>>
nowVars == <<m_mouse_down, m_key_down, m_old_mouse, turned, orbited>>

LEMMA DragStays ==
  ASSUME UNCHANGED dragVars, NEW r
  PROVE  (TurnedAsDragged(r)' <=> TurnedAsDragged(r)) /\ (OrbitedAsDragged(r)' <=> OrbitedAsDragged(r))
<1>1. UNCHANGED <<cursor, dragged, unfollowed, unorbited, platform>>
  BY DEF dragVars
<1>2. TurnedAsDragged(r)' <=> TurnedAsDragged(r)
  BY <1>1 DEF TurnedAsDragged
<1>3. OrbitedAsDragged(r)' <=> OrbitedAsDragged(r)
  BY <1>1 DEF OrbitedAsDragged, OrbitButton, Together
<1> QED
  BY <1>2, <1>3

LEMMA NotedStays ==
  ASSUME UNCHANGED seenVars, NEW r
  PROVE  Fits(r)' <=> Fits(r)
<1>1. UNCHANGED dragVars /\ UNCHANGED <<heldKeys, heldButtons, lostKeys, lostButtons, keysKnown, platform>>
  BY DEF seenVars, dragVars
<1>2. HeldAsNoted(r)' <=> HeldAsNoted(r)
  BY <1>1 DEF HeldAsNoted, AreNoted, ButtonOf
<1> QED
  BY <1>1, <1>2, DragStays DEF Fits

LEMMA NowStays ==
  ASSUME UNCHANGED nowVars, NEW p
  PROVE  IsNow(p)' <=> IsNow(p)
  BY DEF nowVars, IsNow, Together

LEMMA LossesStay ==
  ASSUME Losses, UNCHANGED <<lostButtons, platform>>, unfollowed => unfollowed', unorbited => unorbited'
  PROVE  Losses'
  BY DEF Losses, OrbitButton

LEMMA NothingSeen ==
  ASSUME WindowInv, UNCHANGED <<seenVars, nowVars, events, m_is_cursor_visible>>, Live' => Live
  PROVE  WindowInv'
<1>1. UNCHANGED <<heldKeys, heldButtons, cursor, lostKeys, lostButtons, dragged, unfollowed, unorbited, platform,
                  keysKnown, m_mouse_down, m_key_down, m_old_mouse, turned, orbited, events, m_is_cursor_visible>>
  BY DEF seenVars, dragVars, nowVars
<1>2. WindowTypes'
  BY <1>1 DEF WindowInv, WindowTypes
<1>3. Cursor'
  BY <1>1 DEF WindowInv, Cursor, AtCursor, HasMotion
<1>4. Losses'
  BY <1>1, LossesStay DEF WindowInv
<1>5. Foretold'
  <2> SUFFICES ASSUME Live'
               PROVE  \E p, r : IsNow(p)' /\ Leads(p, events, r)' /\ Fits(r)'
    BY DEF Foretold
  <2>1. PICK p, r : IsNow(p) /\ Leads(p, events, r) /\ Fits(r)
    BY DEF WindowInv, Foretold
  <2>2. PICK q : q = events /\ q = events'
    BY <1>1
  <2>3. Leads(p, q, r)'
    BY <1>1, <2>1, <2>2, LeadsStays
  <2>4. IsNow(p)' /\ Fits(r)'
    BY <2>1, NotedStays, NowStays
  <2> QED
    BY <2>2, <2>3, <2>4
<1> QED
  BY <1>2, <1>3, <1>4, <1>5 DEF WindowInv

(* One event more. *)
LEMMA QueueGrows ==
  ASSUME WindowInv, Live, NEW e \in Occurrences, events' = Append(events, e),
         UNCHANGED <<nowVars, platform, keysKnown>>
  PROVE  \E p, r, s : /\ IsNow(p) /\ Leads(p, events, r) /\ r \in States /\ Fits(r)
                      /\ IsNow(p)' /\ s = After(e, r) /\ Leads(p, events, s)'
<1>1. PICK p, r : IsNow(p) /\ Leads(p, events, r) /\ Fits(r)
  BY DEF WindowInv, Foretold
<1>2. IsNow(p)' /\ p \in States
  BY <1>1, NowStays DEF IsNow
<1>3. PICK queue \in Seq(Occurrences) : queue = events
  BY DEF WindowInv, WindowTypes
<1>4. PICK s : s = After(e, r)
  OBVIOUS
<1>5. PICK longer : longer = Append(queue, e)
  OBVIOUS
<1>6. Leads(p, longer, s)
  BY <1>1, <1>3, <1>4, <1>5, LeadsOneFurther
<1>7. Leads(p, longer, s)'
  BY <1>6, LeadsStays
<1>8. Leads(p, events, s)'
  BY <1>3, <1>5, <1>7
<1>9. r \in States
  BY <1>1, <1>2, <1>3, LeadsToAState DEF WindowInv, WindowTypes
<1> QED
  BY <1>1, <1>2, <1>4, <1>8, <1>9

LEMMA QueueShrinks ==
  ASSUME WindowInv, events # <<>>, events' = Tail(events), UNCHANGED <<platform, keysKnown>>,
         NEW p, NEW r, Leads(p, events, r), NEW q, q = After(Head(events), p)
  PROVE  Leads(q, events, r)'
<1>1. PICK queue \in Seq(Occurrences) : queue = events
  BY DEF WindowInv, WindowTypes
<1>2. PICK rest : rest = Tail(queue)
  OBVIOUS
<1>3. Leads(q, rest, r)
  <2>1. q = After(Head(queue), p) /\ queue # <<>> /\ Leads(p, queue, r)
    BY <1>1
  <2> QED
    BY <1>2, <2>1, LeadsFromNext
<1>4. Leads(q, rest, r)'
  BY <1>3, LeadsStays
<1> QED
  BY <1>1, <1>2, <1>4

(* What is behind an event that is queued. *)
LEMMA CursorGrows ==
  ASSUME WindowInv, Live, NEW e \in Occurrences, e.kind # "motion", e.kind = "button" => e.x = cursor,
         events' = Append(events, e), UNCHANGED <<nowVars, platform, os_loop, cursor, m_is_cursor_visible>>
  PROVE  Cursor'
<1>1. UNCHANGED <<platform, os_loop, cursor, m_is_cursor_visible, m_mouse_down, m_old_mouse>>
  BY DEF nowVars
<1>2. PICK n \in Nat : n = Len(events) /\ DOMAIN events = 1 .. n
  BY LenProperties DEF WindowInv, WindowTypes
<1>3. /\ DOMAIN events' = 1 .. n + 1 /\ events'[n + 1] = e /\ \A i \in 1 .. n : events'[i] = events[i]
  <2>1. events' \in Seq(Occurrences) /\ Len(events') = n + 1
    BY <1>2, AppendProperties DEF WindowInv, WindowTypes
  <2>2. DOMAIN events' = 1 .. n + 1
    BY <2>1, LenProperties
  <2> QED
    BY <1>2, <2>2, AppendProperties DEF WindowInv, WindowTypes
<1>4. \A i \in 1 .. n + 1 : i \in 1 .. n \/ i = n + 1
  OBVIOUS
<1>5. \A i \in 1 .. n : i \in 1 .. n + 1
  OBVIOUS
<1>6. HasMotion(events) => HasMotion(events)'
  BY <1>2, <1>3, <1>5 DEF HasMotion
<1>7. AtCursor => AtCursor'
  <2> SUFFICES ASSUME AtCursor, NEW i \in 1 .. n + 1, events'[i].kind \in {"button", "motion"},
                      \A j \in 1 .. n + 1 : j > i => events'[j].kind # "motion"
               PROVE  events'[i].x = cursor
    BY <1>1, <1>3 DEF AtCursor
  <2>1. CASE i = n + 1
    BY <1>3, <2>1
  <2>2. CASE i \in 1 .. n
    <3>1. \A j \in 1 .. n : j > i => events[j].kind # "motion"
      BY <1>3, <1>5
    <3> QED
      BY <1>2, <1>3, <2>2, <3>1 DEF AtCursor
  <2> QED
    BY <1>4, <2>1, <2>2
<1> QED
  BY <1>1, <1>6, <1>7 DEF WindowInv, Cursor, Live

(* A key or the close button changes nothing of it.                        *)
LEMMA KeysDoNotDrag ==
  ASSUME NEW r, NEW s, s.mouse = r.mouse, s.left = r.left, s.middle = r.middle, s.turned = r.turned,
         s.orbited = r.orbited, s.met = (r.met \/ Together(r.mouse)), TurnedAsDragged(r), OrbitedAsDragged(r)
  PROVE  TurnedAsDragged(s) /\ OrbitedAsDragged(s)
<1>1. TurnedAsDragged(s)
  BY DEF TurnedAsDragged
<1>2. OrbitedAsDragged(s)
  BY DEF OrbitedAsDragged
<1> QED
  BY <1>1, <1>2

LEMMA UsesKeyKeeps ==
  ASSUME WindowInv, NEW k \in Keys, UsesKey(k)
  PROVE  WindowInv'
<1>1. /\ Live /\ UNCHANGED <<windowVars, camVars, fixedVars, os_loop>>
      /\ heldKeys' = IF k \in heldKeys THEN heldKeys \ {k} ELSE heldKeys \union {k}
      /\ events' = Append(events, Key(k, k \notin heldKeys))
      /\ lostKeys' = lostKeys \ {k}
      /\ UNCHANGED <<heldButtons, cursor, size, lostButtons, dragged, unfollowed, unorbited, plainSize>>
  BY DEF UsesKey, DoesInput, Live
<1>2. UNCHANGED <<nowVars, dragVars, m_is_cursor_visible, platform, keysKnown>>
  BY <1>1 DEF nowVars, dragVars, windowVars, camVars, fixedVars
<1>3. PICK e \in Occurrences : e = Key(k, k \notin heldKeys)
  BY OccurrencesAre
<1>4. e.kind = "key" /\ e.key = k /\ (e.down <=> k \notin heldKeys)
  BY <1>3 DEF Key
<1>5. WindowTypes'
  <2>1. events' \in Seq(Occurrences)
    BY <1>1, <1>3, AppendProperties DEF WindowInv, WindowTypes
  <2> QED
    BY <1>1, <1>2, <2>1 DEF WindowInv, WindowTypes, nowVars
<1>6. Cursor'
  BY <1>1, <1>2, <1>3, <1>4, CursorGrows
<1>7. Losses'
  BY <1>1, <1>2, LossesStay DEF WindowInv
<1>8. PICK p, r, s : Fits(r) /\ IsNow(p)' /\ s = After(e, r) /\ Leads(p, events, s)'
  BY <1>1, <1>2, <1>3, QueueGrows
<1>9. /\ s.mouse = r.mouse /\ s.keys = KeysAfter(e, r) /\ s.left = r.left /\ s.middle = r.middle
      /\ s.turned = r.turned /\ s.orbited = r.orbited /\ s.met = (r.met \/ Together(r.mouse))
  BY <1>4, <1>8, AfterKey
<1>10. s.keys = IF e.down \/ platform = "x11" THEN r.keys \cup {KeyOf(k)} ELSE r.keys \ {KeyOf(k)}
  BY <1>4, <1>9, Zenon DEF KeysAfter
<1>11. HeldAsNoted(s)'
  <2>1. AreNoted(s.mouse, heldButtons, lostButtons)' <=> AreNoted(r.mouse, heldButtons, lostButtons)
    BY <1>1, <1>2, <1>9 DEF AreNoted, ButtonOf
  <2>2. HeldAsNoted(r)
    BY <1>8 DEF Fits
  <2>3. CASE k = "w"
    <3>1. "w" \in heldKeys' <=> e.down
      BY <1>1, <1>4, <2>3
    <3>2. keysKnown => KeyOf(k) = "w"
      BY <2>3 DEF KeyOf
    <3> QED
      BY <1>1, <1>2, <1>9, <1>10, <2>1, <2>2, <3>1, <3>2 DEF HeldAsNoted
  <2>4. CASE k # "w"
    <3>1. ("w" \in heldKeys' <=> "w" \in heldKeys) /\ ("w" \in lostKeys' <=> "w" \in lostKeys)
      BY <1>1, <2>4
    <3>2. KeyOf(k) # "w"
      BY <2>4 DEF KeyOf
    <3>3. "w" \in s.keys <=> "w" \in r.keys
      BY <1>10, <3>2
    <3> QED
      BY <1>1, <1>2, <1>9, <2>1, <2>2, <3>1, <3>3 DEF HeldAsNoted
  <2> QED
    BY <2>3, <2>4
<1>12. TurnedAsDragged(s) /\ OrbitedAsDragged(s)
  BY <1>8, <1>9, KeysDoNotDrag DEF Fits
<1>13. Fits(s)'
  BY <1>2, <1>11, <1>12, DragStays DEF Fits
<1> QED
  BY <1>5, <1>6, <1>7, <1>8, <1>13 DEF WindowInv, Foretold

(* What is noted of the buttons when one of them is used.                  *)
LEMMA ButtonNoted ==
  ASSUME platform \in {"x11", "win"}, NEW b \in Buttons, NEW e, e.button = b,
         e.down <=> b \notin heldButtons, NEW mouse, NEW after,
         after = IF IsDown(e) THEN mouse \cup {ButtonOf(b)} ELSE mouse \ {ButtonOf(b)},
         NEW held, held = IF b \in heldButtons THEN heldButtons \ {b} ELSE heldButtons \cup {b},
         NEW lost, AreNoted(mouse, heldButtons, lost)
  PROVE  AreNoted(after, held, lost \ {b})
<1> SUFFICES ASSUME NEW c \in Buttons \ (lost \ {b})
             PROVE  ButtonOf(c) \in after <=> c \in held /\ (platform = "win" => c # "right")
  BY DEF AreNoted
<1>1. CASE c = b
  <2>1. c \in held <=> e.down
    BY <1>1
  <2>2. IsDown(e) <=> e.down /\ ~(platform = "win" /\ c = "right")
    BY <1>1 DEF IsDown
  <2>3. ButtonOf(c) \in after <=> IsDown(e)
    BY <1>1
  <2> QED
    BY <2>1, <2>2, <2>3
<1>2. CASE c # b
  <2>1. c \in Buttons \ lost /\ (c \in held <=> c \in heldButtons)
    BY <1>2
  <2>2. ButtonOf(c) # ButtonOf(b)
    BY <1>2, ButtonsAre DEF ButtonsDiffer, Noticed
  <2>3. ButtonOf(c) \in after <=> ButtonOf(c) \in mouse
    BY <2>2
  <2> QED
    BY <2>1, <2>3 DEF AreNoted
<1> QED
  BY <1>1, <1>2

LEMMA UsesButtonKeeps ==
  ASSUME WindowInv, NEW b \in Buttons, UsesButton(b)
  PROVE  WindowInv'
<1>1. /\ Live /\ UNCHANGED <<windowVars, camVars, fixedVars, os_loop>>
      /\ heldButtons' = IF b \in heldButtons THEN heldButtons \ {b} ELSE heldButtons \union {b}
      /\ events' = Append(events, Button(b, b \notin heldButtons))
      /\ lostButtons' = lostButtons \ {b}
      /\ unorbited' = (unorbited \/ (platform = "win" /\ {"left", "middle"} \subseteq heldButtons'))
      /\ UNCHANGED <<heldKeys, cursor, size, lostKeys, dragged, unfollowed, plainSize>>
  BY DEF UsesButton, DoesInput, Live
<1>2. UNCHANGED <<nowVars, m_is_cursor_visible, platform, keysKnown>>
  BY <1>1 DEF nowVars, windowVars, camVars, fixedVars
<1>3. PICK e \in Occurrences : e = Button(b, b \notin heldButtons)
  BY OccurrencesAre DEF WindowInv, WindowTypes, Noticed
<1>4. e.kind = "button" /\ e.button = b /\ (e.down <=> b \notin heldButtons) /\ e.x = cursor
  BY <1>3 DEF Button
<1>5. WindowTypes'
  <2>1. events' \in Seq(Occurrences)
    BY <1>1, <1>3, AppendProperties DEF WindowInv, WindowTypes
  <2>2. unorbited' \in BOOLEAN
    BY <1>1 DEF WindowInv, WindowTypes
  <2> QED
    BY <1>1, <1>2, <2>1, <2>2 DEF WindowInv, WindowTypes, nowVars
<1>6. Cursor'
  BY <1>1, <1>2, <1>3, <1>4, CursorGrows
<1>7. Losses'
  BY <1>1, <1>2 DEF WindowInv, Losses, OrbitButton
<1>8. PICK p, r, s : Fits(r) /\ IsNow(p)' /\ s = After(e, r) /\ Leads(p, events, s)'
  BY <1>1, <1>2, <1>3, QueueGrows
<1>9. /\ s.mouse = IF IsDown(e) THEN r.mouse \cup {ButtonOf(e.button)} ELSE r.mouse \ {ButtonOf(e.button)}
      /\ s.keys = r.keys /\ s.turned = r.turned /\ s.orbited = r.orbited
      /\ s.left = IF ButtonOf(e.button) = "left" THEN e.x ELSE r.left
      /\ s.middle = IF ButtonOf(e.button) = "middle" THEN e.x ELSE r.middle
      /\ s.met = (r.met \/ Together(s.mouse))
  <2>1. e.kind = "button" /\ s = After(e, r)
    BY <1>4, <1>8
  <2> QED
    BY <2>1, AfterButton
<1>10. s.mouse = IF IsDown(e) THEN r.mouse \cup {ButtonOf(b)} ELSE r.mouse \ {ButtonOf(b)}
  BY <1>4, <1>9, Zenon
<1>11. /\ ButtonOf("left") = "left" /\ (ButtonOf(b) = "left" <=> b = "left")
       /\ ButtonOf(b) = "middle" <=> b = OrbitButton
  BY ButtonsAre DEF WindowInv, WindowTypes, OrbitButton, Noticed
<1>12. HeldAsNoted(s)'
  <2>1. HeldAsNoted(r) /\ platform \in {"x11", "win"}
    BY <1>8 DEF Fits, WindowInv, WindowTypes
  <2>4. PICK mouse : mouse = r.mouse
    OBVIOUS
  <2>5. PICK after : after = s.mouse
    OBVIOUS
  <2>6. PICK held : held = heldButtons'
    OBVIOUS
  <2>7. AreNoted(after, held, lostButtons \ {b})
    <3>1. after = IF IsDown(e) THEN mouse \cup {ButtonOf(b)} ELSE mouse \ {ButtonOf(b)}
      BY <1>10, <2>4, <2>5, Zenon
    <3>2. held = IF b \in heldButtons THEN heldButtons \ {b} ELSE heldButtons \cup {b}
      BY <1>1, <2>6
    <3>3. AreNoted(mouse, heldButtons, lostButtons)
      BY <2>1, <2>4 DEF HeldAsNoted
    <3> QED
      BY <1>4, <2>1, <3>1, <3>2, <3>3, ButtonNoted
  <2>8. AreNoted(s.mouse, heldButtons, lostButtons)'
    BY <1>1, <1>2, <2>5, <2>6, <2>7 DEF AreNoted, ButtonOf
  <2> QED
    BY <1>1, <1>2, <1>9, <2>1, <2>8 DEF HeldAsNoted
<1>13. s.left = (IF b = "left" THEN cursor ELSE r.left) /\ s.middle = (IF b = OrbitButton THEN cursor ELSE r.middle)
  BY <1>4, <1>9, <1>11
<1>14. TurnedAsDragged(s)'
  <2>1. TurnedAsDragged(r)
    BY <1>8 DEF Fits
  <2>2. "left" \in s.mouse /\ b # "left" => "left" \in r.mouse
    BY <1>10, <1>11
  <2> QED
    BY <1>1, <1>2, <1>9, <1>13, <2>1, <2>2 DEF TurnedAsDragged
<1>15. OrbitedAsDragged(s)'
  <2> SUFFICES ASSUME ~unfollowed, ~unorbited'
               PROVE  /\ s.orbited = -dragged[OrbitButton]
                      /\ "middle" \in s.mouse => s.middle = cursor
                      /\ platform = "win" => ~s.met /\ ~Together(s.mouse)
    BY <1>1, <1>2 DEF OrbitedAsDragged, OrbitButton, Together
  <2>1. /\ r.orbited = -dragged[OrbitButton]
        /\ "middle" \in r.mouse => r.middle = cursor
        /\ platform = "win" => ~r.met
    BY <1>1, <1>8 DEF Fits, OrbitedAsDragged
  <2>2. "middle" \in s.mouse /\ b # OrbitButton => "middle" \in r.mouse
    BY <1>10, <1>11
  <2>3. platform = "win" => ~Together(s.mouse)
    <3> SUFFICES ASSUME platform = "win", Together(s.mouse)
                 PROVE  FALSE
      OBVIOUS
    <3>1. "left" \notin lostButtons' /\ "middle" \notin lostButtons'
      BY <1>1, <1>2, <1>7 DEF Losses, OrbitButton
    <3>2. ButtonOf("left")' = "left" /\ ButtonOf("middle")' = "middle"
      BY <1>2 DEF ButtonOf
    <3>3. "left" \in heldButtons' /\ "middle" \in heldButtons'
      BY <1>12, <3>1, <3>2 DEF HeldAsNoted, AreNoted, Together, Buttons
    <3> QED
      BY <1>1, <3>3
  <2> QED
    BY <1>9, <1>13, <2>1, <2>2, <2>3
<1>16. Fits(s)'
  BY <1>12, <1>14, <1>15 DEF Fits
<1> QED
  BY <1>5, <1>6, <1>7, <1>8, <1>16 DEF WindowInv, Foretold

(* A turn of the wheel. *)
IsAfterButton(e, p, s) ==
  /\ s.mouse = IF IsDown(e) THEN p.mouse \cup {ButtonOf(e.button)} ELSE p.mouse \ {ButtonOf(e.button)}
  /\ s.keys = p.keys /\ s.turned = p.turned /\ s.orbited = p.orbited
  /\ s.left = IF ButtonOf(e.button) = "left" THEN e.x ELSE p.left
  /\ s.middle = IF ButtonOf(e.button) = "middle" THEN e.x ELSE p.middle

LEMMA IsAfter ==
  ASSUME NEW e, e.kind = "button", NEW p, NEW s, s = After(e, p)
  PROVE  IsAfterButton(e, p, s)
  BY AfterButton DEF IsAfterButton

LEMMA AfterWheel ==
  ASSUME platform = "x11", NEW b, NEW e, e.kind = "button", e.button = b, e.down,
         NEW f, f.kind = "button", f.button = b, ~f.down, NEW r, NEW s, s = After(e, r), NEW t, t = After(f, s)
  PROVE  /\ t.mouse = r.mouse \ {ButtonOf(b)} /\ t.keys = r.keys /\ t.turned = r.turned /\ t.orbited = r.orbited
         /\ ButtonOf(b) # "left" => t.left = r.left
         /\ ButtonOf(b) # "middle" => t.middle = r.middle
<1>1. IsAfterButton(e, r, s)
  BY Zenon, IsAfter
<1>2. IsAfterButton(f, s, t)
  BY Zenon, IsAfter
<1>3. IsDown(e) /\ ~IsDown(f)
  BY DEF IsDown
<1>4. s.mouse = r.mouse \cup {ButtonOf(b)} /\ t.mouse = s.mouse \ {ButtonOf(b)}
  BY <1>1, <1>2, <1>3, Zenon DEF IsAfterButton
<1>5. t.mouse = r.mouse \ {ButtonOf(b)}
  BY <1>4
<1>6. t.keys = r.keys /\ t.turned = r.turned /\ t.orbited = r.orbited
  BY <1>1, <1>2, Zenon DEF IsAfterButton
<1>7. /\ ButtonOf(b) # "left" => t.left = r.left
      /\ ButtonOf(b) # "middle" => t.middle = r.middle
  BY <1>1, <1>2, Zenon DEF IsAfterButton
<1> QED
  BY <1>5, <1>6, <1>7

LEMMA TurnsWheelKeeps ==
  ASSUME WindowInv, NEW b \in Noticed, TurnsWheel(b)
  PROVE  WindowInv'
<1>1. /\ platform = "x11" /\ Live /\ UNCHANGED <<windowVars, camVars, fixedVars, os_loop>>
      /\ events' = events \o <<Button(b, TRUE), Button(b, FALSE)>>
      /\ lostButtons' = lostButtons \union ({b} \intersect Buttons)
      /\ unfollowed' = (unfollowed \/ b = "left") /\ unorbited' = (unorbited \/ b = "right")
      /\ UNCHANGED <<heldKeys, heldButtons, cursor, size, lostKeys, dragged, plainSize>>
  BY DEF TurnsWheel, DoesInput, Live
<1>2. UNCHANGED <<nowVars, m_mouse_down, m_is_cursor_visible, platform, keysKnown>>
  BY <1>1 DEF nowVars, windowVars, camVars, fixedVars
<1>3. PICK e \in Occurrences : e = Button(b, TRUE)
  BY OccurrencesAre DEF WindowInv, WindowTypes
<1>4. PICK f \in Occurrences : f = Button(b, FALSE)
  BY OccurrencesAre DEF WindowInv, WindowTypes
<1>5. /\ e.kind = "button" /\ e.button = b /\ e.down /\ f.kind = "button" /\ f.button = b /\ ~f.down
  BY <1>3, <1>4 DEF Button
<1>6. PICK queue \in Seq(Occurrences) : queue = events
  BY DEF WindowInv, WindowTypes
<1>7. PICK longer \in Seq(Occurrences) : longer = Append(queue, e)
  BY AppendProperties
<1>8. events' = Append(longer, f) /\ events' \in Seq(Occurrences)
  <2>1. events' = queue \o <<e, f>>
    BY <1>1, <1>3, <1>4, <1>6
  <2>2. queue \o <<e, f>> = Append(Append(queue, e), f)
    OBVIOUS
  <2> QED
    BY <1>7, <2>1, <2>2, AppendProperties
<1>9. WindowTypes'
  <2>1. unfollowed' \in BOOLEAN /\ unorbited' \in BOOLEAN
    BY <1>1 DEF WindowInv, WindowTypes
  <2> QED
    BY <1>1, <1>2, <1>8, <2>1 DEF WindowInv, WindowTypes, nowVars
<1>10. Cursor'
  BY <1>1, <1>2 DEF WindowInv, Cursor
<1>11. Losses'
  BY <1>1, <1>2 DEF WindowInv, Losses, OrbitButton
<1>12. PICK p, r : IsNow(p) /\ Leads(p, queue, r) /\ Fits(r)
  BY <1>1, <1>6 DEF WindowInv, Foretold
<1>13. PICK s : s = After(e, r)
  OBVIOUS
<1>14. PICK t : t = After(f, s)
  OBVIOUS
<1>15. Leads(p, Append(longer, f), t)
  <2>1. Leads(p, longer, s)
    BY <1>7, <1>12, <1>13, LeadsOneFurther
  <2> QED
    BY <1>14, <2>1, LeadsOneFurther
<1>16. IsNow(p)' /\ Leads(p, events, t)'
  <2>1. PICK q : q = Append(longer, f)
    OBVIOUS
  <2>2. Leads(p, q, t)'
    BY <1>2, <1>15, <2>1, LeadsStays
  <2>3. IsNow(p)'
    BY <1>2, <1>12, NowStays
  <2> QED
    BY <1>8, <2>1, <2>2, <2>3
<1>17. /\ t.mouse = r.mouse \ {ButtonOf(b)} /\ t.keys = r.keys /\ t.turned = r.turned /\ t.orbited = r.orbited
       /\ ButtonOf(b) # "left" => t.left = r.left
       /\ ButtonOf(b) # "middle" => t.middle = r.middle
  <2>1. platform = "x11" /\ e.kind = "button" /\ e.button = b /\ e.down
    BY <1>1, <1>5
  <2>2. f.kind = "button" /\ f.button = b /\ ~f.down
    BY <1>5
  <2> QED
    BY <1>13, <1>14, <2>1, <2>2, AfterWheel
<1>18. /\ ButtonsDiffer /\ (ButtonOf(b) = "left" <=> b = "left")
       /\ ButtonOf(b) = "middle" <=> b = "right"
  BY <1>1, ButtonsAre DEF WindowInv, WindowTypes
<1>19. HeldAsNoted(t)'
  <2>1. HeldAsNoted(r)
    BY <1>12 DEF Fits
  <2>2. ASSUME NEW c \in Buttons \ lostButtons'
        PROVE  ButtonOf(c) \in t.mouse <=> c \in heldButtons
    <3>1. c # b /\ c \in Buttons \ lostButtons /\ c \in Noticed
      BY <1>1, <2>2 DEF Noticed
    <3>2. ButtonOf(c) # ButtonOf(b)
      BY <1>18, <3>1 DEF ButtonsDiffer
    <3> QED
      BY <1>1, <1>17, <2>1, <3>1, <3>2 DEF HeldAsNoted, AreNoted
  <2>3. AreNoted(t.mouse, heldButtons, lostButtons)'
    BY <1>1, <1>2, <2>2 DEF AreNoted, ButtonOf
  <2> QED
    BY <1>1, <1>2, <1>17, <2>1, <2>3 DEF HeldAsNoted
<1>20. TurnedAsDragged(t)'
  <2> SUFFICES ASSUME ~unfollowed, b # "left"
               PROVE  t.turned = -dragged["left"] /\ ("left" \in t.mouse => t.left = cursor)
    BY <1>1, <1>2 DEF TurnedAsDragged
  <2>1. r.turned = -dragged["left"] /\ ("left" \in r.mouse => r.left = cursor)
    BY <1>1, <1>12 DEF Fits, TurnedAsDragged
  <2> QED
    BY <1>17, <1>18, <2>1
<1>21. OrbitedAsDragged(t)'
  <2> SUFFICES ASSUME ~unfollowed, ~unorbited, b # "right"
               PROVE  t.orbited = -dragged["right"] /\ ("middle" \in t.mouse => t.middle = cursor)
    BY <1>1, <1>2 DEF OrbitedAsDragged, OrbitButton
  <2>1. r.orbited = -dragged["right"] /\ ("middle" \in r.mouse => r.middle = cursor)
    BY <1>1, <1>12 DEF Fits, OrbitedAsDragged, OrbitButton
  <2> QED
    BY <1>17, <1>18, <2>1
<1> QED
  BY <1>9, <1>10, <1>11, <1>16, <1>19, <1>20, <1>21 DEF WindowInv, Foretold, Fits

(* A key or button that is let go where the window does not hear of it.    *)
LEMMA LosesKeeps ==
  ASSUME WindowInv, NEW k \in Keys, NEW b \in Buttons, LosesKey(k) \/ LosesButton(b)
  PROVE  WindowInv'
<1>1. /\ Live /\ UNCHANGED <<windowVars, camVars, fixedVars, os_loop>>
      /\ UNCHANGED <<cursor, events, dragged>>
      /\ \A c \in Buttons \ lostButtons' : c \notin lostButtons /\ (c \in heldButtons' <=> c \in heldButtons)
      /\ "w" \notin lostKeys' => "w" \notin lostKeys /\ ("w" \in heldKeys' <=> "w" \in heldKeys)
      /\ unfollowed => unfollowed'
      /\ unorbited => unorbited'
      /\ unfollowed' \in BOOLEAN /\ unorbited' \in BOOLEAN
  BY DEF LosesKey, LosesButton, DoesInput, WindowInv, WindowTypes, Live
<1>2. UNCHANGED <<nowVars, m_mouse_down, m_key_down, m_old_mouse, turned, orbited, m_is_cursor_visible,
                  platform, keysKnown>>
  BY <1>1 DEF windowVars, camVars, fixedVars, nowVars
<1>3. WindowTypes'
  BY <1>1, <1>2 DEF WindowInv, WindowTypes
<1>4. Cursor'
  BY <1>1, <1>2 DEF WindowInv, Cursor, Live, AtCursor, HasMotion
<1>5. Losses'
  <2>1. CASE LosesKey(k)
    BY <1>1, <1>2, <2>1, LossesStay DEF WindowInv, LosesKey
  <2>2. CASE LosesButton(b)
    BY <1>2, <2>2 DEF WindowInv, LosesButton, Losses, OrbitButton
  <2> QED
    BY <2>1, <2>2
<1>6. PICK p, r : IsNow(p) /\ Leads(p, events, r) /\ Fits(r)
  BY <1>1 DEF WindowInv, Foretold
<1>7. IsNow(p)' /\ Leads(p, events, r)'
  <2>1. PICK q : q = events
    OBVIOUS
  <2>2. Leads(p, q, r)'
    BY <1>2, <1>6, <2>1, LeadsStays
  <2>3. IsNow(p)'
    BY <1>2, <1>6, NowStays
  <2> QED
    BY <1>1, <2>1, <2>2, <2>3
<1>8. HeldAsNoted(r)'
  <2>1. HeldAsNoted(r) /\ UNCHANGED <<platform, keysKnown>>
    BY <1>2, <1>6 DEF Fits
  <2>2. AreNoted(r.mouse, heldButtons, lostButtons)'
    BY <1>1, <2>1 DEF HeldAsNoted, AreNoted, ButtonOf
  <2> QED
    BY <1>1, <2>1, <2>2 DEF HeldAsNoted
<1>9. TurnedAsDragged(r)'
  <2>1. TurnedAsDragged(r) /\ UNCHANGED <<platform, cursor, dragged>> /\ (unfollowed => unfollowed')
    BY <1>1, <1>2, <1>6 DEF Fits
  <2> QED
    BY <2>1 DEF TurnedAsDragged
<1>10. OrbitedAsDragged(r)'
  <2>1. /\ OrbitedAsDragged(r) /\ UNCHANGED <<platform, cursor, dragged>>
        /\ unfollowed => unfollowed'
        /\ unorbited => unorbited'
    BY <1>1, <1>2, <1>6 DEF Fits
  <2> QED
    BY <2>1 DEF OrbitedAsDragged, OrbitButton, Together
<1> QED
  BY <1>3, <1>4, <1>5, <1>7, <1>8, <1>9, <1>10 DEF WindowInv, Foretold, Fits

LEMMA ClosesWindowKeeps ==
  ASSUME WindowInv, ClosesWindow
  PROVE  WindowInv'
<1>1. /\ Live /\ UNCHANGED <<windowVars, camVars, fixedVars, os_loop>>
      /\ events' = Append(events, Close)
      /\ UNCHANGED <<heldKeys, heldButtons, cursor, lostKeys, lostButtons, dragged, unfollowed, unorbited>>
  BY DEF ClosesWindow, DoesInput, Live
<1>2. UNCHANGED <<nowVars, seenVars, m_is_cursor_visible, platform, keysKnown>>
  BY <1>1 DEF nowVars, seenVars, dragVars, windowVars, camVars, fixedVars
<1>3. PICK e \in Occurrences : e = Close /\ e.kind = "close"
  BY OccurrencesAre DEF Close
<1>4. WindowTypes'
  <2>1. events' \in Seq(Occurrences)
    BY <1>1, <1>3, AppendProperties DEF WindowInv, WindowTypes
  <2> QED
    BY <1>1, <1>2, <2>1 DEF WindowInv, WindowTypes, nowVars
<1>5. Cursor'
  BY <1>1, <1>2, <1>3, CursorGrows
<1>6. Losses'
  BY <1>1, <1>2, LossesStay DEF WindowInv
<1>7. PICK p, r, s : Fits(r) /\ IsNow(p)' /\ s = After(e, r) /\ Leads(p, events, s)'
  BY <1>1, <1>2, <1>3, QueueGrows
<1>8. /\ s.mouse = r.mouse /\ s.keys = KeysAfter(e, r) /\ s.left = r.left /\ s.middle = r.middle
      /\ s.turned = r.turned /\ s.orbited = r.orbited /\ s.met = (r.met \/ Together(r.mouse))
  BY <1>3, <1>7, AfterKey
<1>9. s.keys = r.keys
  BY <1>3, <1>8 DEF KeysAfter
<1>10. HeldAsNoted(s)
  BY <1>7, <1>8, <1>9 DEF Fits, HeldAsNoted
<1>11. TurnedAsDragged(s) /\ OrbitedAsDragged(s)
  BY <1>7, <1>8, KeysDoNotDrag DEF Fits
<1>12. Fits(s)
  BY <1>10, <1>11 DEF Fits
<1>13. Fits(s)'
  BY <1>2, <1>12, NotedStays
<1> QED
  BY <1>4, <1>5, <1>6, <1>7, <1>13 DEF WindowInv, Foretold

LEMMA IsResizedKeeps ==
  ASSUME WindowInv, NEW width, NEW plain, IsResized(width, plain)
  PROVE  WindowInv'
<1>1. UNCHANGED <<seenVars, nowVars, events, m_is_cursor_visible>> /\ (Live' => Live)
  BY DEF IsResized, seenVars, dragVars, nowVars, fixedVars, Live
<1> QED
  BY <1>1, NothingSeen

LEMMA FrontIs ==
  ASSUME NEW S, NEW queue \in Seq(S), queue # <<>>
  PROVE  /\ Len(queue) \in Nat \ {0} /\ Last(queue) = queue[Len(queue)] /\ Last(queue) \in S
         /\ Front(queue) \in Seq(S) /\ Len(Front(queue)) = Len(queue) - 1
         /\ \A i \in 1 .. Len(queue) - 1 : Front(queue)[i] = queue[i]
<1>1. Len(queue) \in Nat \ {0}
  BY EmptySeq
<1>2. PICK n \in Nat : n + 1 = Len(queue)
  <2>1. Len(queue) - 1 \in Nat /\ (Len(queue) - 1) + 1 = Len(queue)
    BY <1>1
  <2> QED
    BY <2>1
<1>3. Len(queue) - 1 = n
  BY <1>2
<1>4. Last(queue) = queue[n + 1] /\ Last(queue) \in S
  <2>1. n + 1 \in 1 .. Len(queue)
    BY <1>2
  <2> QED
    BY <1>2, <2>1, ElementOfSeq DEF Last
<1>5. Front(queue) = [i \in 1 .. n |-> queue[i]]
  BY <1>2, <1>3 DEF Front
<1>6. \A i \in 1 .. n : queue[i] \in S
  <2>1. \A i \in 1 .. n : i \in 1 .. Len(queue)
    BY <1>2
  <2> QED
    BY <2>1, ElementOfSeq
<1> QED
  BY <1>1, <1>2, <1>3, <1>4, <1>5, <1>6

LEMMA WithMotionIs ==
  ASSUME NEW queue \in Seq(Occurrences), NEW x \in Int, NEW q \in WithMotion(queue, x)
  PROVE  /\ q \in Seq(Occurrences) /\ Motion(x) \in Occurrences
         /\ \E n \in Nat : DOMAIN q = 1 .. n + 1 /\ q[n + 1].kind = "motion" /\ q[n + 1].x = x
         /\ \/ q = Append(queue, Motion(x))
            \/ queue # <<>> /\ Last(queue).kind = "motion" /\ q = Append(Front(queue), Motion(x))
<1>1. Motion(x) \in Occurrences /\ Motion(x).kind = "motion" /\ Motion(x).x = x
  BY OccurrencesAre DEF Motion
<1>2. \/ q = Append(queue, Motion(x))
      \/ queue # <<>> /\ Last(queue).kind = "motion" /\ q = Append(Front(queue), Motion(x))
  BY DEF WithMotion
<1>3. PICK base \in Seq(Occurrences) : q = Append(base, Motion(x))
  BY <1>2, FrontIs
<1>4. PICK n \in Nat : n = Len(base)
  BY LenProperties
<1>5. q \in Seq(Occurrences) /\ Len(q) = n + 1 /\ q[n + 1] = Motion(x)
  BY <1>1, <1>3, <1>4, AppendProperties
<1>6. DOMAIN q = 1 .. n + 1
  BY <1>5, LenProperties
<1> QED
  BY <1>1, <1>2, <1>5, <1>6

(* A motion that is queued instead of the last one, which ended at c. *)
LEMMA LeadsReplaced ==
  ASSUME platform \in {"x11", "win"}, NEW queue \in Seq(Occurrences), queue # <<>>, Last(queue).kind = "motion",
         NEW c \in Int, Last(queue).x = c, NEW x \in Int, NEW p \in States, NEW r, Leads(p, queue, r)
  PROVE  \E s : /\ Leads(p, Append(Front(queue), Motion(x)), s)
                /\ s.mouse = r.mouse /\ s.keys = r.keys /\ s.met = r.met
                /\ s.turned = IF "left" \in r.mouse THEN r.turned + (c - x) ELSE r.turned
                /\ s.orbited = IF "middle" \in r.mouse THEN r.orbited + (c - x) ELSE r.orbited
                /\ IsFollowed("middle", r.mouse) => s.middle = x
<1>1. PICK last \in Occurrences, front \in Seq(Occurrences) : last = Last(queue) /\ front = Front(queue)
  BY FrontIs
<1>2. PICK q : Leads(p, front, q) /\ r = After(last, q)
  BY <1>1, LeadsToTheLast
<1>3. q \in States
  BY <1>2, LeadsToAState
<1>4. PICK e \in Occurrences : e = Motion(x) /\ e.kind = "motion" /\ e.x = x
  BY OccurrencesAre DEF Motion
<1>5. PICK s : s = After(e, q)
  OBVIOUS
<1>6. Leads(p, Append(front, e), s)
  BY <1>2, <1>5, LeadsOneFurther
<1>7. /\ r.mouse = q.mouse /\ r.keys = q.keys /\ r.met = (q.met \/ Together(q.mouse))
      /\ r.turned = IF "left" \in q.mouse THEN q.turned + (q.left - last.x) ELSE q.turned
      /\ r.orbited = IF "middle" \in q.mouse THEN q.orbited + (q.middle - last.x) ELSE q.orbited
      /\ r.left = IF IsFollowed("left", q.mouse) THEN last.x ELSE q.left
      /\ r.middle = IF IsFollowed("middle", q.mouse) THEN last.x ELSE q.middle
  <2>1. last.kind = "motion"
    BY <1>1
  <2> QED
    BY <1>2, <2>1, AfterMotion
<1>8. /\ s.mouse = q.mouse /\ s.keys = q.keys /\ s.met = (q.met \/ Together(q.mouse))
      /\ s.turned = IF "left" \in q.mouse THEN q.turned + (q.left - e.x) ELSE q.turned
      /\ s.orbited = IF "middle" \in q.mouse THEN q.orbited + (q.middle - e.x) ELSE q.orbited
      /\ s.left = IF IsFollowed("left", q.mouse) THEN e.x ELSE q.left
      /\ s.middle = IF IsFollowed("middle", q.mouse) THEN e.x ELSE q.middle
  BY <1>4, <1>5, AfterMotion
<1>9. q.turned \in Int /\ q.left \in Int /\ q.orbited \in Int /\ q.middle \in Int
  BY <1>3, StatesAre
<1>10. s.mouse = r.mouse /\ s.keys = r.keys /\ s.met = r.met
  BY <1>7, <1>8, Zenon
<1>11. s.turned = IF "left" \in r.mouse THEN r.turned + (c - x) ELSE r.turned
  BY <1>1, <1>4, <1>7, <1>8, <1>9
<1>12. s.orbited = IF "middle" \in r.mouse THEN r.orbited + (c - x) ELSE r.orbited
  BY <1>1, <1>4, <1>7, <1>8, <1>9
<1>13. IsFollowed("middle", r.mouse) => s.middle = x
  BY <1>4, <1>7, <1>8
<1> QED
  BY <1>1, <1>4, <1>6, <1>10, <1>11, <1>12, <1>13

(* With a motion to x at the end the cursor is there.                      *)
LEMMA CursorMoved ==
  ASSUME WindowInv, NEW x \in Int, NEW queue \in Seq(Occurrences), events' \in WithMotion(queue, x), cursor' = x,
         UNCHANGED <<platform, m_mouse_down, m_is_cursor_visible>>
  PROVE  Cursor' /\ events' \in Seq(Occurrences)
<1>1. PICK longer : longer = events'
  OBVIOUS
<1>2. longer \in Seq(Occurrences)
      /\ \E n \in Nat : DOMAIN longer = 1 .. n + 1 /\ longer[n + 1].kind = "motion" /\ longer[n + 1].x = x
  BY <1>1, WithMotionIs
<1>3. PICK n \in Nat : DOMAIN events' = 1 .. n + 1 /\ events'[n + 1].kind = "motion" /\ events'[n + 1].x = x
  BY <1>1, <1>2
<1>4. n + 1 \in 1 .. n + 1 /\ \A i \in 1 .. n + 1 : i = n + 1 \/ n + 1 > i
  OBVIOUS
<1>5. HasMotion(events)'
  BY <1>3, <1>4 DEF HasMotion
<1>6. AtCursor'
  BY <1>3, <1>4 DEF AtCursor
<1>7. m_is_cursor_visible' <=> ~(platform' = "win" /\ "left" \in m_mouse_down')
  BY DEF WindowInv, Cursor
<1> QED
  BY <1>1, <1>2, <1>5, <1>6, <1>7 DEF Cursor

(* What a motion from c to x adds to what the camera has done for button a *)
(* is what it adds to what was dragged with b.                             *)
LEMMA FollowsDrag ==
  ASSUME NEW d \in Int, NEW c \in Int, NEW x \in Int, NEW mouse, NEW held, NEW a, NEW b, a \in mouse <=> b \in held,
         NEW t, t = -d, NEW old, a \in mouse => old = c
  PROVE  (IF a \in mouse THEN t + (old - x) ELSE t) = -(IF b \in held THEN d + (x - c) ELSE d)
  OBVIOUS

(* What both platforms have in common when the cursor is moved. *)
LEMMA MovesCursorIs ==
  ASSUME WindowInv, NEW x \in Places, MovesCursor(x)
  PROVE  /\ Live /\ Live' /\ x \in Int /\ cursor \in Int /\ dragged \in [Buttons -> Int]
         /\ UNCHANGED <<nowVars, m_mouse_down, m_old_mouse, m_is_cursor_visible, platform, keysKnown, heldKeys,
                        heldButtons, lostKeys, lostButtons>>
         /\ cursor' = x /\ dragged' \in [Buttons -> Int]
         /\ \A b \in Buttons : dragged'[b] = IF b \in heldButtons THEN dragged[b] + (x - cursor) ELSE dragged[b]
         /\ \A r, s : HeldAsNoted(r) /\ s.mouse = r.mouse /\ s.keys = r.keys => HeldAsNoted(s)'
<1>1. /\ Live /\ Live' /\ UNCHANGED <<windowVars, camVars, fixedVars, os_loop>>
      /\ cursor' = x
      /\ dragged' = [b \in Buttons |-> IF b \in heldButtons THEN dragged[b] + (x - cursor) ELSE dragged[b]]
      /\ UNCHANGED <<heldKeys, heldButtons, lostKeys, lostButtons>>
  BY DEF MovesCursor, DoesInput, Live, fixedVars
<1>2. UNCHANGED <<nowVars, m_mouse_down, m_old_mouse, m_is_cursor_visible, platform, keysKnown>>
  BY <1>1 DEF nowVars, windowVars, camVars, fixedVars
<1>3. x \in Int /\ cursor \in Int /\ dragged \in [Buttons -> Int]
  BY PlacesAssumption DEF WindowInv, WindowTypes
<1>4. dragged' \in [Buttons -> Int]
  BY <1>1, <1>3
<1>5. \A b \in Buttons : dragged'[b] = IF b \in heldButtons THEN dragged[b] + (x - cursor) ELSE dragged[b]
  BY <1>1
<1>6. ASSUME NEW r, NEW s, HeldAsNoted(r), s.mouse = r.mouse, s.keys = r.keys
      PROVE  HeldAsNoted(s)'
  <2>1. AreNoted(s.mouse, heldButtons, lostButtons)'
    BY <1>1, <1>2, <1>6 DEF HeldAsNoted, AreNoted, ButtonOf
  <2> QED
    BY <1>1, <1>2, <1>6, <2>1 DEF HeldAsNoted
<1> QED
  BY <1>1, <1>2, <1>3, <1>4, <1>5, <1>6

(* Which buttons are noted that the camera looks at. *)
LEMMA DragsAreNoted ==
  ASSUME WindowInv, NEW r, HeldAsNoted(r)
  PROVE  /\ ~unfollowed => ("left" \in r.mouse <=> "left" \in heldButtons)
         /\ ~unorbited => ("middle" \in r.mouse <=> OrbitButton \in heldButtons)
<1>1. AreNoted(r.mouse, heldButtons, lostButtons) /\ platform \in {"x11", "win"}
  BY DEF HeldAsNoted, WindowInv, WindowTypes
<1>2. ButtonOf("left") = "left" /\ ButtonOf(OrbitButton) = "middle"
  BY <1>1 DEF ButtonOf, OrbitButton
<1>3. OrbitButton \in Buttons /\ (platform = "win" => OrbitButton # "right")
  BY <1>1 DEF OrbitButton, Buttons
<1>4. (~unfollowed => "left" \notin lostButtons) /\ (~unorbited => OrbitButton \notin lostButtons)
  BY DEF WindowInv, Losses
<1>5. "left" \in Buttons
  BY DEF Buttons
<1> QED
  BY <1>1, <1>2, <1>3, <1>4, <1>5 DEF AreNoted

LEMMA MovesCursorOnX11 ==
  ASSUME WindowInv, NEW x \in Places, MovesCursor(x), platform = "x11"
  PROVE  WindowInv'
<1>1. /\ Live /\ Live' /\ x \in Int /\ cursor \in Int /\ dragged \in [Buttons -> Int]
      /\ UNCHANGED <<nowVars, m_mouse_down, m_old_mouse, m_is_cursor_visible, platform, keysKnown, heldKeys,
                     heldButtons, lostKeys, lostButtons>>
      /\ cursor' = x /\ dragged' \in [Buttons -> Int]
      /\ \A b \in Buttons : dragged'[b] = IF b \in heldButtons THEN dragged[b] + (x - cursor) ELSE dragged[b]
      /\ \A r, s : HeldAsNoted(r) /\ s.mouse = r.mouse /\ s.keys = r.keys => HeldAsNoted(s)'
  BY MovesCursorIs
<1>2. /\ UNCHANGED unfollowed
      /\ \/ events' = Append(events, Motion(x)) /\ UNCHANGED unorbited
         \/ /\ UNCHANGED events /\ "left" \notin heldButtons
            /\ unorbited' = (unorbited \/ "right" \in heldButtons)
  BY DEF MovesCursor
<1>3. PICK e \in Occurrences : e = Motion(x) /\ e.kind = "motion" /\ e.x = x
  BY <1>1, OccurrencesAre DEF Motion
<1>4. WindowTypes'
  <2>1. events' \in Seq(Occurrences)
    <3>1. events \in Seq(Occurrences) /\ (events' = Append(events, e) \/ events' = events)
      BY <1>2, <1>3 DEF WindowInv, WindowTypes
    <3> QED
      BY <3>1, AppendProperties
  <2>2. unorbited' \in BOOLEAN
    BY <1>2 DEF WindowInv, WindowTypes
  <2> QED
    BY <1>1, <1>2, <2>1, <2>2 DEF WindowInv, WindowTypes, nowVars
<1>5. Cursor'
  BY <1>1 DEF WindowInv, Cursor
<1>6. Losses'
  BY <1>1, <1>2 DEF WindowInv, Losses, OrbitButton
<1>7. OrbitButton = "right" /\ OrbitButton' = "right" /\ "right" \in Buttons /\ "left" \in Buttons
  BY <1>1 DEF OrbitButton, Buttons
<1>8. CASE events' = Append(events, Motion(x)) /\ UNCHANGED unorbited
  <2>1. PICK p, r, s : /\ IsNow(p) /\ Leads(p, events, r) /\ r \in States /\ Fits(r)
                       /\ IsNow(p)' /\ s = After(e, r) /\ Leads(p, events, s)'
    BY <1>1, <1>3, <1>8, QueueGrows
  <2>2. /\ s.mouse = r.mouse /\ s.keys = r.keys /\ s.met = (r.met \/ Together(r.mouse))
        /\ s.turned = IF "left" \in r.mouse THEN r.turned + (r.left - e.x) ELSE r.turned
        /\ s.orbited = IF "middle" \in r.mouse THEN r.orbited + (r.middle - e.x) ELSE r.orbited
        /\ s.left = IF IsFollowed("left", r.mouse) THEN e.x ELSE r.left
        /\ s.middle = IF IsFollowed("middle", r.mouse) THEN e.x ELSE r.middle
    BY <1>3, <2>1, AfterMotion
  <2>3. HeldAsNoted(r) /\ TurnedAsDragged(r) /\ OrbitedAsDragged(r)
    BY <2>1 DEF Fits
  <2>4. HeldAsNoted(s)'
    BY <1>1, <2>2, <2>3
  <2>5. ASSUME ~unfollowed
        PROVE  s.turned = -dragged'["left"] /\ ("left" \in s.mouse => s.left = x)
    <3>1. r.turned = -dragged["left"] /\ ("left" \in r.mouse => r.left = cursor)
      BY <2>3, <2>5 DEF TurnedAsDragged
    <3>2. "left" \in r.mouse <=> "left" \in heldButtons
      BY <2>3, <2>5, DragsAreNoted
    <3>3. PICK d \in Int : d = dragged["left"]
      BY <1>1, <1>7
    <3>4. PICK t : t = r.turned
      OBVIOUS
    <3>5. PICK old : old = r.left
      OBVIOUS
    <3>6. (IF "left" \in r.mouse THEN t + (old - x) ELSE t) = -(IF "left" \in heldButtons THEN d + (x - cursor) ELSE d)
      BY <1>1, <3>1, <3>2, <3>3, <3>4, <3>5, FollowsDrag
    <3>7. s.turned = -dragged'["left"]
      BY <1>1, <1>3, <1>7, <2>2, <3>3, <3>4, <3>5, <3>6
    <3>8. "left" \in s.mouse => s.left = x
      BY <1>1, <1>3, <2>2 DEF IsFollowed
    <3> QED
      BY <3>7, <3>8
  <2>6. ASSUME ~unfollowed, ~unorbited
        PROVE  s.orbited = -dragged'["right"] /\ ("middle" \in s.mouse => s.middle = x)
    <3>1. r.orbited = -dragged["right"] /\ ("middle" \in r.mouse => r.middle = cursor)
      BY <1>7, <2>3, <2>6 DEF OrbitedAsDragged
    <3>2. "middle" \in r.mouse <=> "right" \in heldButtons
      BY <1>7, <2>3, <2>6, DragsAreNoted
    <3>3. PICK d \in Int : d = dragged["right"]
      BY <1>1, <1>7
    <3>4. PICK t : t = r.orbited
      OBVIOUS
    <3>5. PICK old : old = r.middle
      OBVIOUS
    <3>6. (IF "middle" \in r.mouse THEN t + (old - x) ELSE t) = -(IF "right" \in heldButtons THEN d + (x - cursor) ELSE d)
      BY <1>1, <3>1, <3>2, <3>3, <3>4, <3>5, FollowsDrag
    <3>7. s.orbited = -dragged'["right"]
      BY <1>1, <1>3, <1>7, <2>2, <3>3, <3>4, <3>5, <3>6
    <3>8. "middle" \in s.mouse => s.middle = x
      BY <1>1, <1>3, <2>2 DEF IsFollowed
    <3> QED
      BY <3>7, <3>8
  <2>7. TurnedAsDragged(s)'
    BY <1>1, <1>2, <2>5 DEF TurnedAsDragged
  <2>8. OrbitedAsDragged(s)'
    BY <1>1, <1>2, <1>7, <1>8, <2>6 DEF OrbitedAsDragged
  <2> QED
    BY <1>4, <1>5, <1>6, <2>1, <2>4, <2>7, <2>8 DEF WindowInv, Foretold, Fits
<1>9. CASE /\ UNCHANGED events /\ "left" \notin heldButtons
           /\ unorbited' = (unorbited \/ "right" \in heldButtons)
  <2>1. PICK p, r : IsNow(p) /\ Leads(p, events, r) /\ Fits(r)
    BY <1>1 DEF WindowInv, Foretold
  <2>2. IsNow(p)' /\ Leads(p, events, r)'
    <3>1. PICK q : q = events
      OBVIOUS
    <3>2. Leads(p, q, r)'
      BY <1>1, <2>1, <3>1, LeadsStays
    <3>3. IsNow(p)'
      BY <1>1, <2>1, NowStays
    <3> QED
      BY <1>9, <3>1, <3>2, <3>3
  <2>3. HeldAsNoted(r) /\ TurnedAsDragged(r) /\ OrbitedAsDragged(r)
    BY <2>1 DEF Fits
  <2>4. HeldAsNoted(r)'
    BY <1>1, <2>3
  <2>5. TurnedAsDragged(r)'
    <3>1. ~unfollowed => "left" \notin r.mouse
      BY <1>9, <2>3, DragsAreNoted
    <3>2. dragged'["left"] = dragged["left"]
      BY <1>1, <1>7, <1>9
    <3> QED
      BY <1>1, <1>2, <2>3, <3>1, <3>2 DEF TurnedAsDragged
  <2>6. OrbitedAsDragged(r)'
    <3> SUFFICES ASSUME ~unfollowed, ~unorbited, "right" \notin heldButtons
                 PROVE  r.orbited = -dragged'["right"] /\ "middle" \notin r.mouse
      BY <1>1, <1>2, <1>7, <1>9 DEF OrbitedAsDragged
    <3>1. "middle" \notin r.mouse
      BY <1>7, <2>3, DragsAreNoted
    <3>2. dragged'["right"] = dragged["right"]
      BY <1>1, <1>7
    <3> QED
      BY <1>7, <2>3, <3>1, <3>2 DEF OrbitedAsDragged
  <2> QED
    BY <1>4, <1>5, <1>6, <2>2, <2>4, <2>5, <2>6 DEF WindowInv, Foretold, Fits
<1> QED
  BY <1>2, <1>8, <1>9

(* On Windows a motion that is queued behind no other finds the left       *)
(* button where the cursor was.                                            *)
LEMMA LeftIsAtCursor ==
  ASSUME WindowInv, Live, platform = "win", ~HasMotion(events), NEW p, IsNow(p), NEW r, Leads(p, events, r)
  PROVE  "left" \in r.mouse => r.left = cursor
<1>1. PICK queue \in Seq(Occurrences) : queue = events
  BY DEF WindowInv, WindowTypes
<1>2. PICK c : c = cursor
  OBVIOUS
<1>3. ASSUME NEW i \in DOMAIN queue
      PROVE  IsUsedAt(queue[i], c)
  <2>1. AtCursor /\ \A j \in DOMAIN events : events[j].kind # "motion"
    BY DEF WindowInv, Cursor, HasMotion
  <2> QED
    BY <1>1, <1>2, <2>1 DEF AtCursor, IsUsedAt
<1>4. LeftIsAt(p, c)
  BY <1>2 DEF WindowInv, Cursor, IsNow, LeftIsAt
<1>5. LeftIsAt(r, c)
  <2>1. Leads(p, queue, r) /\ p \in States /\ platform \in {"x11", "win"}
    BY <1>1 DEF IsNow, WindowInv, WindowTypes
  <2> QED
    BY <1>3, <1>4, <2>1, LeadsUnmoved
<1> QED
  BY <1>2, <1>5 DEF LeftIsAt

LEMMA MovesCursorOnWindows ==
  ASSUME WindowInv, NEW x \in Places, MovesCursor(x), platform = "win"
  PROVE  WindowInv'
<1>1. /\ Live /\ Live' /\ x \in Int /\ cursor \in Int /\ dragged \in [Buttons -> Int]
      /\ UNCHANGED <<nowVars, m_mouse_down, m_old_mouse, m_is_cursor_visible, platform, keysKnown, heldKeys,
                     heldButtons, lostKeys, lostButtons>>
      /\ cursor' = x /\ dragged' \in [Buttons -> Int]
      /\ \A b \in Buttons : dragged'[b] = IF b \in heldButtons THEN dragged[b] + (x - cursor) ELSE dragged[b]
      /\ \A r, s : HeldAsNoted(r) /\ s.mouse = r.mouse /\ s.keys = r.keys => HeldAsNoted(s)'
  BY MovesCursorIs
<1>2. /\ events' \in WithMotion(events, x) /\ UNCHANGED unorbited
      /\ unfollowed' = (unfollowed \/ ("left" \in heldButtons /\ HasMotion(events) /\ Len(events') > Len(events)))
  BY DEF MovesCursor
<1>3. PICK e \in Occurrences : e = Motion(x) /\ e.kind = "motion" /\ e.x = x
  BY <1>1, OccurrencesAre DEF Motion
<1>4. PICK queue \in Seq(Occurrences) : queue = events
  BY DEF WindowInv, WindowTypes
<1>5. Cursor' /\ events' \in Seq(Occurrences)
  BY <1>1, <1>2, <1>4, CursorMoved
<1>6. WindowTypes'
  <2>1. unfollowed' \in BOOLEAN
    BY <1>2 DEF WindowInv, WindowTypes
  <2> QED
    BY <1>1, <1>2, <1>5, <2>1 DEF WindowInv, WindowTypes, nowVars
<1>7. Losses'
  BY <1>1, <1>2 DEF WindowInv, Losses, OrbitButton
<1>8. OrbitButton = "middle" /\ OrbitButton' = "middle" /\ "middle" \in Buttons /\ "left" \in Buttons
  BY <1>1 DEF OrbitButton, Buttons
<1>9. \/ events' = Append(events, e)
      \/ events # <<>> /\ Last(events).kind = "motion" /\ events' = Append(Front(events), e)
  <2>1. PICK q : q = events'
    OBVIOUS
  <2>2. \/ q = Append(queue, Motion(x))
        \/ queue # <<>> /\ Last(queue).kind = "motion" /\ q = Append(Front(queue), Motion(x))
    BY <1>1, <1>2, <1>4, <2>1, WithMotionIs
  <2> QED
    BY <1>3, <1>4, <2>1, <2>2
<1>10. ASSUME NEW r, Fits(r), NEW s, s.mouse = r.mouse, s.keys = r.keys, s.met = r.met \/ s.met = (r.met \/ Together(r.mouse)),
              NEW old, ~unfollowed' /\ "left" \in r.mouse => old = cursor,
              s.turned = IF "left" \in r.mouse THEN r.turned + (old - x) ELSE r.turned,
              NEW mid, ~unfollowed /\ ~unorbited /\ "middle" \in r.mouse => mid = cursor,
              s.orbited = IF "middle" \in r.mouse THEN r.orbited + (mid - x) ELSE r.orbited,
              IsFollowed("middle", r.mouse) => s.middle = x
       PROVE  Fits(s)'
  <2>1. HeldAsNoted(r) /\ TurnedAsDragged(r) /\ OrbitedAsDragged(r)
    BY <1>10 DEF Fits
  <2>2. HeldAsNoted(s)'
    BY <1>1, <1>10, <2>1
  <2>3. ASSUME ~unfollowed'
        PROVE  s.turned = -dragged'["left"]
    <3>1. ~unfollowed /\ r.turned = -dragged["left"]
      BY <1>2, <2>1, <2>3 DEF TurnedAsDragged
    <3>2. "left" \in r.mouse <=> "left" \in heldButtons
      BY <2>1, <3>1, DragsAreNoted
    <3>3. PICK d \in Int : d = dragged["left"]
      BY <1>1, <1>8
    <3>4. PICK t : t = r.turned
      OBVIOUS
    <3>5. (IF "left" \in r.mouse THEN t + (old - x) ELSE t) = -(IF "left" \in heldButtons THEN d + (x - cursor) ELSE d)
      <4>1. "left" \in r.mouse => old = cursor
        BY <1>10, <2>3
      <4> QED
        BY <1>1, <3>1, <3>2, <3>3, <3>4, <4>1, FollowsDrag
    <3> QED
      BY <1>1, <1>8, <1>10, <3>3, <3>4, <3>5
  <2>4. ASSUME ~unfollowed, ~unorbited
        PROVE  /\ s.orbited = -dragged'["middle"] /\ ("middle" \in s.mouse => s.middle = x)
               /\ ~s.met /\ ~Together(s.mouse)
    <3>1. r.orbited = -dragged["middle"] /\ ~r.met /\ ~Together(r.mouse)
      BY <1>8, <2>1, <2>4 DEF OrbitedAsDragged
    <3>2. "middle" \in r.mouse <=> "middle" \in heldButtons
      BY <1>8, <2>1, <2>4, DragsAreNoted
    <3>3. PICK d \in Int : d = dragged["middle"]
      BY <1>1, <1>8
    <3>4. PICK t : t = r.orbited
      OBVIOUS
    <3>5. (IF "middle" \in r.mouse THEN t + (mid - x) ELSE t)
          = -(IF "middle" \in heldButtons THEN d + (x - cursor) ELSE d)
      <4>1. "middle" \in r.mouse => mid = cursor
        BY <1>10, <2>4
      <4> QED
        BY <1>1, <3>1, <3>2, <3>3, <3>4, <4>1, FollowsDrag
    <3>6. s.orbited = -dragged'["middle"]
      BY <1>1, <1>8, <1>10, <3>3, <3>4, <3>5
    <3>7. "middle" \in s.mouse => s.middle = x
      BY <1>10, <3>1 DEF IsFollowed, Together
    <3>8. ~s.met /\ ~Together(s.mouse)
      BY <1>10, <3>1, Zenon
    <3> QED
      BY <3>6, <3>7, <3>8
  <2>5. TurnedAsDragged(s)'
    BY <1>1, <2>3 DEF TurnedAsDragged
  <2>6. OrbitedAsDragged(s)'
    <3>1. Together(s.mouse)' <=> Together(s.mouse)
      BY DEF Together
    <3> QED
      BY <1>1, <1>2, <1>8, <2>4, <3>1 DEF OrbitedAsDragged
  <2> QED
    BY <2>2, <2>5, <2>6 DEF Fits
<1>11. CASE events' = Append(events, e)
  <2>1. PICK p, r, s : /\ IsNow(p) /\ Leads(p, events, r) /\ r \in States /\ Fits(r)
                       /\ IsNow(p)' /\ s = After(e, r) /\ Leads(p, events, s)'
    BY <1>1, <1>3, <1>11, QueueGrows
  <2>2. /\ s.mouse = r.mouse /\ s.keys = r.keys /\ s.met = (r.met \/ Together(r.mouse))
        /\ s.turned = IF "left" \in r.mouse THEN r.turned + (r.left - e.x) ELSE r.turned
        /\ s.orbited = IF "middle" \in r.mouse THEN r.orbited + (r.middle - e.x) ELSE r.orbited
        /\ s.left = IF IsFollowed("left", r.mouse) THEN e.x ELSE r.left
        /\ s.middle = IF IsFollowed("middle", r.mouse) THEN e.x ELSE r.middle
    BY <1>3, <2>1, AfterMotion
  <2>3. ~unfollowed' /\ "left" \in r.mouse => r.left = cursor
    <3> SUFFICES ASSUME ~unfollowed', "left" \in r.mouse
                 PROVE  r.left = cursor
      OBVIOUS
    <3>1. ~unfollowed /\ ("left" \notin heldButtons \/ ~HasMotion(events) \/ ~(Len(events') > Len(events)))
      BY <1>2
    <3>2. "left" \in heldButtons
      BY <2>1, <3>1, DragsAreNoted DEF Fits
    <3>3. Len(events') > Len(events)
      <4>1. Len(Append(queue, e)) = Len(queue) + 1 /\ Len(queue) \in Nat
        BY AppendProperties, LenProperties
      <4> QED
        BY <1>4, <1>11, <4>1
    <3> QED
      BY <1>1, <2>1, <3>1, <3>2, <3>3, LeftIsAtCursor
  <2>4. ~unfollowed /\ ~unorbited /\ "middle" \in r.mouse => r.middle = cursor
    BY <2>1 DEF Fits, OrbitedAsDragged
  <2>5. PICK left, middle : left = r.left /\ middle = r.middle
    OBVIOUS
  <2>6. Fits(s)'
    <3>1. s.turned = IF "left" \in r.mouse THEN r.turned + (left - x) ELSE r.turned
      BY <1>3, <2>2, <2>5, Zenon
    <3>2. s.orbited = IF "middle" \in r.mouse THEN r.orbited + (middle - x) ELSE r.orbited
      BY <1>3, <2>2, <2>5, Zenon
    <3>3. /\ s.mouse = r.mouse /\ s.keys = r.keys /\ s.met = (r.met \/ Together(r.mouse))
          /\ IsFollowed("middle", r.mouse) => s.middle = x
      BY <1>3, <2>2, Zenon
    <3> QED
      BY <1>10, <2>1, <2>3, <2>4, <2>5, <3>1, <3>2, <3>3
  <2> QED
    BY <1>5, <1>6, <1>7, <2>1, <2>6 DEF WindowInv, Foretold
<1>12. CASE events # <<>> /\ Last(events).kind = "motion" /\ events' = Append(Front(events), e)
  <2>1. PICK p, r : IsNow(p) /\ Leads(p, events, r) /\ Fits(r)
    BY <1>1 DEF WindowInv, Foretold
  <2>2. PICK c \in Int : c = cursor
    BY <1>1
  <2>3. Last(queue).x = c
    <3>1. PICK n \in Nat \ {0} : n = Len(queue) /\ Last(queue) = queue[n] /\ DOMAIN queue = 1 .. n
      BY <1>4, <1>12, FrontIs, LenProperties
    <3>2. n \in 1 .. n /\ \A j \in 1 .. n : ~(j > n)
      BY <3>1
    <3>3. AtCursor
      BY <1>1 DEF WindowInv, Cursor
    <3> QED
      BY <1>4, <1>12, <2>2, <3>1, <3>2, <3>3 DEF AtCursor
  <2>4. PICK s : /\ Leads(p, Append(Front(queue), Motion(x)), s)
                 /\ s.mouse = r.mouse /\ s.keys = r.keys /\ s.met = r.met
                 /\ s.turned = IF "left" \in r.mouse THEN r.turned + (c - x) ELSE r.turned
                 /\ s.orbited = IF "middle" \in r.mouse THEN r.orbited + (c - x) ELSE r.orbited
                 /\ IsFollowed("middle", r.mouse) => s.middle = x
    <3>1. queue # <<>> /\ Last(queue).kind = "motion" /\ p \in States /\ Leads(p, queue, r)
      BY <1>4, <1>12, <2>1 DEF IsNow
    <3> QED
      BY <1>1, <2>3, <3>1, LeadsReplaced
  <2>5. IsNow(p)' /\ Leads(p, events, s)'
    <3>1. PICK q : q = Append(Front(queue), Motion(x))
      OBVIOUS
    <3>2. Leads(p, q, s)'
      BY <1>1, <2>4, <3>1, LeadsStays
    <3>3. events' = q
      BY <1>3, <1>4, <1>12, <3>1
    <3>4. IsNow(p)'
      BY <1>1, <2>1, NowStays
    <3> QED
      BY <3>2, <3>3, <3>4
  <2>6. Fits(s)'
    BY <1>10, <2>1, <2>2, <2>4
  <2> QED
    BY <1>5, <1>6, <1>7, <2>5, <2>6 DEF WindowInv, Foretold
<1> QED
  BY <1>9, <1>11, <1>12

LEMMA InputKeeps ==
  ASSUME WindowInv, Input
  PROVE  WindowInv'
<1>1. CASE \E k \in Keys : UsesKey(k)
  BY <1>1, UsesKeyKeeps
<1>2. CASE \E k \in Keys : LosesKey(k)
  <2>1. "left" \in Buttons
    BY DEF Buttons
  <2> QED
    BY <1>2, <2>1, LosesKeeps
<1>3. CASE \E b \in Buttons : UsesButton(b)
  BY <1>3, UsesButtonKeeps
<1>4. CASE \E b \in Buttons : LosesButton(b)
  <2>1. "w" \in Keys
    BY DEF Keys
  <2> QED
    BY <1>4, <2>1, LosesKeeps
<1>5. CASE \E b \in Buttons \cup {"none"} : TurnsWheel(b)
  BY <1>5, TurnsWheelKeeps DEF Noticed
<1>6. CASE \E x \in Places : MovesCursor(x)
  BY <1>6, MovesCursorOnX11, MovesCursorOnWindows DEF WindowInv, WindowTypes
<1>7. CASE \E width \in Sizes, plain \in BOOLEAN : IsResized(width, plain)
  BY <1>7, IsResizedKeeps
<1>8. CASE ClosesWindow
  BY <1>8, ClosesWindowKeeps
<1> QED
  BY <1>1, <1>2, <1>3, <1>4, <1>5, <1>6, <1>7, <1>8 DEF Input

-----------------------------------------------------------------------------
(* The handlers. *)
LEMMA TailIs ==
  ASSUME WindowInv, events # <<>>
  PROVE  /\ Head(events) \in Occurrences /\ Tail(events) \in Seq(Occurrences)
         /\ \E n \in Nat : /\ DOMAIN events = 1 .. n + 1 /\ DOMAIN Tail(events) = 1 .. n
                           /\ Len(events) = n + 1 /\ Len(Tail(events)) = n /\ Head(events) = events[1]
                           /\ \A i \in 1 .. n : Tail(events)[i] = events[i + 1]
<1>1. PICK q \in Seq(Occurrences) : q = events /\ q # <<>>
  BY DEF WindowInv, WindowTypes
<1>2. Len(q) \in Nat \ {0}
  BY <1>1, EmptySeq
<1>3. PICK n \in Nat : n = Len(q) - 1
  BY <1>2
<1>4. Len(q) = n + 1
  BY <1>2, <1>3
<1>5. PICK rest : rest = Tail(q)
  OBVIOUS
<1>6. /\ Head(q) \in Occurrences /\ rest \in Seq(Occurrences) /\ Len(rest) = n
      /\ \A i \in 1 .. n : rest[i] = q[i + 1]
  <2>1. /\ Head(q) \in Occurrences /\ rest \in Seq(Occurrences) /\ Len(rest) = Len(q) - 1
        /\ \A i \in 1 .. Len(rest) : rest[i] = q[i + 1]
    BY <1>1, <1>5, HeadTailProperties
  <2> QED
    BY <1>3, <2>1
<1>7. DOMAIN q = 1 .. n + 1 /\ DOMAIN rest = 1 .. n
  BY <1>4, <1>6, LenProperties
<1>8. Head(q) = q[1]
  OBVIOUS
<1> QED
  BY <1>1, <1>4, <1>5, <1>6, <1>7, <1>8

LEMMA AtCursorShrinks ==
  ASSUME WindowInv, AtCursor, events # <<>>, events' = Tail(events), UNCHANGED cursor
  PROVE  AtCursor'
<1>1. PICK n \in Nat : /\ DOMAIN events = 1 .. n + 1 /\ DOMAIN Tail(events) = 1 .. n
                       /\ \A i \in 1 .. n : Tail(events)[i] = events[i + 1]
  BY TailIs
<1> SUFFICES ASSUME NEW i \in 1 .. n, events'[i].kind \in {"button", "motion"},
                    \A j \in 1 .. n : j > i => events'[j].kind # "motion"
             PROVE  events'[i].x = cursor
  BY <1>1 DEF AtCursor
<1>2. i + 1 \in 1 .. n + 1
  OBVIOUS
<1>3. ASSUME NEW j \in 1 .. n + 1, j > i + 1
      PROVE  events[j].kind # "motion"
  <2>1. j - 1 \in 1 .. n /\ j - 1 > i /\ (j - 1) + 1 = j
    BY <1>3
  <2> QED
    BY <1>1, <2>1
<1>4. events[i + 1].kind \in {"button", "motion"} /\ events'[i] = events[i + 1]
  BY <1>1
<1> QED
  BY <1>1, <1>2, <1>3, <1>4 DEF AtCursor

LEMMA HasMotionShrinks ==
  ASSUME WindowInv, events # <<>>, ~HasMotion(Tail(events))
  PROVE  /\ Head(events).kind # "motion" => ~HasMotion(events)
         /\ \A j \in DOMAIN events : j > 1 => events[j].kind # "motion"
<1>1. PICK n \in Nat : /\ DOMAIN events = 1 .. n + 1 /\ DOMAIN Tail(events) = 1 .. n
                       /\ Head(events) = events[1] /\ \A i \in 1 .. n : Tail(events)[i] = events[i + 1]
  BY TailIs
<1>2. ASSUME NEW j \in 1 .. n + 1, j > 1
      PROVE  events[j].kind # "motion"
  <2>1. j - 1 \in 1 .. n /\ (j - 1) + 1 = j
    BY <1>2
  <2> QED
    BY <1>1, <2>1 DEF HasMotion
<1>3. \A j \in 1 .. n + 1 : j = 1 \/ j > 1
  OBVIOUS
<1> QED
  BY <1>1, <1>2, <1>3 DEF HasMotion

(* An event that is handled as foretold. *)
LEMMA HandledKeeps ==
  ASSUME WindowInv, events # <<>>, events' = Tail(events), UNCHANGED seenVars, Live' => Live,
         \A p, q : IsNow(p) /\ q = After(Head(events), p) => IsNow(q)',
         turned' \in Int, orbited' \in Int, m_old_mouse' \in [Buttons -> Int], m_is_cursor_visible' \in BOOLEAN,
         m_is_cursor_visible' <=> ~(platform = "win" /\ "left" \in m_mouse_down'),
         platform = "win" /\ Live /\ "left" \in m_mouse_down' /\ ~HasMotion(Tail(events)) =>
           cursor = m_old_mouse'["left"]
  PROVE  WindowInv'
<1>1. UNCHANGED <<heldKeys, heldButtons, cursor, lostKeys, lostButtons, dragged, unfollowed, unorbited, platform,
                  keysKnown>>
  BY DEF seenVars, dragVars
<1>2. WindowTypes'
  BY <1>1, TailIs DEF WindowInv, WindowTypes
<1>3. Cursor'
  <2>1. platform = "win" /\ Live => AtCursor'
    BY <1>1, AtCursorShrinks DEF WindowInv, Cursor
  <2> QED
    BY <1>1, <2>1 DEF WindowInv, Cursor, HasMotion
<1>4. Losses'
  BY <1>1, LossesStay DEF WindowInv
<1>5. Foretold'
  <2> SUFFICES ASSUME Live
               PROVE  \E p, r : IsNow(p)' /\ Leads(p, events, r)' /\ Fits(r)'
    BY DEF Foretold
  <2>1. PICK p, r : IsNow(p) /\ Leads(p, events, r) /\ Fits(r)
    BY DEF WindowInv, Foretold
  <2>2. PICK q : q = After(Head(events), p)
    OBVIOUS
  <2>3. Leads(q, events, r)'
    BY <1>1, <2>1, <2>2, QueueShrinks
  <2>4. IsNow(q)'
    BY <2>1, <2>2
  <2> QED
    BY <2>1, <2>3, <2>4, NotedStays
<1> QED
  BY <1>2, <1>3, <1>4, <1>5 DEF WindowInv

LEMMA HandleKeyKeeps ==
  ASSUME WindowInv, HandleKey
  PROVE  WindowInv'
<1>1. /\ events # <<>> /\ Head(events).kind = "key" /\ events' = Tail(events)
      /\ m_key_down' = IF Head(events).down \/ platform = "x11" THEN m_key_down \union {KeyOf(Head(events).key)}
                       ELSE m_key_down \ {KeyOf(Head(events).key)}
      /\ UNCHANGED <<userVars, m_mouse_down, m_old_mouse, m_is_cursor_visible, m_width, camVars, fixedVars, os_loop>>
  BY Zenon DEF HandleKey, Handles
<1>2. UNCHANGED <<seenVars, m_mouse_down, m_old_mouse, turned, orbited, m_is_cursor_visible>> /\ (Live' => Live)
  BY <1>1 DEF userVars, camVars, fixedVars, seenVars, dragVars, Live
<1>3. PICK e \in Occurrences : e = Head(events) /\ e.kind = "key"
  BY <1>1, TailIs
<1>4. ASSUME NEW p, NEW q, IsNow(p), q = After(e, p)
      PROVE  IsNow(q)'
  <2>1. /\ q.mouse = p.mouse /\ q.keys = KeysAfter(e, p) /\ q.left = p.left /\ q.middle = p.middle
        /\ q.turned = p.turned /\ q.orbited = p.orbited /\ q.met = (p.met \/ Together(p.mouse))
    BY <1>3, <1>4, AfterKey
  <2>2. q \in States
    BY <1>3, <1>4, AfterIsAState DEF IsNow, WindowInv, WindowTypes
  <2>3. q.keys = m_key_down'
    <3>1. p.keys = m_key_down
      BY <1>4 DEF IsNow
    <3> QED
      BY <1>1, <1>3, <2>1, <3>1, Zenon DEF KeysAfter
  <2> QED
    BY <1>2, <1>4, <2>1, <2>2, <2>3 DEF IsNow, Together
<1>5. platform = "win" /\ Live /\ "left" \in m_mouse_down' /\ ~HasMotion(Tail(events)) =>
        cursor = m_old_mouse'["left"]
  BY <1>1, <1>2, HasMotionShrinks DEF WindowInv, Cursor
<1>6. /\ turned' \in Int /\ orbited' \in Int /\ m_old_mouse' \in [Buttons -> Int] /\ m_is_cursor_visible' \in BOOLEAN
      /\ m_is_cursor_visible' <=> ~(platform = "win" /\ "left" \in m_mouse_down')
  BY <1>2 DEF WindowInv, WindowTypes, Cursor
<1> QED
  BY <1>1, <1>2, <1>3, <1>4, <1>5, <1>6, HandledKeeps

LEMMA HandleButtonKeeps ==
  ASSUME WindowInv, HandleButton
  PROVE  WindowInv'
<1> DEFINE b == Head(events).button
<1>1. /\ events # <<>> /\ Head(events).kind = "button" /\ events' = Tail(events)
      /\ m_mouse_down' = IF IsDown(Head(events)) THEN m_mouse_down \union {ButtonOf(b)}
                         ELSE m_mouse_down \ {ButtonOf(b)}
      /\ m_is_cursor_visible' = IF ButtonOf(b) = "left" /\ platform = "win" THEN ~IsDown(Head(events))
                                ELSE m_is_cursor_visible
      /\ m_old_mouse' = Noted(ButtonOf(b), Head(events).x)
      /\ UNCHANGED <<userVars, m_key_down, m_width, camVars, fixedVars, os_loop>>
  BY Zenon DEF HandleButton, Handles
<1>2. PICK e \in Occurrences : e = Head(events)
  BY <1>1, TailIs
<1>3. e.kind = "button" /\ e.button = b /\ e.x \in Int
  BY <1>1, <1>2, OccurrencesAre
<1>4. UNCHANGED <<seenVars, m_key_down, turned, orbited, platform>> /\ (Live' => Live)
  BY <1>1 DEF userVars, camVars, fixedVars, seenVars, dragVars, Live
<1> HIDE DEF b
<1>5. PICK mouse : mouse = ButtonOf(b)
  OBVIOUS
<1>6. m_old_mouse' = [c \in Buttons |-> IF c = mouse THEN e.x ELSE m_old_mouse[c]]
  BY <1>1, <1>2, <1>5 DEF Noted
<1>7. /\ m_old_mouse' \in [Buttons -> Int]
      /\ m_old_mouse'["left"] = (IF mouse = "left" THEN e.x ELSE m_old_mouse["left"])
      /\ m_old_mouse'["middle"] = (IF mouse = "middle" THEN e.x ELSE m_old_mouse["middle"])
  <2>1. "left" \in Buttons /\ "middle" \in Buttons /\ m_old_mouse \in [Buttons -> Int]
    BY DEF WindowInv, WindowTypes, Buttons
  <2> QED
    BY <1>3, <1>6, <2>1
<1>8. IsDown(e) \in BOOLEAN
  BY DEF IsDown
<1>9. ASSUME NEW p, NEW q, IsNow(p), q = After(e, p)
      PROVE  IsNow(q)'
  <2>1. /\ q.mouse = IF IsDown(e) THEN p.mouse \cup {ButtonOf(e.button)} ELSE p.mouse \ {ButtonOf(e.button)}
        /\ q.keys = p.keys /\ q.turned = p.turned /\ q.orbited = p.orbited
        /\ q.left = IF ButtonOf(e.button) = "left" THEN e.x ELSE p.left
        /\ q.middle = IF ButtonOf(e.button) = "middle" THEN e.x ELSE p.middle
        /\ q.met = (p.met \/ Together(q.mouse))
    BY <1>3, <1>9, AfterButton
  <2>2. q \in States
    BY <1>9, AfterIsAState DEF IsNow, WindowInv, WindowTypes
  <2>3. /\ p.mouse = m_mouse_down /\ p.keys = m_key_down /\ p.turned = turned /\ p.orbited = orbited
        /\ p.left = m_old_mouse["left"] /\ p.middle = m_old_mouse["middle"]
    BY <1>9 DEF IsNow
  <2>4. q.mouse = m_mouse_down'
    BY <1>1, <1>2, <1>3, <2>1, <2>3, Zenon
  <2>5. q.left = m_old_mouse'["left"]
    <3>1. q.left = IF mouse = "left" THEN e.x ELSE p.left
      BY <1>3, <1>5, <2>1, Zenon
    <3> QED
      BY <1>7, <2>3, <3>1
  <2>6. q.middle = m_old_mouse'["middle"]
    <3>1. q.middle = IF mouse = "middle" THEN e.x ELSE p.middle
      BY <1>3, <1>5, <2>1, Zenon
    <3> QED
      BY <1>7, <2>3, <3>1
  <2>7. q.keys = m_key_down' /\ q.turned = turned' /\ q.orbited = orbited'
    BY <1>4, <2>1, <2>3, Zenon
  <2>8. Together(m_mouse_down') => q.met
    BY <2>1, <2>4, Zenon
  <2> QED
    BY <2>2, <2>4, <2>5, <2>6, <2>7, <2>8, Zenon DEF IsNow, Together
<1>10. "left" \in m_mouse_down' <=> IF mouse = "left" THEN IsDown(e) ELSE "left" \in m_mouse_down
  BY <1>1, <1>2, <1>5
<1>11. /\ m_is_cursor_visible' \in BOOLEAN
       /\ m_is_cursor_visible' <=> ~(platform = "win" /\ "left" \in m_mouse_down')
  <2>1. m_is_cursor_visible' = IF mouse = "left" /\ platform = "win" THEN ~IsDown(e) ELSE m_is_cursor_visible
    BY <1>1, <1>2, <1>5, Zenon
  <2> QED
    BY <1>8, <1>10, <2>1 DEF WindowInv, WindowTypes, Cursor
<1>12. ASSUME platform = "win", Live, "left" \in m_mouse_down', ~HasMotion(Tail(events))
       PROVE  cursor = m_old_mouse'["left"]
  <2>1. ~HasMotion(events) /\ \A j \in DOMAIN events : j > 1 => events[j].kind # "motion"
    BY <1>1, <1>12, HasMotionShrinks
  <2>2. CASE mouse = "left"
    <3>1. 1 \in DOMAIN events /\ events[1] = e
      BY <1>1, <1>2, TailIs
    <3>2. e.x = cursor
      BY <1>3, <1>12, <2>1, <3>1 DEF WindowInv, Cursor, AtCursor
    <3> QED
      BY <1>7, <2>2, <3>2
  <2>3. CASE mouse # "left"
    BY <1>7, <1>10, <1>12, <2>1, <2>3 DEF WindowInv, Cursor
  <2> QED
    BY <2>2, <2>3
<1>13. turned' \in Int /\ orbited' \in Int
  BY <1>4 DEF WindowInv, WindowTypes
<1> QED
  BY <1>1, <1>2, <1>4, <1>7, <1>9, <1>11, <1>12, <1>13, HandledKeeps

(* What a motion does, whether the cursor is set back or not.              *)
SetsBack == platform = "win" /\ "left" \in m_mouse_down /\ cursor # m_old_mouse["left"]

LEMMA HandleMotionIs ==
  ASSUME WindowInv, HandleMotion
  PROVE  /\ events # <<>> /\ Head(events).kind = "motion"
         /\ \A p, q : IsNow(p) /\ q = After(Head(events), p) => IsNow(q)'
         /\ turned' \in Int /\ orbited' \in Int /\ m_old_mouse' \in [Buttons -> Int]
         /\ UNCHANGED <<m_mouse_down, m_is_cursor_visible, os_loop, platform, keysKnown,
                        heldKeys, heldButtons, lostKeys, lostButtons, dragged, unorbited>>
         /\ platform = "win" /\ "left" \in m_mouse_down => m_old_mouse'["left"] = m_old_mouse["left"]
         /\ ~SetsBack => events' = Tail(events) /\ UNCHANGED <<cursor, unfollowed>>
         /\ SetsBack => /\ cursor' = m_old_mouse["left"]
                        /\ events' \in WithMotion(Tail(events), m_old_mouse["left"])
                        /\ unfollowed' = (unfollowed \/ \E i \in 2 .. Len(events) : Misleads(events[i]))
<1> DEFINE x == Head(events).x
           old == m_old_mouse
           followed == IF ~m_is_cursor_visible THEN {} ELSE IF platform = "win" THEN Buttons ELSE m_mouse_down
<1>1. /\ events # <<>> /\ Head(events).kind = "motion"
      /\ turned' = turned + (IF "left" \in m_mouse_down THEN old["left"] - x ELSE 0)
      /\ orbited' = orbited + (IF "middle" \in m_mouse_down THEN old["middle"] - x ELSE 0)
      /\ m_old_mouse' = [b \in Buttons |-> IF b \in followed THEN x ELSE old[b]]
      /\ cursor' = IF SetsBack THEN old["left"] ELSE cursor
      /\ IF SetsBack
         THEN /\ events' \in WithMotion(Tail(events), old["left"])
              /\ unfollowed' = (unfollowed \/ \E i \in 2 .. Len(events) : Misleads(events[i]))
         ELSE events' = Tail(events) /\ UNCHANGED unfollowed
      /\ UNCHANGED <<heldKeys, heldButtons, size, inputs, lostKeys, lostButtons, dragged, unorbited, plainSize,
                     m_key_down, m_mouse_down, m_is_cursor_visible, m_width, moves, proj, fixedVars, os_loop>>
  BY Zenon DEF HandleMotion, Handles, SetsBack
<1>2. UNCHANGED <<platform, keysKnown>>
  BY <1>1 DEF fixedVars
<1>3. PICK e \in Occurrences : e = Head(events) /\ e.x = x /\ e.kind = "motion" /\ e.x \in Int
  <2>1. Head(events) \in Occurrences
    BY <1>1, TailIs
  <2> QED
    BY <1>1, <2>1, OccurrencesAre
<1>4. old \in [Buttons -> Int] /\ turned \in Int /\ orbited \in Int /\ "left" \in Buttons /\ "middle" \in Buttons
  BY DEF WindowInv, WindowTypes, Buttons
<1>5. \A b \in Buttons : b \in followed <=> IsFollowed(b, m_mouse_down)
  BY DEF WindowInv, WindowTypes, Cursor, IsFollowed
<1> HIDE DEF followed, x
<1>6. /\ m_old_mouse'["left"] = IF IsFollowed("left", m_mouse_down) THEN e.x ELSE old["left"]
      /\ m_old_mouse'["middle"] = IF IsFollowed("middle", m_mouse_down) THEN e.x ELSE old["middle"]
  BY <1>1, <1>3, <1>4, <1>5
<1>7. m_old_mouse' \in [Buttons -> Int]
  BY <1>1, <1>3, <1>4
<1>8. /\ turned' = IF "left" \in m_mouse_down THEN turned + (old["left"] - e.x) ELSE turned
      /\ orbited' = IF "middle" \in m_mouse_down THEN orbited + (old["middle"] - e.x) ELSE orbited
  BY <1>1, <1>3, <1>4
<1>9. turned' \in Int /\ orbited' \in Int
  BY <1>3, <1>4, <1>8
<1>10. ASSUME NEW p, NEW q, IsNow(p), q = After(e, p)
       PROVE  IsNow(q)'
  <2>1. /\ q.mouse = p.mouse /\ q.keys = p.keys /\ q.met = (p.met \/ Together(p.mouse))
        /\ q.turned = IF "left" \in p.mouse THEN p.turned + (p.left - e.x) ELSE p.turned
        /\ q.orbited = IF "middle" \in p.mouse THEN p.orbited + (p.middle - e.x) ELSE p.orbited
        /\ q.left = IF IsFollowed("left", p.mouse) THEN e.x ELSE p.left
        /\ q.middle = IF IsFollowed("middle", p.mouse) THEN e.x ELSE p.middle
    BY <1>3, <1>10, AfterMotion
  <2>2. q \in States
    BY <1>3, <1>10, AfterIsAState DEF IsNow, WindowInv, WindowTypes
  <2>3. /\ p.mouse = m_mouse_down /\ p.keys = m_key_down /\ p.turned = turned /\ p.orbited = orbited
        /\ p.left = old["left"] /\ p.middle = old["middle"]
    BY <1>10 DEF IsNow
  <2>4. q.mouse = m_mouse_down' /\ q.keys = m_key_down'
    BY <1>1, <2>1, <2>3, Zenon
  <2>5. q.turned = turned'
    BY <1>8, <2>1, <2>3, Zenon
  <2>6. q.orbited = orbited'
    BY <1>8, <2>1, <2>3, Zenon
  <2>7. q.left = m_old_mouse'["left"]
    <3>1. q.left = IF IsFollowed("left", m_mouse_down) THEN e.x ELSE old["left"]
      BY <2>1, <2>3, Zenon
    <3> QED
      BY <1>6, <3>1
  <2>8. q.middle = m_old_mouse'["middle"]
    <3>1. q.middle = IF IsFollowed("middle", m_mouse_down) THEN e.x ELSE old["middle"]
      BY <2>1, <2>3, Zenon
    <3> QED
      BY <1>6, <3>1
  <2>9. Together(m_mouse_down') => q.met
    BY <1>1, <2>1, <2>3, Zenon
  <2> QED
    BY <2>2, <2>4, <2>5, <2>6, <2>7, <2>8, <2>9, Zenon DEF IsNow, Together
<1>11. platform = "win" /\ "left" \in m_mouse_down => m_old_mouse'["left"] = m_old_mouse["left"]
  BY <1>6 DEF IsFollowed
<1> QED
  BY <1>1, <1>2, <1>3, <1>7, <1>9, <1>10, <1>11

LEMMA FollowsTheMotion ==
  ASSUME WindowInv, HandleMotion, ~SetsBack
  PROVE  WindowInv'
<1>1. /\ events # <<>> /\ events' = Tail(events)
      /\ \A p, q : IsNow(p) /\ q = After(Head(events), p) => IsNow(q)'
      /\ turned' \in Int /\ orbited' \in Int /\ m_old_mouse' \in [Buttons -> Int]
      /\ UNCHANGED <<m_mouse_down, m_is_cursor_visible, os_loop, platform>> /\ UNCHANGED seenVars
      /\ platform = "win" /\ "left" \in m_mouse_down => m_old_mouse'["left"] = m_old_mouse["left"]
  BY HandleMotionIs DEF seenVars, dragVars
<1>2. platform = "win" /\ Live /\ "left" \in m_mouse_down' /\ ~HasMotion(Tail(events)) =>
        cursor = m_old_mouse'["left"]
  BY <1>1 DEF SetsBack
<1>3. /\ Live' => Live
      /\ m_is_cursor_visible' \in BOOLEAN /\ (m_is_cursor_visible' <=> ~(platform = "win" /\ "left" \in m_mouse_down'))
  BY <1>1 DEF WindowInv, WindowTypes, Cursor, Live
<1> QED
  BY <1>1, <1>2, <1>3, HandledKeeps

LEMMA SetsTheCursorBack ==
  ASSUME WindowInv, HandleMotion, SetsBack
  PROVE  WindowInv'
<1>1. PICK x \in Int : x = m_old_mouse["left"]
  BY DEF WindowInv, WindowTypes, Buttons
<1>2. /\ events # <<>> /\ \A p, q : IsNow(p) /\ q = After(Head(events), p) => IsNow(q)'
      /\ turned' \in Int /\ orbited' \in Int /\ m_old_mouse' \in [Buttons -> Int]
      /\ UNCHANGED <<m_mouse_down, m_is_cursor_visible, os_loop, platform, keysKnown,
                     heldKeys, heldButtons, lostKeys, lostButtons, dragged, unorbited>>
      /\ m_old_mouse'["left"] = x /\ cursor' = x
      /\ events' \in WithMotion(Tail(events), x)
      /\ unfollowed' = (unfollowed \/ \E i \in 2 .. Len(events) : Misleads(events[i]))
      /\ platform = "win" /\ "left" \in m_mouse_down
  BY <1>1, HandleMotionIs DEF SetsBack
<1>3. PICK rest \in Seq(Occurrences) : rest = Tail(events)
  BY <1>2, TailIs
<1>4. Cursor' /\ events' \in Seq(Occurrences)
  BY <1>2, <1>3, CursorMoved
<1>5. unfollowed' \in BOOLEAN
  BY <1>2
<1>6. WindowTypes'
  BY <1>2, <1>4, <1>5 DEF WindowInv, WindowTypes
<1>7. Losses'
  BY <1>2 DEF WindowInv, Losses, OrbitButton
<1>8. ASSUME NEW r, HeldAsNoted(r), NEW s, s.mouse = r.mouse, s.keys = r.keys
      PROVE  HeldAsNoted(s)'
  <2>1. AreNoted(s.mouse, heldButtons, lostButtons)'
    BY <1>2, <1>8 DEF HeldAsNoted, AreNoted, ButtonOf
  <2> QED
    BY <1>2, <1>8, <2>1 DEF HeldAsNoted
<1>9. PICK later : later = events'
  OBVIOUS
<1>10. PICK e \in Occurrences : e = Motion(x) /\ e.kind = "motion" /\ e.x = x
  BY OccurrencesAre DEF Motion
<1>11. \/ later = Append(rest, e)
       \/ rest # <<>> /\ Last(rest).kind = "motion" /\ later = Append(Front(rest), e)
  <2>1. later \in WithMotion(rest, x)
    BY <1>2, <1>3, <1>9
  <2>2. \/ later = Append(rest, Motion(x))
        \/ rest # <<>> /\ Last(rest).kind = "motion" /\ later = Append(Front(rest), Motion(x))
    BY <2>1, WithMotionIs
  <2> QED
    BY <1>10, <2>2
<1>12. PICK n \in Nat : /\ Len(events) = n + 1 /\ Len(rest) = n /\ DOMAIN rest = 1 .. n
                        /\ \A i \in 1 .. n : rest[i] = events[i + 1]
  BY <1>2, <1>3, TailIs
<1>13. (\E i \in DOMAIN rest : Misleads(rest[i])) => unfollowed'
  <2>1. \A i \in 1 .. n : i + 1 \in 2 .. n + 1
    OBVIOUS
  <2> QED
    BY <1>2, <1>12, <2>1
<1>14. ASSUME Live
       PROVE  \E q, s : IsNow(q)' /\ Leads(q, later, s) /\ Fits(s)'
  <2>1. PICK p, r : IsNow(p) /\ Leads(p, events, r) /\ Fits(r)
    BY <1>14 DEF WindowInv, Foretold
  <2>2. PICK q : q = After(Head(events), p)
    OBVIOUS
  <2>3. IsNow(q)' /\ q \in States
    BY <1>2, <2>1, <2>2 DEF IsNow
  <2>4. Leads(q, rest, r)
    <3>1. PICK queue \in Seq(Occurrences) : queue = events
      BY DEF WindowInv, WindowTypes
    <3>2. q = After(Head(queue), p) /\ queue # <<>> /\ Leads(p, queue, r)
      BY <1>2, <2>1, <2>2, <3>1
    <3>3. rest = Tail(queue)
      BY <1>3, <3>1
    <3> QED
      BY <3>2, <3>3, LeadsFromNext
  <2>5. platform \in {"x11", "win"} /\ r \in States
    <3>1. platform \in {"x11", "win"}
      BY <1>2
    <3> QED
      BY <2>3, <2>4, <3>1, LeadsToAState
  <2>6. HeldAsNoted(r) /\ TurnedAsDragged(r) /\ OrbitedAsDragged(r)
    BY <2>1 DEF Fits
  <2>7. CASE later = Append(rest, e)
    <3>1. PICK s : s = After(e, r)
      OBVIOUS
    <3>2. Leads(q, later, s)
      BY <2>4, <2>7, <3>1, LeadsOneFurther
    <3>3. /\ s.mouse = r.mouse /\ s.keys = r.keys /\ s.met = (r.met \/ Together(r.mouse))
          /\ s.turned = IF "left" \in r.mouse THEN r.turned + (r.left - e.x) ELSE r.turned
          /\ s.orbited = IF "middle" \in r.mouse THEN r.orbited + (r.middle - e.x) ELSE r.orbited
          /\ s.left = IF IsFollowed("left", r.mouse) THEN e.x ELSE r.left
          /\ s.middle = IF IsFollowed("middle", r.mouse) THEN e.x ELSE r.middle
      BY <1>10, <3>1, AfterMotion
    <3>4. HeldAsNoted(s)'
      BY <1>8, <2>6, <3>3
    <3>5. ASSUME ~unfollowed'
          PROVE  /\ ~unfollowed /\ r.mouse \subseteq q.mouse /\ ("left" \in r.mouse => r.left = x)
                 /\ q.met => r.met
      <4>1. \A i \in DOMAIN rest : ~Misleads(rest[i])
        BY <1>13, <3>5
      <4>2. /\ r.mouse \subseteq q.mouse /\ ("left" \in r.mouse => r.left = q.left)
            /\ q.met => r.met
        BY <2>3, <2>4, <2>5, <4>1, LeadsUndisturbed
      <4>3. q.left = x
        BY <1>2, <2>3 DEF IsNow
      <4> QED
        BY <1>2, <3>5, <4>2, <4>3
    <3>6. TurnedAsDragged(s)'
      <4> SUFFICES ASSUME ~unfollowed'
                   PROVE  s.turned = -dragged["left"]
        BY <1>2 DEF TurnedAsDragged
      <4>1. r.turned = -dragged["left"] /\ r.turned \in Int
        BY <2>5, <2>6, <3>5, StatesAre DEF TurnedAsDragged
      <4>2. s.turned = r.turned
        BY <1>10, <3>3, <3>5, <4>1
      <4> QED
        BY <4>1, <4>2
    <3>7. OrbitedAsDragged(s)'
      <4> SUFFICES ASSUME ~unfollowed', ~unorbited
                   PROVE  /\ s.orbited = -dragged["middle"] /\ "middle" \notin s.mouse
                          /\ ~s.met /\ ~Together(s.mouse)
        <5>1. Together(s.mouse)' <=> Together(s.mouse)
          BY DEF Together
        <5> QED
          BY <1>2, <5>1 DEF OrbitedAsDragged, OrbitButton
      <4>1. r.orbited = -dragged["middle"] /\ ~r.met /\ ~Together(r.mouse)
        BY <1>2, <2>6, <3>5 DEF OrbitedAsDragged, OrbitButton
      <4>2. "middle" \notin r.mouse
        <5> SUFFICES ASSUME "middle" \in r.mouse
                     PROVE  FALSE
          OBVIOUS
        <5>1. "middle" \in q.mouse /\ (q.met => r.met)
          BY <3>5
        <5>2. q.mouse = m_mouse_down' /\ (Together(m_mouse_down') => q.met)
          BY <2>3 DEF IsNow, Together
        <5> QED
          BY <1>2, <4>1, <5>1, <5>2 DEF Together
      <4>3. s.orbited = r.orbited /\ "middle" \notin s.mouse
        BY <3>3, <4>2
      <4>4. ~s.met /\ ~Together(s.mouse)
        BY <3>3, <4>1, Zenon
      <4> QED
        BY <4>1, <4>3, <4>4
    <3> QED
      BY <2>3, <3>2, <3>4, <3>6, <3>7 DEF Fits
  <2>8. CASE rest # <<>> /\ Last(rest).kind = "motion" /\ later = Append(Front(rest), e)
    <3>1. n \in 1 .. n /\ Last(rest) = rest[n] /\ Last(rest) \in Occurrences
      <4>1. Len(rest) \in Nat \ {0} /\ Last(rest) = rest[Len(rest)] /\ Last(rest) \in Occurrences
        BY <2>8, FrontIs
      <4> QED
        BY <1>12, <4>1
    <3>2. PICK c \in Int : c = Last(rest).x
      BY <2>8, <3>1, OccurrencesAre
    <3>3. PICK s : /\ Leads(q, Append(Front(rest), Motion(x)), s)
                   /\ s.mouse = r.mouse /\ s.keys = r.keys /\ s.met = r.met
                   /\ s.turned = IF "left" \in r.mouse THEN r.turned + (c - x) ELSE r.turned
                   /\ s.orbited = IF "middle" \in r.mouse THEN r.orbited + (c - x) ELSE r.orbited
                   /\ IsFollowed("middle", r.mouse) => s.middle = x
      BY <2>3, <2>4, <2>5, <2>8, <3>2, LeadsReplaced
    <3>4. Leads(q, later, s)
      BY <1>10, <2>8, <3>3
    <3>5. unfollowed'
      BY <1>12, <1>13, <2>8, <3>1 DEF Misleads
    <3>6. HeldAsNoted(s)'
      BY <1>8, <2>6, <3>3
    <3>7. TurnedAsDragged(s)' /\ OrbitedAsDragged(s)'
      BY <3>5 DEF TurnedAsDragged, OrbitedAsDragged
    <3> QED
      BY <2>3, <3>4, <3>6, <3>7 DEF Fits
  <2> QED
    BY <1>11, <2>7, <2>8
<1>15. Foretold'
  <2> SUFFICES ASSUME Live
               PROVE  \E q, s : IsNow(q)' /\ Leads(q, events, s)' /\ Fits(s)'
    BY <1>2 DEF Foretold, Live
  <2>1. PICK q, s : IsNow(q)' /\ Leads(q, later, s) /\ Fits(s)'
    BY <1>14
  <2>2. Leads(q, later, s)'
    BY <1>2, <2>1, LeadsStays
  <2> QED
    BY <1>9, <2>1, <2>2
<1> QED
  BY <1>4, <1>6, <1>7, <1>15 DEF WindowInv

LEMMA HandleCloseKeeps ==
  ASSUME WindowInv, HandleClose
  PROVE  WindowInv'
<1>1. /\ events # <<>> /\ Head(events).kind = "close" /\ os_loop' = "quits"
      /\ events' = IF platform = "win" THEN <<>> ELSE Tail(events)
      /\ UNCHANGED <<seenVars, nowVars, m_is_cursor_visible>>
  BY DEF HandleClose, Handles, userVars, windowVars, camVars, fixedVars, seenVars, dragVars, nowVars
<1>2. UNCHANGED <<heldKeys, heldButtons, cursor, lostKeys, lostButtons, dragged, unfollowed, unorbited, platform,
                  keysKnown, m_mouse_down, m_key_down, m_old_mouse, turned, orbited, m_is_cursor_visible>>
  BY <1>1 DEF seenVars, dragVars, nowVars
<1>3. CASE platform = "win"
  <2>1. events' \in Seq(Occurrences)
    BY <1>1, <1>3, EmptySeq
  <2>2. WindowTypes'
    BY <1>2, <2>1 DEF WindowInv, WindowTypes
  <2>3. ~Live'
    BY <1>1, <1>2, <1>3 DEF Live
  <2>4. Cursor' /\ Foretold'
    BY <1>2, <2>3 DEF WindowInv, Cursor, Foretold
  <2>5. Losses'
    BY <1>2, LossesStay DEF WindowInv
  <2> QED
    BY <2>2, <2>4, <2>5 DEF WindowInv
<1>4. CASE platform # "win"
  <2>1. platform = "x11" /\ events' = Tail(events) /\ Live
    BY <1>1, <1>4 DEF WindowInv, WindowTypes, Live
  <2>2. PICK e : e = Head(events) /\ e.kind = "close"
    BY <1>1
  <2>3. ASSUME NEW p, NEW q, IsNow(p), q = After(e, p)
        PROVE  IsNow(q)'
    <3>1. /\ q.mouse = p.mouse /\ q.keys = KeysAfter(e, p) /\ q.left = p.left /\ q.middle = p.middle
          /\ q.turned = p.turned /\ q.orbited = p.orbited /\ q.met = (p.met \/ Together(p.mouse))
      BY <2>2, <2>3, AfterKey
    <3>2. q.keys = p.keys
      BY <2>2, <3>1 DEF KeysAfter
    <3>3. q \in States
      <4>1. e \in Occurrences
        BY <1>1, <2>2, TailIs
      <4> QED
        BY <2>3, <4>1, AfterIsAState DEF IsNow, WindowInv, WindowTypes
    <3> QED
      BY <1>2, <2>3, <3>1, <3>2, <3>3 DEF IsNow, Together
  <2>4. /\ turned' \in Int /\ orbited' \in Int /\ m_old_mouse' \in [Buttons -> Int] /\ m_is_cursor_visible' \in BOOLEAN
        /\ m_is_cursor_visible' <=> ~(platform = "win" /\ "left" \in m_mouse_down')
    BY <1>2 DEF WindowInv, WindowTypes, Cursor
  <2> QED
    BY <1>1, <2>1, <2>2, <2>3, <2>4, HandledKeeps
<1> QED
  BY <1>3, <1>4

LEMMA OsLoopKeeps ==
  ASSUME WindowInv, OsLoop
  PROVE  WindowInv'
<1>1. CASE HandleKey
  BY <1>1, HandleKeyKeeps
<1>2. CASE HandleButton
  BY <1>2, HandleButtonKeeps
<1>3. CASE HandleMotion
  BY <1>3, FollowsTheMotion, SetsTheCursorBack
<1>4. CASE HandleClose
  BY <1>4, HandleCloseKeeps
<1>5. CASE DrawFrame \/ Quit
  <2>1. UNCHANGED <<seenVars, nowVars, events, m_is_cursor_visible>> /\ (Live' => Live)
    BY <1>5 DEF DrawFrame, Quit, userVars, windowVars, camVars, fixedVars, seenVars, dragVars, nowVars, Live
  <2> QED
    BY <2>1, NothingSeen
<1> QED
  BY <1>1, <1>2, <1>3, <1>4, <1>5 DEF OsLoop

LEMMA WindowStays ==
  ASSUME WindowInv, UNCHANGED windowAll
  PROVE  WindowInv'
<1>1. UNCHANGED <<seenVars, nowVars, events, m_is_cursor_visible>> /\ (Live' => Live)
  BY DEF windowAll, userVars, windowVars, camVars, fixedVars, seenVars, dragVars, nowVars, Live
<1> QED
  BY <1>1, NothingSeen

LEMMA WindowKeeps ==
  ASSUME MainInv, WindowInv, Next
  PROVE  WindowInv'
<1>1. CASE CoreInit \/ RegisterAny \/ ParseArguments \/ OpenWindow \/ GpuInit
  <2>1. UNCHANGED windowAll
    BY <1>1 DEF CoreInit, RegisterAny, ParseArguments, OpenWindow, GpuInit
  <2> QED
    BY <2>1, WindowStays
<1>2. CASE StartLoop
  <2>1. UNCHANGED <<seenVars, nowVars, events, m_is_cursor_visible>>
    BY <1>2 DEF StartLoop, InitView, userVars, windowVars, seenVars, dragVars, nowVars
  <2>2. Live
    BY <1>2 DEF StartLoop, MainInv, Stages, Live
  <2> QED
    BY <2>1, <2>2, NothingSeen
<1>3. CASE ResizeEarly
  <2>1. PICK width \in Sizes, plain \in BOOLEAN : IsResized(width, plain)
    BY <1>3 DEF ResizeEarly
  <2> QED
    BY <2>1, IsResizedKeeps
<1>4. CASE Input
  BY <1>4, InputKeeps
<1>5. CASE OsLoop
  BY <1>5, OsLoopKeeps
<1> QED
  BY <1>1, <1>2, <1>3, <1>4, <1>5 DEF Next

LEMMA NoTurn ==
  ASSUME NEW i \in Int, i <= 0, i >= 0
  PROVE  i = -i
  OBVIOUS

LEMMA WindowInit ==
  ASSUME Init
  PROVE  WindowInv
<1>1. InitWindow(Start, Width) /\ Start \in Int
  BY EinsAssumption DEF Init
<1>2. /\ platform \in {"x11", "win"} /\ keysKnown \in BOOLEAN /\ heldKeys = {} /\ heldButtons = {} /\ cursor = Start
      /\ events = <<>> /\ lostKeys = {} /\ lostButtons = {} /\ unfollowed = FALSE /\ unorbited = FALSE
      /\ m_key_down = {} /\ m_mouse_down = {} /\ m_is_cursor_visible = TRUE /\ turned = 0 /\ orbited = 0
      /\ os_loop = "before"
      /\ dragged = [b \in Buttons |-> 0] /\ m_old_mouse = [b \in Buttons |-> 0]
  BY <1>1 DEF InitWindow
<1>3. \A b \in Buttons : dragged[b] = 0 /\ m_old_mouse[b] = 0
  BY <1>2
<1>4. WindowTypes
  <2>1. events \in Seq(Occurrences)
    BY <1>2, EmptySeq
  <2>2. dragged \in [Buttons -> Int] /\ m_old_mouse \in [Buttons -> Int]
    <3>1. [b \in Buttons |-> 0] \in [Buttons -> Int]
      OBVIOUS
    <3> QED
      BY <1>2, <3>1
  <2>3. cursor \in Int /\ turned \in Int /\ orbited \in Int
    BY <1>1, <1>2
  <2>4. unfollowed \in BOOLEAN /\ unorbited \in BOOLEAN /\ m_is_cursor_visible \in BOOLEAN
    BY <1>2
  <2> QED
    BY <1>2, <2>1, <2>2, <2>3, <2>4, Zenon DEF WindowTypes
<1>5. Cursor
  <2>1. DOMAIN events = {}
    BY <1>2
  <2> QED
    BY <1>2, <2>1 DEF Cursor, AtCursor
<1>6. Losses
  BY <1>2 DEF Losses
<1>7. Foretold
  <2>1. PICK p : p = [mouse |-> {}, keys |-> {}, left |-> 0, middle |-> 0, turned |-> 0, orbited |-> 0, met |-> FALSE]
    OBVIOUS
  <2>2. /\ p.mouse = {} /\ p.keys = {} /\ p.left = 0 /\ p.middle = 0 /\ p.turned = 0 /\ p.orbited = 0
        /\ p.met = FALSE
    BY <2>1
  <2>3. p \in States
    BY <2>1 DEF States
  <2>4. ~Together(p.mouse) /\ ~Together(m_mouse_down)
    BY <1>2, <2>2 DEF Together
  <2>5. IsNow(p)
    <3>1. m_old_mouse["left"] = 0 /\ m_old_mouse["middle"] = 0
      BY <1>3 DEF Buttons
    <3> QED
      BY <1>2, <2>2, <2>3, <2>4, <3>1 DEF IsNow
  <2>6. Leads(p, events, p)
    BY <1>2, LeadsNowhere
  <2>7. HeldAsNoted(p)
    BY <1>2, <2>2 DEF HeldAsNoted, AreNoted
  <2>8. ASSUME NEW b \in Buttons
        PROVE  -dragged[b] = 0
    <3>1. PICK d \in Int : d = dragged[b] /\ d = 0
      BY <1>3
    <3>2. d <= 0 /\ d >= 0
      BY <3>1
    <3>3. d = -d
      BY <3>2, NoTurn
    <3> QED
      BY <3>1, <3>3, Zenon
  <2>9. TurnedAsDragged(p)
    BY <2>2, <2>8 DEF TurnedAsDragged, Buttons
  <2>10. OrbitedAsDragged(p)
    <3>1. OrbitButton \in Buttons
      BY DEF OrbitButton, Buttons
    <3> QED
      BY <2>2, <2>4, <2>8, <3>1 DEF OrbitedAsDragged
  <2> QED
    BY <2>5, <2>6, <2>7, <2>9, <2>10 DEF Foretold, Fits
<1> QED
  BY <1>4, <1>5, <1>6, <1>7 DEF WindowInv

(* When the queue is empty what is foretold is what there is.              *)
LEMMA NothingLeft ==
  ASSUME WindowInv, events = <<>>, os_loop = "runs"
  PROVE  RecordsWhatIsHeld /\ TurnsAsDragged /\ OrbitsAsDragged
<1>1. PICK p, r : IsNow(p) /\ Leads(p, events, r) /\ Fits(r)
  BY DEF WindowInv, Foretold, Live
<1>2. r = p
  BY <1>1, LeadsNowhere
<1>3. r.mouse = m_mouse_down /\ r.keys = m_key_down /\ r.turned = turned /\ r.orbited = orbited
  BY <1>1, <1>2 DEF IsNow
<1>4. HeldAsNoted(r) /\ TurnedAsDragged(r) /\ OrbitedAsDragged(r)
  BY <1>1 DEF Fits
<1>5. RecordsWhatIsHeld
  BY <1>3, <1>4 DEF HeldAsNoted, AreNoted, RecordsWhatIsHeld
<1>6. TurnsAsDragged
  BY <1>3, <1>4 DEF TurnedAsDragged, TurnsAsDragged
<1>7. OrbitsAsDragged
  BY <1>3, <1>4 DEF OrbitedAsDragged, OrbitsAsDragged, OrbitButton
<1> QED
  BY <1>5, <1>6, <1>7

LEMMA Invariance == Spec => [](LineInv /\ MainInv /\ WindowInv)
<1>1. Init => LineInv /\ MainInv /\ WindowInv
  BY MainInit, WindowInit
<1>2. LineInv /\ MainInv /\ WindowInv /\ [Next]_vars => (LineInv /\ MainInv /\ WindowInv)'
  BY MainKeeps, MainStutters, WindowKeeps, WindowStays DEF vars
<1> QED
  BY <1>1, <1>2, PTL DEF Spec

(* When the events are worked off, the window has noted what the user      *)
(* holds, as far as the platform lets it know, in whatever order keys and  *)
(* buttons went up and down in between (core/window/).                     *)
THEOREM RecordsCorrectly == Spec => []RecordsWhatIsHeld
<1>1. WindowInv => RecordsWhatIsHeld
  BY NothingLeft DEF RecordsWhatIsHeld
<1> QED
  BY <1>1, Invariance, PTL

(* The camera turns and orbits by what the mouse was dragged, and on       *)
(* Windows the cursor is hidden and comes back, for every interleaving of  *)
(* what the user does with the motions that setting the cursor back        *)
(* causes, except those that CameraFollows names (eins/cam.cpp,            *)
(* core/window/).                                                          *)
THEOREM FollowsTheMouse == Spec => []CameraFollows
<1>1. WindowInv => CursorComesBack
  BY DEF WindowInv, Cursor, CursorComesBack, Live
<1>2. WindowInv => TurnsAsDragged
  BY NothingLeft DEF TurnsAsDragged
<1>3. WindowInv => OrbitsAsDragged
  BY NothingLeft DEF OrbitsAsDragged
<1> QED
  BY <1>1, <1>2, <1>3, Invariance, PTL DEF CameraFollows

(* After any registrations, refused ones as well, every letter leads to a  *)
(* flag, and after any arguments each flag has the value that its last     *)
(* mention gives it and what is left is unnamed, in order                  *)
(* (core/command_line.cpp).                                                *)
THEOREM ReadsCorrectly == Spec => []ReadsAsGiven
<1>1. LineInv => ReadsAsGiven
  BY DEF LineInv, Parsed, ReadsAsGiven, ParsedAsGiven
<1> QED
  BY <1>1, Invariance, PTL

(* The loop of eins runs with the GPU that the last --gpu with a value     *)
(* asks for, and draws for the size that the window has noted, also when   *)
(* it was resized before there was a GPU (core/gpu/gpu.cpp, eins.cpp).     *)
THEOREM StartsCorrectly == Spec => []StartsAsAsked
<1>1. LineInv /\ MainInv => StartsAsAsked
  BY ChosenAsAsked DEF MainInv, StartsAsAsked
<1> QED
  BY <1>1, Invariance, PTL

=============================================================================
