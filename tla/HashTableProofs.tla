-------------------------- MODULE HashTableProofs --------------------------
(***************************************************************************)
(* Proofs about HashTable, for any keys, hash codes, sizes of entries and  *)
(* initial number of buckets, and as many buckets as callers reserve: the  *)
(* table is well-formed, also in the middle of rehash, and implements the  *)
(* map, provided its callers keep their obligations.                       *)
(*                                                                         *)
(* NothingHidden is not inductive.  Inv says what it follows from: in the  *)
(* first pass of rehash, probing for an entry that has its place only      *)
(* passes entries that have theirs (Reached), which no later step takes    *)
(* away; in the second pass, nothing free lies before any entry (Crowded), *)
(* and then none moves, because there are more buckets behind the old ones *)
(* than entries.                                                           *)
(***************************************************************************)
EXTENDS HashTable, FiniteSetTheorems, WellFoundedInduction, TLAPS

-----------------------------------------------------------------------------
(* Arithmetic of probing. *)

(* Every nonempty set of naturals has a least element. *)
LEMMA LeastNatural ==
  ASSUME NEW S, S \subseteq Nat, S # {}
  PROVE  \E n \in S : \A m \in S : n <= m
<1> DEFINE R == OpToRel(<, Nat)
<1>1. IsWellFoundedOn(R, Nat)
  BY NatLessThanWellFounded
<1>2. \A x, y \in Nat : y < x => <<y, x>> \in R
  BY DEF OpToRel
<1> HIDE DEF R
<1>3. PICK n \in S : \A m \in S : <<m, n>> \notin R
  BY <1>1, WFMin
<1>4. \A m \in S : ~(m < n)
  BY <1>2, <1>3
<1> QED
  BY <1>3, <1>4

(* Division with remainder. *)
LEMMA DivMod ==
  ASSUME NEW y \in Nat, NEW a \in Nat \ {0}
  PROVE  y \div a \in Nat /\ y % a \in 0 .. a - 1 /\ y = (y \div a) * a + (y % a)
OBVIOUS

(* Probing on by fewer steps than there are buckets wraps round once at most. *)
LEMMA ModStep ==
  ASSUME NEW a \in Nat, NEW b \in Nat \ {0}, NEW n \in 0 .. b - 1
  PROVE  (a + n) % b = IF (a % b) + n < b THEN (a % b) + n ELSE (a % b) + n - b
<1> DEFINE c == a + n
           q == a \div b
           r == a % b
           p == c \div b
           t == c % b
<1>1. q \in Nat /\ r \in 0 .. b - 1 /\ a = q * b + r
  BY DivMod
<1>2. c \in Nat
  OBVIOUS
<1>3. p \in Nat /\ t \in 0 .. b - 1 /\ c = p * b + t
  BY <1>2, DivMod
<1>4. (q * b + r) + n = p * b + t
  BY <1>1, <1>3
<1> SUFFICES t = IF r + n < b THEN r + n ELSE r + n - b
  OBVIOUS
<1> HIDE DEF q, r, p, t, c
<1> DEFINE d == p - q
<1>5. q * b \in Int /\ p * b \in Int /\ d * b \in Int /\ d \in Int
  BY <1>1, <1>3
<1>6. p * b = q * b + d * b
  BY <1>1, <1>3
<1>7. d * b = r + n - t
  BY <1>1, <1>3, <1>4, <1>5, <1>6
<1> HIDE DEF d
<1>8. CASE d = 0
  <2>1. d * b = 0
    BY <1>8
  <2> QED
    BY <1>1, <1>3, <1>7, <2>1
<1>9. CASE d = 1
  <2>1. d * b = b
    BY <1>9
  <2> QED
    BY <1>1, <1>3, <1>7, <2>1
<1>10. CASE d >= 2
  <2>1. d * b >= 2 * b
    BY <1>5, <1>10
  <2> QED
    BY <1>1, <1>3, <1>5, <1>7, <2>1
<1>11. CASE d <= -1
  <2>1. d * b <= -b
    BY <1>5, <1>11
  <2> QED
    BY <1>1, <1>3, <1>5, <1>7, <2>1
<1> QED
  BY <1>5, <1>8, <1>9, <1>10, <1>11

(* The buckets probing passes from the one of hash code h on, of b in all, *)
(* before it gets to s.                                                    *)
Passed(h, b, s) ==
  IF h % b <= s THEN (h % b) .. s - 1 ELSE ((h % b) .. b - 1) \cup (0 .. s - 1)

(* What the first steps of a probe sequence look at is what they pass. *)
LEMMA ProbePassed ==
  ASSUME NEW h \in Nat, NEW b \in Nat \ {0}, NEW n \in 0 .. b - 1
  PROVE  /\ (h + n) % b \in 0 .. b - 1
         /\ \A m \in 0 .. n - 1 : (h + m) % b \in Passed(h, b, (h + n) % b)
         /\ \A t \in Passed(h, b, (h + n) % b) : \E m \in 0 .. n - 1 : t = (h + m) % b
<1> DEFINE r == h % b
           s == (h + n) % b
<1>1. r \in 0 .. b - 1
  BY DivMod
<1>2. s = IF r + n < b THEN r + n ELSE r + n - b
  BY ModStep
<1>3. ASSUME NEW m \in 0 .. n - 1
      PROVE  m \in 0 .. b - 1 /\ (h + m) % b = IF r + m < b THEN r + m ELSE r + m - b
  <2>1. m \in 0 .. b - 1
    OBVIOUS
  <2> QED
    BY <2>1, ModStep
<1>4. Passed(h, b, s) = IF r <= s THEN r .. s - 1 ELSE (r .. b - 1) \cup (0 .. s - 1)
  BY DEF Passed
<1> HIDE DEF r, s
<1>5. s \in 0 .. b - 1
  BY <1>1, <1>2
<1>6. ASSUME NEW m \in 0 .. n - 1
      PROVE  (h + m) % b \in Passed(h, b, s)
  <2> DEFINE t == (h + m) % b
  <2>1. m \in 0 .. b - 1 /\ t = IF r + m < b THEN r + m ELSE r + m - b
    BY <1>3
  <2> HIDE DEF t
  <2>2. t \in Passed(h, b, s)
    BY <1>1, <1>2, <1>4, <2>1
  <2> QED
    BY <2>2 DEF t
<1>7. ASSUME NEW t \in Passed(h, b, s)
      PROVE  \E m \in 0 .. n - 1 : t = (h + m) % b
  <2> DEFINE m == IF r <= t THEN t - r ELSE t - r + b
  <2>1. m \in 0 .. n - 1 /\ t = IF r + m < b THEN r + m ELSE r + m - b
    BY <1>1, <1>2, <1>4, <1>7
  <2> QED
    BY <1>3, <2>1
<1> QED
  BY <1>5, <1>6, <1>7 DEF s

(* A probe sequence gets to every bucket. *)
LEMMA ProbeReaches ==
  ASSUME NEW h \in Nat, NEW b \in Nat \ {0}, NEW s \in 0 .. b - 1
  PROVE  \E n \in 0 .. b - 1 : s = (h + n) % b
<1> DEFINE r == h % b
           n == IF r <= s THEN s - r ELSE s - r + b
<1>1. r \in 0 .. b - 1
  BY DivMod
<1>2. n \in 0 .. b - 1
  BY <1>1
<1>3. (h + n) % b = IF r + n < b THEN r + n ELSE r + n - b
  BY <1>2, ModStep
<1>4. s = (h + n) % b
  BY <1>1, <1>3
<1> QED
  BY <1>2, <1>4

(* It gets to one of two buckets first. *)
LEMMA PassedOrder ==
  ASSUME NEW h \in Nat, NEW b \in Nat \ {0}, NEW s \in 0 .. b - 1, NEW t \in 0 .. b - 1, s # t
  PROVE  /\ Passed(h, b, s) \subseteq 0 .. b - 1
         /\ s \in Passed(h, b, t) \/ t \in Passed(h, b, s)
<1> DEFINE r == h % b
<1>1. r \in 0 .. b - 1
  BY DivMod
<1>2. /\ Passed(h, b, s) = IF r <= s THEN r .. s - 1 ELSE (r .. b - 1) \cup (0 .. s - 1)
      /\ Passed(h, b, t) = IF r <= t THEN r .. t - 1 ELSE (r .. b - 1) \cup (0 .. t - 1)
  BY DEF Passed
<1> HIDE DEF r
<1> QED
  BY <1>1, <1>2

Probing == hash \in [Keys -> Nat] /\ buckets \in Nat

(* FirstProbed finds a bucket of S, and passes none. *)
LEMMA FirstProbedFinds ==
  ASSUME Probing, NEW k \in Keys, NEW S, S \subseteq Slots, S # {}
  PROVE  /\ FirstProbed(k, S) \in S
         /\ \A t \in Passed(hash[k], buckets, FirstProbed(k, S)) : t \notin S
<1> DEFINE hits == {n \in Slots : Probe(k, n) \in S}
           n == CHOOSE n \in hits : \A m \in hits : n <= m
<1>1. hash[k] \in Nat /\ buckets \in Nat \ {0} /\ Slots = 0 .. buckets - 1
  <2>1. PICK x \in S : x \in 0 .. buckets - 1
    BY DEF Slots
  <2> QED
    BY <2>1 DEF Probing, Slots
<1>2. hits # {}
  <2>1. PICK s \in S : s \in 0 .. buckets - 1
    BY <1>1
  <2>2. PICK m \in 0 .. buckets - 1 : s = (hash[k] + m) % buckets
    BY <1>1, <2>1, ProbeReaches
  <2> QED
    BY <1>1, <2>1, <2>2 DEF Probe
<1>3. hits \subseteq Nat
  BY <1>1
<1>4. n \in hits /\ \A m \in hits : n <= m
  BY <1>2, <1>3, LeastNatural
<1>5. FirstProbed(k, S) = (hash[k] + n) % buckets
  BY DEF FirstProbed, Probe
<1>6. n \in 0 .. buckets - 1 /\ (hash[k] + n) % buckets \in S
  BY <1>1, <1>4 DEF Probe
<1>7. ASSUME NEW t \in Passed(hash[k], buckets, (hash[k] + n) % buckets), t \in S
      PROVE  FALSE
  <2>1. n \in 0 .. buckets - 1
    BY <1>6
  <2> HIDE DEF n
  <2>2. PICK m \in 0 .. n - 1 : t = (hash[k] + m) % buckets
    BY <1>1, <1>7, <2>1, ProbePassed
  <2>3. m \in hits
    BY <1>1, <1>7, <2>1, <2>2 DEF Probe
  <2> QED
    BY <1>4, <2>1, <2>2, <2>3 DEF n
<1> QED
  BY <1>5, <1>6, <1>7

-----------------------------------------------------------------------------
(* The inductive invariant. *)

(* No probe sequence ends before it gets to an entry that has its place:   *)
(* it only passes entries that have theirs.                                *)
Reached ==
  \A s \in Slots : states[s] = "alive" =>
    \A t \in Passed(hash[data[s].key], buckets, s) : states[t] = "alive"

(* No free bucket lies before any entry. *)
Crowded ==
  \A s \in Occupied : \A t \in Passed(hash[data[s].key], buckets, s) : states[t] # "free"

(* reserve's rehash after growing, and not the one operator[] adds to it. *)
FirstPass == left = 2 \/ pending = NoEntry

Rehashing == pc \in {"mark", "move"}

(* What rehash has done so far. *)
Phases ==
  /\ ~Rehashing => Moving = {} /\ Reached /\ (pc = "insert" <=> pending # NoEntry)
  /\ Rehashing => left = 1 \/ (left = 2 /\ pending # NoEntry)
  /\ pc = "mark" => Moving = {} /\ IF FirstPass THEN Occupied \subseteq 0 .. old - 1 ELSE Reached
  /\ pc = "move" => Moving \subseteq i .. old - 1 /\ IF FirstPass THEN Reached ELSE Crowded

(* There is room for the entry operator[] is going to insert. *)
Room ==
  pending # NoEntry =>
    /\ 2 * (count + 1) <= buckets
    /\ \A s \in Occupied : data[s].key # pending.key
    /\ Rehashing => 3 * old <= buckets /\ 2 * count <= old

Inv == TypeOK /\ EveryKeyOnce /\ HalfFree /\ Phases /\ Room

(* What the entry of an occupied bucket is. *)
LEMMA Types ==
  ASSUME TypeOK
  PROVE  /\ Probing
         /\ Slots = 0 .. buckets - 1
         /\ \A k \in Keys : hash[k] \in Nat
         /\ \A s \in Slots : states[s] \in State
         /\ \A s \in Occupied : /\ s \in Slots /\ states[s] \in {"alive", "moving"}
                                /\ data[s] \in Entry /\ data[s].key \in Keys
                                /\ data[s].value \in Values
<1>1. Probing /\ Slots = 0 .. buckets - 1
  BY HashTableAssumption DEF TypeOK, Probing, Slots
<1>2. \A s \in Slots : states[s] \in State /\ data[s] \in Entry \cup {NoEntry}
  BY DEF TypeOK
<1>3. \A s \in Occupied : data[s] \in Entry /\ states[s] # "free" /\ s \in Slots
  BY <1>2 DEF TypeOK, Occupied, Free
<1>4. \A s \in Occupied : data[s].key \in Keys /\ data[s].value \in Values
  BY <1>3 DEF Entry
<1> QED
  BY <1>1, <1>2, <1>3, <1>4 DEF State, Probing

(* There are finitely many buckets. *)
LEMMA Finite ==
  ASSUME TypeOK, NEW S, S \subseteq Slots
  PROVE  IsFiniteSet(S) /\ Cardinality(S) \in Nat
<1>1. IsFiniteSet(Slots)
  BY FS_Interval DEF TypeOK, Slots
<1> QED
  BY <1>1, FS_Subset, FS_CardinalityType

(* When no entry is on the move, find looks at the key's entry, if there   *)
(* is one, whatever free and foreign buckets there are.                    *)
LEMMA FindFinds ==
  ASSUME Inv, ~Rehashing, NEW k \in Keys
  PROVE  FindSlots(k) = {s \in Occupied : data[s].key = k}
<1>1. Moving = {} /\ Reached
  BY DEF Inv, Phases
<1> USE Types DEF Inv
<1>2. \A s \in Occupied : s \in Slots /\ states[s] = "alive"
  BY <1>1 DEF Moving
<1>3. ASSUME NEW s \in FindSlots(k)
      PROVE  s \in Occupied /\ data[s].key = k
  BY <1>3 DEF FindSlots, Occupied, Free
<1>4. ASSUME NEW s \in Occupied, data[s].key = k
      PROVE  s \in FindSlots(k)
  <2>1. hash[k] \in Nat /\ buckets \in Nat \ {0} /\ s \in 0 .. buckets - 1
    BY <1>2 DEF TypeOK
  <2>2. PICK n \in 0 .. buckets - 1 : s = (hash[k] + n) % buckets
    BY <2>1, ProbeReaches
  <2>3. \A m \in 0 .. n - 1 : Probe(k, m) \in Passed(hash[k], buckets, s)
    BY <2>1, <2>2, ProbePassed DEF Probe
  <2>4. \A m \in 0 .. n - 1 : states[Probe(k, m)] = "alive"
    BY <1>1, <1>2, <1>4, <2>3 DEF Reached
  <2> QED
    BY <1>2, <1>4, <2>1, <2>2, <2>4 DEF FindSlots, Probe
<1> QED
  BY <1>3, <1>4

(* What is stored under a key, by the bucket it is in. *)
LEMMA StoredIs ==
  ASSUME EveryKeyOnce, NEW k
  PROVE  /\ \A s \in Occupied : data[s].key = k => Stored(k) = data[s].value
         /\ (\A s \in Occupied : data[s].key # k) => Stored(k) = Missing
<1> DEFINE at == {s \in Occupied : data[s].key = k}
<1>1. ASSUME NEW s \in Occupied, data[s].key = k
      PROVE  Stored(k) = data[s].value
  <2>1. at = {s}
    BY <1>1 DEF EveryKeyOnce
  <2>2. (CHOOSE t \in at : TRUE) = s
    BY <2>1
  <2> QED
    BY <2>1, <2>2 DEF Stored
<1>2. ASSUME \A s \in Occupied : data[s].key # k
      PROVE  Stored(k) = Missing
  <2>1. at = {}
    BY <1>2
  <2> QED
    BY <2>1 DEF Stored
<1> QED
  BY <1>1, <1>2

(* find returns what is stored. *)
LEMMA FindIsStored ==
  ASSUME Inv, ~Rehashing, NEW k \in Keys
  PROVE  /\ Find(k) = Stored(k)
         /\ Find(k) = Missing <=> \A s \in Occupied : data[s].key # k
<1>1. FindSlots(k) = {s \in Occupied : data[s].key = k}
  BY FindFinds
<1>2. EveryKeyOnce /\ TypeOK
  BY DEF Inv
<1>3. CASE \A s \in Occupied : data[s].key # k
  <2>1. FindSlots(k) = {}
    BY <1>1, <1>3
  <2> QED
    BY <1>2, <1>3, <2>1, StoredIs DEF Find
<1>4. ASSUME NEW s \in Occupied, data[s].key = k
      PROVE  Find(k) = Stored(k) /\ Find(k) # Missing
  <2>1. FindSlots(k) = {s}
    BY <1>1, <1>2, <1>4 DEF EveryKeyOnce
  <2>2. (CHOOSE t \in FindSlots(k) : TRUE) = s
    BY <2>1
  <2>3. count # 0
    BY <1>2, <1>4, Finite, FS_EmptySet, Types DEF EveryKeyOnce, Occupied
  <2>4. Find(k) = data[s].value
    BY <2>1, <2>2, <2>3 DEF Find
  <2>5. data[s].value \in Values
    BY <1>2, Types
  <2> QED
    BY <1>2, <1>4, <2>4, <2>5, StoredIs, HashTableAssumption
<1> QED
  BY <1>3, <1>4

LEMMA InitInv == Init => Inv
<1> SUFFICES ASSUME Init
             PROVE  Inv
  OBVIOUS
<1>1. Slots = {} /\ Occupied = {} /\ Moving = {}
  BY DEF Init, Slots, Occupied, Free, Moving
<1>2. TypeOK
  BY <1>1 DEF Init, TypeOK
<1>3. EveryKeyOnce /\ HalfFree
  BY <1>1, FS_EmptySet DEF Init, EveryKeyOnce, HalfFree
<1>4. Phases /\ Room
  BY <1>1 DEF Init, Phases, Room, Reached, Rehashing
<1> QED
  BY <1>2, <1>3, <1>4 DEF Inv

(* Assigning changes no key. *)
LEMMA AssignKeepsInv ==
  ASSUME Inv, NEW k \in Keys, NEW v \in Values, Assign(k, v)
  PROVE  Inv'
<1> USE DEF Inv
<1>1. ~Rehashing
  BY DEF Assign, Rehashing
<1>2. PICK s \in FindSlots(k) : data' = [data EXCEPT ![s].value = v]
  BY DEF Assign
<1>3. s \in Occupied /\ data[s].key = k
  BY <1>1, FindFinds
<1>4. UNCHANGED <<hash, buckets, count, states, pc, old, i, left, pending>>
  BY DEF Assign
<1>5. Slots' = Slots /\ Occupied' = Occupied /\ Moving' = Moving
  BY <1>4 DEF Slots, Occupied, Free, Moving
<1>6. data \in [Slots -> Entry \cup {NoEntry}] /\ s \in Slots /\ data[s] \in Entry
  BY <1>3, Types DEF TypeOK
<1>7. [data[s] EXCEPT !.value = v] \in Entry /\ [data[s] EXCEPT !.value = v].key = data[s].key
  BY <1>6 DEF Entry
<1>8. /\ data' \in [Slots -> Entry \cup {NoEntry}]
      /\ \A t \in Occupied : data'[t] \in Entry /\ data'[t].key = data[t].key
  BY <1>2, <1>6, <1>7, Types
<1>9. TypeOK'
  BY <1>4, <1>5, <1>8, NoEntryAssumption DEF TypeOK
<1>10. EveryKeyOnce' /\ HalfFree'
  BY <1>4, <1>5, <1>8 DEF EveryKeyOnce, HalfFree
<1>11. Reached => Reached'
  <2>1. \A t \in Slots : states[t] = "alive" => t \in Occupied
    BY DEF Occupied, Free
  <2> QED
    BY <1>4, <1>5, <1>8, <2>1 DEF Reached
<1>12. Phases'
  BY <1>1, <1>4, <1>5, <1>11 DEF Phases, Rehashing
<1>13. Room'
  BY <1>4, <1>5, <1>8 DEF Room, Rehashing
<1> QED
  BY <1>9, <1>10, <1>12, <1>13

(* Growing keeps every entry where it is. *)
LEMMA ResizeKeeps ==
  ASSUME Inv, Careful, Moving = {}, NEW new \in Nat, buckets <= new, Resize(new),
         count = 0 \/ StatesKept(new) = Slots
  PROVE  /\ buckets' = new /\ old' = buckets
         /\ Slots \subseteq Slots'
         /\ data' \in [Slots' -> Entry \cup {NoEntry}]
         /\ states' \in [Slots' -> State]
         /\ Occupied' = Occupied /\ Moving' = {}
         /\ \A s \in Occupied : data'[s] = data[s] /\ states'[s] = "alive"
<1> USE DEF Inv
<1>1. PICK kept \in {StatesKept(new), Slots} :
        /\ states' = [s \in 0 .. new - 1 |-> IF s \in kept THEN states[s] ELSE "free"]
        /\ data' = [s \in 0 .. new - 1 |-> IF s \in kept THEN data[s] ELSE NoEntry]
        /\ buckets' = new
        /\ old' = buckets
  BY DEF Resize, StatesLeftBehind
<1>2. Slots' = 0 .. new - 1 /\ Slots \subseteq Slots' /\ kept \subseteq Slots
  BY <1>1 DEF Slots, TypeOK, StatesKept
<1>3. \A s \in Occupied : s \in kept
  <2>1. CASE count = 0
    <3>1. Occupied = {}
      BY <2>1, Finite, FS_EmptySet DEF EveryKeyOnce, Occupied
    <3> QED
      BY <3>1
  <2>2. CASE StatesKept(new) = Slots
    BY <1>1, <2>2 DEF Occupied
  <2> QED
    BY <2>1, <2>2
<1>4. \A s \in Occupied : s \in Slots /\ states[s] = "alive"
  BY Types DEF Moving
<1>5. /\ data' \in [Slots' -> Entry \cup {NoEntry}]
      /\ states' \in [Slots' -> State]
  BY <1>1, <1>2, Types DEF TypeOK, State
<1>6. \A s \in Occupied : data'[s] = data[s] /\ states'[s] = "alive" /\ s \in Slots'
  BY <1>1, <1>2, <1>3, <1>4
<1>7. \A s \in Slots' : s \notin Occupied => states'[s] = "free"
  BY <1>1, <1>2 DEF Occupied, Free
<1>8. Occupied' = Occupied
  BY <1>6, <1>7 DEF Occupied, Free
<1>9. Moving' = {}
  BY <1>6, <1>7 DEF Moving
<1> QED
  BY <1>1, <1>2, <1>5, <1>6, <1>8, <1>9

(* The state array always lies behind the old one when operator[] grows    *)
(* the table, and at least three times as many buckets are there then.     *)
LEMMA GrowsEnough ==
  ASSUME TypeOK
  PROVE  LET new == BucketsFor(GrowCount) IN
         /\ new \in Nat /\ 3 * buckets <= new /\ 3 <= new
         /\ StatesKept(new) = Slots
<1> DEFINE new == BucketsFor(GrowCount)
<1>1. buckets \in Nat /\ InitialBucketCount \in Nat \ {0} /\ EntrySize \in Nat \ {0}
  BY HashTableAssumption DEF TypeOK
<1>2. GrowCount \in Nat /\ 3 * buckets <= 2 * GrowCount + 1 /\ 3 <= 2 * GrowCount + 1
  BY <1>1 DEF GrowCount
<1>3. new \in Nat /\ 3 * buckets <= new /\ 3 <= new
  BY <1>2 DEF BucketsFor
<1> HIDE DEF new
<1>4. \A s \in Slots : s < (new - buckets) * EntrySize
  <2> SUFFICES ASSUME NEW s \in 0 .. buckets - 1
               PROVE  s < (new - buckets) * EntrySize
    BY DEF Slots
  <2> DEFINE more == new - buckets
  <2>1. more \in Nat /\ s < more
    BY <1>1, <1>3
  <2> HIDE DEF more
  <2>2. more <= more * EntrySize /\ more * EntrySize \in Nat
    BY <1>1, <2>1
  <2>3. s < more * EntrySize
    BY <2>1, <2>2
  <2> QED
    BY <2>3 DEF more
<1>5. StatesKept(new) = Slots
  BY <1>4 DEF StatesKept
<1> QED
  BY <1>3, <1>5 DEF new

(* A new key finds a table with room for it, or makes it. *)
LEMMA PutNewKeepsInv ==
  ASSUME Inv, Careful, NEW k \in Keys, NEW v \in Values, PutNew(k, v)
  PROVE  Inv'
<1> USE DEF Inv
<1>1. pc = "idle" /\ ~Rehashing /\ Moving = {} /\ Reached
  BY DEF PutNew, Rehashing, Phases
<1>2. /\ pending' = [key |-> k, value |-> v] /\ pending' \in Entry /\ pending' # NoEntry
      /\ UNCHANGED <<hash, count, i>>
  BY NoEntryAssumption DEF PutNew, Entry
<1>3. \A s \in Occupied : data[s].key # k
  BY <1>1, FindIsStored DEF PutNew
<1>4. \A s \in Occupied : data[s] # NoEntry
  BY Types, NoEntryAssumption
<1>5. CASE ~MustGrow
  <2>1. pc' = "insert" /\ UNCHANGED <<buckets, data, states, old, left>>
    BY <1>5 DEF PutNew
  <2>2. Slots' = Slots /\ Occupied' = Occupied /\ Moving' = Moving
    BY <2>1 DEF Slots, Occupied, Free, Moving
  <2>3. 2 * (count + 1) <= buckets
    BY <1>5 DEF MustGrow, TypeOK
  <2>4. TypeOK' /\ EveryKeyOnce' /\ HalfFree'
    BY <1>2, <2>1, <2>2 DEF TypeOK, EveryKeyOnce, HalfFree
  <2>5. Phases'
    BY <1>1, <1>2, <2>1, <2>2 DEF Phases, Rehashing, Reached
  <2>6. Room'
    BY <1>2, <1>3, <2>1, <2>2, <2>3 DEF Room, Rehashing
  <2> QED
    BY <2>4, <2>5, <2>6
<1>6. CASE MustGrow
  <2> DEFINE new == BucketsFor(GrowCount)
  <2>1. new \in Nat /\ 3 * buckets <= new /\ 3 <= new /\ StatesKept(new) = Slots
    BY GrowsEnough
  <2>2. /\ Resize(new)
        /\ pc' = IF buckets = 0 THEN "insert" ELSE "mark"
        /\ left' = IF buckets = 0 THEN 0 ELSE 2
    BY <1>6 DEF PutNew
  <2> HIDE DEF new
  <2>3. buckets \in Nat /\ count \in Nat /\ 2 * count <= buckets /\ i \in 0 .. old
        /\ old \in 0 .. buckets /\ i \in Nat
    BY DEF TypeOK, HalfFree
  <2>4. /\ buckets' = new /\ old' = buckets
        /\ data' \in [Slots' -> Entry \cup {NoEntry}]
        /\ states' \in [Slots' -> State]
        /\ Occupied' = Occupied /\ Moving' = {}
        /\ \A s \in Occupied : data'[s] = data[s] /\ states'[s] = "alive"
    BY <1>1, <2>1, <2>2, <2>3, ResizeKeeps
  <2>5. i' \in 0 .. old'
    BY <1>2, <2>3, <2>4
  <2>6. TypeOK'
    BY <1>2, <1>4, <2>1, <2>2, <2>3, <2>4, <2>5 DEF TypeOK
  <2>7. EveryKeyOnce' /\ HalfFree'
    BY <1>2, <2>1, <2>3, <2>4 DEF EveryKeyOnce, HalfFree
  <2>8. Occupied \subseteq 0 .. buckets - 1
    BY DEF Occupied, Slots
  <2>9. CASE buckets = 0
    <3>1. Occupied' = {} /\ pc' = "insert"
      BY <2>2, <2>4, <2>8, <2>9
    <3>2. Reached'
      BY <3>1 DEF Reached, Occupied, Free
    <3>3. Phases'
      BY <1>2, <2>4, <3>1, <3>2 DEF Phases, Rehashing
    <3>4. Room'
      BY <1>2, <2>1, <2>3, <2>4, <2>9, <3>1 DEF Room, Rehashing
    <3> QED
      BY <2>6, <2>7, <3>3, <3>4
  <2>10. CASE buckets # 0
    <3>1. pc' = "mark" /\ left' = 2
      BY <2>2, <2>10
    <3>2. Phases'
      BY <1>2, <2>4, <2>8, <3>1 DEF Phases, Rehashing, FirstPass
    <3>3. 2 * (count + 1) <= new /\ 3 * buckets <= new /\ 2 * count <= buckets
      BY <2>1, <2>3, <2>10
    <3>4. Room'
      BY <1>2, <1>3, <2>4, <3>3 DEF Room
    <3> QED
      BY <2>6, <2>7, <3>2, <3>4
  <2> QED
    BY <2>9, <2>10
<1> QED
  BY <1>5, <1>6

(* What probing passes are buckets. *)
LEMMA PassedAreSlots ==
  ASSUME TypeOK, NEW k \in Keys, NEW s \in Slots
  PROVE  Passed(hash[k], buckets, s) \subseteq Slots
<1>1. hash[k] \in Nat /\ buckets \in Nat \ {0} /\ Slots = 0 .. buckets - 1
  BY Types DEF TypeOK
<1>2. hash[k] % buckets \in 0 .. buckets - 1
  BY <1>1, DivMod
<1> QED
  BY <1>1, <1>2 DEF Passed

(* The new entry goes to the first free bucket of its probe sequence. *)
LEMMA InsertKeepsInv ==
  ASSUME Inv, Insert
  PROVE  /\ Inv'
         /\ \E s \in Free : /\ Occupied' = Occupied \cup {s}
                            /\ data' = [data EXCEPT ![s] = pending]
<1> USE DEF Inv
<1>1. /\ pc = "insert" /\ ~Rehashing /\ Moving = {} /\ Reached
      /\ pending \in Entry /\ pending # NoEntry
      /\ pc' = "idle" /\ pending' = NoEntry /\ count' = count + 1
      /\ UNCHANGED <<hash, buckets, old, i, left>>
  BY DEF Insert, Phases, Rehashing, TypeOK
<1> DEFINE s == FirstProbed(pending.key, Free)
           k == pending.key
<1>2. k \in Keys
  BY <1>1 DEF Entry
<1>3. Slots \ {t \in Slots : states[t] = "alive"} = Free
  <2>1. \A t \in Slots : states[t] \in {"free", "alive"}
    BY <1>1, Types DEF Moving, State
  <2> QED
    BY <2>1 DEF Free
<1>4. /\ data' = [data EXCEPT ![s] = pending]
      /\ states' = [states EXCEPT ![s] = "alive"]
  BY <1>3 DEF Insert
<1>5. Free # {}
  <2>1. Occupied # Slots
    <3>1. Cardinality(Occupied) = count /\ 2 * (count + 1) <= buckets
          /\ count \in Nat /\ buckets \in Nat
      BY <1>1 DEF Room, EveryKeyOnce, TypeOK
    <3>2. Cardinality(0 .. buckets - 1) = buckets
      BY <3>1, FS_Interval
    <3> QED
      BY <3>1, <3>2 DEF Slots
  <2> QED
    BY <2>1 DEF Occupied
<1>6. s \in Free /\ \A t \in Passed(hash[k], buckets, s) : t \notin Free
  BY <1>2, <1>5, Types, FirstProbedFinds DEF Free
<1> HIDE DEF s
<1>7. s \in Slots /\ s \notin Occupied /\ states[s] = "free"
  BY <1>6 DEF Free, Occupied
<1>8. Slots' = Slots
  BY <1>1 DEF Slots
<1>9. \A t \in Slots : /\ states'[t] = IF t = s THEN "alive" ELSE states[t]
                       /\ data'[t] = IF t = s THEN pending ELSE data[t]
  BY <1>4, <1>7 DEF TypeOK
<1>10. Occupied' = Occupied \cup {s} /\ Moving' = {}
  BY <1>1, <1>7, <1>8, <1>9 DEF Occupied, Free, Moving
<1>11. data' \in [Slots -> Entry \cup {NoEntry}] /\ states' \in [Slots -> State]
  BY <1>1, <1>4 DEF TypeOK, State
<1>12. \A t \in Occupied : data'[t] = data[t] /\ t \in Slots
  BY <1>7, <1>9, Types
<1>13. data'[s] = pending
  BY <1>7, <1>9
<1>14. TypeOK'
  <2>1. count' \in Nat
    BY <1>1 DEF TypeOK
  <2>2. \A t \in Occupied' : data'[t] # NoEntry
    BY <1>1, <1>10, <1>12, <1>13 DEF TypeOK
  <2> QED
    BY <1>1, <1>8, <1>11, <2>1, <2>2 DEF TypeOK
<1>15. EveryKeyOnce'
  <2>1. \A t \in Occupied : data[t].key # k
    BY <1>1 DEF Room
  <2>2. \A t, u \in Occupied' : data'[t].key = data'[u].key => t = u
    BY <1>10, <1>12, <1>13, <2>1 DEF EveryKeyOnce
  <2>3. Cardinality(Occupied') = count'
    BY <1>1, <1>7, <1>10, Finite, FS_AddElement DEF EveryKeyOnce, Occupied
  <2> QED
    BY <2>2, <2>3 DEF EveryKeyOnce
<1>16. HalfFree'
  BY <1>1 DEF Room, HalfFree
<1>17. Reached'
  <2> SUFFICES ASSUME NEW t \in Slots, states'[t] = "alive",
                      NEW u \in Passed(hash[data'[t].key], buckets, t)
               PROVE  states'[u] = "alive"
    BY <1>1, <1>8 DEF Reached
  <2>1. CASE t = s
    <3>1. u \in Passed(hash[k], buckets, s)
      BY <1>13, <2>1
    <3>2. u \in Slots /\ u \notin Free
      BY <1>2, <1>6, <1>7, <3>1, PassedAreSlots
    <3>3. states[u] = "alive"
      BY <1>1, <3>2, Types DEF Free, Moving, State
    <3> QED
      BY <1>9, <3>2, <3>3
  <2>2. CASE t # s
    <3>1. states[t] = "alive" /\ data'[t] = data[t] /\ t \in Occupied
      BY <1>9, <2>2 DEF Occupied, Free
    <3>2. states[u] = "alive" /\ u \in Slots
      BY <1>1, <3>1, Types, PassedAreSlots DEF Reached
    <3> QED
      BY <1>9, <3>2
  <2> QED
    BY <2>1, <2>2
<1>18. Phases' /\ Room'
  BY <1>1, <1>10, <1>17 DEF Phases, Room, Rehashing
<1> QED
  BY <1>4, <1>6, <1>10, <1>14, <1>15, <1>16, <1>18

(* What the owner reserves. *)
LEMMA ReserveKeepsInv ==
  ASSUME Inv, Careful, NEW n \in ReserveCounts, Reserve(n)
  PROVE  /\ Inv'
         /\ Occupied' = Occupied /\ \A s \in Occupied : data'[s] = data[s]
<1> USE DEF Inv
<1> DEFINE new == BucketsFor(n)
<1>1. new \in Nat
  BY HashTableAssumption DEF BucketsFor
<1>2. /\ pc = "idle" /\ buckets < new /\ Resize(new)
      /\ pc' = IF buckets = 0 THEN "idle" ELSE "mark"
      /\ left' = IF buckets = 0 THEN 0 ELSE 1
      /\ UNCHANGED <<hash, count, i, pending>>
      /\ count = 0 \/ StatesKept(new) = Slots
  BY DEF Reserve, CarefulReserve
<1> HIDE DEF new
<1>3. Moving = {} /\ Reached /\ pending = NoEntry
  BY <1>2 DEF Phases, Rehashing
<1>4. buckets \in Nat /\ count \in Nat /\ i \in 0 .. old /\ old \in 0 .. buckets /\ i \in Nat
  BY DEF TypeOK
<1>5. /\ buckets' = new /\ old' = buckets
      /\ data' \in [Slots' -> Entry \cup {NoEntry}]
      /\ states' \in [Slots' -> State]
      /\ Occupied' = Occupied /\ Moving' = {}
      /\ \A s \in Occupied : data'[s] = data[s] /\ states'[s] = "alive"
  BY <1>1, <1>2, <1>3, <1>4, ResizeKeeps
<1>6. \A s \in Occupied : data[s] # NoEntry
  BY Types, NoEntryAssumption
<1>7. i' \in 0 .. old'
  BY <1>2, <1>4, <1>5
<1>8. TypeOK'
  BY <1>1, <1>2, <1>4, <1>5, <1>6, <1>7 DEF TypeOK
<1>9. EveryKeyOnce' /\ HalfFree'
  BY <1>1, <1>2, <1>4, <1>5 DEF EveryKeyOnce, HalfFree
<1>10. Occupied \subseteq 0 .. buckets - 1
  BY DEF Occupied, Slots
<1>11. buckets = 0 => Reached'
  BY <1>4, <1>5, <1>10 DEF Reached, Occupied, Free
<1>12. Phases' /\ Room'
  BY <1>2, <1>3, <1>4, <1>5, <1>10, <1>11 DEF Phases, Room, Rehashing, FirstPass
<1> QED
  BY <1>5, <1>8, <1>9, <1>12

(* Marking: what has its place in the first pass is nothing, and in the    *)
(* second pass everything.                                                 *)
LEMMA MarkKeepsInv ==
  ASSUME Inv, Mark
  PROVE  /\ Inv'
         /\ Occupied' = Occupied /\ data' = data
<1> USE DEF Inv
<1>1. /\ pc = "mark" /\ pc' = "move" /\ i' = 0
      /\ UNCHANGED <<hash, buckets, count, data, old, left, pending>>
      /\ states' = [s \in Slots |-> IF s < old /\ states[s] = "alive" THEN "moving"
                                    ELSE states[s]]
  BY DEF Mark
<1>2. Moving = {} /\ (IF FirstPass THEN Occupied \subseteq 0 .. old - 1 ELSE Reached)
  BY <1>1 DEF Phases
<1>3. Slots' = Slots
  BY <1>1 DEF Slots
<1>4. Occupied' = Occupied
  BY <1>1, <1>3 DEF Occupied, Free
<1>5. states' \in [Slots -> State]
  BY <1>1, Types DEF State
<1>6. old \in 0 .. buckets /\ buckets \in Nat /\ 0 \in 0 .. old
  BY DEF TypeOK
<1>7. TypeOK'
  BY <1>1, <1>3, <1>4, <1>5, <1>6 DEF TypeOK
<1>8. EveryKeyOnce' /\ HalfFree'
  BY <1>1, <1>4 DEF EveryKeyOnce, HalfFree
<1>9. Moving' \subseteq 0 .. old - 1
  <2>1. \A s \in Slots : states'[s] = "moving" => s < old
    BY <1>1, <1>2 DEF Moving
  <2> QED
    BY <1>1, <1>6, <2>1 DEF Moving, Slots
<1>10. CASE FirstPass
  <2>1. \A s \in Slots : states'[s] # "alive"
    <3> SUFFICES ASSUME NEW s \in Slots, states[s] = "alive"
                 PROVE  s < old
      BY <1>1
    <3>1. s \in Occupied
      BY DEF Occupied, Free
    <3> QED
      BY <1>2, <1>6, <1>10, <3>1
  <2>2. Reached'
    BY <1>3, <2>1 DEF Reached
  <2> QED
    BY <1>1, <1>4, <1>7, <1>8, <1>9, <1>10, <2>2 DEF Phases, Room, Rehashing, FirstPass
<1>11. CASE ~FirstPass
  <2>1. Crowded'
    <3> SUFFICES ASSUME NEW s \in Occupied, NEW t \in Passed(hash[data[s].key], buckets, s)
                 PROVE  states'[t] # "free"
      BY <1>1, <1>4 DEF Crowded
    <3>1. states[s] = "alive" /\ s \in Slots /\ data[s].key \in Keys
      BY <1>2, Types DEF Moving
    <3>2. states[t] = "alive" /\ t \in Slots
      BY <1>2, <1>11, <3>1, PassedAreSlots DEF Reached
    <3> QED
      BY <1>1, <3>2
  <2> QED
    BY <1>1, <1>4, <1>7, <1>8, <1>9, <1>11, <2>1 DEF Phases, Room, Rehashing, FirstPass
<1> QED
  BY <1>1, <1>4, <1>10, <1>11

(* Going on without a change. *)
LEMMA SkipKeepsInv ==
  ASSUME Inv, Skip
  PROVE  /\ Inv'
         /\ Occupied' = Occupied /\ data' = data
<1> USE DEF Inv
<1>1. /\ pc = "move" /\ i < old /\ states[i] # "moving" /\ i' = i + 1
      /\ UNCHANGED <<hash, buckets, count, data, states, pc, old, left, pending>>
  BY DEF Skip
<1>2. Slots' = Slots /\ Occupied' = Occupied /\ Moving' = Moving
  BY <1>1 DEF Slots, Occupied, Free, Moving
<1>3. i \in 0 .. old /\ old \in Nat
  BY DEF TypeOK
<1>4. i' \in 0 .. old
  BY <1>1, <1>3
<1>5. TypeOK' /\ EveryKeyOnce' /\ HalfFree'
  BY <1>1, <1>2, <1>4 DEF TypeOK, EveryKeyOnce, HalfFree
<1>6. Moving' \subseteq i' .. old - 1
  <2>1. Moving \subseteq i .. old - 1 /\ i \notin Moving
    BY <1>1 DEF Phases, Moving
  <2> QED
    BY <1>1, <1>2, <1>3, <2>1
<1> QED
  BY <1>1, <1>2, <1>5, <1>6 DEF Phases, Room, Rehashing, FirstPass, Reached, Crowded

(* Where the entry of slot i goes: a bucket that is free or to be moved,   *)
(* with entries that have their places before it.                          *)
LEMMA TargetFound ==
  ASSUME Inv, AtMoving
  PROVE  /\ i \in Moving /\ i \in Slots /\ i \in 0 .. old - 1
         /\ data[i] \in Entry /\ data[i].key \in Keys
         /\ Target \in Slots /\ Target \in Free \cup Moving
         /\ \A t \in Passed(hash[data[i].key], buckets, Target) :
              t \in Slots /\ states[t] = "alive"
<1> USE DEF Inv
<1>1. i \in 0 .. old - 1 /\ i \in Slots /\ states[i] = "moving"
  BY DEF AtMoving, TypeOK, Slots
<1>2. i \in Moving /\ i \in Occupied
  BY <1>1 DEF Moving, Occupied, Free
<1>3. data[i] \in Entry /\ data[i].key \in Keys
  BY <1>2, Types
<1> DEFINE S == Free \cup Moving
           k == data[i].key
<1>4. S \subseteq Slots /\ S # {}
  BY <1>2 DEF Free, Moving
<1>5. FirstProbed(k, S) \in S /\ \A t \in Passed(hash[k], buckets, FirstProbed(k, S)) : t \notin S
  BY <1>3, <1>4, Types, FirstProbedFinds
<1>6. Target = FirstProbed(k, S)
  BY DEF Target
<1> HIDE DEF S, k
<1>7. Target \in Slots /\ k \in Keys
  BY <1>3, <1>4, <1>5, <1>6 DEF k
<1>8. \A t \in Slots : t \notin S => states[t] = "alive"
  BY Types DEF S, Free, Moving, State
<1>9. \A t \in Passed(hash[k], buckets, Target) : t \in Slots /\ states[t] = "alive"
  BY <1>5, <1>6, <1>7, <1>8, PassedAreSlots
<1> QED
  BY <1>1, <1>2, <1>3, <1>5, <1>6, <1>7, <1>9 DEF S, k

(* The second rehash moves nothing: an entry whose probe sequence wrapped  *)
(* round the end would have passed every bucket behind the old ones, which *)
(* are more than there are entries.                                        *)
LEMMA SecondPassStays ==
  ASSUME Inv, AtMoving, ~FirstPass
  PROVE  Target = i
<1> USE DEF Inv
<1> DEFINE k == data[i].key
           r == hash[k] % buckets
<1>1. /\ pc = "move" /\ Crowded /\ Moving \subseteq i .. old - 1
      /\ 3 * old <= buckets /\ 2 * count <= old
  BY DEF AtMoving, Phases, Room, Rehashing, FirstPass
<1>2. /\ i \in Moving /\ i \in Slots /\ i \in 0 .. old - 1 /\ k \in Keys
      /\ Target \in Slots /\ Target \in Free \cup Moving
      /\ \A t \in Passed(hash[k], buckets, Target) : states[t] = "alive"
  BY TargetFound
<1>3. buckets \in Nat \ {0} /\ old \in Nat /\ count \in Nat /\ hash[k] \in Nat /\ Slots = 0 .. buckets - 1
  BY <1>2, Types DEF TypeOK
<1>4. r \in 0 .. buckets - 1
  BY <1>3, DivMod
<1>5. Passed(hash[k], buckets, i) = IF r <= i THEN r .. i - 1 ELSE (r .. buckets - 1) \cup (0 .. i - 1)
  BY DEF Passed
<1>6. \A t \in Passed(hash[k], buckets, i) : t \in Occupied
  <2>1. i \in Occupied
    BY <1>2 DEF Moving, Occupied, Free
  <2>2. \A t \in Passed(hash[k], buckets, i) : t \in Slots /\ states[t] # "free"
    BY <1>1, <1>2, <2>1, PassedAreSlots DEF Crowded
  <2> QED
    BY <2>2 DEF Occupied, Free
<1> HIDE DEF r, k
<1>7. \A t \in Passed(hash[k], buckets, i) : t \notin Moving
  <2> SUFFICES ASSUME NEW t \in Passed(hash[k], buckets, i), t \in i .. old - 1
               PROVE  FALSE
    BY <1>1
  <2>1. i < r /\ r <= t
    BY <1>2, <1>3, <1>4, <1>5
  <2>2. old .. buckets - 1 \subseteq Occupied
    BY <1>2, <1>3, <1>4, <1>5, <1>6, <2>1
  <2>3. Cardinality(old .. buckets - 1) = buckets - old
    BY <1>1, <1>2, <1>3, FS_Interval
  <2>4. Cardinality(old .. buckets - 1) <= count
    <3>1. IsFiniteSet(Occupied) /\ Cardinality(Occupied) = count
      BY Finite DEF Occupied, EveryKeyOnce
    <3> QED
      BY <2>2, <3>1, FS_Subset
  <2> QED
    BY <1>1, <1>2, <1>3, <2>3, <2>4
<1>8. \A t \in Passed(hash[k], buckets, i) : t \notin Free \cup Moving
  BY <1>6, <1>7 DEF Occupied
<1>9. Target \notin Passed(hash[k], buckets, i)
  BY <1>2, <1>8
<1>10. i \notin Passed(hash[k], buckets, Target)
  BY <1>2 DEF Moving
<1> QED
  BY <1>2, <1>3, <1>9, <1>10, PassedOrder

(* The entry of slot i has its place there. *)
LEMMA SettleKeepsInv ==
  ASSUME Inv, Settle
  PROVE  /\ Inv'
         /\ Occupied' = Occupied /\ data' = data
<1> USE DEF Inv
<1>1. /\ AtMoving /\ Target = i /\ i' = i + 1 /\ states' = [states EXCEPT ![i] = "alive"]
      /\ pc = "move" /\ i < old /\ states[i] = "moving"
      /\ UNCHANGED <<hash, buckets, count, data, pc, old, left, pending>>
  BY DEF Settle, AtMoving
<1>2. /\ i \in Slots /\ i \in 0 .. old - 1
      /\ \A t \in Passed(hash[data[i].key], buckets, i) : t \in Slots /\ states[t] = "alive"
  BY <1>1, TargetFound
<1>3. Slots' = Slots
  BY <1>1 DEF Slots
<1>4. \A t \in Slots : states'[t] = IF t = i THEN "alive" ELSE states[t]
  BY <1>1 DEF TypeOK
<1>5. Occupied' = Occupied /\ Moving' = Moving \ {i}
  BY <1>1, <1>2, <1>3, <1>4 DEF Occupied, Free, Moving
<1>6. states' \in [Slots -> State] /\ i' \in 0 .. old
  BY <1>1, <1>2 DEF TypeOK, State
<1>7. TypeOK' /\ EveryKeyOnce' /\ HalfFree'
  BY <1>1, <1>3, <1>5, <1>6 DEF TypeOK, EveryKeyOnce, HalfFree
<1>8. Moving' \subseteq i' .. old - 1
  <2>1. Moving \subseteq i .. old - 1 /\ old \in Nat
    BY <1>1 DEF Phases, TypeOK
  <2>2. i' = i + 1 /\ i \in Int
    BY <1>1, <1>2
  <2> QED
    BY <1>5, <2>1, <2>2
<1>9. Reached => Reached'
  <2> SUFFICES ASSUME Reached, NEW t \in Slots, states'[t] = "alive",
                      NEW u \in Passed(hash[data[t].key], buckets, t)
               PROVE  states'[u] = "alive"
    BY <1>1, <1>3 DEF Reached
  <2>1. CASE t = i
    BY <1>2, <1>4, <2>1
  <2>2. CASE t # i
    <3>1. states[t] = "alive" /\ t \in Occupied
      BY <1>4, <2>2 DEF Occupied, Free
    <3>2. states[u] = "alive" /\ u \in Slots
      BY <3>1, Types, PassedAreSlots DEF Reached
    <3> QED
      BY <1>4, <3>2
  <2> QED
    BY <2>1, <2>2
<1>10. Crowded => Crowded'
  <2> SUFFICES ASSUME Crowded, NEW t \in Occupied,
                      NEW u \in Passed(hash[data[t].key], buckets, t)
               PROVE  states'[u] # "free"
    BY <1>1, <1>5 DEF Crowded
  <2>1. states[u] # "free" /\ u \in Slots
    BY Types, PassedAreSlots DEF Crowded
  <2> QED
    BY <1>4, <2>1
<1> QED
  BY <1>1, <1>5, <1>7, <1>8, <1>9, <1>10 DEF Phases, Room, Rehashing, FirstPass

(* In the first pass an entry goes to a free bucket that all before it are  *)
(* settled in.                                                             *)
LEMMA MoveToFreeKeepsInv ==
  ASSUME Inv, MoveToFree
  PROVE  /\ Inv'
         /\ \E s \in Slots : /\ s \notin Occupied /\ i \in Occupied
                             /\ Occupied' = (Occupied \ {i}) \cup {s}
                             /\ data'[s] = data[i]
                             /\ \A t \in Occupied \ {i} : data'[t] = data[t]
<1> USE DEF Inv
<1>1. /\ AtMoving /\ i' = i + 1
      /\ pc = "move" /\ i < old /\ states[i] = "moving"
      /\ UNCHANGED <<hash, buckets, count, pc, old, left, pending>>
  BY DEF MoveToFree, AtMoving
<1>2. PICK s \in {Target} \cap Free :
        /\ data' = [data EXCEPT ![s] = data[i], ![i] = NoEntry]
        /\ states' = [states EXCEPT ![s] = "alive", ![i] = "free"]
  BY DEF MoveToFree
<1>3. s \in Slots /\ s \in Free /\ Target = s /\ states[s] = "free" /\ s # i
  BY <1>1, <1>2 DEF Free
<1>4. /\ i \in Moving /\ i \in Slots /\ i \in 0 .. old - 1 /\ data[i] \in Entry
      /\ data[i].key \in Keys
      /\ \A t \in Passed(hash[data[i].key], buckets, s) : t \in Slots /\ states[t] = "alive"
  BY <1>1, <1>3, TargetFound
<1>5. FirstPass
  BY <1>1, <1>3, SecondPassStays
<1>6. Slots' = Slots
  BY <1>1 DEF Slots
<1>7. \A t \in Slots :
        /\ data'[t] = IF t = i THEN NoEntry ELSE IF t = s THEN data[i] ELSE data[t]
        /\ states'[t] = IF t = i THEN "free" ELSE IF t = s THEN "alive" ELSE states[t]
  BY <1>2, <1>3 DEF TypeOK
<1>8. /\ data' \in [Slots -> Entry \cup {NoEntry}]
      /\ states' \in [Slots -> State] /\ i' \in 0 .. old
  BY <1>1, <1>2, <1>4 DEF TypeOK, State
<1>9. /\ Occupied' = (Occupied \ {i}) \cup {s} /\ Moving' = Moving \ {i}
      /\ i \in Occupied /\ s \notin Occupied
  BY <1>1, <1>3, <1>4, <1>6, <1>7 DEF Occupied, Free, Moving
<1>10. data'[s] = data[i] /\ \A t \in Occupied \ {i} : data'[t] = data[t] /\ t \in Slots
  BY <1>3, <1>7, <1>9, Types
<1>11. TypeOK'
  <2>1. \A t \in Occupied' : data'[t] # NoEntry
    BY <1>4, <1>9, <1>10, NoEntryAssumption DEF TypeOK
  <2> QED
    BY <1>1, <1>6, <1>8, <2>1 DEF TypeOK
<1>12. EveryKeyOnce'
  <2>1. \A t, u \in Occupied' : data'[t].key = data'[u].key => t = u
    BY <1>9, <1>10 DEF EveryKeyOnce
  <2>2. IsFiniteSet(Occupied) /\ Cardinality(Occupied) = count /\ count \in Nat
    BY Finite DEF Occupied, EveryKeyOnce
  <2> DEFINE rest == Occupied \ {i}
  <2>3. IsFiniteSet(rest) /\ Cardinality(rest) = count - 1 /\ s \notin rest
    BY <1>9, <2>2, FS_RemoveElement
  <2>4. Cardinality(rest \cup {s}) = count
    <3> HIDE DEF rest
    <3>1. Cardinality(rest \cup {s}) = Cardinality(rest) + 1
      BY <2>3, FS_AddElement
    <3> QED
      BY <2>2, <2>3, <3>1
  <2> QED
    BY <1>1, <1>9, <2>1, <2>4 DEF EveryKeyOnce
<1>13. HalfFree'
  BY <1>1 DEF HalfFree
<1>14. Moving' \subseteq i' .. old - 1
  <2>1. Moving \subseteq i .. old - 1 /\ old \in Nat
    BY <1>1 DEF Phases, TypeOK
  <2>2. i' = i + 1 /\ i \in Int
    BY <1>1, <1>4
  <2> QED
    BY <1>9, <2>1, <2>2
<1>15. Reached'
  <2> SUFFICES ASSUME NEW t \in Slots, states'[t] = "alive",
                      NEW u \in Passed(hash[data'[t].key], buckets, t)
               PROVE  states'[u] = "alive"
    BY <1>1, <1>6 DEF Reached
  <2>1. u \in Slots /\ states[u] = "alive"
    <3>1. CASE t = s
      BY <1>4, <1>10, <3>1
    <3>2. CASE t # s
      <4>1. states[t] = "alive" /\ data'[t] = data[t] /\ t \in Occupied
        BY <1>7, <3>2 DEF Occupied, Free
      <4>2. Reached
        BY <1>1, <1>5 DEF Phases
      <4> QED
        BY <4>1, <4>2, Types, PassedAreSlots DEF Reached
    <3> QED
      BY <3>1, <3>2
  <2> QED
    BY <1>1, <1>3, <1>7, <2>1
<1>16. Phases'
  BY <1>1, <1>5, <1>14, <1>15 DEF Phases, Rehashing, FirstPass
<1>17. Room'
  <2>1. \A t \in Occupied' : \E u \in Occupied : data'[t] = data[u]
    BY <1>9, <1>10
  <2> QED
    BY <1>1, <2>1 DEF Room, Rehashing
<1> QED
  BY <1>3, <1>9, <1>10, <1>11, <1>12, <1>13, <1>16, <1>17

LEMMA SwapKeepsInv ==
  ASSUME Inv, SwapWithMoving
  PROVE  /\ Inv'
         /\ \E s \in Occupied : /\ i \in Occupied
                                /\ Occupied' = Occupied
                                /\ data'[s] = data[i] /\ data'[i] = data[s]
                                /\ \A t \in Occupied \ {i, s} : data'[t] = data[t]
<1> USE DEF Inv
<1>1. /\ AtMoving /\ i' = i
      /\ pc = "move" /\ i < old /\ states[i] = "moving"
      /\ UNCHANGED <<hash, buckets, count, pc, old, left, pending>>
  BY DEF SwapWithMoving, AtMoving
<1>2. PICK s \in ({Target} \cap Moving) \ {i} :
        /\ data' = [data EXCEPT ![s] = data[i], ![i] = data[s]]
        /\ states' = [states EXCEPT ![s] = "alive"]
  BY DEF SwapWithMoving
<1>3. s \in Slots /\ Target = s /\ states[s] = "moving" /\ s # i
  BY <1>2 DEF Moving
<1>4. /\ i \in Slots /\ data[i] \in Entry
      /\ \A t \in Passed(hash[data[i].key], buckets, s) : t \in Slots /\ states[t] = "alive"
  BY <1>1, <1>3, TargetFound
<1>5. FirstPass
  BY <1>1, <1>3, SecondPassStays
<1>6. Slots' = Slots
  BY <1>1 DEF Slots
<1>7. \A t \in Slots :
        /\ data'[t] = IF t = i THEN data[s] ELSE IF t = s THEN data[i] ELSE data[t]
        /\ states'[t] = IF t = s THEN "alive" ELSE states[t]
  BY <1>2, <1>3 DEF TypeOK
<1>8. /\ Occupied' = Occupied /\ Moving' = Moving \ {s}
      /\ i \in Occupied /\ s \in Occupied
  BY <1>1, <1>3, <1>4, <1>6, <1>7 DEF Occupied, Free, Moving
<1>9. /\ data' \in [Slots -> Entry \cup {NoEntry}]
      /\ states' \in [Slots -> State]
  BY <1>2, <1>3, <1>4 DEF TypeOK, State
<1>10. /\ data'[s] = data[i] /\ data'[i] = data[s]
       /\ \A t \in Occupied \ {i, s} : data'[t] = data[t]
  BY <1>3, <1>4, <1>7, Types
<1>11. TypeOK'
  <2>1. \A t \in Occupied' : data'[t] # NoEntry
    BY <1>8, <1>10 DEF TypeOK
  <2> QED
    BY <1>1, <1>6, <1>9, <2>1 DEF TypeOK
<1>12. EveryKeyOnce' /\ HalfFree'
  <2>1. \A t, u \in Occupied' : data'[t].key = data'[u].key => t = u
    BY <1>8, <1>10 DEF EveryKeyOnce
  <2> QED
    BY <1>1, <1>8, <2>1 DEF EveryKeyOnce, HalfFree
<1>13. Reached'
  <2> SUFFICES ASSUME NEW t \in Slots, states'[t] = "alive",
                      NEW u \in Passed(hash[data'[t].key], buckets, t)
               PROVE  states'[u] = "alive"
    BY <1>1, <1>6 DEF Reached
  <2>1. u \in Slots /\ states[u] = "alive"
    <3>1. CASE t = s
      BY <1>4, <1>10, <3>1
    <3>2. CASE t # s
      <4>1. states[t] = "alive" /\ data'[t] = data[t] /\ t \in Occupied
        BY <1>1, <1>7, <3>2 DEF Occupied, Free
      <4>2. Reached
        BY <1>1, <1>5 DEF Phases
      <4> QED
        BY <4>1, <4>2, Types, PassedAreSlots DEF Reached
    <3> QED
      BY <3>1, <3>2
  <2> QED
    BY <1>7, <2>1
<1>14. Phases'
  BY <1>1, <1>5, <1>8, <1>13 DEF Phases, Rehashing, FirstPass
<1>15. Room'
  <2>1. \A t \in Occupied' : \E u \in Occupied : data'[t] = data[u]
    BY <1>8, <1>10
  <2> QED
    BY <1>1, <2>1 DEF Room, Rehashing
<1> QED
  BY <1>8, <1>10, <1>11, <1>12, <1>14, <1>15

LEMMA EndRehashKeepsInv ==
  ASSUME Inv, EndRehash
  PROVE  /\ Inv'
         /\ Occupied' = Occupied /\ data' = data
<1> USE DEF Inv
<1>1. /\ pc = "move" /\ i = old /\ left' = left - 1
      /\ pc' = IF left > 1 THEN "mark" ELSE IF pending = NoEntry THEN "idle" ELSE "insert"
      /\ UNCHANGED <<hash, buckets, count, data, states, old, i, pending>>
  BY DEF EndRehash
<1>2. Slots' = Slots /\ Occupied' = Occupied /\ Moving' = Moving
  BY <1>1 DEF Slots, Occupied, Free, Moving
<1>3. Moving = {}
  BY <1>1 DEF Phases, TypeOK
<1>4. left = 1 \/ (left = 2 /\ pending # NoEntry)
  BY <1>1 DEF Phases, Rehashing
<1>5. Reached
  <2>1. CASE FirstPass
    BY <1>1, <2>1 DEF Phases
  <2>2. CASE ~FirstPass
    <3> SUFFICES ASSUME NEW s \in Slots, states[s] = "alive",
                        NEW t \in Passed(hash[data[s].key], buckets, s)
                 PROVE  states[t] = "alive"
      BY DEF Reached
    <3>1. s \in Occupied
      BY DEF Occupied, Free
    <3>2. t \in Slots /\ states[t] # "free"
      BY <1>1, <2>2, <3>1, Types, PassedAreSlots DEF Phases, Crowded
    <3> QED
      BY <1>3, <3>2, Types DEF Moving, State
  <2> QED
    BY <2>1, <2>2
<1>6. Reached'
  BY <1>1, <1>2, <1>5 DEF Reached
<1>7. TypeOK' /\ EveryKeyOnce' /\ HalfFree'
  BY <1>1, <1>2, <1>4 DEF TypeOK, EveryKeyOnce, HalfFree
<1>8. Phases'
  BY <1>1, <1>2, <1>3, <1>4, <1>6 DEF Phases, Rehashing, FirstPass
<1>9. Room'
  BY <1>1, <1>2 DEF Room, Rehashing
<1> QED
  BY <1>1, <1>2, <1>7, <1>8, <1>9

(* What every step leaves as it is, or puts. *)
LEMMA NextInv == Careful /\ Inv /\ [Next]_vars => Inv'
<1> SUFFICES ASSUME Careful, Inv, [Next]_vars
             PROVE  Inv'
  OBVIOUS
<1>1. ASSUME NEW k \in Keys, NEW v \in Values, Assign(k, v)
      PROVE  Inv'
  BY <1>1, AssignKeepsInv
<1>2. ASSUME NEW k \in Keys, NEW v \in Values, PutNew(k, v)
      PROVE  Inv'
  BY <1>2, PutNewKeepsInv
<1>3. ASSUME NEW n \in ReserveCounts, Reserve(n)
      PROVE  Inv'
  BY <1>3, ReserveKeepsInv
<1>4. CASE Insert
  BY <1>4, InsertKeepsInv
<1>5. CASE Mark
  BY <1>5, MarkKeepsInv
<1>6. CASE Skip
  BY <1>6, SkipKeepsInv
<1>7. CASE Settle
  BY <1>7, SettleKeepsInv
<1>8. CASE MoveToFree
  BY <1>8, MoveToFreeKeepsInv
<1>9. CASE SwapWithMoving
  BY <1>9, SwapKeepsInv
<1>10. CASE EndRehash
  BY <1>10, EndRehashKeepsInv
<1>11. CASE UNCHANGED vars
  <2>1. Slots' = Slots /\ Occupied' = Occupied /\ Moving' = Moving
    BY <1>11 DEF vars, Slots, Occupied, Free, Moving
  <2>2. (TypeOK /\ EveryKeyOnce /\ HalfFree)'
    BY <1>11, <2>1 DEF vars, Inv, TypeOK, EveryKeyOnce, HalfFree
  <2>3. (Phases /\ Room)'
    BY <1>11, <2>1 DEF vars, Inv, Phases, Room, Rehashing, FirstPass, Reached, Crowded
  <2> QED
    BY <2>2, <2>3 DEF Inv
<1> QED
  BY <1>1, <1>2, <1>3, <1>4, <1>5, <1>6, <1>7, <1>8, <1>9, <1>10, <1>11 DEF Next, Step

-----------------------------------------------------------------------------
(* The theorems. *)

(* The inductive invariant holds, also between the steps of rehash.        *)
THEOREM Invariance == ASSUME Careful PROVE Spec => []Inv
<1>1. Init => Inv
  BY InitInv
<1>2. Inv /\ [Next]_vars => Inv'
  BY NextInv
<1> QED
  BY <1>1, <1>2, PTL DEF Spec

LEMMA InvWellFormed == Inv => WellFormed
<1> SUFFICES ASSUME Inv
             PROVE  WellFormed
  OBVIOUS
<1>1. TypeOK /\ EveryKeyOnce /\ HalfFree /\ Phases
  BY DEF Inv
<1>2. NothingHidden
  <2> SUFFICES ASSUME pc # "mark", NEW n \in Slots, NEW s \in Slots,
                      states[s] = "alive", s = Probe(data[s].key, n), NEW m \in 0 .. n - 1
               PROVE  states[Probe(data[s].key, m)] # "free"
    BY DEF NothingHidden
  <2> DEFINE k == data[s].key
  <2>1. s \in Occupied /\ k \in Keys
    BY <1>1, Types DEF Occupied, Free
  <2>2. hash[k] \in Nat /\ buckets \in Nat \ {0} /\ n \in 0 .. buckets - 1
    BY <1>1, <2>1, Types DEF TypeOK
  <2>3. Probe(k, m) \in Passed(hash[k], buckets, s)
    BY <2>2, ProbePassed DEF Probe
  <2>4. Reached \/ Crowded
    BY <1>1 DEF Phases, Rehashing, TypeOK
  <2> QED
    BY <2>1, <2>3, <2>4 DEF Reached, Crowded
<1>3. FindSeesAll
  BY FindIsStored DEF FindSeesAll, Rehashing
<1> QED
  BY <1>1, <1>2, <1>3 DEF WellFormed

(* The table is well-formed. *)
THEOREM StaysWellFormed == ASSUME Careful PROVE Spec => []WellFormed
<1>1. Spec => []Inv
  BY Invariance
<1> QED
  BY <1>1, InvWellFormed, PTL

-----------------------------------------------------------------------------
(* The table implements the map. *)

(* What slots O with contents d hold under k. *)
Contents(O, d, k) ==
  IF {s \in O : d[s].key = k} = {} THEN Missing
  ELSE d[CHOOSE s \in {s \in O : d[s].key = k} : TRUE].value

NoKeyTwice(O, d) == \A s, t \in O : d[s].key = d[t].key => s = t

LEMMA ContentsAre ==
  ASSUME NEW O, NEW d, NEW k, NoKeyTwice(O, d)
  PROVE  /\ \A s \in O : d[s].key = k => Contents(O, d, k) = d[s].value
         /\ (\A s \in O : d[s].key # k) => Contents(O, d, k) = Missing
<1> DEFINE at == {s \in O : d[s].key = k}
<1>1. ASSUME NEW s \in O, d[s].key = k
      PROVE  Contents(O, d, k) = d[s].value
  <2>1. at = {s}
    BY <1>1 DEF NoKeyTwice
  <2>2. (CHOOSE t \in at : TRUE) = s
    BY <2>1
  <2> QED
    BY <2>1, <2>2 DEF Contents
<1> QED
  BY <1>1 DEF Contents

(* Slots whose entries have only changed places hold the same. *)
LEMMA SameContents ==
  ASSUME NEW O, NEW d, NEW P, NEW e, NEW k, NoKeyTwice(O, d), NoKeyTwice(P, e),
         \A s \in O : \E t \in P : e[t] = d[s],
         \A t \in P : \E s \in O : e[t] = d[s]
  PROVE  Contents(P, e, k) = Contents(O, d, k)
<1>1. CASE \A s \in O : d[s].key # k
  <2>1. \A t \in P : e[t].key # k
    BY <1>1
  <2> QED
    BY <1>1, <2>1, ContentsAre
<1>2. ASSUME NEW s \in O, d[s].key = k
      PROVE  Contents(P, e, k) = Contents(O, d, k)
  <2>1. PICK t \in P : e[t] = d[s]
    OBVIOUS
  <2>2. Contents(P, e, k) = e[t].value
    BY <1>2, <2>1, ContentsAre
  <2>3. Contents(O, d, k) = d[s].value
    BY <1>2, ContentsAre
  <2> QED
    BY <2>1, <2>2, <2>3
<1> QED
  BY <1>1, <1>2

(* Slots that hold one more entry, or one instead of that with its key. *)
LEMMA PutContents ==
  ASSUME NEW O, NEW d, NEW P, NEW e, NEW u \in P, NEW k, NoKeyTwice(O, d), NoKeyTwice(P, e),
         \A s \in O : d[s].key # e[u].key => \E t \in P : e[t] = d[s],
         \A t \in P : t # u => \E s \in O : e[t] = d[s]
  PROVE  Contents(P, e, k) = IF k = e[u].key THEN e[u].value ELSE Contents(O, d, k)
<1>1. CASE k = e[u].key
  BY <1>1, ContentsAre
<1>2. CASE k # e[u].key /\ \A s \in O : d[s].key # k
  <2>1. \A t \in P : e[t].key # k
    BY <1>2
  <2> QED
    BY <1>2, <2>1, ContentsAre
<1>3. ASSUME k # e[u].key, NEW s \in O, d[s].key = k
      PROVE  Contents(P, e, k) = Contents(O, d, k)
  <2>1. PICK t \in P : e[t] = d[s]
    BY <1>3
  <2>2. Contents(P, e, k) = e[t].value
    BY <1>3, <2>1, ContentsAre
  <2>3. Contents(O, d, k) = d[s].value
    BY <1>3, ContentsAre
  <2> QED
    BY <2>1, <2>2, <2>3
<1> QED
  BY <1>1, <1>2, <1>3

LEMMA StoredContents ==
  /\ \A k : Stored(k) = Contents(Occupied, data, k)
  /\ \A k : Stored(k)' = Contents(Occupied', data', k)
  /\ EveryKeyOnce => NoKeyTwice(Occupied, data)
  /\ EveryKeyOnce' => NoKeyTwice(Occupied', data')
  BY DEF Stored, Contents, EveryKeyOnce, NoKeyTwice

(* A step in which entries only change places does not change the map. *)
LEMMA MapStays ==
  ASSUME Inv, Inv',
         \A s \in Occupied : \E t \in Occupied' : data'[t] = data[s],
         \A t \in Occupied' : \E s \in Occupied : data'[t] = data[s]
  PROVE  [Map!Next]_[k \in Keys |-> Stored(k)]
<1>1. NoKeyTwice(Occupied, data) /\ NoKeyTwice(Occupied', data')
  BY StoredContents DEF Inv
<1>2. \A k : Contents(Occupied', data', k) = Contents(Occupied, data, k)
  BY <1>1, SameContents
<1>3. \A k : Stored(k)' = Stored(k)
  BY <1>2, StoredContents
<1> QED
  BY <1>3

(* A step that puts one entry does so to the map. *)
LEMMA MapPuts ==
  ASSUME Inv, Inv', NEW u \in Occupied', data'[u] \in Entry,
         \A s \in Occupied : data[s].key # data'[u].key => \E t \in Occupied' : data'[t] = data[s],
         \A t \in Occupied' : t # u => \E s \in Occupied : data'[t] = data[s]
  PROVE  [Map!Next]_[k \in Keys |-> Stored(k)]
<1> DEFINE k == data'[u].key
           v == data'[u].value
<1>1. NoKeyTwice(Occupied, data) /\ NoKeyTwice(Occupied', data')
  BY StoredContents DEF Inv
<1>2. \A l : Contents(Occupied', data', l) = IF l = k THEN v ELSE Contents(Occupied, data, l)
  BY <1>1, PutContents
<1>3. \A l : Stored(l)' = IF l = k THEN v ELSE Stored(l)
  BY <1>2, StoredContents
<1>4. k \in Keys /\ v \in Values
  BY DEF Entry
<1> HIDE DEF k, v
<1>5. [l \in Keys |-> Stored(l)'] = [[l \in Keys |-> Stored(l)] EXCEPT ![k] = v]
  BY <1>3, <1>4
<1>6. Map!Put(k, v)
  BY <1>5 DEF Map!Put
<1> QED
  BY <1>4, <1>6 DEF Map!Next

LEMMA StepImplementsMap ==
  ASSUME Careful, Inv, Inv', [Next]_vars
  PROVE  [Map!Next]_[k \in Keys |-> Stored(k)]
<1>1. ASSUME NEW k \in Keys, NEW v \in Values, Assign(k, v)
      PROVE  [Map!Next]_[l \in Keys |-> Stored(l)]
  <2>1. ~Rehashing
    BY <1>1 DEF Assign, Rehashing
  <2>2. PICK s \in FindSlots(k) : data' = [data EXCEPT ![s].value = v]
    BY <1>1 DEF Assign
  <2>3. s \in Occupied /\ data[s].key = k
    BY <2>1, FindFinds
  <2>4. Occupied' = Occupied
    BY <1>1 DEF Assign, Occupied, Slots, Free
  <2>5. /\ data'[s] = [data[s] EXCEPT !.value = v]
        /\ \A t \in Occupied : t # s => data'[t] = data[t]
    BY <2>2, <2>3, Types DEF Inv, TypeOK
  <2>6. data[s] \in Entry
    BY <2>3, Types DEF Inv
  <2>7. data'[s] \in Entry /\ data'[s].key = data[s].key
    BY <2>5, <2>6 DEF Entry
  <2>8. \A t \in Occupied : data[t].key # data'[s].key => data'[t] = data[t]
    BY <2>3, <2>5, <2>7
  <2>9. \A t \in Occupied' : t # s => \E u \in Occupied : data'[t] = data[u]
    BY <2>4, <2>5
  <2>10. \A t \in Occupied : data[t].key # data'[s].key => \E u \in Occupied' : data'[u] = data[t]
    BY <2>4, <2>8
  <2>11. s \in Occupied'
    BY <2>3, <2>4
  <2> QED
    BY <2>7, <2>9, <2>10, <2>11, MapPuts
<1>2. ASSUME NEW k \in Keys, NEW v \in Values, PutNew(k, v)
      PROVE  [Map!Next]_[l \in Keys |-> Stored(l)]
  <2>1. Occupied' = Occupied /\ \A s \in Occupied : data'[s] = data[s]
    <3>1. CASE MustGrow
      <4> DEFINE new == BucketsFor(GrowCount)
      <4>1. new \in Nat /\ buckets <= new /\ StatesKept(new) = Slots
        BY GrowsEnough DEF Inv, TypeOK
      <4>2. Resize(new) /\ Moving = {}
        BY <1>2, <3>1 DEF PutNew, Inv, Phases, Rehashing
      <4> HIDE DEF new
      <4> QED
        BY <4>1, <4>2, ResizeKeeps
    <3>2. CASE ~MustGrow
      BY <1>2, <3>2 DEF PutNew, Occupied, Free, Slots
    <3> QED
      BY <3>1, <3>2
  <2> QED
    BY <2>1, MapStays
<1>3. ASSUME NEW n \in ReserveCounts, Reserve(n)
      PROVE  [Map!Next]_[l \in Keys |-> Stored(l)]
  <2>1. Occupied' = Occupied /\ \A s \in Occupied : data'[s] = data[s]
    BY <1>3, ReserveKeepsInv
  <2> QED
    BY <2>1, MapStays
<1>4. CASE Insert
  <2>1. PICK s \in Free : /\ Occupied' = Occupied \cup {s}
                          /\ data' = [data EXCEPT ![s] = pending]
    BY <1>4, InsertKeepsInv
  <2>2. pending \in Entry
    BY <1>4 DEF Insert, Inv, Phases, Rehashing, TypeOK
  <2>3. s \in Slots /\ s \notin Occupied
    BY DEF Free, Occupied
  <2>4. data'[s] = pending /\ \A t \in Occupied : data'[t] = data[t]
    BY <2>1, <2>3, Types DEF Inv, TypeOK
  <2> QED
    BY <2>1, <2>2, <2>4, MapPuts
<1>5. CASE Mark \/ Skip \/ Settle \/ EndRehash
  <2>1. Occupied' = Occupied /\ data' = data
    BY <1>5, MarkKeepsInv, SkipKeepsInv, SettleKeepsInv, EndRehashKeepsInv
  <2> QED
    BY <2>1, MapStays
<1>6. CASE MoveToFree
  <2>1. PICK s \in Slots : /\ s \notin Occupied /\ i \in Occupied
                           /\ Occupied' = (Occupied \ {i}) \cup {s}
                           /\ data'[s] = data[i]
                           /\ \A t \in Occupied \ {i} : data'[t] = data[t]
    BY <1>6, MoveToFreeKeepsInv
  <2>2. ASSUME NEW t \in Occupied
        PROVE  \E u \in Occupied' : data'[u] = data[t]
    BY <2>1
  <2>3. ASSUME NEW u \in Occupied'
        PROVE  \E t \in Occupied : data'[u] = data[t]
    BY <2>1
  <2> QED
    BY <2>2, <2>3, MapStays
<1>7. CASE SwapWithMoving
  <2>1. PICK s \in Occupied : /\ i \in Occupied
                              /\ Occupied' = Occupied
                              /\ data'[s] = data[i] /\ data'[i] = data[s]
                              /\ \A t \in Occupied \ {i, s} : data'[t] = data[t]
    BY <1>7, SwapKeepsInv
  <2>2. ASSUME NEW t \in Occupied
        PROVE  \E u \in Occupied' : data'[u] = data[t]
    BY <2>1
  <2>3. ASSUME NEW u \in Occupied'
        PROVE  \E t \in Occupied : data'[u] = data[t]
    BY <2>1
  <2> QED
    BY <2>2, <2>3, MapStays
<1>8. CASE UNCHANGED vars
  <2>1. Occupied' = Occupied /\ data' = data
    BY <1>8 DEF vars, Occupied, Free, Slots
  <2> QED
    BY <2>1, MapStays
<1> QED
  BY <1>1, <1>2, <1>3, <1>4, <1>5, <1>6, <1>7, <1>8 DEF Next, Step

(* The table implements the map: growing, reserving and rehashing in place *)
(* neither lose nor duplicate nor change what was put under any key.       *)
THEOREM Refinement == ASSUME Careful PROVE Spec => ImplementsMap
<1>1. Init => Map!Init
  <2> SUFFICES ASSUME Init
               PROVE  [k \in Keys |-> Stored(k)] = [k \in Keys |-> Missing]
    BY DEF Map!Init
  <2>1. Occupied = {}
    BY DEF Init, Occupied, Slots
  <2> QED
    BY <2>1 DEF Stored
<1>2. Inv /\ Inv' /\ [Next]_vars => [Map!Next]_[k \in Keys |-> Stored(k)]
  BY StepImplementsMap
<1>3. Spec => []Inv
  BY Invariance
<1> QED
  BY <1>1, <1>2, <1>3, PTL DEF Spec, ImplementsMap, Map!Spec

(* operator[] rehashes once more after reserve has done so.  That moves no *)
(* entry, so a reference into the table is not made stale by it.           *)
THEOREM SecondRehashMovesNothing ==
  ASSUME Careful PROVE Spec => [][Rehashing /\ ~FirstPass => UNCHANGED data]_vars
<1>1. ASSUME Inv, [Next]_vars, Rehashing, ~FirstPass
      PROVE  UNCHANGED data
  <2>1. pc # "idle" /\ pc # "insert"
    BY <1>1 DEF Rehashing
  <2>2. ~MoveToFree
    <3> SUFFICES ASSUME MoveToFree PROVE FALSE
      OBVIOUS
    <3>1. AtMoving /\ Target \in Free
      BY DEF MoveToFree
    <3>2. Target = i /\ states[i] = "moving"
      BY <1>1, <3>1, SecondPassStays DEF AtMoving
    <3> QED
      BY <3>1, <3>2 DEF Free
  <2>3. ~SwapWithMoving
    <3> SUFFICES ASSUME SwapWithMoving PROVE FALSE
      OBVIOUS
    <3>1. AtMoving /\ Target # i
      BY DEF SwapWithMoving
    <3> QED
      BY <1>1, <3>1, SecondPassStays
  <2> QED
    BY <1>1, <2>1, <2>2, <2>3
    DEF Next, Step, vars, Assign, PutNew, Reserve, Insert, Mark, Skip, Settle, EndRehash
<1>2. Spec => []Inv
  BY Invariance
<1>3. Inv /\ [Next]_vars => (Rehashing /\ ~FirstPass => UNCHANGED data)
  BY <1>1
<1> QED
  BY <1>2, <1>3, PTL DEF Spec
====
