----------------------------- MODULE HashTable -----------------------------
(***************************************************************************)
(* Hash_table_t_ (core/hash_table.h and .inl): open addressing with linear *)
(* probing.  The entries and, behind them, the slot states share one       *)
(* buffer.  A table that is more than half full grows, and rehash moves    *)
(* the entries to their new buckets in place: an entry that is still to be *)
(* moved may be swapped with the one being moved, which is then processed  *)
(* next at the same slot.                                                  *)
(*                                                                         *)
(* Each iteration of rehash's second loop is a step.  There is no erase,   *)
(* so e_slot_state_dead never occurs and is left out; the contents of a    *)
(* free slot are never read and are NoEntry here.                          *)
(*                                                                         *)
(* Obligations of the callers: CarefulReserve, below, which every caller   *)
(* in the repository keeps by reserving before the first insertion; and an *)
(* allocator that leaves a block as it was when realloc moves it, as the   *)
(* linear allocator does for all callers but the tests: reserve reads the  *)
(* states of a moved buffer in the place it had before.                    *)
(*                                                                         *)
(* A resize that gets no memory is no action: m_data.m_p is NULL then, and *)
(* reserve clears the states through it, which ends the program.           *)
(***************************************************************************)
EXTENDS Integers, FiniteSets

CONSTANTS
  Keys,                \* keys callers use
  Values,              \* values callers put
  HashCodes,           \* values of T_hash
  InitialBucketCount,  \* m_initial_bucket_count
  EntrySize,           \* sizeof(T_data); a slot state takes one byte
  ReserveCounts,       \* arguments callers pass to reserve
  MaxBuckets,          \* bound: no reserve call that needs more buckets
  Careful,             \* whether callers keep their obligations
  NoEntry,             \* the contents of a slot that is not occupied
  Missing              \* what find returns for a key that is not there

ASSUME HashTableAssumption ==
  /\ HashCodes \subseteq Nat
  /\ InitialBucketCount \in Nat \ {0}
  /\ EntrySize \in Nat \ {0}
  /\ ReserveCounts \subseteq Nat
  /\ MaxBuckets \in Nat
  /\ Careful \in BOOLEAN
  /\ Missing \notin Values

Entry == [key : Keys, value : Values]

ASSUME NoEntryAssumption == NoEntry \notin Entry

State == {"free", "alive", "moving"}

VARIABLES
  hash,     \* T_hash on the keys
  buckets,  \* m_bucket_count
  count,    \* m_count
  data,     \* m_data_p
  states,   \* m_states_p
  pc,       \* "idle", "mark" and "move" (rehash's loops) or "insert"
  old,      \* rehash's parameter bucket_count: the buckets before growing
  i,        \* rehash's i
  left,     \* calls of rehash still to finish, the present one included
  pending   \* the entry operator[] is making room for

vars == <<hash, buckets, count, data, states, pc, old, i, left, pending>>

Slots == 0 .. buckets - 1
Free == {s \in Slots : states[s] = "free"}
Moving == {s \in Slots : states[s] = "moving"}
Occupied == Slots \ Free

(* get_bucket_index, and the n-th bucket the probing looks at. *)
Probe(k, n) == (hash[k] + n) % buckets

(* The first bucket of k's probe sequence that is in S. *)
FirstProbed(k, S) ==
  LET hits == {n \in Slots : Probe(k, n) \in S}
  IN  Probe(k, CHOOSE n \in hits : \A m \in hits : n <= m)

(* find: probing goes on to the key or to the first free slot. *)
FindSlots(k) ==
  {s \in Slots : \E n \in Slots :
     /\ s = Probe(k, n) /\ states[s] = "alive" /\ data[s].key = k
     /\ \A m \in 0 .. n - 1 : states[Probe(k, m)] # "free"}

Find(k) == IF count = 0 \/ FindSlots(k) = {} THEN Missing
           ELSE data[CHOOSE s \in FindSlots(k) : TRUE].value

(* count + 1 > 0.5 * buckets *)
MustGrow == buckets = 0 \/ 2 * (count + 1) > buckets

(* What operator[] asks reserve for, and the buckets reserve makes of it:  *)
(* n / 0.5 + 1.                                                            *)
GrowCount == IF buckets = 0 THEN InitialBucketCount ELSE (buckets * 3) \div 2
BucketsFor(n) == 2 * n + 1

(* reserve clears the new state array before it copies the old one into    *)
(* it; old states at or behind the beginning of the new array are lost.    *)
StatesKept(new) == {s \in Slots : s < (new - buckets) * EntrySize}

(* The obligation: the table is empty, or it grows so much that the new    *)
(* state array lies behind the old one.                                    *)
CarefulReserve(new) == count = 0 \/ StatesKept(new) = Slots

(* What m_states_p shows once realloc has moved the buffer: it still       *)
(* points into the old one, which may have been given back and hold        *)
(* anything.                                                               *)
StatesLeftBehind == IF Careful THEN {states} ELSE [Slots -> State]

(* resize and the copying of the states, within the buffer or, when it was *)
(* moved, from the old one.                                                *)
Resize(new) ==
  \E kept \in {StatesKept(new), Slots} :
  \E read \in IF kept = Slots THEN StatesLeftBehind \cup {states} ELSE {states} :
    /\ states' = [s \in 0 .. new - 1 |-> IF s \in kept THEN read[s] ELSE "free"]
    /\ data' = [s \in 0 .. new - 1 |-> IF s \in kept THEN data[s] ELSE NoEntry]
    /\ buckets' = new
    /\ old' = buckets

Init ==
  /\ hash \in [Keys -> HashCodes]
  /\ buckets = 0
  /\ count = 0
  /\ data = [s \in {} |-> NoEntry]
  /\ states = [s \in {} |-> "free"]
  /\ pc = "idle"
  /\ old = 0
  /\ i = 0
  /\ left = 0
  /\ pending = NoEntry

(* operator[] on a key that is there, and the assignment through it. *)
Assign(k, v) ==
  /\ pc = "idle"
  /\ Find(k) # Missing
  /\ \E s \in FindSlots(k) : data' = [data EXCEPT ![s].value = v]
  /\ UNCHANGED <<hash, buckets, count, states, pc, old, i, left, pending>>

(* operator[] on a new key, up to the point where there is room for it:    *)
(* reserve rehashes the old buckets, then operator[] does so once more.    *)
PutNew(k, v) ==
  /\ pc = "idle"
  /\ Find(k) = Missing
  /\ pending' = [key |-> k, value |-> v]
  /\ IF MustGrow
       THEN /\ Resize(BucketsFor(GrowCount))
            /\ pc' = IF buckets = 0 THEN "insert" ELSE "mark"
            /\ left' = IF buckets = 0 THEN 0 ELSE 2
       ELSE /\ pc' = "insert"
            /\ UNCHANGED <<buckets, data, states, old, left>>
  /\ UNCHANGED <<hash, count, i>>

(* Mutant: takes the bucket of the key without looking for a free one. *)
InsertAtHash ==
  /\ pc = "insert"
  /\ count' = count + 1
  /\ data' = [data EXCEPT ![Probe(pending.key, 0)] = pending]
  /\ states' = [states EXCEPT ![Probe(pending.key, 0)] = "alive"]
  /\ pc' = "idle"
  /\ pending' = NoEntry
  /\ UNCHANGED <<hash, buckets, old, i, left>>

(* The rest of operator[] and the assignment through its result. *)
Insert ==
  /\ pc = "insert"
  /\ count' = count + 1
  /\ LET s == FirstProbed(pending.key, Slots \ {s \in Slots : states[s] = "alive"})
     IN  /\ data' = [data EXCEPT ![s] = pending]
         /\ states' = [states EXCEPT ![s] = "alive"]
  /\ pc' = "idle"
  /\ pending' = NoEntry
  /\ UNCHANGED <<hash, buckets, old, i, left>>

(* reserve called by the owner of the table. *)
Reserve(n) ==
  LET new == BucketsFor(n) IN
  /\ pc = "idle"
  /\ buckets < new /\ new <= MaxBuckets
  /\ Careful => CarefulReserve(new)
  /\ Resize(new)
  /\ pc' = IF buckets = 0 THEN "idle" ELSE "mark"
  /\ left' = IF buckets = 0 THEN 0 ELSE 1
  /\ UNCHANGED <<hash, count, i, pending>>

(* rehash, first loop. *)
Mark ==
  /\ pc = "mark"
  /\ states' = [s \in Slots |-> IF s < old /\ states[s] = "alive" THEN "moving"
                                 ELSE states[s]]
  /\ i' = 0
  /\ pc' = "move"
  /\ UNCHANGED <<hash, buckets, count, data, old, left, pending>>

Skip ==
  /\ pc = "move"
  /\ i < old
  /\ states[i] # "moving"
  /\ i' = i + 1
  /\ UNCHANGED <<hash, buckets, count, data, states, pc, old, left, pending>>

(* Mutant: never takes the bucket of an entry that is still to be moved. *)
TargetOnlyFree == FirstProbed(data[i].key, Free)

(* The bucket where the entry of slot i goes: the first that is not taken  *)
(* by an entry already moved.                                              *)
Target == FirstProbed(data[i].key, Free \cup Moving)

AtMoving ==
  /\ pc = "move"
  /\ i < old
  /\ states[i] = "moving"
  /\ UNCHANGED <<hash, buckets, count, pc, old, left, pending>>

Settle ==
  /\ AtMoving
  /\ Target = i
  /\ states' = [states EXCEPT ![i] = "alive"]
  /\ i' = i + 1
  /\ UNCHANGED data

MoveToFree ==
  /\ AtMoving
  /\ \E s \in {Target} \cap Free :
       /\ data' = [data EXCEPT ![s] = data[i], ![i] = NoEntry]
       /\ states' = [states EXCEPT ![s] = "alive", ![i] = "free"]
  /\ i' = i + 1

(* Mutant: forgets that the entry moved has its place now. *)

SwapLeavesMoving ==
  /\ AtMoving
  /\ \E s \in ({Target} \cap Moving) \ {i} :
       data' = [data EXCEPT ![s] = data[i], ![i] = data[s]]
  /\ UNCHANGED <<i, states>>

(* The entry that was in the way is the next one to be moved, from slot i. *)
SwapWithMoving ==
  /\ AtMoving
  /\ \E s \in ({Target} \cap Moving) \ {i} :
       /\ data' = [data EXCEPT ![s] = data[i], ![i] = data[s]]
       /\ states' = [states EXCEPT ![s] = "alive"]
  /\ UNCHANGED i

EndRehash ==
  /\ pc = "move"
  /\ i = old
  /\ left' = left - 1
  /\ pc' = IF left > 1 THEN "mark" ELSE IF pending = NoEntry THEN "idle" ELSE "insert"
  /\ UNCHANGED <<hash, buckets, count, data, states, old, i, pending>>

(* What the table does by itself once a call has been made. *)
Step ==
  \/ Insert
  \/ Mark
  \/ Skip
  \/ Settle
  \/ MoveToFree
  \/ SwapWithMoving
  \/ EndRehash

Next ==
  \/ \E k \in Keys, v \in Values : Assign(k, v)
  \/ \E k \in Keys, v \in Values : PutNew(k, v)
  \/ \E n \in ReserveCounts : Reserve(n)
  \/ Step

Spec == Init /\ [][Next]_vars /\ WF_vars(Step)

-----------------------------------------------------------------------------
(***************************************************************************)
(* Properties                                                              *)
(***************************************************************************)

TypeOK ==
  /\ hash \in [Keys -> HashCodes]
  /\ buckets \in Nat /\ count \in Nat
  /\ data \in [Slots -> Entry \cup {NoEntry}]
  /\ states \in [Slots -> State]
  /\ \A s \in Occupied : data[s] # NoEntry
  /\ pc \in {"idle", "mark", "move", "insert"}
  /\ old \in 0 .. buckets /\ i \in 0 .. old
  /\ left \in 0 .. 2
  /\ pending \in Entry \cup {NoEntry}

(* No key is ever in two slots, not even in the middle of rehash, and      *)
(* m_count is the number of entries: moving and swapping neither lose nor  *)
(* duplicate an entry.                                                     *)
EveryKeyOnce ==
  /\ \A s, t \in Occupied : data[s].key = data[t].key => s = t
  /\ Cardinality(Occupied) = count

(* At least half of the buckets stay free: every probe sequence ends, and  *)
(* operator[] always finds a place for its key.                            *)
HalfFree == 2 * count <= buckets

(* Every entry that has its final place can be reached by probing: no free *)
(* slot lies between the bucket of its key and its slot.  It holds during  *)
(* rehash too, when slots are freed all the time (but not between growing  *)
(* and the marking of the old entries).                                    *)
NothingHidden ==
  pc # "mark" =>
    \A n, s \in Slots :
      states[s] = "alive" /\ s = Probe(data[s].key, n)
      => \A m \in 0 .. n - 1 : states[Probe(data[s].key, m)] # "free"

(* The map the slots stand for, whatever the probing can see of it. *)
Stored(k) ==
  LET at == {s \in Occupied : data[s].key = k}
  IN  IF at = {} THEN Missing ELSE data[CHOOSE s \in at : TRUE].value

(* find sees exactly what is stored whenever a caller can call it. *)
FindSeesAll == pc = "idle" => \A k \in Keys : Find(k) = Stored(k)

(* The table, also in the middle of rehash.                                *)
WellFormed == TypeOK /\ EveryKeyOnce /\ HalfFree /\ NothingHidden /\ FindSeesAll

(* The table implements the map: growing, reserving and rehashing never    *)
(* change it.                                                              *)
Map == INSTANCE HashMap WITH dict <- [k \in Keys |-> Stored(k)]
ImplementsMap == Map!Spec

(* Every call returns: the swaps of rehash, which stay at the same slot,   *)
(* come to an end.                                                         *)
CallsReturn == []<>(pc = "idle")

=============================================================================
