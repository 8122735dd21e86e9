-------------------------- MODULE D3d12FrameProofs --------------------------
(***************************************************************************)
(* Proofs about D3d12Frame, for every number of buffers, every frame that  *)
(* is complete, every texture and every bound.                             *)
(*                                                                         *)
(* Two facts carry the invariant.  Every item of the queue that somebody   *)
(* will wait for is followed by a signal of at most the value waited for   *)
(* (Covered), while the signals still in the queue are above the fence     *)
(* (Between): so a wait that ends has nothing left to wait for.  And there *)
(* is a way through the queue from the states on the GPU to those that the *)
(* program tracks, on which every command finds its target as it needs it  *)
(* (Foreseen): so the GPU never meets a wrong one.                         *)
(***************************************************************************)
EXTENDS D3d12Frame, SequenceTheorems, WellFoundedInduction, TLAPS

-----------------------------------------------------------------------------
(* Sequences of which only the length and the elements matter. *)

IsSeq(s) == s \in Seq({s[k] : k \in DOMAIN s})

LEMMA SeqIs ==
  ASSUME NEW S, NEW s \in Seq(S)
  PROVE  IsSeq(s) /\ DOMAIN s = 1 .. Len(s) /\ Len(s) \in Nat
<1>1. Len(s) \in Nat /\ DOMAIN s = 1 .. Len(s) /\ s \in [1 .. Len(s) -> S]
  BY LenProperties
<1>2. s \in [1 .. Len(s) -> {s[k] : k \in DOMAIN s}]
  BY <1>1
<1> QED
  BY <1>1, <1>2, SeqDef DEF IsSeq

LEMMA IsSeqLen ==
  ASSUME NEW s, IsSeq(s)
  PROVE  Len(s) \in Nat /\ DOMAIN s = 1 .. Len(s)
  BY LenProperties DEF IsSeq

LEMMA FunctionIs ==
  ASSUME NEW n \in Nat, NEW s, DOMAIN s = 1 .. n, s = [k \in 1 .. n |-> s[k]]
  PROVE  IsSeq(s) /\ Len(s) = n
<1>1. s \in [1 .. n -> {s[k] : k \in DOMAIN s}]
  OBVIOUS
<1>2. IsSeq(s)
  BY <1>1, SeqDef DEF IsSeq
<1>3. 1 .. Len(s) = 1 .. n /\ Len(s) \in Nat
  BY <1>2, IsSeqLen
<1> QED
  BY <1>2, <1>3

LEMMA ConcatIs ==
  ASSUME NEW s, NEW t, IsSeq(s), IsSeq(t)
  PROVE  /\ IsSeq(s \o t) /\ Len(s \o t) = Len(s) + Len(t)
         /\ \A k \in 1 .. Len(s) : (s \o t)[k] = s[k]
         /\ \A k \in 1 .. Len(t) : (s \o t)[Len(s) + k] = t[k]
<1> DEFINE A == {s[k] : k \in DOMAIN s}
<1> DEFINE B == {t[k] : k \in DOMAIN t}
<1>1. s \in Seq(A \cup B) /\ t \in Seq(A \cup B)
  <2>1. s \in Seq(A) /\ t \in Seq(B)
    BY DEF IsSeq
  <2> HIDE DEF A, B
  <2>2. s \in [1 .. Len(s) -> A] /\ Len(s) \in Nat /\ t \in [1 .. Len(t) -> B] /\ Len(t) \in Nat
    BY <2>1, LenProperties
  <2>3. s \in [1 .. Len(s) -> A \cup B] /\ t \in [1 .. Len(t) -> A \cup B]
    BY <2>2
  <2> QED
    BY <2>2, <2>3, SeqDef
<1> HIDE DEF A, B
<1>2. /\ s \o t \in Seq(A \cup B) /\ Len(s \o t) = Len(s) + Len(t)
      /\ \A k \in 1 .. Len(s) + Len(t) :
           (s \o t)[k] = IF k <= Len(s) THEN s[k] ELSE t[k - Len(s)]
  BY <1>1, ConcatProperties
<1>3. Len(s) \in Nat /\ Len(t) \in Nat
  BY <1>1, LenProperties
<1>4. IsSeq(s \o t)
  BY <1>2, SeqIs
<1>5. ASSUME NEW k \in 1 .. Len(t)
      PROVE  (s \o t)[Len(s) + k] = t[k]
  <2>1. Len(s) + k \in 1 .. Len(s) + Len(t) /\ ~(Len(s) + k <= Len(s)) /\ (Len(s) + k) - Len(s) = k
    BY <1>3
  <2> QED
    BY <1>2, <2>1
<1>6. ASSUME NEW k \in 1 .. Len(s)
      PROVE  (s \o t)[k] = s[k]
  <2>1. k \in 1 .. Len(s) + Len(t) /\ k <= Len(s)
    BY <1>3
  <2> QED
    BY <1>2, <2>1
<1> QED
  BY <1>2, <1>4, <1>5, <1>6

LEMMA OneIs ==
  ASSUME NEW e
  PROVE  IsSeq(<<e>>) /\ Len(<<e>>) = 1 /\ <<e>>[1] = e
<1>1. <<e>> \in Seq({e})
  OBVIOUS
<1> QED
  BY <1>1, SeqIs

LEMMA TailIs ==
  ASSUME NEW s, IsSeq(s), s # <<>>
  PROVE  /\ IsSeq(Tail(s)) /\ Len(s) \in Nat \ {0} /\ Len(Tail(s)) = Len(s) - 1 /\ Head(s) = s[1]
         /\ \A k \in 1 .. Len(s) - 1 : Tail(s)[k] = s[k + 1]
<1> DEFINE A == {s[k] : k \in DOMAIN s}
<1>1. s \in Seq(A)
  BY DEF IsSeq
<1> HIDE DEF A
<1>2. /\ Head(s) \in A /\ Tail(s) \in Seq(A)
  BY <1>1, HeadTailProperties
<1>3. Len(s) \in Nat /\ Len(s) # 0
  BY <1>1, LenProperties, EmptySeq
<1>4. Len(Tail(s)) = Len(s) - 1 /\ \A k \in 1 .. Len(s) - 1 : Tail(s)[k] = s[k + 1]
  BY <1>1, <1>3
<1>5. Head(s) = s[1]
  BY <1>1
<1> QED
  BY <1>2, <1>3, <1>4, <1>5, SeqIs

LEMMA LeastNatural ==
  ASSUME NEW S, S \subseteq Nat, S # {}
  PROVE  \E n \in S : \A m \in S : n <= m
<1> DEFINE R == OpToRel(<, Nat)
<1>1. IsWellFoundedOn(R, Nat)
  BY NatLessThanWellFounded
<1>2. \A x, y \in Nat : y < x => <<y, x>> \in R
  BY DEF OpToRel
<1> HIDE DEF R
<1>3. PICK n \in S : \A m \in S : <<m, n>> \notin R
  BY <1>1, WFMin
<1>4. \A m \in S : ~(m < n)
  BY <1>2, <1>3
<1> QED
  BY <1>3, <1>4

-----------------------------------------------------------------------------
(* What a list of commands makes of the states.                            *)

StateSet == [Targets -> States]
CommandSet == [target : Targets, from : States, to : States]
IsCommands(cs) == IsSeq(cs) /\ \A k \in 1 .. Len(cs) : cs[k] \in CommandSet

(* Each command finds its target in the state it needs; p before the       *)
(* first of them, q after the last.                                        *)
RunsBy(st, cs, p, q) ==
  /\ st[0] = p /\ st[Len(cs)] = q
  /\ \A k \in 1 .. Len(cs) : /\ st[k - 1][cs[k].target] = cs[k].from
                             /\ st[k] = [st[k - 1] EXCEPT ![cs[k].target] = cs[k].to]
Runs(cs, p, q) == \E st \in [0 .. Len(cs) -> StateSet] : RunsBy(st, cs, p, q)

LEMMA NoCommands ==
  ASSUME NEW p \in StateSet
  PROVE  IsCommands(<<>>) /\ Runs(<<>>, p, p)
<1>1. IsSeq(<<>>) /\ Len(<<>>) = 0
  BY SeqIs, EmptySeq
<1> DEFINE st == [k \in 0 .. Len(<<>>) |-> p]
<1>2. st \in [0 .. Len(<<>>) -> StateSet] /\ RunsBy(st, <<>>, p, p)
  BY <1>1 DEF RunsBy
<1> QED
  BY <1>1, <1>2 DEF Runs, IsCommands

LEMMA RunsConcat ==
  ASSUME NEW a, NEW b, IsCommands(a), IsCommands(b), NEW p, NEW q, NEW r, Runs(a, p, q), Runs(b, q, r)
  PROVE  IsCommands(a \o b) /\ Runs(a \o b, p, r)
<1> DEFINE m == Len(a)
<1> DEFINE n == Len(b)
<1> DEFINE cs == a \o b
<1>1. m \in Nat /\ n \in Nat
  BY IsSeqLen DEF IsCommands
<1>2. /\ IsSeq(cs) /\ Len(cs) = m + n
      /\ \A k \in 1 .. m : cs[k] = a[k]
      /\ \A k \in 1 .. n : cs[m + k] = b[k]
  BY ConcatIs DEF IsCommands
<1> HIDE DEF cs
<1>3. \A k \in m + 1 .. m + n : k - m \in 1 .. n /\ cs[k] = b[k - m]
  <2> TAKE k \in m + 1 .. m + n
  <2>1. k - m \in 1 .. n /\ m + (k - m) = k
    BY <1>1
  <2> QED
    BY <1>2, <2>1
<1>4. \A k \in 1 .. m + n : k \in 1 .. m \/ k \in m + 1 .. m + n
  BY <1>1
<1>5. IsCommands(cs)
  <2>1. \A k \in 1 .. m + n : cs[k] \in CommandSet
    BY <1>2, <1>3, <1>4 DEF IsCommands
  <2> QED
    BY <1>2, <2>1 DEF IsCommands
<1>6. PICK s \in [0 .. m -> StateSet] : RunsBy(s, a, p, q)
  BY DEF Runs
<1>7. PICK t \in [0 .. n -> StateSet] : RunsBy(t, b, q, r)
  BY DEF Runs
<1> DEFINE st == [k \in 0 .. m + n |-> IF k <= m THEN s[k] ELSE t[k - m]]
<1>8. st \in [0 .. m + n -> StateSet]
  <2>1. \A k \in 0 .. m + n : ~(k <= m) => k - m \in 0 .. n
    BY <1>1
  <2>2. \A k \in 0 .. m + n : k <= m => k \in 0 .. m
    BY <1>1
  <2> QED
    BY <2>1, <2>2
<1>9. st[0] = p /\ st[m + n] = r
  <2>1. st[0] = s[0]
    BY <1>1
  <2>2. CASE n = 0
    <3>1. m + n = m /\ st[m] = s[m]
      BY <1>1, <2>2
    <3> QED
      BY <1>6, <1>7, <2>1, <2>2, <3>1 DEF RunsBy
  <2>3. CASE n # 0
    <3>1. ~(m + n <= m) /\ (m + n) - m = n /\ m + n \in 0 .. m + n
      BY <1>1, <2>3
    <3> QED
      BY <1>6, <1>7, <2>1, <3>1 DEF RunsBy
  <2> QED
    BY <2>2, <2>3
<1>10. \A k \in m .. m + n : st[k] = t[k - m]
  <2> TAKE k \in m .. m + n
  <2>1. CASE k = m
    <3>1. st[k] = s[m] /\ k - m = 0
      BY <1>1, <2>1
    <3> QED
      BY <1>6, <1>7, <3>1 DEF RunsBy
  <2>2. CASE k # m
    BY <1>1, <2>2
  <2> QED
    BY <2>1, <2>2
<1>11. \A k \in 0 .. m : st[k] = s[k]
  BY <1>1
<1> HIDE DEF st
<1>12. ASSUME NEW k \in 1 .. m + n
       PROVE  /\ st[k - 1][cs[k].target] = cs[k].from
              /\ st[k] = [st[k - 1] EXCEPT ![cs[k].target] = cs[k].to]
  <2>1. CASE k \in 1 .. m
    <3>1. k - 1 \in 0 .. m /\ k \in 0 .. m
      BY <1>1, <2>1
    <3> QED
      BY <1>2, <1>6, <1>11, <2>1, <3>1 DEF RunsBy
  <2>2. CASE k \in m + 1 .. m + n
    <3>1. k - 1 \in m .. m + n /\ k \in m .. m + n /\ (k - 1) - m = (k - m) - 1
      BY <1>1, <2>2
    <3>2. st[k] = t[k - m] /\ st[k - 1] = t[(k - m) - 1] /\ cs[k] = b[k - m] /\ k - m \in 1 .. n
      BY <1>3, <1>10, <2>2, <3>1
    <3> QED
      BY <1>7, <3>2 DEF RunsBy
  <2> QED
    BY <1>4, <2>1, <2>2
<1>13. RunsBy(st, cs, p, r)
  BY <1>2, <1>9, <1>12 DEF RunsBy
<1> QED
  BY <1>2, <1>5, <1>8, <1>13 DEF Runs, cs

(* Running them one by one is what StateAfter says.                        *)
LEMMA RunsAfter ==
  ASSUME NEW cs, IsCommands(cs), NEW p \in StateSet, NEW q, Runs(cs, p, q)
  PROVE  /\ FindsItsStates(p, cs) /\ q \in StateSet
         /\ [t \in Targets |-> StateAfter(p, cs, Len(cs), t)] = q
<1> DEFINE size == Len(cs)
<1>1. size \in Nat /\ DOMAIN cs = 1 .. size /\ \A k \in 1 .. size : cs[k] \in CommandSet
  BY IsSeqLen DEF IsCommands
<1>2. PICK st \in [0 .. size -> StateSet] : RunsBy(st, cs, p, q)
  BY DEF Runs
<1>3. /\ st[0] = p /\ st[size] = q
      /\ \A k \in 1 .. size : /\ st[k - 1][cs[k].target] = cs[k].from
                              /\ st[k] = [st[k - 1] EXCEPT ![cs[k].target] = cs[k].to]
  BY <1>2 DEF RunsBy
<1> HIDE DEF size
<1> DEFINE Bad == {n \in 0 .. size : \E t \in Targets : StateAfter(p, cs, n, t) # st[n][t]}
<1>4. Bad = {}
  <2> SUFFICES ASSUME Bad # {}
               PROVE  FALSE
    OBVIOUS
  <2>1. PICK n \in Bad : \A m \in Bad : n <= m
    <3>1. Bad \subseteq Nat
      OBVIOUS
    <3>2. Bad # {}
      OBVIOUS
    <3> HIDE DEF Bad
    <3> QED
      BY <3>1, <3>2, LeastNatural
  <2>2. n \in 0 .. size
    BY <2>1
  <2>3. PICK t \in Targets : StateAfter(p, cs, n, t) # st[n][t]
    BY <2>1
  <2>4. n # 0
    <3>1. StateAfter(p, cs, 0, t) = p[t]
      BY DEF StateAfter
    <3> QED
      BY <1>3, <2>3, <3>1
  <2>5. n - 1 \in 0 .. size /\ n \in 1 .. size /\ n - 1 < n
    BY <1>1, <2>2, <2>4
  <2>6. StateAfter(p, cs, n - 1, t) = st[n - 1][t]
    <3>1. n - 1 \notin Bad
      <4>1. ~(n <= n - 1)
        BY <2>5
      <4> HIDE DEF Bad
      <4> QED
        BY <2>1, <4>1
    <3> QED
      BY <2>5, <3>1
  <2>7. CASE cs[n].target = t
    <3> DEFINE changes == {k \in 1 .. n : cs[k].target = t}
    <3>1. n \in changes /\ \A j \in changes : j <= n
      BY <2>5, <2>7
    <3>2. \A k \in changes : (\A j \in changes : j <= k) => k = n
      BY <3>1, <2>5
    <3>3. StateAfter(p, cs, n, t) = cs[CHOOSE k \in changes : \A j \in changes : j <= k].to
      BY <3>1 DEF StateAfter
    <3> HIDE DEF changes
    <3>4. (CHOOSE k \in changes : \A j \in changes : j <= k) = n
      BY <3>1, <3>2
    <3>5. st[n - 1] \in StateSet
      BY <1>2, <2>5
    <3>6. st[n][t] = cs[n].to
      BY <1>3, <2>5, <2>7, <3>5 DEF StateSet
    <3> QED
      BY <2>3, <3>3, <3>4, <3>6
  <2>8. CASE cs[n].target # t
    <3>1. {k \in 1 .. n : cs[k].target = t} = {k \in 1 .. n - 1 : cs[k].target = t}
      <4>1. \A k \in 1 .. n : k = n \/ k \in 1 .. n - 1
        BY <2>5
      <4>2. \A k \in 1 .. n - 1 : k \in 1 .. n
        BY <2>5
      <4> QED
        BY <2>8, <4>1, <4>2
    <3>2. StateAfter(p, cs, n, t) = StateAfter(p, cs, n - 1, t)
      <4> DEFINE C(i) == {k \in 1 .. i : cs[k].target = t}
      <4> DEFINE After(c) == IF c = {} THEN p[t]
                             ELSE cs[CHOOSE k \in c : \A j \in c : j <= k].to
      <4>1. StateAfter(p, cs, n, t) = After(C(n)) /\ StateAfter(p, cs, n - 1, t) = After(C(n - 1))
        BY DEF StateAfter
      <4>2. C(n) = C(n - 1)
        BY <3>1
      <4> HIDE DEF C, After
      <4> QED
        BY <4>1, <4>2
    <3>3. st[n - 1] \in StateSet
      BY <1>2, <2>5
    <3>4. st[n][t] = st[n - 1][t]
      BY <1>3, <2>5, <2>8, <3>3 DEF StateSet
    <3> QED
      BY <2>3, <2>6, <3>2, <3>4
  <2> QED
    BY <2>7, <2>8
<1>5. \A n \in 0 .. size : \A t \in Targets : StateAfter(p, cs, n, t) = st[n][t]
  BY <1>4
<1>6. FindsItsStates(p, cs)
  <2> SUFFICES ASSUME NEW k \in 1 .. size
               PROVE  StateAfter(p, cs, k - 1, cs[k].target) = cs[k].from
    BY <1>1 DEF FindsItsStates
  <2>1. k - 1 \in 0 .. size /\ cs[k].target \in Targets
    BY <1>1 DEF CommandSet
  <2> QED
    BY <1>3, <1>5, <2>1
<1>7. size \in 0 .. size
  BY <1>1
<1>8. q \in StateSet
  BY <1>2, <1>3, <1>7
<1>9. \A t \in Targets : StateAfter(p, cs, size, t) = q[t]
  BY <1>3, <1>5, <1>7
<1>10. [t \in Targets |-> StateAfter(p, cs, size, t)] = q
  BY <1>8, <1>9 DEF StateSet
<1> QED
  BY <1>6, <1>8, <1>10 DEF size

-----------------------------------------------------------------------------
(* What is in the queue.                                                   *)

IsItem(e) ==
  \/ e.kind = "signal" /\ e.value \in Int
  \/ e.kind = "list" /\ e.allocator \in Frames /\ IsCommands(e.commands) /\ IsSeq(e.copies)
  \/ e.kind = "present" /\ e.buffer \in Frames
IsQueue(q) == IsSeq(q) /\ \A k \in 1 .. Len(q) : IsItem(q[k])

(* The signals of a queue lie between the fence and the next value.        *)
Between(q, from, to) ==
  /\ \A k \in 1 .. Len(q) : q[k].kind = "signal" => from < q[k].value /\ q[k].value < to
  /\ \A j, k \in 1 .. Len(q) : q[j].kind = "signal" /\ q[k].kind = "signal" /\ j < k
                                 => q[j].value < q[k].value

(* Whoever sees the fence reach v knows that item k is finished.           *)
Covered(q, k, v) == \E j \in 1 .. Len(q) : k < j /\ q[j].kind = "signal" /\ q[j].value <= v

NoSignals(s) == \A k \in 1 .. Len(s) : s[k].kind # "signal"
OnlySignals(q) == \A k \in 1 .. Len(q) : q[k].kind = "signal"
AllCovered(q, v) == \A k \in 1 .. Len(q) : q[k].kind # "signal" => Covered(q, k, v)
AllocatorsCovered(q, vals) ==
  \A k \in 1 .. Len(q) : q[k].kind = "list" => Covered(q, k, vals[q[k].allocator])
NotAllocatedBy(q, f) == \A k \in 1 .. Len(q) : q[k].kind = "list" => q[k].allocator # f

(* The copy brings a texture its rows when rows is the upload buffer.      *)
Brings(copy, rows) ==
  [k \in DOMAIN copy.from |->
     IF copy.from[k] \in DOMAIN rows THEN rows[copy.from[k]] ELSE Garbage] = copy.asked
CopyFree(q) == \A k \in 1 .. Len(q) : q[k].kind = "list" => q[k].copies = <<>>
CopiesBring(q, rows) ==
  \A k \in 1 .. Len(q) : q[k].kind = "list" =>
    \A i \in 1 .. Len(q[k].copies) : Brings(q[k].copies[i], rows)
CopiesCovered(q, v) ==
  \A k \in 1 .. Len(q) : q[k].kind = "list" /\ q[k].copies # <<>> => Covered(q, k, v)

(* What is submitted comes behind what is there, and the signal last.      *)
LEMMA Submitted ==
  ASSUME NEW q, IsQueue(q), NEW s, IsQueue(s), NEW v \in Int,
         NEW r, r = q \o s \o <<Signal(v)>>
  PROVE  /\ IsQueue(r)
         /\ Len(q) \in Nat /\ Len(s) \in Nat /\ Len(r) = Len(q) + Len(s) + 1
         /\ \A k \in 1 .. Len(q) : r[k] = q[k]
         /\ \A k \in 1 .. Len(s) : r[Len(q) + k] = s[k]
         /\ r[Len(q) + Len(s) + 1] = Signal(v)
<1> DEFINE m == Len(q)
<1> DEFINE n == Len(s)
<1> DEFINE a == q \o s
<1> DEFINE b == <<Signal(v)>>
<1>1. m \in Nat /\ n \in Nat
  BY IsSeqLen DEF IsQueue
<1>2. /\ IsSeq(a) /\ Len(a) = m + n
      /\ \A k \in 1 .. m : a[k] = q[k]
      /\ \A k \in 1 .. n : a[m + k] = s[k]
  BY ConcatIs DEF IsQueue
<1>3. IsSeq(b) /\ Len(b) = 1 /\ b[1] = Signal(v)
  BY OneIs
<1>0. r = a \o b
  OBVIOUS
<1> HIDE DEF a, b
<1>4. /\ IsSeq(r) /\ Len(r) = Len(a) + Len(b)
      /\ \A k \in 1 .. Len(a) : r[k] = a[k]
      /\ \A k \in 1 .. Len(b) : r[Len(a) + k] = b[k]
  <2>1. IsSeq(a) /\ IsSeq(b)
    BY <1>2, <1>3
  <2>2. /\ IsSeq(a \o b) /\ Len(a \o b) = Len(a) + Len(b)
        /\ \A k \in 1 .. Len(a) : (a \o b)[k] = a[k]
        /\ \A k \in 1 .. Len(b) : (a \o b)[Len(a) + k] = b[k]
    BY <2>1, ConcatIs
  <2> QED
    BY <1>0, <2>2
<1> HIDE DEF m, n
<1>5. Len(r) = m + n + 1 /\ r[m + n + 1] = Signal(v)
  <2>1. 1 \in 1 .. Len(b)
    BY <1>3
  <2>2. r[Len(a) + 1] = b[1] /\ Len(r) = Len(a) + 1 /\ Len(a) + 1 = m + n + 1
    BY <1>2, <1>3, <1>4, <2>1
  <2> QED
    BY <1>3, <2>2
<1>6. \A k \in 1 .. m : r[k] = q[k]
  <2> TAKE k \in 1 .. m
  <2>1. k \in 1 .. m + n
    BY <1>1
  <2> QED
    BY <1>2, <1>4, <2>1
<1>7. \A k \in 1 .. n : r[m + k] = s[k]
  <2> TAKE k \in 1 .. n
  <2>1. m + k \in 1 .. m + n
    BY <1>1
  <2> QED
    BY <1>2, <1>4, <2>1
<1>8. ASSUME NEW k \in 1 .. m + n + 1
      PROVE  IsItem(r[k])
  <2>1. CASE k \in 1 .. m
    BY <1>6, <2>1 DEF IsQueue, m
  <2>2. CASE k = m + n + 1
    BY <1>5, <2>2 DEF IsItem, Signal
  <2>3. CASE k \notin 1 .. m /\ k # m + n + 1
    <3>1. k - m \in 1 .. n /\ m + (k - m) = k
      BY <1>1, <2>3
    <3> QED
      BY <1>7, <3>1 DEF IsQueue, n
  <2> QED
    BY <2>1, <2>2, <2>3
<1>9. IsQueue(r)
  BY <1>4, <1>5, <1>8 DEF IsQueue
<1> QED
  BY <1>1, <1>5, <1>6, <1>7, <1>9 DEF m, n

SubmittingKeeps(q, s, v, r) ==
  /\ \A from, to \in Int : Between(q, from, v) /\ from < v /\ v < to => Between(r, from, to)
  /\ \A w \in Int : v <= w => AllCovered(r, w) /\ CopiesCovered(r, w)
  /\ \A vals : AllocatorsCovered(q, vals)
                /\ (\A k \in 1 .. Len(s) : s[k].kind = "list" => vals[s[k].allocator] = v)
                  => AllocatorsCovered(r, vals)
  /\ OnlySignals(q) /\ Len(s) = 0 => OnlySignals(r)
  /\ CopyFree(q) /\ CopyFree(s) => CopyFree(r)
  /\ \A rows : CopiesBring(q, rows) /\ CopiesBring(s, rows) => CopiesBring(r, rows)

LEMMA SubmittedCovers ==
  ASSUME NEW q, IsQueue(q), NEW s, IsQueue(s), NoSignals(s), NEW v \in Int,
         NEW r, r = q \o s \o <<Signal(v)>>
  PROVE  SubmittingKeeps(q, s, v, r)
<1> DEFINE m == Len(q)
<1> DEFINE n == Len(s)
<1>1. /\ m \in Nat /\ n \in Nat /\ Len(r) = m + n + 1
      /\ \A k \in 1 .. m : r[k] = q[k]
      /\ \A k \in 1 .. n : r[m + k] = s[k]
      /\ r[m + n + 1] = Signal(v)
  BY Submitted
<1> HIDE DEF m, n
<1>2. \A k \in 1 .. m + n + 1 :
        \/ k \in 1 .. m /\ r[k] = q[k]
        \/ k - m \in 1 .. n /\ r[k] = s[k - m]
        \/ k = m + n + 1 /\ r[k].kind = "signal" /\ r[k].value = v
  <2> TAKE k \in 1 .. m + n + 1
  <2>1. CASE k \in 1 .. m
    BY <1>1, <2>1
  <2>2. CASE k = m + n + 1
    BY <1>1, <2>2 DEF Signal
  <2>3. CASE k \notin 1 .. m /\ k # m + n + 1
    <3>1. k - m \in 1 .. n /\ m + (k - m) = k
      BY <1>1, <2>3
    <3> QED
      BY <1>1, <3>1
  <2> QED
    BY <2>1, <2>2, <2>3
<1>3. /\ m + n + 1 \in 1 .. m + n + 1
      /\ r[m + n + 1].kind = "signal" /\ r[m + n + 1].value = v
  BY <1>1 DEF Signal
<1>4. \A w \in Int : v <= w => \A k \in 1 .. m + n : Covered(r, k, w)
  <2> TAKE w \in Int
  <2> HAVE v <= w
  <2> TAKE k \in 1 .. m + n
  <2>1. k < m + n + 1
    BY <1>1
  <2> QED
    BY <1>1, <1>3, <2>1 DEF Covered
<1>5. \A k \in 1 .. m + n + 1 : k \in 1 .. m + n \/ k = m + n + 1
  BY <1>1
<1>6. ASSUME NEW from \in Int, NEW to \in Int, Between(q, from, v), from < v, v < to
      PROVE  Between(r, from, to)
  <2>1. \A k \in 1 .. m : q[k].kind = "signal" => q[k].value \in Int
    BY DEF IsQueue, IsItem, m
  <2>2. \A k \in 1 .. m : q[k].kind = "signal" => from < q[k].value /\ q[k].value < v
    BY <1>6 DEF Between, m
  <2>3. \A k \in 1 .. m + n + 1 :
          r[k].kind = "signal" => \/ k \in 1 .. m /\ q[k].kind = "signal" /\ r[k] = q[k]
                                  \/ k = m + n + 1
    <3>1. \A k \in 1 .. n : s[k].kind # "signal"
      BY DEF NoSignals, n
    <3> QED
      BY <1>2, <3>1
  <2>4. \A k \in 1 .. m + n + 1 : r[k].kind = "signal" => from < r[k].value /\ r[k].value < to
    <3> TAKE k \in 1 .. m + n + 1
    <3> HAVE r[k].kind = "signal"
    <3>1. CASE k \in 1 .. m /\ q[k].kind = "signal" /\ r[k] = q[k]
      <4> DEFINE x == q[k].value
      <4>1. x \in Int /\ from < x /\ x < v
        BY <2>1, <2>2, <3>1
      <4> HIDE DEF x
      <4>2. from < x /\ x < to
        BY <4>1, <1>6
      <4> QED
        BY <3>1, <4>2 DEF x
    <3>2. CASE k = m + n + 1
      BY <1>3, <1>6, <3>2
    <3> QED
      BY <2>3, <3>1, <3>2
  <2>5. ASSUME NEW j \in 1 .. m + n + 1, NEW k \in 1 .. m + n + 1,
               r[j].kind = "signal", r[k].kind = "signal", j < k
        PROVE  r[j].value < r[k].value
    <3>1. j # m + n + 1
      BY <1>1, <2>5
    <3>2. j \in 1 .. m /\ q[j].kind = "signal" /\ r[j] = q[j]
      BY <2>3, <2>5, <3>1
    <3>3. CASE k \in 1 .. m /\ q[k].kind = "signal" /\ r[k] = q[k]
      <4>1. q[j].value < q[k].value
        BY <1>6, <2>5, <3>2, <3>3 DEF Between, m
      <4> QED
        BY <3>2, <3>3, <4>1
    <3>4. CASE k = m + n + 1
      BY <1>3, <2>2, <3>2, <3>4
    <3> QED
      BY <2>3, <2>5, <3>3, <3>4
  <2> QED
    BY <1>1, <2>4, <2>5 DEF Between
<1>7. ASSUME NEW w \in Int, v <= w
      PROVE  AllCovered(r, w) /\ CopiesCovered(r, w)
  <2>1. \A k \in 1 .. m + n + 1 : r[k].kind # "signal" => Covered(r, k, w)
    BY <1>3, <1>4, <1>5, <1>7
  <2> QED
    BY <1>1, <2>1 DEF AllCovered, CopiesCovered
<1>8. ASSUME NEW vals, AllocatorsCovered(q, vals),
             \A k \in 1 .. Len(s) : s[k].kind = "list" => vals[s[k].allocator] = v
      PROVE  AllocatorsCovered(r, vals)
  <2> SUFFICES ASSUME NEW k \in 1 .. m + n + 1, r[k].kind = "list"
               PROVE  Covered(r, k, vals[r[k].allocator])
    BY <1>1 DEF AllocatorsCovered
  <2>1. CASE k \in 1 .. m /\ r[k] = q[k]
    <3> DEFINE x == vals[q[k].allocator]
    <3>1. Covered(q, k, x)
      BY <1>8, <2>1 DEF AllocatorsCovered, m
    <3> HIDE DEF x
    <3>2. PICK j \in 1 .. m : k < j /\ q[j].kind = "signal" /\ q[j].value <= x
      BY <3>1 DEF Covered, m
    <3>3. j \in 1 .. m + n + 1 /\ r[j] = q[j]
      BY <1>1, <3>2
    <3>4. Covered(r, k, x)
      BY <1>1, <3>2, <3>3 DEF Covered
    <3> QED
      BY <2>1, <3>4 DEF x
  <2>2. CASE k - m \in 1 .. n /\ r[k] = s[k - m]
    <3>1. vals[r[k].allocator] = v
      BY <1>8, <2>2 DEF n
    <3>2. k \in 1 .. m + n
      BY <1>1, <2>2
    <3> QED
      BY <1>4, <3>1, <3>2
  <2> QED
    BY <1>2, <2>1, <2>2
<1>9. ASSUME OnlySignals(q), n = 0
      PROVE  OnlySignals(r)
  <2>1. \A k \in 1 .. m + n + 1 : r[k].kind = "signal"
    BY <1>1, <1>2, <1>9 DEF OnlySignals, m
  <2> QED
    BY <1>1, <2>1 DEF OnlySignals
<1>10. ASSUME CopyFree(q), CopyFree(s)
       PROVE  CopyFree(r)
  <2>1. \A k \in 1 .. m + n + 1 : r[k].kind = "list" => r[k].copies = <<>>
    BY <1>2, <1>10 DEF CopyFree, m, n
  <2> QED
    BY <1>1, <2>1 DEF CopyFree
<1>11. ASSUME NEW rows, CopiesBring(q, rows), CopiesBring(s, rows)
       PROVE  CopiesBring(r, rows)
  <2>1. \A k \in 1 .. m + n + 1 :
          r[k].kind = "list" => \A i \in 1 .. Len(r[k].copies) : Brings(r[k].copies[i], rows)
    BY <1>2, <1>11, SMTT(30) DEF CopiesBring, m, n
  <2> QED
    BY <1>1, <2>1 DEF CopiesBring
<1> QED
  BY <1>6, <1>7, <1>8, <1>9, <1>10, <1>11 DEF n, SubmittingKeeps

(* The GPU takes the first item.                                           *)
LEMMA Taken ==
  ASSUME NEW q, IsQueue(q), q # <<>>, NEW r, r = Tail(q)
  PROVE  /\ IsQueue(r) /\ IsItem(Head(q)) /\ Head(q) = q[1] /\ 1 \in 1 .. Len(q)
         /\ \A from, to : Between(q, from, to) =>
              /\ Between(r, from, to)
              /\ Head(q).kind = "signal" =>
                   Between(r, Head(q).value, to) /\ from < Head(q).value /\ Head(q).value < to
         /\ \A vals : AllocatorsCovered(q, vals) => AllocatorsCovered(r, vals)
         /\ \A f : NotAllocatedBy(q, f) => NotAllocatedBy(r, f)
         /\ \A v : AllCovered(q, v) => AllCovered(r, v)
         /\ \A v : CopiesCovered(q, v) => CopiesCovered(r, v)
         /\ OnlySignals(q) => OnlySignals(r)
         /\ CopyFree(q) => CopyFree(r)
         /\ \A rows : CopiesBring(q, rows) => CopiesBring(r, rows)
<1> DEFINE m == Len(q)
<1> DEFINE n == Len(r)
<1>1. /\ IsSeq(r) /\ m \in Nat \ {0} /\ n = m - 1 /\ Head(q) = q[1]
      /\ \A k \in 1 .. m - 1 : r[k] = q[k + 1]
  BY TailIs DEF IsQueue
<1> HIDE DEF m, n
<1>2. \A k \in 1 .. n : k + 1 \in 1 .. m /\ k < k + 1 /\ r[k] = q[k + 1]
  <2> TAKE k \in 1 .. n
  <2>1. k \in 1 .. m - 1 /\ k + 1 \in 1 .. m /\ k < k + 1
    BY <1>1
  <2> QED
    BY <1>1, <2>1
<1>3. 1 \in 1 .. m /\ \A k \in 1 .. n : 1 < k + 1
  BY <1>1
<1>4. \A k \in 1 .. m : IsItem(q[k])
  BY DEF IsQueue, m
<1>5. IsQueue(r) /\ IsItem(q[1])
  <2>1. \A k \in 1 .. n : IsItem(r[k])
    BY <1>2, <1>4
  <2> QED
    BY <1>1, <1>3, <1>4, <2>1 DEF IsQueue, n
<1>6. ASSUME NEW k \in 1 .. n, NEW v, Covered(q, k + 1, v)
      PROVE  Covered(r, k, v)
  <2>1. PICK j \in 1 .. m : k + 1 < j /\ q[j].kind = "signal" /\ q[j].value <= v
    BY <1>6 DEF Covered, m
  <2>2. j - 1 \in 1 .. n /\ k < j - 1 /\ (j - 1) + 1 = j
    BY <1>1, <2>1
  <2>3. r[j - 1] = q[j]
    BY <1>2, <2>2
  <2> QED
    BY <2>1, <2>2, <2>3 DEF Covered, n
<1>7. ASSUME NEW from, NEW to, Between(q, from, to)
      PROVE  /\ Between(r, from, to)
             /\ q[1].kind = "signal" =>
                  Between(r, q[1].value, to) /\ from < q[1].value /\ q[1].value < to
  <2>1. \A k \in 1 .. n : r[k].kind = "signal" => from < r[k].value /\ r[k].value < to
    BY <1>2, <1>7 DEF Between, m
  <2>2. ASSUME NEW j \in 1 .. n, NEW k \in 1 .. n, r[j].kind = "signal", r[k].kind = "signal", j < k
        PROVE  r[j].value < r[k].value
    <3>1. j + 1 < k + 1
      BY <2>2
    <3> QED
      BY <1>2, <1>7, <2>2, <3>1 DEF Between, m
  <2>3. q[1].kind = "signal" => from < q[1].value /\ q[1].value < to
    BY <1>3, <1>7 DEF Between, m
  <2>4. ASSUME NEW k \in 1 .. n, q[1].kind = "signal", r[k].kind = "signal"
        PROVE  q[1].value < r[k].value
    BY <1>2, <1>3, <1>7, <2>4 DEF Between, m
  <2> QED
    BY <2>1, <2>2, <2>3, <2>4 DEF Between, n
<1>8. ASSUME NEW vals, AllocatorsCovered(q, vals)
      PROVE  AllocatorsCovered(r, vals)
  <2>1. \A k \in 1 .. n : r[k].kind = "list" => Covered(q, k + 1, vals[r[k].allocator])
    BY <1>2, <1>8 DEF AllocatorsCovered, m
  <2> QED
    BY <1>6, <2>1 DEF AllocatorsCovered, n
<1>9. ASSUME NEW v, AllCovered(q, v)
      PROVE  AllCovered(r, v)
  <2>1. \A k \in 1 .. n : r[k].kind # "signal" => Covered(q, k + 1, v)
    BY <1>2, <1>9 DEF AllCovered, m
  <2> QED
    BY <1>6, <2>1 DEF AllCovered, n
<1>10. ASSUME NEW v, CopiesCovered(q, v)
       PROVE  CopiesCovered(r, v)
  <2>1. \A k \in 1 .. n : r[k].kind = "list" /\ r[k].copies # <<>> => Covered(q, k + 1, v)
    BY <1>2, <1>10 DEF CopiesCovered, m
  <2> QED
    BY <1>6, <2>1 DEF CopiesCovered, n
<1>11. \A f : NotAllocatedBy(q, f) => NotAllocatedBy(r, f)
  BY <1>2 DEF NotAllocatedBy, m, n
<1>12. OnlySignals(q) => OnlySignals(r)
  BY <1>2 DEF OnlySignals, m, n
<1>13. CopyFree(q) => CopyFree(r)
  BY <1>2 DEF CopyFree, m, n
<1>14. \A rows : CopiesBring(q, rows) => CopiesBring(r, rows)
  BY <1>2 DEF CopiesBring, m, n
<1>15. \A from, to : Between(q, from, to) =>
         /\ Between(r, from, to)
         /\ q[1].kind = "signal" =>
              Between(r, q[1].value, to) /\ from < q[1].value /\ q[1].value < to
  BY <1>7
<1>16. /\ \A vals : AllocatorsCovered(q, vals) => AllocatorsCovered(r, vals)
       /\ \A v : AllCovered(q, v) => AllCovered(r, v)
       /\ \A v : CopiesCovered(q, v) => CopiesCovered(r, v)
  BY <1>8, <1>9, <1>10
<1>17. Head(q) = q[1] /\ 1 \in 1 .. Len(q)
  BY <1>1, <1>3 DEF m
<1> HIDE DEF IsQueue, IsItem, Between, AllocatorsCovered, NotAllocatedBy, AllCovered,
             CopiesCovered, OnlySignals, CopyFree, CopiesBring
<1> QED
  BY <1>5, <1>11, <1>12, <1>13, <1>14, <1>15, <1>16, <1>17

(* When the fence has reached v nothing is left that v covered.            *)
LEMMA Reached ==
  ASSUME NEW q, IsQueue(q), NEW from \in Int, NEW to, Between(q, from, to),
         NEW v \in Int, v <= from
  PROVE  /\ AllCovered(q, v) => OnlySignals(q)
         /\ CopiesCovered(q, v) => CopyFree(q)
         /\ \A vals, f : AllocatorsCovered(q, vals) /\ vals[f] = v => NotAllocatedBy(q, f)
<1>1. ASSUME NEW k \in 1 .. Len(q), Covered(q, k, v)
      PROVE  FALSE
  <2>1. PICK j \in 1 .. Len(q) : q[j].kind = "signal" /\ q[j].value <= v
    BY <1>1 DEF Covered
  <2>2. q[j].value \in Int /\ from < q[j].value
    BY <2>1 DEF IsQueue, IsItem, Between
  <2> QED
    BY <2>1, <2>2
<1> QED
  BY <1>1 DEF AllCovered, OnlySignals, CopiesCovered, CopyFree, AllocatorsCovered, NotAllocatedBy

-----------------------------------------------------------------------------
(* What the queue makes of the states.                                     *)

Step(e, p, q) ==
  /\ e.kind = "list" => Runs(e.commands, p, q)
  /\ e.kind = "present" => p[<<"buffer", e.buffer>>] = "present" /\ q = p
  /\ e.kind = "signal" => q = p

FollowsBy(st, q, p, r) ==
  /\ st[0] = p /\ st[Len(q)] = r
  /\ \A k \in 1 .. Len(q) : Step(q[k], st[k - 1], st[k])
Follows(q, p, r) == \E st \in [0 .. Len(q) -> StateSet] : FollowsBy(st, q, p, r)

LEMMA FollowsNone ==
  ASSUME NEW q, Len(q) = 0, NEW p \in StateSet
  PROVE  Follows(q, p, p)
<1> DEFINE st == [k \in 0 .. Len(q) |-> p]
<1>1. st \in [0 .. Len(q) -> StateSet] /\ FollowsBy(st, q, p, p)
  BY DEF FollowsBy
<1> QED
  BY <1>1 DEF Follows

LEMMA FollowsOne ==
  ASSUME NEW e, NEW p \in StateSet, NEW r \in StateSet, Step(e, p, r)
  PROVE  IsSeq(<<e>>) /\ Follows(<<e>>, p, r)
<1> DEFINE q == <<e>>
<1>1. IsSeq(q) /\ Len(q) = 1 /\ q[1] = e
  BY OneIs
<1> HIDE DEF q
<1> DEFINE st == [k \in 0 .. 1 |-> IF k = 0 THEN p ELSE r]
<1>2. st \in [0 .. 1 -> StateSet] /\ st[0] = p /\ st[1] = r
  OBVIOUS
<1> HIDE DEF st
<1>3. FollowsBy(st, q, p, r)
  <2>1. \A k \in 1 .. 1 : Step(q[k], st[k - 1], st[k])
    <3> TAKE k \in 1 .. 1
    <3>1. k = 1 /\ k - 1 = 0
      OBVIOUS
    <3> QED
      BY <1>1, <1>2, <3>1
  <2> QED
    BY <1>1, <1>2, <2>1 DEF FollowsBy
<1>4. Follows(q, p, r)
  BY <1>1, <1>2, <1>3 DEF Follows
<1> QED
  BY <1>1, <1>4 DEF q

LEMMA FollowsConcat ==
  ASSUME NEW a, NEW b, IsSeq(a), IsSeq(b), NEW p, NEW q, NEW r, Follows(a, p, q), Follows(b, q, r)
  PROVE  IsSeq(a \o b) /\ Follows(a \o b, p, r)
<1> DEFINE m == Len(a)
<1> DEFINE n == Len(b)
<1> DEFINE cs == a \o b
<1>1. m \in Nat /\ n \in Nat
  BY IsSeqLen
<1>2. /\ IsSeq(cs) /\ Len(cs) = m + n
      /\ \A k \in 1 .. m : cs[k] = a[k]
      /\ \A k \in 1 .. n : cs[m + k] = b[k]
  BY ConcatIs
<1> HIDE DEF cs
<1>3. \A k \in m + 1 .. m + n : k - m \in 1 .. n /\ cs[k] = b[k - m]
  <2> TAKE k \in m + 1 .. m + n
  <2>1. k - m \in 1 .. n /\ m + (k - m) = k
    BY <1>1
  <2> QED
    BY <1>2, <2>1
<1>4. \A k \in 1 .. m + n : k \in 1 .. m \/ k \in m + 1 .. m + n
  BY <1>1
<1>5. PICK s \in [0 .. m -> StateSet] : FollowsBy(s, a, p, q)
  BY DEF Follows
<1>6. PICK t \in [0 .. n -> StateSet] : FollowsBy(t, b, q, r)
  BY DEF Follows
<1> DEFINE st == [k \in 0 .. m + n |-> IF k <= m THEN s[k] ELSE t[k - m]]
<1>7. st \in [0 .. m + n -> StateSet]
  <2>1. \A k \in 0 .. m + n : ~(k <= m) => k - m \in 0 .. n
    BY <1>1
  <2>2. \A k \in 0 .. m + n : k <= m => k \in 0 .. m
    BY <1>1
  <2> QED
    BY <2>1, <2>2
<1>8. \A k \in m .. m + n : st[k] = t[k - m]
  <2> TAKE k \in m .. m + n
  <2>1. CASE k = m
    <3>1. st[k] = s[m] /\ k - m = 0
      BY <1>1, <2>1
    <3> QED
      BY <1>5, <1>6, <3>1 DEF FollowsBy
  <2>2. CASE k # m
    BY <1>1, <2>2
  <2> QED
    BY <2>1, <2>2
<1>9. \A k \in 0 .. m : st[k] = s[k]
  BY <1>1
<1> HIDE DEF st
<1>10. st[0] = p /\ st[m + n] = r
  <2>1. 0 \in 0 .. m /\ m + n \in m .. m + n /\ (m + n) - m = n
    BY <1>1
  <2>2. st[0] = s[0] /\ st[m + n] = t[n]
    BY <1>8, <1>9, <2>1
  <2> QED
    BY <1>5, <1>6, <2>2 DEF FollowsBy
<1>11. ASSUME NEW k \in 1 .. m + n
       PROVE  Step(cs[k], st[k - 1], st[k])
  <2>1. CASE k \in 1 .. m
    <3>1. k - 1 \in 0 .. m /\ k \in 0 .. m
      BY <1>1, <2>1
    <3> QED
      BY <1>2, <1>5, <1>9, <2>1, <3>1 DEF FollowsBy
  <2>2. CASE k \in m + 1 .. m + n
    <3>1. k - 1 \in m .. m + n /\ k \in m .. m + n /\ (k - 1) - m = (k - m) - 1
      BY <1>1, <2>2
    <3>2. st[k] = t[k - m] /\ st[k - 1] = t[(k - m) - 1] /\ cs[k] = b[k - m] /\ k - m \in 1 .. n
      BY <1>3, <1>8, <2>2, <3>1
    <3> QED
      BY <1>6, <3>2 DEF FollowsBy
  <2> QED
    BY <1>4, <2>1, <2>2
<1>12. FollowsBy(st, cs, p, r)
  BY <1>2, <1>10, <1>11 DEF FollowsBy
<1> QED
  BY <1>2, <1>7, <1>12 DEF Follows, cs

LEMMA FollowsTail ==
  ASSUME NEW q, IsSeq(q), q # <<>>, NEW p, NEW r, Follows(q, p, r)
  PROVE  \E s \in StateSet : Step(Head(q), p, s) /\ Follows(Tail(q), s, r)
<1> DEFINE m == Len(q)
<1> DEFINE t == Tail(q)
<1>1. /\ m \in Nat \ {0} /\ Len(t) = m - 1 /\ Head(q) = q[1]
      /\ \A k \in 1 .. m - 1 : t[k] = q[k + 1]
  BY TailIs
<1>2. PICK st \in [0 .. m -> StateSet] : FollowsBy(st, q, p, r)
  BY DEF Follows
<1> HIDE DEF t
<1>3. /\ st[0] = p /\ st[m] = r
      /\ \A k \in 1 .. m : Step(q[k], st[k - 1], st[k])
  BY <1>2 DEF FollowsBy
<1> HIDE DEF m
<1> DEFINE su == [k \in 0 .. m - 1 |-> st[k + 1]]
<1>4. su \in [0 .. m - 1 -> StateSet]
  <2>1. \A k \in 0 .. m - 1 : k + 1 \in 0 .. m
    BY <1>1
  <2> QED
    BY <2>1
<1>5. su[0] = st[1] /\ su[m - 1] = r
  <2>1. 0 \in 0 .. m - 1 /\ m - 1 \in 0 .. m - 1 /\ (m - 1) + 1 = m /\ 0 + 1 = 1
    BY <1>1
  <2> QED
    BY <1>3, <2>1
<1>6. ASSUME NEW k \in 1 .. m - 1
      PROVE  Step(t[k], su[k - 1], su[k])
  <2>1. k + 1 \in 1 .. m /\ k - 1 \in 0 .. m - 1 /\ k \in 0 .. m - 1 /\ (k - 1) + 1 = k /\ (k + 1) - 1 = k
    BY <1>1
  <2>2. Step(q[k + 1], st[k], st[k + 1])
    BY <1>3, <2>1
  <2>3. su[k - 1] = st[k] /\ su[k] = st[k + 1] /\ t[k] = q[k + 1]
    BY <1>1, <2>1
  <2> HIDE DEF su
  <2> QED
    BY <2>2, <2>3
<1> HIDE DEF su
<1>7. FollowsBy(su, t, st[1], r)
  BY <1>1, <1>5, <1>6 DEF FollowsBy
<1>8. Follows(t, st[1], r)
  BY <1>1, <1>4, <1>7 DEF Follows
<1>9. 1 \in 0 .. m /\ 1 \in 1 .. m /\ 1 - 1 = 0
  BY <1>1
<1>10. st[1] \in StateSet /\ Step(q[1], p, st[1])
  BY <1>2, <1>3, <1>9
<1> QED
  BY <1>1, <1>8, <1>10 DEF t

LEMMA FollowsSignals ==
  ASSUME NEW q, IsSeq(q), OnlySignals(q), NEW p, NEW r, Follows(q, p, r)
  PROVE  r = p
<1> DEFINE m == Len(q)
<1>1. m \in Nat
  BY IsSeqLen
<1>2. PICK st \in [0 .. m -> StateSet] : FollowsBy(st, q, p, r)
  BY DEF Follows
<1>3. st[0] = p /\ st[m] = r /\ \A k \in 1 .. m : st[k] = st[k - 1]
  BY <1>2 DEF FollowsBy, OnlySignals, Step
<1> HIDE DEF m
<1> DEFINE Bad == {k \in 0 .. m : st[k] # p}
<1>4. Bad = {}
  <2> SUFFICES ASSUME Bad # {}
               PROVE  FALSE
    OBVIOUS
  <2>1. Bad \subseteq Nat
    OBVIOUS
  <2>2. \A k \in Bad : k \in 1 .. m /\ k - 1 \in Bad
    <3> TAKE k \in Bad
    <3>1. k \in 0 .. m /\ st[k] # p /\ k # 0
      BY <1>3
    <3>2. k \in 1 .. m /\ k - 1 \in 0 .. m
      BY <1>1, <3>1
    <3> QED
      BY <1>3, <3>1, <3>2
  <2> HIDE DEF Bad
  <2>3. PICK n \in Bad : \A k \in Bad : n <= k
    BY <2>1, LeastNatural
  <2> QED
    BY <2>1, <2>2, <2>3
<1>5. m \in 0 .. m
  BY <1>1
<1> QED
  BY <1>3, <1>4, <1>5

-----------------------------------------------------------------------------
(* The commands of a render pass.                                          *)

DescSet == [target : Targets, during : States, after : States]
IsPass(ds) ==
  /\ IsSeq(ds) /\ \A k \in 1 .. Len(ds) : ds[k] \in DescSet
  /\ \A j, k \in 1 .. Len(ds) : ds[j].target = ds[k].target => j = k

LEMMA BarriersRun ==
  ASSUME NEW ds, IsPass(ds), NEW p \in StateSet, NEW when \in {"during", "after"}
  PROVE  /\ IsCommands(Barriers(ds, p, when)) /\ Tracked(ds, p, when) \in StateSet
         /\ Runs(Barriers(ds, p, when), p, Tracked(ds, p, when))
         /\ \A k \in 1 .. Len(ds) : Tracked(ds, p, when)[ds[k].target] = ds[k][when]
         /\ \A t \in Targets : (\A k \in 1 .. Len(ds) : ds[k].target # t)
                                 => Tracked(ds, p, when)[t] = p[t]
<1> DEFINE n == Len(ds)
<1> DEFINE to == Tracked(ds, p, when)
<1>1. /\ n \in Nat /\ DOMAIN ds = 1 .. n /\ \A k \in 1 .. n : ds[k] \in DescSet
      /\ \A j, k \in 1 .. n : ds[j].target = ds[k].target => j = k
  BY IsSeqLen DEF IsPass
<1> HIDE DEF n
<1>2. \A k \in 1 .. n : ds[k].target \in Targets /\ ds[k][when] \in States
  BY <1>1 DEF DescSet
<1>3. \A k \in 1 .. n : (CHOOSE j \in DOMAIN ds : ds[j].target = ds[k].target) = k
  BY <1>1
<1>4. \A t \in Targets : to[t] = IF \E k \in DOMAIN ds : ds[k].target = t
                                 THEN ds[CHOOSE k \in DOMAIN ds : ds[k].target = t][when] ELSE p[t]
  BY DEF Tracked
<1>5. \A k \in 1 .. n : to[ds[k].target] = ds[k][when]
  <2> TAKE k \in 1 .. n
  <2>1. \E j \in DOMAIN ds : ds[j].target = ds[k].target
    BY <1>1
  <2> QED
    BY <1>2, <1>3, <1>4, <2>1
<1>6. \A t \in Targets : (\A k \in 1 .. n : ds[k].target # t) => to[t] = p[t]
  BY <1>1, <1>4
<1>7. DOMAIN to = Targets /\ to = [t \in Targets |-> to[t]]
  BY DEF Tracked
<1> HIDE DEF to
<1>8. to \in StateSet
  <2>1. \A t \in Targets : to[t] \in States
    <3> TAKE t \in Targets
    <3>1. CASE \E k \in 1 .. n : ds[k].target = t
      BY <1>2, <1>5, <3>1
    <3>2. CASE ~\E k \in 1 .. n : ds[k].target = t
      BY <1>6, <3>2 DEF StateSet
    <3> QED
      BY <3>1, <3>2
  <2> QED
    BY <1>7, <2>1 DEF StateSet
<1> DEFINE cs == Barriers(ds, p, when)
<1>9. /\ DOMAIN cs = 1 .. n /\ cs = [k \in 1 .. n |-> cs[k]]
      /\ \A k \in 1 .. n : cs[k] = Command(ds[k].target, p[ds[k].target], ds[k][when])
  BY <1>1 DEF Barriers
<1> HIDE DEF cs
<1>10. IsSeq(cs) /\ Len(cs) = n
  BY <1>1, <1>9, FunctionIs
<1>11. \A k \in 1 .. n : /\ cs[k] \in CommandSet /\ cs[k].target = ds[k].target
                         /\ cs[k].from = p[ds[k].target] /\ cs[k].to = ds[k][when]
  <2> TAKE k \in 1 .. n
  <2>1. p[ds[k].target] \in States
    BY <1>2 DEF StateSet
  <2> QED
    BY <1>2, <1>9, <2>1 DEF Command, CommandSet
<1>12. IsCommands(cs)
  BY <1>10, <1>11 DEF IsCommands
<1> DEFINE st == [k \in 0 .. n |->
                    [t \in Targets |-> IF \E j \in 1 .. k : ds[j].target = t THEN to[t] ELSE p[t]]]
<1>13. st \in [0 .. n -> StateSet]
  <2>1. \A k \in 0 .. n : [t \in Targets |-> IF \E j \in 1 .. k : ds[j].target = t
                                             THEN to[t] ELSE p[t]] \in StateSet
    BY <1>8 DEF StateSet
  <2> QED
    BY <2>1
<1>14. \A k \in 0 .. n : \A t \in Targets :
         st[k][t] = IF \E j \in 1 .. k : ds[j].target = t THEN to[t] ELSE p[t]
  OBVIOUS
<1> HIDE DEF st
<1>15. \A k \in 0 .. n : st[k] \in [Targets -> States]
  BY <1>13 DEF StateSet
<1>16. st[0] = p
  <2>1. 0 \in 0 .. n /\ 1 .. 0 = {}
    BY <1>1
  <2>2. \A t \in Targets : st[0][t] = p[t]
    BY <1>14, <2>1
  <2> QED
    BY <1>15, <2>1, <2>2 DEF StateSet
<1>17. st[n] = to
  <2>1. n \in 0 .. n
    BY <1>1
  <2>2. \A t \in Targets : st[n][t] = to[t]
    BY <1>6, <1>14, <2>1
  <2> QED
    BY <1>8, <1>15, <2>1, <2>2 DEF StateSet
<1>18. ASSUME NEW k \in 1 .. n
       PROVE  /\ st[k - 1][cs[k].target] = cs[k].from
              /\ st[k] = [st[k - 1] EXCEPT ![cs[k].target] = cs[k].to]
  <2>1. k \in 0 .. n /\ k - 1 \in 0 .. n /\ k \notin 1 .. k - 1 /\ k \in 1 .. k
        /\ \A j \in 1 .. k - 1 : j \in 1 .. k /\ j \in 1 .. n
    BY <1>1
  <2>2. \A j \in 1 .. k : j = k \/ j \in 1 .. k - 1
    BY <1>1
  <2> DEFINE x == ds[k].target
  <2>3. x \in Targets /\ cs[k].target = x /\ cs[k].from = p[x] /\ cs[k].to = to[x]
    BY <1>2, <1>5, <1>11
  <2>4. ~\E j \in 1 .. k - 1 : ds[j].target = x
    BY <1>1, <2>1
  <2>5. st[k - 1][x] = p[x]
    BY <1>14, <2>1, <2>3, <2>4
  <2>6. \A t \in Targets : t # x => st[k][t] = st[k - 1][t]
    <3> TAKE t \in Targets
    <3> HAVE t # x
    <3>1. (\E j \in 1 .. k : ds[j].target = t) <=> (\E j \in 1 .. k - 1 : ds[j].target = t)
      BY <2>1, <2>2
    <3> QED
      BY <1>14, <2>1, <3>1
  <2>7. st[k][x] = to[x]
    BY <1>14, <2>1, <2>3
  <2> HIDE DEF x
  <2>8. st[k] = [st[k - 1] EXCEPT ![x] = to[x]]
    BY <1>15, <2>1, <2>3, <2>6, <2>7
  <2> QED
    BY <2>3, <2>5, <2>8
<1>19. RunsBy(st, cs, p, to)
  BY <1>10, <1>16, <1>17, <1>18 DEF RunsBy
<1>20. Runs(cs, p, to)
  BY <1>10, <1>13, <1>19 DEF Runs
<1> QED
  BY <1>5, <1>6, <1>8, <1>12, <1>20 DEF to, cs, n

(* Draw calls find their targets in a state and leave them in it.          *)
LEMMA StillRuns ==
  ASSUME NEW cs, IsCommands(cs), NEW p \in StateSet,
         \A k \in 1 .. Len(cs) : cs[k].from = p[cs[k].target] /\ cs[k].to = p[cs[k].target]
  PROVE  Runs(cs, p, p)
<1> DEFINE st == [k \in 0 .. Len(cs) |-> p]
<1>1. Len(cs) \in Nat /\ \A k \in 1 .. Len(cs) : cs[k].target \in Targets
  BY IsSeqLen DEF IsCommands, CommandSet
<1>2. st \in [0 .. Len(cs) -> StateSet]
  OBVIOUS
<1>3. ASSUME NEW k \in 1 .. Len(cs)
      PROVE  /\ st[k - 1][cs[k].target] = cs[k].from
             /\ st[k] = [st[k - 1] EXCEPT ![cs[k].target] = cs[k].to]
  <2>1. st[k - 1] = p /\ st[k] = p
    BY <1>1
  <2>2. [p EXCEPT ![cs[k].target] = p[cs[k].target]] = p
    BY <1>1 DEF StateSet
  <2> QED
    BY <2>1, <2>2
<1>4. st[0] = p /\ st[Len(cs)] = p
  BY <1>1
<1>5. RunsBy(st, cs, p, p)
  BY <1>3, <1>4 DEF RunsBy
<1> QED
  BY <1>2, <1>5 DEF Runs

ShadowMap == <<"depth", "shadow">>
FinalDepth == <<"depth", "final">>
OwnBuffer == <<"buffer", frameNo>>

LEMMA TargetsAre ==
  ASSUME frameNo \in Frames
  PROVE  /\ ShadowMap \in Targets /\ FinalDepth \in Targets /\ OwnBuffer \in Targets
         /\ OwnBuffer \in Buffers /\ ShadowMap \notin Buffers /\ FinalDepth \notin Buffers
         /\ ShadowMap # FinalDepth /\ ShadowMap # OwnBuffer /\ FinalDepth # OwnBuffer
         /\ ShadowMap # Swapchain /\ FinalDepth # Swapchain /\ OwnBuffer # Swapchain
<1>1. FrameCount \in Nat /\ frameNo # FrameCount
  BY D3d12Assumption DEF Frames
<1>2. ShadowMap \in DepthStencils /\ FinalDepth \in DepthStencils /\ OwnBuffer \in Buffers
  BY DEF ShadowMap, FinalDepth, OwnBuffer, DepthStencils, Buffers
<1>3. \A f : <<"buffer", f>> # ShadowMap /\ <<"buffer", f>> # FinalDepth
  BY DEF ShadowMap, FinalDepth
<1>4. ShadowMap # FinalDepth
  BY DEF ShadowMap, FinalDepth
<1>5. OwnBuffer # Swapchain
  BY <1>1 DEF OwnBuffer, Swapchain
<1> QED
  BY <1>2, <1>3, <1>4, <1>5 DEF Targets, Buffers, OwnBuffer, Swapchain

Passes == {"shadow", "final", "cube", "pbr"}

(* The descriptions of each pass, with the buffer of the frame filled in.  *)
LEMMA PassIs ==
  ASSUME frameNo \in Frames, NEW pass \in Passes, NEW ds, ds = Patched(RenderPass[pass])
  PROVE  /\ IsPass(ds)
         /\ pass = "shadow" => /\ Len(ds) = 1
                               /\ ds[1].target = ShadowMap /\ ds[1].after = "sampled"
         /\ pass = "final" => /\ Len(ds) = 2
                              /\ ds[1].target = FinalDepth /\ ds[2].target = OwnBuffer
                              /\ ds[2].after = "present"
         /\ pass = "cube" => Len(ds) = 1 /\ ds[1].target = OwnBuffer
         /\ pass = "pbr" => /\ Len(ds) = 1
                            /\ ds[1].target = OwnBuffer /\ ds[1].after = "present"
<1> DEFINE rp == RenderPass[pass]
<1>1. {"present", "render_target", "depth_write", "sampled"} = States
  BY DEF States
<1>2. CASE pass = "shadow"
  <2> DEFINE d == Desc(ShadowMap, "depth_write", "sampled")
  <2>1. RenderPass[pass] = <<d>>
    BY <1>2 DEF RenderPass, CreateRenderPass, ShadowMap
  <2>2. d.target = ShadowMap /\ d.during = "depth_write" /\ d.after = "sampled"
    BY DEF Desc
  <2>3. d \in DescSet
    BY <1>1, TargetsAre DEF Desc, DescSet
  <2> HIDE DEF d
  <2>4. IsSeq(<<d>>) /\ Len(<<d>>) = 1 /\ <<d>>[1] = d
    BY OneIs
  <2>5. DOMAIN <<d>> = 1 .. 1
    BY <2>4, IsSeqLen
  <2>6. DOMAIN ds = 1 .. 1 /\ ds = [k \in 1 .. 1 |-> ds[k]] /\ ds[1] = d
    BY <2>1, <2>2, <2>4, <2>5, TargetsAre DEF Patched
  <2>7. IsSeq(ds) /\ Len(ds) = 1
    BY <2>6, FunctionIs
  <2>8. IsPass(ds)
    BY <2>3, <2>6, <2>7 DEF IsPass
  <2> QED
    BY <1>2, <2>2, <2>6, <2>7, <2>8
<1>3. CASE pass \in {"cube", "pbr"}
  <2> DEFINE after == IF pass = "cube" THEN "render_target" ELSE "present"
  <2> DEFINE d == Desc(Swapchain, "render_target", after)
  <2> DEFINE e == [d EXCEPT !.target = OwnBuffer]
  <2>1. RenderPass[pass] = Append(<<>>, d)
    BY <1>3 DEF RenderPass, CreateRenderPass
  <2>2. Append(<<>>, d) = <<d>>
    OBVIOUS
  <2>3. d.target = Swapchain /\ e.target = OwnBuffer /\ e.after = after
    BY DEF Desc
  <2>4. e \in DescSet
    BY <1>1, TargetsAre DEF Desc, DescSet
  <2> HIDE DEF d, e
  <2>5. IsSeq(<<d>>) /\ Len(<<d>>) = 1 /\ <<d>>[1] = d
    BY OneIs
  <2>6. DOMAIN <<d>> = 1 .. 1
    BY <2>5, IsSeqLen
  <2>7. DOMAIN ds = 1 .. 1 /\ ds = [k \in 1 .. 1 |-> ds[k]] /\ ds[1] = e
    BY <2>1, <2>2, <2>3, <2>5, <2>6 DEF Patched, e, OwnBuffer
  <2>8. IsSeq(ds) /\ Len(ds) = 1
    BY <2>7, FunctionIs
  <2>9. IsPass(ds)
    BY <2>4, <2>7, <2>8 DEF IsPass
  <2> QED
    BY <1>3, <2>3, <2>7, <2>8, <2>9
<1>4. CASE pass = "final"
  <2> DEFINE c == Desc(FinalDepth, "depth_write", "depth_write")
  <2> DEFINE d == Desc(Swapchain, "render_target", "present")
  <2> DEFINE e == [d EXCEPT !.target = OwnBuffer]
  <2> DEFINE two == <<c, d>>
  <2>1. RenderPass[pass] = Append(<<c>>, d)
    BY <1>4 DEF RenderPass, CreateRenderPass, FinalDepth
  <2>2. Append(<<c>>, d) = two
    <3> HIDE DEF c, d
    <3>1. <<c>> \in Seq({c, d}) /\ Len(<<c>>) = 1 /\ <<c>>[1] = c
      OBVIOUS
    <3>2. /\ Append(<<c>>, d) \in Seq({c, d}) /\ Len(Append(<<c>>, d)) = 2
          /\ Append(<<c>>, d)[1] = c /\ Append(<<c>>, d)[2] = d
      BY <3>1, AppendProperties
    <3>3. two \in Seq({c, d}) /\ Len(two) = 2 /\ two[1] = c /\ two[2] = d
      OBVIOUS
    <3>4. \A i \in 1 .. 2 : i = 1 \/ i = 2
      OBVIOUS
    <3> HIDE DEF two
    <3> QED
      BY <3>2, <3>3, <3>4, SeqEqual
  <2>3. c.target = FinalDepth /\ d.target = Swapchain /\ e.target = OwnBuffer /\ e.after = "present"
    BY DEF Desc
  <2>4. c \in DescSet /\ e \in DescSet
    BY <1>1, TargetsAre DEF Desc, DescSet
  <2> HIDE DEF c, d, e
  <2>5. two \in Seq({c, d}) /\ two[1] = c /\ two[2] = d /\ Len(two) = 2
    OBVIOUS
  <2>6. DOMAIN two = 1 .. 2
    BY <2>5, SeqIs
  <2> HIDE DEF two
  <2>7. DOMAIN ds = 1 .. 2 /\ ds = [k \in 1 .. 2 |-> ds[k]]
    BY <2>1, <2>2, <2>6 DEF Patched
  <2>8. ds[1] = c /\ ds[2] = e
    BY <2>1, <2>2, <2>3, <2>5, <2>6, TargetsAre DEF Patched, e, OwnBuffer
  <2>9. IsSeq(ds) /\ Len(ds) = 2
    BY <2>7, FunctionIs
  <2>10. \A k \in 1 .. 2 : k = 1 \/ k = 2
    OBVIOUS
  <2>11. IsPass(ds)
    BY <2>3, <2>4, <2>8, <2>9, <2>10, TargetsAre DEF IsPass
  <2> QED
    BY <1>4, <2>3, <2>8, <2>9, <2>11
<1> QED
  BY <1>2, <1>3, <1>4 DEF Passes

Draws(ds) == [k \in DOMAIN ds |-> Command(ds[k].target, ds[k].during, ds[k].during)]
Sampled(pass) == [k \in 1 .. IF Samples(pass) = {} THEN 0 ELSE 1 |->
                    Command(<<"depth", "shadow">>, "sampled", "sampled")]

(* The commands of a pass run from the states the program tracks, and      *)
(* leave those it tracks next.                                             *)
LEMMA PassRuns ==
  ASSUME frameNo \in Frames, NEW pass \in Passes, NEW ds, ds = Patched(RenderPass[pass]),
         NEW p \in StateSet, pass = "final" => p[ShadowMap] = "sampled",
         NEW during, during = Tracked(ds, p, "during"),
         NEW after, after = Tracked(ds, during, "after")
  PROVE  /\ IsCommands(Barriers(ds, p, "during")) /\ Runs(Barriers(ds, p, "during"), p, during)
         /\ IsCommands(Draws(ds)) /\ Runs(Draws(ds), during, during)
         /\ IsCommands(Sampled(pass)) /\ Runs(Sampled(pass), during, during)
         /\ IsCommands(Barriers(ds, during, "after"))
         /\ Runs(Barriers(ds, during, "after"), during, after)
         /\ after \in StateSet
         /\ pass = "shadow" => after[ShadowMap] = "sampled" /\ \A b \in Buffers : after[b] = p[b]
         /\ pass # "shadow" => /\ after[ShadowMap] = p[ShadowMap]
                               /\ \A b \in Buffers : b # OwnBuffer => after[b] = p[b]
         /\ pass \in {"final", "pbr"} => after[OwnBuffer] = "present"
<1> DEFINE n == Len(ds)
<1>1. IsPass(ds)
  BY PassIs
<1>2. /\ n \in Nat /\ DOMAIN ds = 1 .. n /\ \A k \in 1 .. n : ds[k] \in DescSet
  BY <1>1, IsSeqLen DEF IsPass
<1>3. /\ IsCommands(Barriers(ds, p, "during")) /\ during \in StateSet
      /\ Runs(Barriers(ds, p, "during"), p, during)
      /\ \A k \in 1 .. n : during[ds[k].target] = ds[k].during
      /\ \A t \in Targets : (\A k \in 1 .. n : ds[k].target # t) => during[t] = p[t]
  BY <1>1, BarriersRun
<1>4. /\ IsCommands(Barriers(ds, during, "after")) /\ after \in StateSet
      /\ Runs(Barriers(ds, during, "after"), during, after)
      /\ \A k \in 1 .. n : after[ds[k].target] = ds[k].after
      /\ \A t \in Targets : (\A k \in 1 .. n : ds[k].target # t) => after[t] = during[t]
  BY <1>1, <1>3, BarriersRun
<1>5. \A t \in Targets : (\A k \in 1 .. n : ds[k].target # t) => after[t] = p[t] /\ during[t] = p[t]
  BY <1>3, <1>4
<1>6. IsCommands(Draws(ds)) /\ Runs(Draws(ds), during, during)
  <2> DEFINE cs == Draws(ds)
  <2>1. /\ DOMAIN cs = 1 .. n /\ cs = [k \in 1 .. n |-> cs[k]]
        /\ \A k \in 1 .. n : cs[k] = Command(ds[k].target, ds[k].during, ds[k].during)
    BY <1>2 DEF Draws
  <2> HIDE DEF cs, n
  <2>2. IsSeq(cs) /\ Len(cs) = n
    BY <1>2, <2>1, FunctionIs
  <2>3. \A k \in 1 .. n : /\ cs[k] \in CommandSet /\ cs[k].target = ds[k].target
                          /\ cs[k].from = ds[k].during /\ cs[k].to = ds[k].during
    BY <1>2, <2>1 DEF DescSet, Command, CommandSet
  <2>4. IsCommands(cs)
    BY <2>2, <2>3 DEF IsCommands
  <2>5. Runs(cs, during, during)
    BY <1>3, <2>2, <2>3, <2>4, StillRuns
  <2> QED
    BY <2>4, <2>5 DEF cs
<1>7. Samples(pass) # {} => pass = "final"
  BY DEF Samples
<1>8. pass # "shadow" => \A k \in 1 .. n : ds[k].target # ShadowMap
  BY PassIs, TargetsAre DEF Passes
<1>9. pass # "shadow" => after[ShadowMap] = p[ShadowMap] /\ during[ShadowMap] = p[ShadowMap]
  BY <1>5, <1>8, TargetsAre
<1>10. IsCommands(Sampled(pass)) /\ Runs(Sampled(pass), during, during)
  <2> DEFINE cs == Sampled(pass)
  <2> DEFINE m == IF Samples(pass) = {} THEN 0 ELSE 1
  <2> DEFINE c == Command(ShadowMap, "sampled", "sampled")
  <2>1. /\ DOMAIN cs = 1 .. m /\ cs = [k \in 1 .. m |-> cs[k]] /\ m \in Nat
        /\ \A k \in 1 .. m : cs[k] = c
    BY DEF Sampled, ShadowMap
  <2>2. m # 0 => pass = "final"
    BY <1>7
  <2>3. \A k \in 1 .. m : m # 0
    OBVIOUS
  <2>4. c \in CommandSet /\ c.target = ShadowMap /\ c.from = "sampled" /\ c.to = "sampled"
    BY TargetsAre DEF Command, CommandSet, States
  <2> HIDE DEF cs, m, c
  <2>5. IsSeq(cs) /\ Len(cs) = m
    BY <2>1, FunctionIs
  <2>6. IsCommands(cs)
    BY <2>1, <2>4, <2>5 DEF IsCommands
  <2>7. \A k \in 1 .. m : cs[k].from = during[cs[k].target] /\ cs[k].to = during[cs[k].target]
    <3> TAKE k \in 1 .. m
    <3>1. during[ShadowMap] = "sampled"
      BY <1>9, <2>2, <2>3
    <3> QED
      BY <2>1, <2>4, <3>1
  <2>8. Runs(cs, during, during)
    BY <1>3, <2>5, <2>6, <2>7, StillRuns
  <2> QED
    BY <2>6, <2>8 DEF cs
<1>11. pass = "shadow" => after[ShadowMap] = "sampled" /\ \A b \in Buffers : after[b] = p[b]
  <2> HAVE pass = "shadow"
  <2>1. n = 1 /\ ds[1].target = ShadowMap /\ ds[1].after = "sampled"
    BY PassIs
  <2>2. 1 .. n = {1}
    <3> HIDE DEF n
    <3> QED
      BY <2>1
  <2>3. 1 \in 1 .. n
    BY <2>2
  <2>4. \A b \in Buffers : b \in Targets /\ \A k \in 1 .. n : ds[k].target # b
    BY <2>1, <2>2, TargetsAre DEF Targets
  <2> QED
    BY <1>4, <1>5, <2>1, <2>3, <2>4
<1>12. pass # "shadow" => \A b \in Buffers : b # OwnBuffer => after[b] = p[b]
  <2> HAVE pass # "shadow"
  <2>1. \A k \in 1 .. n : ds[k].target \in {FinalDepth, OwnBuffer}
    BY PassIs DEF Passes
  <2>2. \A b \in Buffers : b \in Targets /\ b # FinalDepth
    BY TargetsAre DEF Targets
  <2> QED
    BY <1>5, <2>1, <2>2
<1>13. pass \in {"final", "pbr"} => after[OwnBuffer] = "present"
  <2> HAVE pass \in {"final", "pbr"}
  <2>1. n \in 1 .. n /\ ds[n].target = OwnBuffer /\ ds[n].after = "present"
    BY PassIs
  <2> QED
    BY <1>4, <2>1
<1> QED
  BY <1>3, <1>4, <1>6, <1>9, <1>10, <1>11, <1>12, <1>13

-----------------------------------------------------------------------------
(* The inductive invariant.                                                *)

PcSet == {"frame", "record", "wait", "resize"}
FailureSets == SUBSET {"Present", "ResizeBuffers"}

Types ==
  /\ pc \in PcSet /\ frameNo \in Frames /\ backBuffer \in Frames
  /\ fenceVals \in [Frames -> 0 .. MaxFence + 1]
  /\ waiting.pc \in {"frame", "resize"}
  /\ passes \in Seq(Passes) /\ IsCommands(list)
  /\ tracked \in StateSet /\ actual \in StateSet
  /\ upload.offset \in 0 .. UploadSize
  /\ IsQueue(queue) /\ fence \in Int /\ lag \in Int /\ failures \in FailureSets
  /\ IsSeq(textures)

(* The value the frame goes on with: in a wait it is not stored yet.       *)
NextValue == IF pc = "wait" THEN waiting.next ELSE fenceVals[frameNo]

Values ==
  /\ Between(queue, fence, NextValue)
  /\ fence < NextValue /\ NextValue \in 1 .. MaxFence + 1
  /\ pc = "record" => NextValue < MaxFence
  /\ pc = "wait" => waiting.for = fenceVals[frameNo]

(* A list in the queue is finished when its frame waits for its value, so  *)
(* a frame that does not wait has none left.                               *)
Allocators ==
  "Present" \notin failures => /\ AllocatorsCovered(queue, fenceVals)
                               /\ pc # "wait" => NotAllocatedBy(queue, frameNo)

(* When the frame and the buffer to draw to differ, and while resizing, no *)
(* buffer is in use after the wait.                                        *)
BuffersFree ==
  "Present" \notin failures =>
    /\ pc = "wait" /\ (waiting.pc = "resize" \/ frameNo # backBuffer)
         => AllCovered(queue, waiting.for)
    /\ pc # "wait" /\ (pc = "resize" \/ frameNo # backBuffer) => OnlySignals(queue)

Copying ==
  /\ pc # "wait" => CopyFree(queue)
  /\ pc = "wait" => CopiesCovered(queue, waiting.for)
  /\ CopiesBring(queue, upload.rows)

Lag == lag <= 1 /\ (frameNo # backBuffer => lag = 0)

LastPasses == {"final", "pbr"}
EndsIn(s, from) == \E j \in 1 .. Len(s) : j > from /\ s[j] \in LastPasses

(* The passes to come bring the buffer of the frame back to "present", and *)
(* draw the shadows before they are sampled.                               *)
Tracks ==
  /\ pc # "record" => \A b \in Buffers : tracked[b] = "present"
  /\ pc = "record" =>
       /\ \A b \in Buffers : tracked[b] = "present" \/ (b = OwnBuffer /\ EndsIn(passes, 0))
       /\ \A k \in 1 .. Len(passes) : passes[k] = "cube" => EndsIn(passes, k)
       /\ \A k \in 1 .. Len(passes) : passes[k] = "final" =>
            \/ tracked[ShadowMap] = "sampled"
            \/ \E j \in 1 .. Len(passes) : j < k /\ passes[j] = "shadow"

(* The states the program tracks are those the GPU comes to when it has    *)
(* done what was submitted and what is recorded.                           *)
Foreseen ==
  \E p \in StateSet : /\ Follows(queue, actual, p)
                      /\ IF pc = "record" THEN Runs(list, p, tracked) ELSE tracked = p

Inv ==
  /\ Types /\ Values /\ Allocators /\ BuffersFree /\ Copying /\ Lag /\ Tracks /\ Foreseen
  /\ RulesKept /\ TexturesArrive

LEMMA InvWorks ==
  ASSUME Inv
  PROVE  WellFormed /\ RulesKept /\ LagsOnce /\ TexturesArrive
<1>1. TypeOK
  BY DEF Inv, Types, Tracks, TypeOK, PcSet, StateSet
<1>2. DOMAIN queue = 1 .. Len(queue)
  BY IsSeqLen DEF Inv, Types, IsQueue
<1>3. pc \in {"frame", "record"} => NextValue = fenceVals[frameNo]
  BY DEF NextValue
<1>4. SignalsGrow
  BY <1>2, <1>3 DEF Inv, Values, Between, SignalsGrow
<1> QED
  BY <1>1, <1>4 DEF Inv, WellFormed, Lag, LagsOnce

-----------------------------------------------------------------------------
(* Initially. *)

LEMMA InitInv == Init => Inv
<1> SUFFICES ASSUME Init
             PROVE  Inv
  OBVIOUS
<1>1. FrameCount \in Nat \ {0, 1} /\ MaxFence \in Nat \ {0} /\ UploadSize \in Nat
  BY D3d12Assumption
<1>2. 0 \in Frames
  BY <1>1 DEF Frames
<1>3. IsSeq(<<>>) /\ Len(<<>>) = 0 /\ <<>> \in Seq(Passes)
  BY SeqIs, EmptySeq
<1>4. tracked \in StateSet /\ \A b \in Buffers : tracked[b] = "present"
  BY DEF Init, Targets, StateSet, States
<1>5. IsCommands(list)
  BY <1>4, NoCommands DEF Init
<1>6. fenceVals \in [Frames -> 0 .. MaxFence + 1] /\ fenceVals[frameNo] = 2
  BY <1>1, <1>2 DEF Init
<1>7. waiting.pc \in {"frame", "resize"}
  BY DEF Init, NoWait
<1>8. IsQueue(queue) /\ Len(queue) = 0
  BY <1>3 DEF Init, IsQueue
<1>9. upload.offset \in 0 .. UploadSize
  BY <1>1 DEF Init
<1>10. Types
  BY <1>2, <1>3, <1>4, <1>5, <1>6, <1>7, <1>8, <1>9 DEF Init, Types, PcSet, FailureSets
<1>11. Values
  <2>1. NextValue = 2
    BY <1>6 DEF NextValue, Init
  <2>2. Between(queue, fence, NextValue)
    BY <1>8 DEF Between
  <2> QED
    BY <1>1, <2>1, <2>2 DEF Values, Init
<1>12. Allocators /\ BuffersFree /\ Copying
  BY <1>8 DEF Allocators, BuffersFree, Copying, AllocatorsCovered, NotAllocatedBy, AllCovered,
              OnlySignals, CopyFree, CopiesCovered, CopiesBring
<1>13. Lag /\ Tracks
  BY <1>4 DEF Init, Lag, Tracks
<1>14. Foreseen
  <2>1. Follows(queue, actual, tracked)
    BY <1>4, <1>8, FollowsNone DEF Init
  <2> QED
    BY <1>4, <2>1 DEF Foreseen, Init
<1>15. RulesKept /\ TexturesArrive
  BY DEF Init, RulesKept, TexturesArrive
<1> QED
  BY <1>10, <1>11, <1>12, <1>13, <1>14, <1>15 DEF Inv

-----------------------------------------------------------------------------
(* Step by step. *)

LEMMA SameInv ==
  ASSUME Inv, UNCHANGED <<loopVars, upload, gpuVars, backBuffer, lag, failures>>, RulesKept'
  PROVE  Inv'
<1>1. UNCHANGED <<pc, frameNo, fenceVals, waiting, passes, list, tracked, upload, queue, fence,
                  actual, textures, backBuffer, lag, failures>>
  BY DEF loopVars, gpuVars
<1>2. Types' /\ Values' /\ Allocators' /\ BuffersFree' /\ Copying' /\ Lag'
  BY <1>1 DEF Inv, Types, Values, NextValue, Allocators, BuffersFree, Copying, Lag
<1>3. Tracks' /\ Foreseen'
  BY <1>1 DEF Inv, Tracks, Foreseen, OwnBuffer
<1>4. TexturesArrive'
  BY <1>1 DEF Inv, TexturesArrive
<1> QED
  BY <1>2, <1>3, <1>4 DEF Inv

(* A call fails for want of memory, or because an earlier one has failed.  *)
LEMMA BreaksInv ==
  ASSUME Inv, NEW why, Breaks(why),
         \/ why = "out of memory"
         \/ "Present" \in failures /\ why \in {"allocator in use", "buffers in use"}
         \/ "ResizeBuffers" \in failures /\ why = "released buffer"
  PROVE  Inv'
<1>1. UNCHANGED <<loopVars, upload, gpuVars, backBuffer, lag, failures>> /\ broken' = why
  BY DEF Breaks, dxgiVars
<1>2. failures' = failures
  BY <1>1
<1> DEFINE first == {"no", "out of memory"}
<1> DEFINE second == {"allocator in use", "buffers in use"}
<1> DEFINE third == {"released buffer"}
<1>3. why \in first \/ ("Present" \in failures /\ why \in second)
        \/ ("ResizeBuffers" \in failures /\ why \in third)
  BY Zenon
<1>4. RulesKept' = (broken' \in first \cup (IF "Present" \in failures' THEN second ELSE {})
                                      \cup (IF "ResizeBuffers" \in failures' THEN third ELSE {}))
  BY Zenon DEF RulesKept
<1> HIDE DEF first, second, third
<1>5. RulesKept'
  BY <1>1, <1>2, <1>3, <1>4
<1> QED
  BY <1>1, <1>5, SameInv

LEMMA RulesStay ==
  ASSUME RulesKept, broken' = broken, failures \subseteq failures'
  PROVE  RulesKept'
<1> DEFINE first == {"no", "out of memory"}
<1> DEFINE second == {"allocator in use", "buffers in use"}
<1> DEFINE third == {"released buffer"}
<1>1. broken \in first \cup (IF "Present" \in failures THEN second ELSE {})
                       \cup (IF "ResizeBuffers" \in failures THEN third ELSE {})
  BY Zenon DEF RulesKept
<1>2. RulesKept' = (broken' \in first \cup (IF "Present" \in failures' THEN second ELSE {})
                                      \cup (IF "ResizeBuffers" \in failures' THEN third ELSE {}))
  BY Zenon DEF RulesKept
<1> HIDE DEF first, second, third
<1> QED
  BY <1>1, <1>2

LEMMA WaitEndsInv ==
  ASSUME Inv, WaitEnds
  PROVE  Inv'
<1>1. /\ pc = "wait" /\ fence >= waiting.for
      /\ fenceVals' = [fenceVals EXCEPT ![frameNo] = waiting.next]
      /\ pc' = waiting.pc /\ waiting' = NoWait
      /\ UNCHANGED <<frameNo, passes, list, tracked, upload, queue, fence, actual, textures,
                     backBuffer, lag, failures, broken>>
  BY DEF WaitEnds, gpuVars, dxgiVars
<1>2. Types /\ Values
  BY DEF Inv
<1>3. waiting.next \in 1 .. MaxFence + 1 /\ waiting.for = fenceVals[frameNo] /\ fence < waiting.next
  BY <1>1, <1>2 DEF Values, NextValue
<1>4. pc' \in {"frame", "resize"} /\ pc' # "wait" /\ pc' # "record"
  BY <1>1, <1>2 DEF Types
<1>5. MaxFence \in Nat
  BY D3d12Assumption
<1>6. fenceVals[frameNo] \in Int
  BY <1>2, <1>5 DEF Types
<1>7. fenceVals'[frameNo] = waiting.next /\ \A f \in Frames : f # frameNo => fenceVals'[f] = fenceVals[f]
  BY <1>1, <1>2 DEF Types
<1>8. Types'
  <2>1. fenceVals' \in [Frames -> 0 .. MaxFence + 1]
    BY <1>1, <1>2, <1>3, <1>5 DEF Types
  <2>2. waiting'.pc \in {"frame", "resize"}
    BY <1>1 DEF NoWait
  <2> QED
    BY <1>1, <1>2, <1>4, <2>1, <2>2 DEF Types, PcSet
<1>9. NextValue' = waiting.next
  BY <1>1, <1>4, <1>7 DEF NextValue
<1>10. Values'
  <2>1. NextValue = waiting.next
    BY <1>1 DEF NextValue
  <2> QED
    BY <1>1, <1>2, <1>3, <1>4, <1>9, <2>1 DEF Values
<1> DEFINE v == waiting.for
<1>11. /\ AllCovered(queue, v) => OnlySignals(queue)
       /\ CopiesCovered(queue, v) => CopyFree(queue)
       /\ \A vals, f : AllocatorsCovered(queue, vals) /\ vals[f] = v => NotAllocatedBy(queue, f)
  <2>1. v \in Int /\ v <= fence /\ fence \in Int /\ IsQueue(queue) /\ Between(queue, fence, NextValue)
    BY <1>1, <1>2, <1>3, <1>6 DEF Types, Values
  <2> HIDE DEF v
  <2> QED
    BY <2>1, Reached
<1>12. Allocators'
  <2> SUFFICES ASSUME "Present" \notin failures
               PROVE  AllocatorsCovered(queue, fenceVals') /\ NotAllocatedBy(queue, frameNo)
    BY <1>1 DEF Allocators
  <2>1. AllocatorsCovered(queue, fenceVals)
    BY DEF Inv, Allocators
  <2>2. NotAllocatedBy(queue, frameNo)
    BY <1>3, <1>11, <2>1
  <2>3. \A k \in 1 .. Len(queue) : queue[k].kind = "list" =>
          queue[k].allocator \in Frames /\ queue[k].allocator # frameNo
    BY <1>2, <2>2 DEF Types, IsQueue, IsItem, NotAllocatedBy
  <2>4. AllocatorsCovered(queue, fenceVals')
    BY <1>7, <2>1, <2>3 DEF AllocatorsCovered
  <2> QED
    BY <2>2, <2>4
<1>13. BuffersFree'
  <2> SUFFICES ASSUME "Present" \notin failures, pc' = "resize" \/ frameNo # backBuffer
               PROVE  OnlySignals(queue)
    BY <1>1, <1>4 DEF BuffersFree
  <2>1. waiting.pc = "resize" \/ frameNo # backBuffer
    BY <1>1
  <2> QED
    BY <1>1, <1>11, <2>1 DEF Inv, BuffersFree
<1>14. Copying'
  BY <1>1, <1>4, <1>11 DEF Inv, Copying
<1>15. Lag' /\ Tracks' /\ Foreseen'
  BY <1>1, <1>4 DEF Inv, Lag, Tracks, Foreseen
<1>16. RulesKept' /\ TexturesArrive'
  BY <1>1, RulesStay DEF Inv, TexturesArrive
<1> QED
  BY <1>8, <1>10, <1>12, <1>13, <1>14, <1>15, <1>16 DEF Inv

LEMMA InUseIs ==
  ASSUME IsQueue(queue)
  PROVE  /\ \A f : AllocatorInUse(f) <=> ~NotAllocatedBy(queue, f)
         /\ BuffersInUse <=> ~OnlySignals(queue)
<1>1. DOMAIN queue = 1 .. Len(queue)
  BY IsSeqLen DEF IsQueue
<1> QED
  BY <1>1 DEF AllocatorInUse, NotAllocatedBy, BuffersInUse, OnlySignals

LEMMA CmdBeginInv ==
  ASSUME Inv, CmdBegin
  PROVE  Inv'
<1>1. pc = "frame" /\ fenceVals[frameNo] < MaxFence
  BY DEF CmdBegin, CanGoOn
<1>2. IsQueue(queue)
  BY DEF Inv, Types
<1>3. CASE AllocatorInUse(frameNo)
  <2>1. "Present" \in failures
    BY <1>1, <1>2, <1>3, InUseIs DEF Inv, Allocators
  <2> DEFINE why == "allocator in use"
  <2>2. Breaks(why) /\ why \in {"allocator in use", "buffers in use"}
    BY <1>3, Zenon DEF CmdBegin
  <2> HIDE DEF why
  <2> QED
    BY <2>1, <2>2, BreaksInv, Zenon
<1>4. CASE ~AllocatorInUse(frameNo)
  <2>1. /\ pc' = "record" /\ list' = <<>> /\ passes' \in FramePasses
        /\ UNCHANGED <<frameNo, fenceVals, waiting, tracked, upload, queue, fence, actual, textures,
                       backBuffer, lag, failures, broken>>
    <3> DEFINE why == "allocator in use"
    <3> DEFINE else == /\ pc' = "record" /\ list' = <<>>
                       /\ \E s \in FramePasses : passes' = s
                       /\ UNCHANGED <<frameNo, fenceVals, waiting, tracked, upload, gpuVars,
                                      dxgiVars, broken>>
    <3>1. IF AllocatorInUse(frameNo) THEN Breaks(why) ELSE else
      BY Zenon DEF CmdBegin
    <3>2. else
      BY <1>4, <3>1, Zenon
    <3> HIDE DEF why
    <3> QED
      BY <3>2 DEF gpuVars, dxgiVars
  <2>2. CompleteFrame(passes')
    BY <2>1, D3d12Assumption
  <2>3. passes' \in Seq(Passes)
    BY <2>2 DEF CompleteFrame, Passes
  <2>4. DOMAIN passes' = 1 .. Len(passes')
    BY <2>3, SeqIs
  <2>5. Types'
    <3>1. IsCommands(<<>>)
      BY NoCommands DEF Inv, Types
    <3> QED
      BY <2>1, <2>3, <3>1 DEF Inv, Types, PcSet
  <2>6. Values' /\ NextValue' = NextValue
    BY <1>1, <2>1 DEF Inv, Values, NextValue
  <2>7. Allocators' /\ BuffersFree' /\ Copying' /\ Lag'
    BY <1>1, <2>1 DEF Inv, Allocators, BuffersFree, Copying, Lag
  <2>8. Tracks'
    <3>1. \A b \in Buffers : tracked[b] = "present"
      BY <1>1 DEF Inv, Tracks
    <3>2. \A k \in 1 .. Len(passes') : passes'[k] = "cube" => EndsIn(passes', k)
      BY <2>2, <2>4 DEF CompleteFrame, EndsIn, LastPasses
    <3>3. \A k \in 1 .. Len(passes') : passes'[k] = "final" =>
            \E j \in 1 .. Len(passes') : j < k /\ passes'[j] = "shadow"
      BY <2>2, <2>4 DEF CompleteFrame
    <3> QED
      BY <2>1, <3>1, <3>2, <3>3 DEF Tracks
  <2>9. Foreseen'
    <3>1. PICK p \in StateSet : Follows(queue, actual, p) /\ tracked = p
      BY <1>1 DEF Inv, Foreseen
    <3>2. Runs(list', p, tracked')
      BY <2>1, <3>1, NoCommands
    <3> QED
      BY <2>1, <3>1, <3>2 DEF Foreseen
  <2>10. RulesKept' /\ TexturesArrive'
    BY <2>1, RulesStay DEF Inv, TexturesArrive
  <2> QED
    BY <2>5, <2>6, <2>7, <2>8, <2>9, <2>10 DEF Inv
<1> QED
  BY <1>3, <1>4

LEMMA ResizeBuffersInv ==
  ASSUME Inv, ResizeBuffers
  PROVE  Inv'
<1>1. pc = "resize" /\ IsQueue(queue)
  BY DEF ResizeBuffers, Inv, Types
<1>4. CASE "ResizeBuffers" \in failures
  <2> DEFINE why == "released buffer"
  <2>1. Breaks(why) /\ why = "released buffer"
    BY <1>4, Zenon DEF ResizeBuffers
  <2> HIDE DEF why
  <2> QED
    BY <1>4, <2>1, BreaksInv, Zenon
<1>2. CASE "ResizeBuffers" \notin failures /\ BuffersInUse
  <2>1. "Present" \in failures
    BY <1>1, <1>2, InUseIs DEF Inv, BuffersFree
  <2> DEFINE why == "buffers in use"
  <2>2. Breaks(why) /\ why \in {"allocator in use", "buffers in use"}
    BY <1>2, Zenon DEF ResizeBuffers
  <2> HIDE DEF why
  <2> QED
    BY <2>1, <2>2, BreaksInv, Zenon
<1>3. CASE "ResizeBuffers" \notin failures /\ ~BuffersInUse
  <2>1. /\ backBuffer' \in Frames
        /\ actual' = [t \in Targets |-> IF t \in Buffers THEN "present" ELSE actual[t]]
        /\ lag' = 0 /\ pc' = "frame"
        /\ UNCHANGED <<frameNo, fenceVals, waiting, passes, list, tracked, upload, queue, fence,
                       textures, failures, broken>>
    <3> DEFINE why == "buffers in use"
    <3> DEFINE released == "released buffer"
    <3> DEFINE else ==
          /\ backBuffer' \in Frames
          /\ actual' = [t \in Targets |-> IF t \in Buffers THEN "present" ELSE actual[t]]
          /\ outOfDate' = FALSE /\ lag' = 0
          /\ pc' = "frame"
          /\ UNCHANGED <<frameNo, fenceVals, waiting, passes, list, tracked, upload, queue,
                         fence, textures, resizes, failures, broken>>
    <3>1. IF "ResizeBuffers" \in failures THEN Breaks(released)
          ELSE IF BuffersInUse THEN Breaks(why) ELSE else
      BY Zenon DEF ResizeBuffers
    <3>2. else
      BY <1>3, <3>1, Zenon
    <3> HIDE DEF why, released
    <3> QED
      BY <3>2
  <2>2. OnlySignals(queue)
    BY <1>1, <1>3, InUseIs
  <2>3. tracked = actual /\ \A b \in Buffers : tracked[b] = "present"
    <3>1. PICK p \in StateSet : Follows(queue, actual, p) /\ tracked = p
      BY <1>1 DEF Inv, Foreseen
    <3>2. p = actual
      BY <1>1, <2>2, <3>1, FollowsSignals DEF IsQueue
    <3> QED
      BY <1>1, <3>1, <3>2 DEF Inv, Tracks
  <2>4. actual' = actual
    <3>1. actual \in [Targets -> States]
      BY DEF Inv, Types, StateSet
    <3> QED
      BY <2>1, <2>3, <3>1
  <2>5. Types'
    BY <2>1, <2>4 DEF Inv, Types, PcSet
  <2>6. Values'
    BY <1>1, <2>1 DEF Inv, Values, NextValue
  <2>7. Allocators' /\ BuffersFree' /\ Copying' /\ Lag'
    BY <1>1, <2>1, <2>2 DEF Inv, Allocators, BuffersFree, Copying, Lag
  <2>8. Tracks' /\ Foreseen'
    BY <1>1, <2>1, <2>3, <2>4 DEF Inv, Tracks, Foreseen
  <2>9. RulesKept' /\ TexturesArrive'
    BY <2>1, RulesStay DEF Inv, TexturesArrive
  <2> QED
    BY <2>5, <2>6, <2>7, <2>8, <2>9 DEF Inv
<1> QED
  BY <1>2, <1>3, <1>4

LEMMA ResizeFailsInv ==
  ASSUME Inv, ResizeFails
  PROVE  Inv'
<1>1. /\ pc = "resize" /\ ~BuffersInUse /\ pc' = "frame"
      /\ failures' = failures \cup {"ResizeBuffers"}
      /\ UNCHANGED <<frameNo, fenceVals, waiting, passes, list, tracked, upload, queue, fence,
                     actual, textures, backBuffer, lag, broken>>
  BY DEF ResizeFails, gpuVars
<1>2. OnlySignals(queue)
  BY <1>1, InUseIs DEF Inv, Types
<1>3. Types'
  BY <1>1 DEF Inv, Types, PcSet, FailureSets
<1>4. Values'
  BY <1>1 DEF Inv, Values, NextValue
<1>5. Allocators' /\ BuffersFree' /\ Copying' /\ Lag'
  BY <1>1, <1>2 DEF Inv, Allocators, BuffersFree, Copying, Lag
<1>6. Tracks' /\ Foreseen'
  BY <1>1 DEF Inv, Tracks, Foreseen
<1>7. RulesKept' /\ TexturesArrive'
  BY <1>1, RulesStay DEF Inv, TexturesArrive
<1> QED
  BY <1>3, <1>4, <1>5, <1>6, <1>7 DEF Inv

LEMMA CopyFreeBrings ==
  ASSUME NEW q, CopyFree(q), NEW rows
  PROVE  CopiesBring(q, rows)
<1>1. Len(<<>>) = 0
  BY EmptySeq
<1> QED
  BY <1>1 DEF CopyFree, CopiesBring

LEMMA ListIs ==
  ASSUME frameNo \in Frames, NEW cs, IsCommands(cs), NEW copies, IsSeq(copies)
  PROVE  /\ IsItem(List(cs, copies)) /\ List(cs, copies).kind = "list"
         /\ List(cs, copies).allocator = frameNo /\ List(cs, copies).copies = copies
         /\ \A p, q : Runs(cs, p, q) => Step(List(cs, copies), p, q)
<1> DEFINE e == List(cs, copies)
<1>1. e.kind = "list" /\ e.allocator = frameNo /\ e.commands = cs /\ e.copies = copies
  BY DEF List
<1> HIDE DEF e
<1>2. IsItem(e)
  BY <1>1 DEF IsItem
<1>3. \A p, q : Runs(cs, p, q) => Step(e, p, q)
  BY <1>1 DEF Step
<1> QED
  BY <1>1, <1>2, <1>3 DEF e

LEMMA PresentFailsInv ==
  ASSUME Inv, PresentFails
  PROVE  Inv'
<1> DEFINE e == List(list, <<>>)
<1>1. /\ pc = "record" /\ passes = <<>> /\ failures' = failures \cup {"Present"}
      /\ queue' = Append(queue, e) /\ pc' = "frame"
      /\ UNCHANGED <<frameNo, fenceVals, waiting, passes, list, tracked, upload, fence, actual,
                     textures, backBuffer, lag, broken>>
  BY DEF PresentFails
<1>2. IsSeq(<<>>) /\ Len(<<>>) = 0
  BY SeqIs, EmptySeq
<1>3. frameNo \in Frames /\ IsCommands(list) /\ IsQueue(queue) /\ IsSeq(queue)
  BY DEF Inv, Types, IsQueue
<1>4. /\ IsItem(e) /\ e.kind = "list" /\ e.copies = <<>>
      /\ \A p, q : Runs(list, p, q) => Step(e, p, q)
  BY <1>2, <1>3, ListIs
<1> HIDE DEF e
<1>5. IsSeq(<<e>>) /\ Len(<<e>>) = 1 /\ <<e>>[1] = e
  BY OneIs
<1>6. queue' = queue \o <<e>>
  <2> DEFINE S == {queue[k] : k \in DOMAIN queue} \cup {e}
  <2>1. queue \in Seq(S) /\ e \in S
    <3>1. queue \in Seq({queue[k] : k \in DOMAIN queue})
      BY <1>3 DEF IsSeq
    <3>2. queue \in [1 .. Len(queue) -> {queue[k] : k \in DOMAIN queue}] /\ Len(queue) \in Nat
      BY <3>1, LenProperties
    <3>3. queue \in [1 .. Len(queue) -> S]
      BY <3>2
    <3> HIDE DEF S
    <3>4. queue \in Seq(S)
      BY <3>2, <3>3, SeqDef
    <3> QED
      BY <3>4 DEF S
  <2> HIDE DEF S
  <2> QED
    BY <1>1, <2>1, AppendIsConcat
<1> DEFINE m == Len(queue)
<1>7. /\ m \in Nat /\ IsSeq(queue') /\ Len(queue') = m + 1
      /\ \A k \in 1 .. m : queue'[k] = queue[k]
      /\ queue'[m + 1] = e
  <2>1. /\ IsSeq(queue \o <<e>>) /\ Len(queue \o <<e>>) = Len(queue) + Len(<<e>>)
        /\ \A k \in 1 .. Len(queue) : (queue \o <<e>>)[k] = queue[k]
        /\ \A k \in 1 .. Len(<<e>>) : (queue \o <<e>>)[Len(queue) + k] = <<e>>[k]
    BY <1>3, <1>5, ConcatIs
  <2>2. Len(queue) \in Nat
    BY <1>3, IsSeqLen
  <2>3. 1 \in 1 .. Len(<<e>>)
    BY <1>5
  <2>4. (queue \o <<e>>)[Len(queue) + 1] = e
    BY <1>5, <2>1, <2>3
  <2>5. Len(queue \o <<e>>) = Len(queue) + 1
    BY <1>5, <2>1
  <2> QED
    BY <1>6, <2>1, <2>2, <2>4, <2>5
<1> HIDE DEF m
<1>8. \A k \in 1 .. m + 1 : k \in 1 .. m \/ k = m + 1
  BY <1>7
<1>9. IsQueue(queue')
  <2>1. \A k \in 1 .. m + 1 : IsItem(queue'[k])
    BY <1>3, <1>4, <1>7, <1>8 DEF IsQueue, m
  <2> QED
    BY <1>7, <2>1 DEF IsQueue
<1>10. Types'
  BY <1>1, <1>9 DEF Inv, Types, PcSet, FailureSets
<1>11. Values'
  <2>1. Between(queue, fence, NextValue)
    BY DEF Inv, Values
  <2>2. \A k \in 1 .. m + 1 : queue'[k].kind = "signal" => k \in 1 .. m /\ queue'[k] = queue[k]
    BY <1>4, <1>7, <1>8
  <2>3. Between(queue', fence, NextValue)
    BY <1>7, <2>1, <2>2 DEF Between, m
  <2>4. NextValue' = NextValue
    BY <1>1 DEF NextValue
  <2> QED
    BY <1>1, <2>3, <2>4 DEF Inv, Values
<1>12. Allocators' /\ BuffersFree'
  BY <1>1 DEF Allocators, BuffersFree
<1>13. Copying'
  <2>1. CopyFree(queue)
    BY <1>1 DEF Inv, Copying
  <2>2. \A k \in 1 .. m + 1 : queue'[k].kind = "list" => queue'[k].copies = <<>>
    BY <1>4, <1>7, <1>8, <2>1 DEF CopyFree, m
  <2>3. CopyFree(queue')
    BY <1>7, <2>2 DEF CopyFree
  <2> QED
    BY <1>1, <2>3, CopyFreeBrings DEF Copying
<1>14. Lag'
  BY <1>1 DEF Inv, Lag
<1>15. Tracks'
  <2>1. Len(passes) = 0
    BY <1>1, EmptySeq
  <2>2. ~EndsIn(passes, 0)
    BY <2>1 DEF EndsIn
  <2> QED
    BY <1>1, <2>2 DEF Inv, Tracks
<1>16. Foreseen'
  <2>1. PICK p \in StateSet : Follows(queue, actual, p) /\ Runs(list, p, tracked)
    BY <1>1 DEF Inv, Foreseen
  <2>2. tracked \in StateSet
    BY DEF Inv, Types
  <2>3. Follows(<<e>>, p, tracked)
    BY <1>4, <2>1, <2>2, FollowsOne
  <2>4. Follows(queue', actual, tracked)
    BY <1>3, <1>5, <1>6, <2>1, <2>3, FollowsConcat
  <2> QED
    BY <1>1, <2>2, <2>4 DEF Foreseen
<1>17. RulesKept' /\ TexturesArrive'
  BY <1>1, RulesStay DEF Inv, TexturesArrive
<1> QED
  BY <1>10, <1>11, <1>12, <1>13, <1>14, <1>15, <1>16, <1>17 DEF Inv

(* What the three waits have in common.                                    *)
LEMMA SubmitsInv ==
  ASSUME Inv, pc # "wait", pc' = "wait", fenceVals[frameNo] < MaxFence,
         NEW s, IsQueue(s), NoSignals(s),
         \A k \in 1 .. Len(s) : s[k].kind = "list" => s[k].allocator = frameNo,
         queue' = queue \o s \o <<Signal(fenceVals[frameNo])>>,
         UNCHANGED <<fenceVals, fence, actual, failures, tracked>>,
         waiting'.for = fenceVals[frameNo'], waiting'.next = fenceVals[frameNo] + 1,
         NEW p \in StateSet, Follows(queue, actual, p), Follows(s, p, tracked)
  PROVE  /\ IsQueue(queue') /\ Values' /\ Allocators' /\ Foreseen'
         /\ \A w \in Int : fenceVals[frameNo] <= w =>
              AllCovered(queue', w) /\ CopiesCovered(queue', w)
         /\ OnlySignals(queue) /\ Len(s) = 0 => OnlySignals(queue')
         /\ CopyFree(s) => CopyFree(queue')
         /\ \A rows : CopiesBring(s, rows) => CopiesBring(queue', rows)
<1>1. PICK v : v = fenceVals[frameNo]
  OBVIOUS
<1>2. MaxFence \in Nat /\ fenceVals \in [Frames -> 0 .. MaxFence + 1] /\ frameNo \in Frames
  BY D3d12Assumption DEF Inv, Types
<1>3. v \in Int /\ v < MaxFence
  BY <1>1, <1>2
<1>4. NextValue = v /\ fence < v /\ v \in 1 .. MaxFence + 1 /\ Between(queue, fence, v) /\ fence \in Int
  BY <1>1 DEF Inv, Types, Values, NextValue
<1>5. IsQueue(queue)
  BY DEF Inv, Types
<1>6. PICK r : r = queue \o s \o <<Signal(v)>>
  OBVIOUS
<1>7. queue' = r
  BY <1>1, <1>6
<1>8. IsQueue(r)
  BY <1>3, <1>5, <1>6, Submitted
<1>9. SubmittingKeeps(queue, s, v, r)
  BY <1>3, <1>5, <1>6, SubmittedCovers
<1>10. Values'
  <2>1. NextValue' = v + 1
    BY <1>1 DEF NextValue
  <2>2. v + 1 \in Int /\ v < v + 1 /\ fence < v + 1 /\ v + 1 \in 1 .. MaxFence + 1
    BY <1>2, <1>3, <1>4
  <2>3. Between(r, fence, v + 1)
    BY <1>4, <1>9, <2>2 DEF SubmittingKeeps
  <2> QED
    BY <1>7, <2>1, <2>2, <2>3 DEF Values
<1>11. Allocators'
  <2> SUFFICES ASSUME "Present" \notin failures
               PROVE  AllocatorsCovered(queue', fenceVals)
    BY DEF Allocators
  <2>1. AllocatorsCovered(queue, fenceVals)
    BY DEF Inv, Allocators
  <2>2. \A k \in 1 .. Len(s) : s[k].kind = "list" => fenceVals[s[k].allocator] = v
    BY <1>1
  <2>3. AllocatorsCovered(r, fenceVals)
    BY <1>9, <2>1, <2>2 DEF SubmittingKeeps
  <2> QED
    BY <1>7, <2>3
<1>12. Foreseen'
  <2>1. IsSeq(queue) /\ IsSeq(s)
    BY <1>5 DEF IsQueue
  <2>2. IsSeq(queue \o s) /\ Follows(queue \o s, actual, tracked)
    BY <2>1, FollowsConcat
  <2>3. tracked \in StateSet
    BY DEF Inv, Types
  <2>4. Step(Signal(v), tracked, tracked)
    BY DEF Step, Signal
  <2>5. IsSeq(<<Signal(v)>>) /\ Follows(<<Signal(v)>>, tracked, tracked)
    BY <2>3, <2>4, FollowsOne
  <2>6. Follows(r, actual, tracked)
    BY <1>6, <2>2, <2>5, FollowsConcat
  <2> QED
    BY <1>7, <2>3, <2>6 DEF Foreseen
<1>13. CopyFree(queue)
  BY DEF Inv, Copying
<1>14. \A rows : CopiesBring(queue, rows)
  BY <1>13, CopyFreeBrings
<1> QED
  BY <1>1, <1>7, <1>8, <1>9, <1>10, <1>11, <1>12, <1>13, <1>14 DEF SubmittingKeeps

LEMMA OnResizedInv ==
  ASSUME Inv, OnResized
  PROVE  Inv'
<1>1. /\ pc = "frame" /\ fenceVals[frameNo] < MaxFence /\ pc' = "wait"
      /\ queue' = queue \o <<>> \o <<Signal(fenceVals[frameNo])>>
      /\ frameNo' = backBuffer
      /\ waiting' = [for |-> fenceVals[backBuffer], next |-> fenceVals[frameNo] + 1, pc |-> "resize"]
      /\ UNCHANGED <<fenceVals, passes, list, tracked, upload, fence, actual, textures, backBuffer,
                     lag, failures, broken>>
  BY DEF OnResized, CanGoOn, WaitForBackFrame, dxgiVars
<1>2. Types
  BY DEF Inv
<1>3. IsSeq(<<>>) /\ Len(<<>>) = 0
  BY SeqIs, EmptySeq
<1>4. waiting'.for = fenceVals[frameNo'] /\ waiting'.next = fenceVals[frameNo] + 1 /\ waiting'.pc = "resize"
  BY <1>1
<1>5. IsQueue(<<>>) /\ NoSignals(<<>>) /\ CopyFree(<<>>)
  BY <1>3 DEF IsQueue, NoSignals, CopyFree
<1>6. PICK p \in StateSet : Follows(queue, actual, p) /\ tracked = p
  BY <1>1 DEF Inv, Foreseen
<1>7. Follows(<<>>, p, tracked)
  BY <1>3, <1>6, FollowsNone
<1>8. pc # "wait"
  BY <1>1
<1>9. \A k \in 1 .. Len(<<>>) : <<>>[k].kind = "list" => <<>>[k].allocator = frameNo
  BY <1>3
<1>10. UNCHANGED <<fenceVals, fence, actual, failures, tracked>>
  BY <1>1
<1>11. /\ IsQueue(queue') /\ Values' /\ Allocators' /\ Foreseen'
       /\ \A w \in Int : fenceVals[frameNo] <= w =>
            AllCovered(queue', w) /\ CopiesCovered(queue', w)
       /\ OnlySignals(queue) /\ Len(<<>>) = 0 => OnlySignals(queue')
       /\ CopyFree(<<>>) => CopyFree(queue')
  <2>1. PICK s : s = <<>>
    OBVIOUS
  <2>2. /\ queue' = queue \o s \o <<Signal(fenceVals[frameNo])>>
        /\ IsQueue(s) /\ NoSignals(s) /\ Follows(s, p, tracked)
        /\ \A k \in 1 .. Len(s) : s[k].kind = "list" => s[k].allocator = frameNo
    BY <1>1, <1>5, <1>7, <1>9, <2>1
  <2>3. pc' = "wait" /\ fenceVals[frameNo] < MaxFence
    BY <1>1
  <2>4. /\ IsQueue(queue') /\ Values' /\ Allocators' /\ Foreseen'
        /\ \A w \in Int : fenceVals[frameNo] <= w =>
             AllCovered(queue', w) /\ CopiesCovered(queue', w)
        /\ OnlySignals(queue) /\ Len(s) = 0 => OnlySignals(queue')
        /\ CopyFree(s) => CopyFree(queue')
    BY <1>4, <1>6, <1>8, <1>10, <2>2, <2>3, SubmitsInv
  <2> QED
    BY <2>1, <2>4
<1>12. Types'
  BY <1>1, <1>2, <1>4, <1>11 DEF Types, PcSet
<1>13. BuffersFree'
  <2> SUFFICES ASSUME "Present" \notin failures
               PROVE  AllCovered(queue', waiting'.for)
    BY <1>1 DEF BuffersFree
  <2>1. CASE frameNo = backBuffer
    <3>1. waiting'.for = fenceVals[frameNo] /\ fenceVals[frameNo] \in Int
      BY <1>1, <1>2, <1>4, <2>1, D3d12Assumption DEF Types
    <3> QED
      BY <1>11, <3>1
  <2>2. CASE frameNo # backBuffer
    <3>1. OnlySignals(queue')
      BY <1>3, <1>8, <1>11, <2>2 DEF Inv, BuffersFree
    <3> QED
      BY <3>1 DEF OnlySignals, AllCovered
  <2> QED
    BY <2>1, <2>2
<1>14. Copying'
  <2>1. CopyFree(queue')
    BY <1>5, <1>11
  <2>2. CopiesCovered(queue', waiting'.for)
    BY <2>1 DEF CopyFree, CopiesCovered
  <2> QED
    BY <1>1, <2>1, <2>2, CopyFreeBrings DEF Copying
<1>15. Lag' /\ Tracks'
  BY <1>1 DEF Inv, Lag, Tracks
<1>16. RulesKept' /\ TexturesArrive'
  BY <1>1, RulesStay DEF Inv, TexturesArrive
<1> QED
  BY <1>11, <1>12, <1>13, <1>14, <1>15, <1>16 DEF Inv

LEMMA CmdEndInv ==
  ASSUME Inv, CmdEnd
  PROVE  Inv'
<1> DEFINE e == List(list, <<>>)
<1> DEFINE f == [kind |-> "present", buffer |-> backBuffer]
<1>1. /\ pc = "record" /\ passes = <<>> /\ pc' = "wait"
      /\ queue' = queue \o <<e, f>> \o <<Signal(fenceVals[frameNo])>>
      /\ backBuffer' = (backBuffer + 1) % FrameCount /\ frameNo' = (backBuffer + 1) % FrameCount
      /\ waiting' = [for |-> fenceVals[frameNo'], next |-> fenceVals[frameNo] + 1, pc |-> "frame"]
      /\ lag' = (IF frameNo = backBuffer THEN lag ELSE lag + 1)
      /\ UNCHANGED <<fenceVals, passes, list, tracked, upload, fence, actual, textures, failures,
                     broken>>
  BY DEF CmdEnd, WaitForBackFrame, Presented
<1>2. Types
  BY DEF Inv
<1>3. IsSeq(<<>>) /\ Len(<<>>) = 0
  BY SeqIs, EmptySeq
<1>4. /\ frameNo \in Frames /\ backBuffer \in Frames /\ IsCommands(list)
      /\ tracked \in StateSet /\ lag \in Int
  BY <1>2 DEF Types
<1>5. frameNo' = backBuffer' /\ backBuffer' \in Frames
  <2>1. FrameCount \in Nat \ {0, 1} /\ backBuffer \in Int
    BY <1>4, D3d12Assumption DEF Frames
  <2>2. (backBuffer + 1) % FrameCount \in 0 .. FrameCount - 1
    BY <2>1
  <2> QED
    BY <1>1, <2>2 DEF Frames
<1>6. waiting'.for = fenceVals[frameNo'] /\ waiting'.next = fenceVals[frameNo] + 1 /\ waiting'.pc = "frame"
  BY <1>1
<1>7. /\ IsItem(e) /\ e.kind = "list" /\ e.allocator = frameNo /\ e.copies = <<>>
      /\ \A p, q : Runs(list, p, q) => Step(e, p, q)
  BY <1>3, <1>4, ListIs
<1>8. f.kind = "present" /\ f.buffer = backBuffer
  OBVIOUS
<1> HIDE DEF e, f
<1>9. IsItem(f)
  BY <1>4, <1>8 DEF IsItem
<1>10. PICK s : s = <<e, f>>
  OBVIOUS
<1>11. IsSeq(s) /\ Len(s) = 2 /\ s[1] = e /\ s[2] = f
  <2>1. s \in Seq({e, f}) /\ Len(s) = 2 /\ s[1] = e /\ s[2] = f
    BY <1>10
  <2> QED
    BY <2>1, SeqIs
<1>12. \A k \in 1 .. Len(s) : s[k] = e \/ s[k] = f
  <2>1. \A k \in 1 .. 2 : k = 1 \/ k = 2
    OBVIOUS
  <2> QED
    BY <1>11, <2>1
<1>13. IsQueue(s)
  BY <1>7, <1>9, <1>11, <1>12 DEF IsQueue
<1>14. NoSignals(s)
  BY <1>7, <1>8, <1>12 DEF NoSignals
<1>15. CopyFree(s)
  BY <1>7, <1>8, <1>12 DEF CopyFree
<1>16. \A k \in 1 .. Len(s) : s[k].kind = "list" => s[k].allocator = frameNo
  BY <1>7, <1>8, <1>12
<1>17. \A b \in Buffers : tracked[b] = "present"
  <2>1. Len(passes) = 0
    BY <1>1, EmptySeq
  <2>2. ~EndsIn(passes, 0)
    BY <2>1 DEF EndsIn
  <2> QED
    BY <1>1, <2>2 DEF Inv, Tracks
<1>18. PICK p \in StateSet : Follows(queue, actual, p) /\ Runs(list, p, tracked)
  BY <1>1 DEF Inv, Foreseen
<1>19. Follows(s, p, tracked)
  <2>1. Step(e, p, tracked)
    BY <1>7, <1>18
  <2>2. IsSeq(<<e>>) /\ Follows(<<e>>, p, tracked)
    BY <1>4, <2>1, FollowsOne
  <2>3. tracked[<<"buffer", backBuffer>>] = "present"
    BY <1>4, <1>17 DEF Buffers
  <2>4. Step(f, tracked, tracked)
    BY <1>8, <2>3 DEF Step
  <2>5. IsSeq(<<f>>) /\ Follows(<<f>>, tracked, tracked)
    BY <1>4, <2>4, FollowsOne
  <2>6. Follows(<<e>> \o <<f>>, p, tracked)
    BY <2>2, <2>5, FollowsConcat
  <2>7. <<e>> \o <<f>> = s
    <3>1. /\ <<e>> \in Seq({e, f}) /\ Len(<<e>>) = 1 /\ <<e>>[1] = e
          /\ <<f>> \in Seq({e, f}) /\ Len(<<f>>) = 1 /\ <<f>>[1] = f
      OBVIOUS
    <3>2. /\ <<e>> \o <<f>> \in Seq({e, f}) /\ Len(<<e>> \o <<f>>) = 2
          /\ (<<e>> \o <<f>>)[1] = e /\ (<<e>> \o <<f>>)[2] = f
      BY <3>1, ConcatProperties
    <3>3. s \in Seq({e, f})
      BY <1>10
    <3>4. \A i \in 1 .. 2 : i = 1 \/ i = 2
      OBVIOUS
    <3> QED
      BY <1>11, <3>2, <3>3, <3>4, SeqEqual
  <2> QED
    BY <2>6, <2>7
<1>20. pc # "wait" /\ pc' = "wait" /\ fenceVals[frameNo] < MaxFence
  BY <1>1 DEF Inv, Values, NextValue
<1>21. queue' = queue \o s \o <<Signal(fenceVals[frameNo])>>
  BY <1>1, <1>10
<1>22. UNCHANGED <<fenceVals, fence, actual, failures, tracked>>
  BY <1>1
<1>23. IsQueue(queue') /\ Values' /\ Allocators' /\ Foreseen' /\ CopyFree(queue')
  BY <1>6, <1>13, <1>14, <1>15, <1>16, <1>18, <1>19, <1>20, <1>21, <1>22, SubmitsInv
<1>24. Types'
  <2>1. lag' \in Int
    BY <1>1, <1>4
  <2> QED
    BY <1>1, <1>2, <1>5, <1>6, <1>23, <2>1 DEF Types, PcSet
<1>25. BuffersFree'
  BY <1>5, <1>6, <1>20 DEF BuffersFree
<1>26. Copying'
  <2>1. CopiesCovered(queue', waiting'.for)
    BY <1>23 DEF CopyFree, CopiesCovered
  <2> QED
    BY <1>1, <1>23, <2>1, CopyFreeBrings DEF Copying
<1>27. Lag'
  <2>1. lag <= 1 /\ (frameNo # backBuffer => lag = 0)
    BY DEF Inv, Lag
  <2>2. lag' <= 1
    BY <1>1, <1>4, <2>1
  <2> QED
    BY <1>5, <2>2 DEF Lag
<1>28. Tracks'
  BY <1>1, <1>17 DEF Tracks
<1>29. RulesKept' /\ TexturesArrive'
  BY <1>1, RulesStay DEF Inv, TexturesArrive
<1> QED
  BY <1>23, <1>24, <1>25, <1>26, <1>27, <1>28, <1>29 DEF Inv

LEMMA DrawPassInv ==
  ASSUME Inv, DrawPass
  PROVE  Inv'
<1> DEFINE descs == Patched(RenderPass[Head(passes)])
<1> DEFINE into == Tracked(descs, tracked, "during")
<1> DEFINE released == \E k \in DOMAIN descs :
                         descs[k].target \in Buffers /\ "ResizeBuffers" \in failures
<1> DEFINE why == "released buffer"
<1> DEFINE else ==
      /\ list' = list \o Barriers(descs, tracked, "during") \o Draws(descs)
                      \o Sampled(Head(passes)) \o Barriers(descs, into, "after")
      /\ tracked' = Tracked(descs, into, "after")
      /\ passes' = Tail(passes)
      /\ UNCHANGED <<pc, frameNo, fenceVals, waiting, upload, gpuVars, dxgiVars, broken>>
<1>1. pc = "record" /\ passes # <<>> /\ IF released THEN Breaks(why) ELSE else
  BY Zenon DEF DrawPass, Draws, Sampled
<1>2. Types
  BY DEF Inv
<1>3. CASE released
  <2>1. "ResizeBuffers" \in failures
    BY <1>3
  <2>2. Breaks(why)
    BY <1>1, <1>3, Zenon
  <2> QED
    BY <2>1, <2>2, BreaksInv, Zenon
<1>4. CASE ~released
  <2>1. else
    BY <1>1, <1>4, Zenon
  <2>2. PICK pass : pass = Head(passes)
    OBVIOUS
  <2>3. PICK ds : ds = Patched(RenderPass[pass])
    OBVIOUS
  <2>4. PICK p : p = tracked
    OBVIOUS
  <2>5. PICK during : during = Tracked(ds, p, "during")
    OBVIOUS
  <2>6. PICK after : after = Tracked(ds, during, "after")
    OBVIOUS
  <2>7. /\ list' = list \o Barriers(ds, p, "during") \o Draws(ds)
                        \o Sampled(pass) \o Barriers(ds, during, "after")
        /\ tracked' = after /\ passes' = Tail(passes)
        /\ UNCHANGED <<pc, frameNo, fenceVals, waiting, upload, queue, fence, actual, textures,
                       backBuffer, lag, failures, broken>>
    <3>1. descs = ds
      BY <2>2, <2>3, Zenon
    <3> HIDE DEF descs
    <3>2. into = during
      BY <2>4, <2>5, <3>1, Zenon
    <3> HIDE DEF into, why
    <3>3. /\ list' = list \o Barriers(descs, tracked, "during") \o Draws(descs)
                          \o Sampled(Head(passes)) \o Barriers(descs, into, "after")
          /\ tracked' = Tracked(descs, into, "after")
      BY <2>1, Zenon
    <3>4. tracked' = after
      BY <2>6, <3>1, <3>2, <3>3, Zenon
    <3>5. list' = list \o Barriers(ds, p, "during") \o Draws(ds)
                       \o Sampled(pass) \o Barriers(ds, during, "after")
      BY <2>2, <2>4, <3>1, <3>2, <3>3, Zenon
    <3>6. /\ passes' = Tail(passes)
          /\ UNCHANGED <<pc, frameNo, fenceVals, waiting, upload, queue, fence, actual, textures,
                         backBuffer, lag, failures, broken>>
      BY <2>1 DEF gpuVars, dxgiVars
    <3> QED
      BY <3>4, <3>5, <3>6
  <2> HIDE DEF descs, into, released, else
  <2>8. /\ passes \in Seq(Passes) /\ DOMAIN passes = 1 .. Len(passes) /\ Len(passes) \in Nat
        /\ IsSeq(passes) /\ pass \in Passes /\ pass = passes[1] /\ 1 \in 1 .. Len(passes)
        /\ Tail(passes) \in Seq(Passes)
    <3>1. passes \in Seq(Passes) /\ passes # <<>>
      BY <1>1, <1>2 DEF Types
    <3>2. IsSeq(passes) /\ DOMAIN passes = 1 .. Len(passes) /\ Len(passes) \in Nat
      BY <3>1, SeqIs
    <3>3. Head(passes) = passes[1] /\ Len(passes) # 0
      BY <3>1, <3>2, TailIs
    <3>4. Head(passes) \in Passes /\ Tail(passes) \in Seq(Passes)
      BY <3>1, HeadTailProperties
    <3> QED
      BY <2>2, <3>1, <3>2, <3>3, <3>4
  <2> DEFINE n == Len(passes) - 1
  <2>9. /\ n \in Nat /\ Len(passes') = n /\ Len(passes) = n + 1
        /\ \A k \in 1 .. n : passes'[k] = passes[k + 1]
    <3>1. /\ Len(Tail(passes)) = Len(passes) - 1 /\ Len(passes) \in Nat \ {0}
          /\ \A k \in 1 .. Len(passes) - 1 : Tail(passes)[k] = passes[k + 1]
      BY <1>1, <2>8, TailIs
    <3>2. n \in Nat /\ Len(passes) = n + 1
      BY <3>1
    <3> QED
      BY <2>7, <3>1, <3>2
  <2> HIDE DEF n
  <2>10. pass = "final" => p[ShadowMap] = "sampled"
    <3> HAVE pass = "final"
    <3>1. \A j \in 1 .. n + 1 : ~(j < 1)
      BY <2>9
    <3> QED
      BY <1>1, <2>4, <2>8, <2>9, <3>1 DEF Inv, Tracks
  <2>11. frameNo \in Frames /\ p \in StateSet
    BY <1>2, <2>4 DEF Types
  <2>12. /\ IsCommands(Barriers(ds, p, "during")) /\ Runs(Barriers(ds, p, "during"), p, during)
         /\ IsCommands(Draws(ds)) /\ Runs(Draws(ds), during, during)
         /\ IsCommands(Sampled(pass)) /\ Runs(Sampled(pass), during, during)
         /\ IsCommands(Barriers(ds, during, "after"))
         /\ Runs(Barriers(ds, during, "after"), during, after)
         /\ after \in StateSet
         /\ pass = "shadow" => after[ShadowMap] = "sampled" /\ \A b \in Buffers : after[b] = p[b]
         /\ pass # "shadow" => /\ after[ShadowMap] = p[ShadowMap]
                               /\ \A b \in Buffers : b # OwnBuffer => after[b] = p[b]
         /\ pass \in {"final", "pbr"} => after[OwnBuffer] = "present"
    BY <2>3, <2>5, <2>6, <2>8, <2>10, <2>11, PassRuns
  <2>13. PICK q \in StateSet : Follows(queue, actual, q) /\ Runs(list, q, p)
    BY <1>1, <2>4 DEF Inv, Foreseen
  <2>14. IsCommands(list') /\ Runs(list', q, after)
    <3> DEFINE a == list \o Barriers(ds, p, "during")
    <3> DEFINE b == a \o Draws(ds)
    <3> DEFINE c == b \o Sampled(pass)
    <3>1. IsCommands(list)
      BY <1>2 DEF Types
    <3>2. IsCommands(a) /\ Runs(a, q, during)
      BY <2>12, <2>13, <3>1, RunsConcat
    <3> HIDE DEF a
    <3>3. IsCommands(b) /\ Runs(b, q, during)
      BY <2>12, <3>2, RunsConcat
    <3> HIDE DEF b
    <3>4. IsCommands(c) /\ Runs(c, q, during)
      BY <2>12, <3>3, RunsConcat
    <3> HIDE DEF c
    <3>5. /\ IsCommands(c \o Barriers(ds, during, "after"))
          /\ Runs(c \o Barriers(ds, during, "after"), q, after)
      BY <2>12, <3>4, RunsConcat
    <3> QED
      BY <2>7, <3>5 DEF a, b, c
  <2>15. Foreseen'
    BY <1>1, <2>7, <2>13, <2>14 DEF Foreseen
  <2>16. Types'
    BY <1>2, <2>7, <2>8, <2>12, <2>14 DEF Types
  <2>17. Values' /\ NextValue' = NextValue
    BY <1>1, <2>7 DEF Inv, Values, NextValue
  <2>18. Allocators' /\ BuffersFree' /\ Copying' /\ Lag'
    BY <1>1, <2>7 DEF Inv, Allocators, BuffersFree, Copying, Lag
  <2>19. ASSUME NEW k \in 0 .. n, EndsIn(passes, k + 1)
         PROVE  EndsIn(passes', k)
    <3>1. PICK j \in 1 .. n + 1 : j > k + 1 /\ passes[j] \in LastPasses
      BY <2>9, <2>19 DEF EndsIn
    <3>2. j - 1 \in 1 .. n /\ j - 1 > k /\ (j - 1) + 1 = j
      BY <2>9, <3>1
    <3>3. passes'[j - 1] = passes[j]
      BY <2>9, <3>2
    <3> QED
      BY <2>9, <3>1, <3>2, <3>3 DEF EndsIn
  <2>20. ASSUME EndsIn(passes, 0), pass \notin LastPasses
         PROVE  EndsIn(passes', 0)
    <3>1. PICK j \in 1 .. n + 1 : passes[j] \in LastPasses
      BY <2>9, <2>20 DEF EndsIn
    <3>2. j > 0 + 1
      BY <2>8, <2>9, <2>20, <3>1
    <3>3. EndsIn(passes, 0 + 1) /\ 0 \in 0 .. n
      BY <2>9, <3>1, <3>2 DEF EndsIn
    <3> QED
      BY <2>19, <3>3
  <2>21. \A k \in 1 .. n : k + 1 \in 1 .. n + 1 /\ k \in 0 .. n
    BY <2>9
  <2>22. Tracks
    BY DEF Inv
  <2>23. \A k \in 1 .. Len(passes') : passes'[k] = "cube" => EndsIn(passes', k)
    BY <1>1, <2>9, <2>19, <2>21, <2>22 DEF Tracks
  <2>24. \A k \in 1 .. Len(passes') : passes'[k] = "final" =>
           \/ tracked'[ShadowMap] = "sampled"
           \/ \E j \in 1 .. Len(passes') : j < k /\ passes'[j] = "shadow"
    <3> SUFFICES ASSUME NEW k \in 1 .. n, passes'[k] = "final", tracked'[ShadowMap] # "sampled"
                 PROVE  \E j \in 1 .. n : j < k /\ passes'[j] = "shadow"
      BY <2>9
    <3>1. pass # "shadow" /\ tracked[ShadowMap] # "sampled"
      BY <2>4, <2>7, <2>12
    <3>2. k + 1 \in 1 .. n + 1 /\ passes[k + 1] = "final"
      BY <2>9, <2>21
    <3>3. PICK j \in 1 .. n + 1 : j < k + 1 /\ passes[j] = "shadow"
      BY <1>1, <2>9, <2>22, <3>1, <3>2 DEF Tracks
    <3>4. j # 1
      BY <2>8, <3>1, <3>3
    <3>5. j - 1 \in 1 .. n /\ j - 1 < k /\ (j - 1) + 1 = j
      BY <2>9, <3>3, <3>4
    <3> QED
      BY <2>9, <3>3, <3>5
  <2>25. \A b \in Buffers : tracked'[b] = "present" \/ (b = OwnBuffer /\ EndsIn(passes', 0))
    <3> TAKE b \in Buffers
    <3>1. p[b] = "present" \/ (b = OwnBuffer /\ EndsIn(passes, 0))
      BY <1>1, <2>4, <2>22 DEF Tracks
    <3>2. CASE pass = "shadow"
      <4>1. after[b] = p[b] /\ pass \notin LastPasses
        BY <2>12, <3>2 DEF LastPasses
      <4> QED
        BY <2>7, <2>20, <3>1, <4>1
    <3>3. CASE pass \in {"final", "pbr"}
      BY <2>7, <2>12, <3>1, <3>3
    <3>4. CASE pass = "cube"
      <4>1. EndsIn(passes, 1) /\ pass \notin LastPasses
        BY <1>1, <2>8, <2>22, <3>4 DEF Tracks, LastPasses
      <4>2. 0 + 1 = 1 /\ 0 \in 0 .. n
        BY <2>9
      <4>3. EndsIn(passes', 0)
        BY <2>19, <4>1, <4>2
      <4>4. b # OwnBuffer => after[b] = p[b]
        BY <2>12, <3>4
      <4> QED
        BY <2>7, <3>1, <4>3, <4>4
    <3> QED
      BY <2>8, <3>2, <3>3, <3>4 DEF Passes
  <2>26. Tracks'
    <3>1. OwnBuffer' = OwnBuffer
      BY <2>7 DEF OwnBuffer
    <3> QED
      BY <1>1, <2>7, <2>23, <2>24, <2>25, <3>1 DEF Tracks
  <2>27. RulesKept' /\ TexturesArrive'
    BY <2>7, RulesStay DEF Inv, TexturesArrive
  <2> QED
    BY <2>15, <2>16, <2>17, <2>18, <2>26, <2>27 DEF Inv
<1> QED
  BY <1>3, <1>4

-----------------------------------------------------------------------------
(* Textures. *)

LEMMA AlignedIs ==
  ASSUME NEW n \in Nat, NEW a \in Nat \ {0}
  PROVE  AlignedTo(n, a) \in Nat /\ (n # 0 => AlignedTo(n, a) # 0)
<1> DEFINE q == (n + a - 1) \div a
<1>1. q \in Nat /\ (n # 0 => q # 0)
  OBVIOUS
<1>2. AlignedTo(n, a) = q * a
  BY DEF AlignedTo
<1> HIDE DEF q
<1>3. q * a \in Nat
  BY <1>1
<1>4. q # 0 => q * a # 0
  BY <1>1
<1> QED
  BY <1>1, <1>2, <1>3, <1>4

LEMMA SplitsUp ==
  ASSUME NEW x \in Nat, NEW r \in Nat \ {0}
  PROVE  /\ x \div r \in Nat /\ x % r \in 0 .. r - 1 /\ x = r * (x \div r) + (x % r)
         /\ x < r => x \div r = 0 /\ x % r = x
  OBVIOUS

LEMMA TextureIs ==
  ASSUME NEW t \in Textures
  PROVE  /\ t.pitch \in Nat \ {0} /\ t.rows \in Nat \ {0} /\ t.cube \in BOOLEAN
         /\ RowPitch(t) \in Nat \ {0} /\ Faces(t) \in {1, 6}
         /\ (~t.cube => Faces(t) = 1) /\ SubBufferSize(t) \in Nat
<1>1. t.pitch \in Nat \ {0} /\ t.rows \in Nat \ {0} /\ t.cube \in BOOLEAN
  BY D3d12Assumption
<1>2. RowPitch(t) \in Nat \ {0}
  BY <1>1, AlignedIs, D3d12Assumption DEF RowPitch
<1>3. Faces(t) \in {1, 6} /\ (~t.cube => Faces(t) = 1)
  BY DEF Faces
<1>4. SubBufferSize(t) \in Nat
  <2>1. PICK a \in Nat, b \in Nat, c \in Nat : a = Faces(t) /\ b = t.rows /\ c = RowPitch(t)
    BY <1>1, <1>2, <1>3
  <2>2. a * b \in Nat
    OBVIOUS
  <2>3. a * b * c \in Nat
    BY <2>2
  <2> QED
    BY <2>1, <2>3 DEF SubBufferSize
<1> QED
  BY <1>1, <1>2, <1>3, <1>4

(* The GPU reads row k where it was written, and no other row is there.    *)
LEMMA ReadsWritten ==
  ASSUME NEW t \in Textures, CarefulTexture(t), upload.offset \in Nat
  PROVE  /\ \A k \in Rows(t) :
              ReadAt(t, ((k - 1) \div t.rows) + 1, ((k - 1) % t.rows) + 1) = WrittenAt(t, k)
         /\ \A j, k \in Rows(t) : WrittenAt(t, j) = WrittenAt(t, k) => j = k
<1>1. PICK pl \in Nat : pl = Place
  BY AlignedIs, D3d12Assumption DEF Place
<1>2. PICK r \in Nat \ {0} : r = t.rows
  BY TextureIs
<1>3. PICK w \in Nat \ {0} : w = RowPitch(t)
  BY TextureIs
<1>4. PICK u \in Nat \ {0} : u = t.pitch
  BY TextureIs
<1>5. PICK g \in Nat \ {0} : g = (IF t.cube THEN u ELSE w)
  OBVIOUS
<1>6. Faces(t) \in {1, 6} /\ (~t.cube => Faces(t) = 1) /\ t.cube \in BOOLEAN
  BY TextureIs
<1>7. t.cube => u = w
  BY <1>3, <1>4 DEF CarefulTexture
<1>8. g = w
  BY <1>5, <1>6, <1>7
<1>9. \A k : WrittenAt(t, k) = pl + (k - 1) * g
  BY <1>1, <1>3, <1>4, <1>5 DEF WrittenAt
<1>10. Rows(t) = 1 .. Faces(t) * r
  BY <1>2 DEF Rows
<1>11. Rows(t) \subseteq Nat \ {0}
  BY <1>6, <1>10
<1>12. ASSUME NEW k \in Rows(t)
       PROVE  ReadAt(t, ((k - 1) \div t.rows) + 1, ((k - 1) % t.rows) + 1) = WrittenAt(t, k)
  <2>1. PICK x \in Nat : x = k - 1
    BY <1>11
  <2>2. PICK q \in Nat, m \in Nat : q = x \div r /\ m = x % r /\ x = r * q + m /\ (x < r => q = 0 /\ m = x)
    <3>1. /\ x \div r \in Nat /\ x % r \in 0 .. r - 1 /\ x = r * (x \div r) + (x % r)
          /\ x < r => x \div r = 0 /\ x % r = x
      BY SplitsUp
    <3> DEFINE a == x \div r
    <3> DEFINE b == x % r
    <3>2. a \in Nat /\ b \in Nat /\ x = r * a + b /\ (x < r => a = 0 /\ b = x)
      BY <3>1
    <3> HIDE DEF a, b
    <3>3. \E q \in Nat, m \in Nat : q = a /\ m = b /\ x = r * q + m /\ (x < r => q = 0 /\ m = x)
      BY <3>2
    <3> QED
      BY <3>3 DEF a, b
  <2>3. ReadAt(t, ((k - 1) \div t.rows) + 1, ((k - 1) % t.rows) + 1)
          = pl + ((q + 1) - 1) * u * r + ((m + 1) - 1) * w
    BY <1>1, <1>2, <1>3, <1>4, <2>1, <2>2 DEF ReadAt
  <2>4. (q + 1) - 1 = q /\ (m + 1) - 1 = m
    OBVIOUS
  <2>5. WrittenAt(t, k) = pl + x * w
    BY <1>8, <1>9, <2>1
  <2>6. q * u * r + m * w = x * w
    <3>1. CASE t.cube
      <4>1. q * u * r + m * w = q * w * r + m * w
        BY <1>7, <3>1
      <4>2. q * w * r + m * w = (r * q + m) * w
        OBVIOUS
      <4> QED
        BY <2>2, <4>1, <4>2
    <3>2. CASE ~t.cube
      <4>1. Rows(t) = 1 .. r
        BY <1>6, <1>10, <3>2
      <4>2. x < r
        BY <2>1, <4>1
      <4>3. q = 0 /\ m = x
        BY <2>2, <4>2
      <4>4. 0 * u * r + x * w = x * w
        OBVIOUS
      <4> QED
        BY <4>3, <4>4
    <3> QED
      BY <1>6, <3>1, <3>2
  <2>7. pl + q * u * r + m * w = pl + (q * u * r + m * w)
    <3>1. PICK a \in Int, b \in Int : a = q * u * r /\ b = m * w
      OBVIOUS
    <3>2. pl + a + b = pl + (a + b)
      OBVIOUS
    <3> QED
      BY <3>1, <3>2
  <2> QED
    BY <2>3, <2>4, <2>5, <2>6, <2>7
<1>13. ASSUME NEW j \in Rows(t), NEW k \in Rows(t), WrittenAt(t, j) = WrittenAt(t, k)
       PROVE  j = k
  <2>1. PICK x \in Int, y \in Int : x = j - 1 /\ y = k - 1
    BY <1>11
  <2>2. pl + x * g = pl + y * g
    BY <1>9, <1>13, <2>1
  <2>3. PICK a \in Int, b \in Int : a = x * g /\ b = y * g
    OBVIOUS
  <2>4. a = b
    BY <2>2, <2>3
  <2>5. x * g = y * g
    BY <2>3, <2>4
  <2>6. (x - y) * g = x * g - y * g
    OBVIOUS
  <2>7. (x - y) * g = 0
    BY <2>3, <2>5, <2>6
  <2>8. x - y = 0
    <3>1. PICK z \in Int : z = x - y
      OBVIOUS
    <3>2. z * g = 0
      BY <2>7, <3>1
    <3>3. z = 0
      BY <3>2
    <3> QED
      BY <3>1, <3>3
  <2> QED
    BY <1>11, <2>1, <2>8
<1> QED
  BY <1>12, <1>13

WrittenRows(t) == [a \in {WrittenAt(t, k) : k \in Rows(t)} |->
                     RowOf(CHOOSE k \in Rows(t) : WrittenAt(t, k) = a)]
CopyOf(t) == [asked |-> [k \in Rows(t) |-> RowOf(k)],
              from |-> [k \in Rows(t) |->
                          ReadAt(t, ((k - 1) \div t.rows) + 1, ((k - 1) % t.rows) + 1)]]

LEMMA CopyBrings ==
  ASSUME NEW t \in Textures, CarefulTexture(t), upload.offset \in Nat,
         NEW rows, rows = [a \in DOMAIN upload.rows \cup DOMAIN WrittenRows(t) |->
                             IF a \in DOMAIN WrittenRows(t) THEN WrittenRows(t)[a]
                             ELSE upload.rows[a]]
  PROVE  Brings(CopyOf(t), rows)
<1> DEFINE from == CopyOf(t).from
<1>1. /\ DOMAIN from = Rows(t) /\ CopyOf(t).asked = [k \in Rows(t) |-> RowOf(k)]
      /\ \A k \in Rows(t) : from[k] = WrittenAt(t, k)
  BY ReadsWritten DEF CopyOf
<1>2. \A k \in Rows(t) : /\ WrittenAt(t, k) \in DOMAIN WrittenRows(t)
                         /\ WrittenRows(t)[WrittenAt(t, k)] = RowOf(k)
  <2> TAKE k \in Rows(t)
  <2>1. (CHOOSE j \in Rows(t) : WrittenAt(t, j) = WrittenAt(t, k)) = k
    BY ReadsWritten
  <2>2. WrittenAt(t, k) \in {WrittenAt(t, j) : j \in Rows(t)}
    OBVIOUS
  <2>3. /\ DOMAIN WrittenRows(t) = {WrittenAt(t, j) : j \in Rows(t)}
        /\ WrittenRows(t)[WrittenAt(t, k)]
             = RowOf(CHOOSE j \in Rows(t) : WrittenAt(t, j) = WrittenAt(t, k))
    BY <2>2 DEF WrittenRows
  <2> QED
    BY <2>1, <2>2, <2>3
<1> HIDE DEF from
<1>3. \A k \in Rows(t) : from[k] \in DOMAIN rows /\ rows[from[k]] = RowOf(k)
  BY <1>1, <1>2
<1>4. [k \in DOMAIN from |-> IF from[k] \in DOMAIN rows THEN rows[from[k]] ELSE Garbage]
        = [k \in Rows(t) |-> RowOf(k)]
  BY <1>1, <1>3
<1> QED
  BY <1>1, <1>4 DEF Brings, from

LEMMA CreateTextureInv ==
  ASSUME Inv, NEW t \in Textures, CreateTexture(t)
  PROVE  Inv'
<1> DEFINE full == Place + SubBufferSize(t) > UploadSize
<1> DEFINE memory == "out of memory"
<1> DEFINE inUse == "allocator in use"
<1> DEFINE written == WrittenRows(t)
<1> DEFINE submitted == <<List(<<>>, <<CopyOf(t)>>)>>
<1> DEFINE else ==
      /\ upload' = [offset |-> Place + SubBufferSize(t),
                    rows |-> [a \in DOMAIN upload.rows \cup DOMAIN written |->
                                IF a \in DOMAIN written THEN written[a] ELSE upload.rows[a]]]
      /\ WaitForCurrentFrame(submitted)
      /\ list' = <<>>
      /\ UNCHANGED <<fenceVals, passes, tracked, fence, actual, textures, dxgiVars, broken>>
<1>1. /\ CanGoOn /\ CarefulTexture(t)
      /\ IF full THEN Breaks(memory)
         ELSE IF AllocatorInUse(frameNo) THEN Breaks(inUse) ELSE else
  BY Zenon DEF CreateTexture, WrittenRows, CopyOf
<1>2. pc = "frame" /\ fenceVals[frameNo] < MaxFence
  BY <1>1 DEF CanGoOn
<1>3. Types /\ IsQueue(queue)
  BY DEF Inv, Types
<1>4. CASE full
  <2>1. Breaks(memory)
    BY <1>1, <1>4, Zenon
  <2> QED
    BY <2>1, BreaksInv, Zenon
<1>5. CASE ~full /\ AllocatorInUse(frameNo)
  <2>1. "Present" \in failures
    BY <1>2, <1>3, <1>5, InUseIs DEF Inv, Allocators
  <2>2. Breaks(inUse) /\ inUse \in {"allocator in use", "buffers in use"}
    BY <1>1, <1>5, Zenon
  <2> QED
    BY <2>1, <2>2, BreaksInv, Zenon
<1>6. CASE ~full /\ ~AllocatorInUse(frameNo)
  <2>1. else
    BY <1>1, <1>6, Zenon
  <2> HIDE DEF memory, inUse
  <2>2. /\ upload' = [offset |-> Place + SubBufferSize(t),
                      rows |-> [a \in DOMAIN upload.rows \cup DOMAIN written |->
                                  IF a \in DOMAIN written THEN written[a] ELSE upload.rows[a]]]
        /\ queue' = queue \o submitted \o <<Signal(fenceVals[frameNo])>>
        /\ waiting' = [for |-> fenceVals[frameNo], next |-> fenceVals[frameNo] + 1, pc |-> "frame"]
        /\ pc' = "wait" /\ list' = <<>>
        /\ UNCHANGED <<frameNo, fenceVals, passes, tracked, fence, actual, textures, backBuffer,
                       lag, failures, broken>>
    BY <2>1 DEF WaitForCurrentFrame, dxgiVars
  <2> HIDE DEF else
  <2>3. upload.offset \in Nat
    BY <1>3, D3d12Assumption DEF Types
  <2>4. upload'.offset \in 0 .. UploadSize
    <3>1. PICK a \in Nat : a = Place
      BY <2>3, AlignedIs, D3d12Assumption DEF Place
    <3>2. PICK b \in Nat : b = SubBufferSize(t)
      BY TextureIs
    <3>3. a + b \in 0 .. UploadSize
      BY <1>6, <3>1, <3>2, D3d12Assumption
    <3> QED
      BY <2>2, <3>1, <3>2, <3>3
  <2>5. PICK c : c = CopyOf(t)
    OBVIOUS
  <2>6. Brings(c, upload'.rows)
    <3>1. PICK rows : rows = [a \in DOMAIN upload.rows \cup DOMAIN written |->
                                IF a \in DOMAIN written THEN written[a] ELSE upload.rows[a]]
      OBVIOUS
    <3>2. Brings(CopyOf(t), rows)
      BY <1>1, <2>3, <3>1, CopyBrings
    <3>3. upload'.rows = rows
      BY <2>2, <3>1
    <3> QED
      BY <2>5, <3>2, <3>3
  <2>7. IsSeq(<<c>>) /\ Len(<<c>>) = 1 /\ <<c>>[1] = c
    BY OneIs
  <2>8. frameNo \in Frames /\ backBuffer \in Frames /\ tracked \in StateSet
    BY <1>3 DEF Types
  <2>9. IsCommands(<<>>) /\ Runs(<<>>, tracked, tracked)
    BY <2>8, NoCommands
  <2>10. PICK e : e = List(<<>>, <<c>>)
    OBVIOUS
  <2>11. /\ IsItem(e) /\ e.kind = "list" /\ e.allocator = frameNo /\ e.copies = <<c>>
         /\ Step(e, tracked, tracked)
    BY <2>7, <2>8, <2>9, <2>10, ListIs
  <2>12. PICK s : s = <<e>>
    OBVIOUS
  <2>13. IsSeq(s) /\ Len(s) = 1 /\ s[1] = e /\ Follows(s, tracked, tracked)
    BY <2>8, <2>11, <2>12, OneIs, FollowsOne
  <2>14. \A k \in 1 .. Len(s) : s[k] = e
    BY <2>13
  <2>15. IsQueue(s)
    BY <2>11, <2>13, <2>14 DEF IsQueue
  <2>16. NoSignals(s)
    BY <2>11, <2>14 DEF NoSignals
  <2>17. \A k \in 1 .. Len(s) : s[k].kind = "list" => s[k].allocator = frameNo
    BY <2>11, <2>14
  <2>18. CopiesBring(s, upload'.rows)
    <3>1. \A i \in 1 .. Len(<<c>>) : <<c>>[i] = c
      BY <2>7
    <3> QED
      BY <2>6, <2>11, <2>14, <3>1 DEF CopiesBring
  <2>19. PICK p \in StateSet : Follows(queue, actual, p) /\ tracked = p
    BY <1>2 DEF Inv, Foreseen
  <2>20. queue' = queue \o s \o <<Signal(fenceVals[frameNo])>>
    BY <2>2, <2>5, <2>10, <2>12
  <2>21. UNCHANGED <<fenceVals, fence, actual, failures, tracked>>
    BY <2>2
  <2>22. /\ pc # "wait" /\ pc' = "wait"
         /\ waiting'.for = fenceVals[frameNo'] /\ waiting'.next = fenceVals[frameNo] + 1
         /\ waiting'.for = fenceVals[frameNo] /\ waiting'.pc = "frame"
    BY <1>2, <2>2
  <2>23. Follows(s, p, tracked)
    BY <2>13, <2>19
  <2>24. /\ IsQueue(queue') /\ Values' /\ Allocators' /\ Foreseen'
         /\ \A w \in Int : fenceVals[frameNo] <= w =>
              AllCovered(queue', w) /\ CopiesCovered(queue', w)
         /\ \A rows : CopiesBring(s, rows) => CopiesBring(queue', rows)
    BY <1>2, <2>15, <2>16, <2>17, <2>19, <2>20, <2>21, <2>22, <2>23, SubmitsInv
  <2>25. fenceVals[frameNo] \in Int
    BY <1>3, <2>8, D3d12Assumption DEF Types
  <2>26. AllCovered(queue', waiting'.for) /\ CopiesCovered(queue', waiting'.for)
    BY <2>22, <2>24, <2>25
  <2>27. Types'
    BY <1>3, <2>2, <2>4, <2>9, <2>22, <2>24 DEF Types, PcSet
  <2>28. BuffersFree' /\ Copying'
    BY <2>18, <2>22, <2>24, <2>26 DEF BuffersFree, Copying
  <2>29. Lag' /\ Tracks'
    BY <1>2, <2>2 DEF Inv, Lag, Tracks
  <2>30. RulesKept' /\ TexturesArrive'
    BY <2>2, RulesStay DEF Inv, TexturesArrive
  <2> QED
    BY <2>24, <2>27, <2>28, <2>29, <2>30 DEF Inv
<1> QED
  BY <1>4, <1>5, <1>6

-----------------------------------------------------------------------------
(* The GPU. *)

LEMMA TakenInv ==
  ASSUME Inv, queue # <<>>, queue' = Tail(queue),
         UNCHANGED <<pc, frameNo, fenceVals, waiting, passes, list, tracked, upload, backBuffer, lag,
                     failures, broken>>,
         actual' \in StateSet, IsSeq(textures'), TexturesArrive',
         fence' = (IF Head(queue).kind = "signal" THEN Head(queue).value ELSE fence),
         \A p \in StateSet : Step(Head(queue), actual, p) => actual' = p
  PROVE  Inv'
<1>1. Types /\ IsQueue(queue)
  BY DEF Inv, Types
<1>2. PICK q : q = queue
  OBVIOUS
<1>3. PICK r : r = Tail(q)
  OBVIOUS
<1>4. IsQueue(q) /\ q # <<>> /\ queue' = r
  BY <1>1, <1>2, <1>3
<1>5. /\ IsQueue(r) /\ IsItem(Head(q)) /\ Head(q) = q[1] /\ 1 \in 1 .. Len(q)
      /\ \A from, to : Between(q, from, to) =>
           /\ Between(r, from, to)
           /\ Head(q).kind = "signal" =>
                Between(r, Head(q).value, to) /\ from < Head(q).value /\ Head(q).value < to
      /\ \A vals : AllocatorsCovered(q, vals) => AllocatorsCovered(r, vals)
      /\ \A f : NotAllocatedBy(q, f) => NotAllocatedBy(r, f)
      /\ \A v : AllCovered(q, v) => AllCovered(r, v)
      /\ \A v : CopiesCovered(q, v) => CopiesCovered(r, v)
      /\ OnlySignals(q) => OnlySignals(r)
      /\ CopyFree(q) => CopyFree(r)
      /\ \A rows : CopiesBring(q, rows) => CopiesBring(r, rows)
  BY <1>3, <1>4, Taken
<1>6. fence' \in Int
  BY <1>1, <1>2, <1>5 DEF IsItem, Types
<1>7. Types'
  BY <1>1, <1>4, <1>5, <1>6 DEF Types
<1>8. Values'
  <2>1. NextValue' = NextValue
    BY DEF NextValue
  <2>2. Between(q, fence, NextValue) /\ fence < NextValue
    BY <1>2 DEF Inv, Values
  <2>3. Between(r, fence', NextValue) /\ fence' < NextValue
    BY <1>2, <1>5, <2>2
  <2> QED
    BY <1>4, <2>1, <2>3 DEF Inv, Values
<1>9. Allocators' /\ BuffersFree'
  BY <1>2, <1>4, <1>5 DEF Inv, Allocators, BuffersFree
<1>10. Copying'
  BY <1>2, <1>4, <1>5 DEF Inv, Copying
<1>11. Lag' /\ Tracks'
  BY DEF Inv, Lag, Tracks, OwnBuffer
<1>12. Foreseen'
  <2>1. PICK p \in StateSet : /\ Follows(q, actual, p)
                              /\ IF pc = "record" THEN Runs(list, p, tracked) ELSE tracked = p
    BY <1>2 DEF Inv, Foreseen
  <2>2. PICK s \in StateSet : Step(Head(q), actual, s) /\ Follows(r, s, p)
    BY <1>3, <1>4, <2>1, FollowsTail DEF IsQueue
  <2>3. actual' = s
    BY <1>2, <2>2
  <2> QED
    BY <1>4, <2>1, <2>2, <2>3 DEF Foreseen
<1>13. RulesKept'
  BY RulesStay DEF Inv
<1> QED
  BY <1>7, <1>8, <1>9, <1>10, <1>11, <1>12, <1>13 DEF Inv

LEMMA NextStep ==
  ASSUME Inv, queue # <<>>
  PROVE  /\ IsItem(Head(queue)) /\ actual \in StateSet
         /\ \E s \in StateSet : Step(Head(queue), actual, s)
         /\ Head(queue).kind = "list" =>
              \A i \in 1 .. Len(Head(queue).copies) : Brings(Head(queue).copies[i], upload.rows)
<1>1. IsQueue(queue) /\ IsSeq(queue) /\ actual \in StateSet
  BY DEF Inv, Types, IsQueue
<1>2. Head(queue) = queue[1] /\ Len(queue) \in Nat \ {0}
  BY <1>1, TailIs
<1>3. 1 \in 1 .. Len(queue)
  BY <1>2
<1>4. IsItem(Head(queue))
  BY <1>1, <1>2, <1>3 DEF IsQueue
<1>5. PICK p \in StateSet : Follows(queue, actual, p)
  BY DEF Inv, Foreseen
<1>6. \E s \in StateSet : Step(Head(queue), actual, s)
  BY <1>1, <1>5, FollowsTail
<1>7. CopiesBring(queue, upload.rows)
  BY DEF Inv, Copying
<1> QED
  BY <1>1, <1>2, <1>3, <1>4, <1>6, <1>7 DEF CopiesBring

LEMMA GpuListInv ==
  ASSUME Inv, GpuList
  PROVE  Inv'
<1> DEFINE cs == Head(queue).commands
<1> DEFINE copies == Head(queue).copies
<1> DEFINE why == "wrong state"
<1> DEFINE else ==
      /\ actual' = [t \in Targets |-> StateAfter(actual, cs, Len(cs), t)]
      /\ textures' = textures \o [k \in DOMAIN copies |-> Copied(copies[k])]
      /\ queue' = Tail(queue)
      /\ UNCHANGED <<loopVars, upload, fence, dxgiVars, broken>>
<1>1. /\ queue # <<>> /\ Head(queue).kind = "list"
      /\ IF ~FindsItsStates(actual, cs) THEN Breaks(why) ELSE else
  BY Zenon DEF GpuList
<1> HIDE DEF why
<1>2. IsCommands(cs) /\ IsSeq(copies) /\ actual \in StateSet
  BY <1>1, NextStep DEF IsItem
<1>3. \A p : Step(Head(queue), actual, p) => Runs(cs, actual, p)
  BY <1>1 DEF Step
<1> HIDE DEF cs
<1>4. \A p : Step(Head(queue), actual, p) =>
        /\ FindsItsStates(actual, cs) /\ p \in StateSet
        /\ [t \in Targets |-> StateAfter(actual, cs, Len(cs), t)] = p
  <2> TAKE p
  <2> HAVE Step(Head(queue), actual, p)
  <2>1. PICK a : a = actual
    OBVIOUS
  <2>2. a \in StateSet /\ Runs(cs, a, p)
    BY <1>2, <1>3, <2>1
  <2>3. FindsItsStates(a, cs) /\ p \in StateSet /\ [t \in Targets |-> StateAfter(a, cs, Len(cs), t)] = p
    BY <1>2, <2>2, RunsAfter
  <2> QED
    BY <2>1, <2>3
<1>5. PICK s \in StateSet : Step(Head(queue), actual, s)
  BY <1>1, NextStep
<1>6. else
  <2>1. FindsItsStates(actual, cs)
    BY <1>4, <1>5
  <2> HIDE DEF else
  <2> QED
    BY <1>1, <2>1
<1>7. \A p \in StateSet : Step(Head(queue), actual, p) => actual' = p
  BY <1>4, <1>6
<1>8. actual' \in StateSet
  BY <1>5, <1>7
<1> DEFINE new == [k \in DOMAIN copies |-> Copied(copies[k])]
<1>9. /\ IsSeq(new) /\ DOMAIN new = 1 .. Len(copies) /\ Len(new) = Len(copies)
      /\ Len(copies) \in Nat /\ \A k \in 1 .. Len(copies) : new[k] = Copied(copies[k])
  <2> HIDE DEF copies
  <2>1. Len(copies) \in Nat /\ DOMAIN copies = 1 .. Len(copies)
    BY <1>2, IsSeqLen
  <2>2. /\ DOMAIN new = 1 .. Len(copies) /\ new = [k \in 1 .. Len(copies) |-> new[k]]
        /\ \A k \in 1 .. Len(copies) : new[k] = Copied(copies[k])
    BY <2>1
  <2> HIDE DEF new
  <2> QED
    BY <2>1, <2>2, FunctionIs
<1>10. \A k \in 1 .. Len(copies) : new[k].got = new[k].asked
  <2> TAKE k \in 1 .. Len(copies)
  <2>1. Brings(copies[k], upload.rows)
    BY <1>1, NextStep
  <2> HIDE DEF copies
  <2>2. Copied(copies[k]).got = copies[k].asked /\ Copied(copies[k]).asked = copies[k].asked
    BY <2>1 DEF Brings, Copied
  <2> HIDE DEF new
  <2> QED
    BY <1>9, <2>2
<1> HIDE DEF new
<1>11. IsSeq(textures)
  BY DEF Inv, Types
<1>12. /\ IsSeq(textures \o new) /\ Len(textures \o new) = Len(textures) + Len(new)
       /\ \A k \in 1 .. Len(textures) : (textures \o new)[k] = textures[k]
       /\ \A k \in 1 .. Len(new) : (textures \o new)[Len(textures) + k] = new[k]
  BY <1>9, <1>11, ConcatIs
<1>13. textures' = textures \o new
  BY <1>6 DEF new
<1> DEFINE m == Len(textures)
<1> DEFINE n == Len(copies)
<1>14. /\ m \in Nat /\ n \in Nat /\ DOMAIN textures = 1 .. m /\ DOMAIN textures' = 1 .. m + n
       /\ \A k \in 1 .. m : textures'[k] = textures[k]
       /\ \A k \in 1 .. n : textures'[m + k] = new[k]
       /\ \A k \in 1 .. n : new[k].got = new[k].asked
  <2>1. m \in Nat /\ DOMAIN textures = 1 .. m
    BY <1>11, IsSeqLen
  <2>2. DOMAIN (textures \o new) = 1 .. m + n
    BY <1>9, <1>12, IsSeqLen
  <2> QED
    BY <1>9, <1>10, <1>12, <1>13, <2>1, <2>2
<1> HIDE DEF m, n
<1>15. TexturesArrive'
  <2> SUFFICES ASSUME NEW k \in 1 .. m + n
               PROVE  textures'[k].got = textures'[k].asked
    BY <1>14 DEF TexturesArrive
  <2>1. CASE k \in 1 .. m
    BY <1>14, <2>1 DEF Inv, TexturesArrive
  <2>2. CASE k \notin 1 .. m
    <3>1. k - m \in 1 .. n /\ m + (k - m) = k
      BY <1>14, <2>2
    <3> QED
      BY <1>14, <3>1
  <2> QED
    BY <2>1, <2>2
<1>16. IsSeq(textures')
  BY <1>12, <1>13
<1>17. /\ queue' = Tail(queue) /\ fence' = (IF Head(queue).kind = "signal" THEN Head(queue).value ELSE fence)
       /\ UNCHANGED <<pc, frameNo, fenceVals, waiting, passes, list, tracked, upload, backBuffer, lag,
                      failures, broken>>
  BY <1>1, <1>6 DEF loopVars, dxgiVars
<1> QED
  BY <1>1, <1>7, <1>8, <1>15, <1>16, <1>17, TakenInv

LEMMA GpuPresentInv ==
  ASSUME Inv, GpuPresent
  PROVE  Inv'
<1> DEFINE why == "wrong state"
<1> DEFINE else == /\ queue' = Tail(queue)
                   /\ UNCHANGED <<loopVars, upload, fence, actual, textures, dxgiVars, broken>>
<1>1. /\ queue # <<>> /\ Head(queue).kind = "present"
      /\ IF actual[<<"buffer", Head(queue).buffer>>] # "present" THEN Breaks(why) ELSE else
  BY Zenon DEF GpuPresent
<1> HIDE DEF why
<1>2. /\ \A p : Step(Head(queue), actual, p) =>
           p = actual /\ actual[<<"buffer", Head(queue).buffer>>] = "present"
  BY <1>1 DEF Step
<1>3. PICK s \in StateSet : Step(Head(queue), actual, s)
  BY <1>1, NextStep
<1>4. else
  <2>1. actual[<<"buffer", Head(queue).buffer>>] = "present"
    BY <1>2, <1>3
  <2> HIDE DEF else
  <2> QED
    BY <1>1, <2>1
<1>5. actual' = actual /\ actual \in StateSet /\ textures' = textures
  BY <1>1, <1>4, NextStep
<1>6. \A p \in StateSet : Step(Head(queue), actual, p) => actual' = p
  BY <1>2, <1>5
<1>7. IsSeq(textures') /\ TexturesArrive'
  BY <1>5 DEF Inv, Types, TexturesArrive
<1>8. /\ queue' = Tail(queue) /\ fence' = (IF Head(queue).kind = "signal" THEN Head(queue).value ELSE fence)
      /\ UNCHANGED <<pc, frameNo, fenceVals, waiting, passes, list, tracked, upload, backBuffer, lag,
                     failures, broken>>
  BY <1>1, <1>4 DEF loopVars, dxgiVars
<1> QED
  BY <1>1, <1>5, <1>6, <1>7, <1>8, TakenInv

LEMMA GpuSignalInv ==
  ASSUME Inv, GpuSignal
  PROVE  Inv'
<1>1. /\ queue # <<>> /\ Head(queue).kind = "signal"
      /\ fence' = Head(queue).value /\ queue' = Tail(queue)
      /\ UNCHANGED <<pc, frameNo, fenceVals, waiting, passes, list, tracked, upload, backBuffer, lag,
                     failures, broken, actual, textures>>
  BY DEF GpuSignal, loopVars, dxgiVars
<1>2. \A p \in StateSet : Step(Head(queue), actual, p) => actual' = p
  BY <1>1 DEF Step
<1>3. IsSeq(textures') /\ TexturesArrive'
  BY <1>1 DEF Inv, Types, TexturesArrive
<1>4. actual' \in StateSet
  BY <1>1, NextStep
<1>5. fence' = (IF Head(queue).kind = "signal" THEN Head(queue).value ELSE fence)
  BY <1>1
<1> QED
  BY <1>1, <1>2, <1>3, <1>4, <1>5, TakenInv

-----------------------------------------------------------------------------

LEMMA NextInv ==
  ASSUME Inv, [Next]_vars
  PROVE  Inv'
<1>1. CASE CmdBegin
  BY <1>1, CmdBeginInv
<1>2. CASE DrawPass
  BY <1>2, DrawPassInv
<1>3. CASE CmdEnd
  BY <1>3, CmdEndInv
<1>4. CASE PresentFails
  BY <1>4, PresentFailsInv
<1>5. CASE WaitEnds
  BY <1>5, WaitEndsInv
<1>6. CASE OnResized
  BY <1>6, OnResizedInv
<1>7. CASE ResizeBuffers
  BY <1>7, ResizeBuffersInv
<1>8. CASE ResizeFails
  BY <1>8, ResizeFailsInv
<1>9. ASSUME NEW t \in Textures, CreateTexture(t)
      PROVE  Inv'
  BY <1>9, CreateTextureInv
<1>10. CASE GpuList
  BY <1>10, GpuListInv
<1>11. CASE GpuPresent
  BY <1>11, GpuPresentInv
<1>12. CASE GpuSignal
  BY <1>12, GpuSignalInv
<1>13. CASE WindowChanges
  <2>1. /\ UNCHANGED <<loopVars, upload, gpuVars, backBuffer, lag, failures>> /\ broken' = broken
        /\ failures' = failures
    BY <1>13 DEF WindowChanges
  <2>2. RulesKept'
    BY <2>1, RulesStay DEF Inv
  <2> QED
    BY <2>1, <2>2, SameInv
<1>14. CASE UNCHANGED vars
  <2>1. /\ UNCHANGED <<loopVars, upload, gpuVars, backBuffer, lag, failures>> /\ broken' = broken
        /\ failures' = failures
    BY <1>14 DEF vars, dxgiVars
  <2>2. RulesKept'
    BY <2>1, RulesStay DEF Inv
  <2> QED
    BY <2>1, <2>2, SameInv
<1> QED
  BY <1>1, <1>2, <1>3, <1>4, <1>5, <1>6, <1>7, <1>8, <1>9, <1>10, <1>11, <1>12, <1>13, <1>14
     DEF Next, Loop, Handler, Gpu

(* The inductive invariant holds throughout.                               *)
THEOREM Invariance == Spec => []Inv
<1>1. Init => Inv
  BY InitInv
<1>2. Inv /\ [Next]_vars => Inv'
  BY NextInv
<1> QED
  BY <1>1, <1>2, PTL DEF Spec

(* The values signaled on the fence grow, and between frames every buffer  *)
(* is taken to be in the state that Present needs, whatever the frames     *)
(* draw and whenever the window is resized (d3d12.cpp, move_to_next_frame_ *)
(* and wait_for_back_frame_).                                              *)
THEOREM StaysWellFormed == Spec => []WellFormed
<1>1. Inv => WellFormed
  BY InvWorks
<1> QED
  BY <1>1, Invariance, PTL

(* As long as Present and ResizeBuffers succeed, no allocator is reset and *)
(* no buffer replaced while the GPU uses it, and every barrier, draw call  *)
(* and Present finds its target in the state the program tracks.           *)
THEOREM KeepsTheRules == Spec => []RulesKept
<1>1. Inv => RulesKept
  BY InvWorks
<1> QED
  BY <1>1, Invariance, PTL

(* After ResizeBuffers at most one frame is drawn to another buffer than   *)
(* the one that is presented.                                              *)
THEOREM LagsNoFurther == Spec => []LagsOnce
<1>1. Inv => LagsOnce
  BY InvWorks
<1> QED
  BY <1>1, Invariance, PTL

(* Every texture gets the rows it was created from: the GPU reads each row *)
(* where create_texture wrote it, for every pitch and number of rows, and  *)
(* for a cube whose pitch needs no padding.                                *)
THEOREM AllArrive == Spec => []TexturesArrive
<1>1. Inv => TexturesArrive
  BY InvWorks
<1> QED
  BY <1>1, Invariance, PTL
====
