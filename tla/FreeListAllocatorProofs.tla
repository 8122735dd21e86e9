------------------------ MODULE FreeListAllocatorProofs ------------------------
(***************************************************************************)
(* Proofs about FreeListAllocator, for any region of at least two words,   *)
(* any sizes, alignments and number of blocks: the memory between two      *)
(* calls is well-formed, contents stay, and what a realloc that fails has  *)
(* freed is as it was.                                                     *)
(*                                                                         *)
(* WellFormed is not inductive: it says nothing of the headers, and free   *)
(* leaves a block whose size says 0, which only the words it was allocated *)
(* with keep out of the way of others.  Inv speaks of the set F of the     *)
(* free blocks instead of the chain: each links to the next greater one    *)
(* (IsList), each has the words of its size and no fewer than Least to     *)
(* itself (Feet), headers agree with what callers hold and the words carry *)
(* the callers' marks (Blocks), and all of these are Apart.  m_used_size   *)
(* is the number of words taken (Good).  The operations are made of a few  *)
(* moves with a lemma each: a block taken out (HeldIs), its words added to *)
(* the list (Adding), a free block handed out (Placing), the end of a      *)
(* block cut off (CutGood).                                                *)
(***************************************************************************)
EXTENDS FreeListAllocator, FiniteSetTheorems, WellFoundedInduction, TLAPS

USE FreeListAssumption

-----------------------------------------------------------------------------
(* Numbers. *)

(* Every nonempty set of naturals has a least element. *)
LEMMA LeastNatural ==
  ASSUME NEW S, S \subseteq Nat, S # {}
  PROVE  \E n \in S : \A m \in S : n <= m
<1> DEFINE R == OpToRel(<, Nat)
<1>1. IsWellFoundedOn(R, Nat)
  BY NatLessThanWellFounded
<1>2. \A x, y \in Nat : y < x => <<y, x>> \in R
  BY DEF OpToRel
<1> HIDE DEF R
<1>3. PICK n \in S : \A m \in S : <<m, n>> \notin R
  BY <1>1, WFMin
<1>4. \A m \in S : ~(m < n)
  BY <1>2, <1>3
<1> QED
  BY <1>3, <1>4

(* A nonempty set of naturals up to some other has a greatest element. *)
LEMMA GreatestNatural ==
  ASSUME NEW n \in Nat, NEW S, S \subseteq 0 .. n, S # {}
  PROVE  \E m \in S : \A k \in S : k <= m
<1> DEFINE Rest == {n - k : k \in S}
<1>1. Rest \subseteq Nat /\ Rest # {}
  <2>1. \A k \in S : n - k \in Nat
    OBVIOUS
  <2> QED
    BY <2>1
<1> HIDE DEF Rest
<1>2. PICK r \in Rest : \A q \in Rest : r <= q
  BY <1>1, LeastNatural
<1>3. PICK m \in S : r = n - m
  BY DEF Rest
<1>4. ASSUME NEW k \in S
      PROVE  k <= m
  <2>1. n - k \in Rest
    BY DEF Rest
  <2>2. n - m <= n - k
    BY <1>2, <1>3, <2>1
  <2> QED
    BY <2>2
<1> QED
  BY <1>4

(* Aligning moves a pointer forward, behind the header. *)
LEMMA PointerBounds ==
  ASSUME NEW b \in Nat, NEW a \in Nat \ {0}
  PROVE  PointerIn(b, a) \in Nat /\ b + HeaderSize <= PointerIn(b, a)
<1> DEFINE x == b + HeaderSize + a - 1
<1>1. x \in Nat
  BY DEF HeaderSize
<1> HIDE DEF x
<1>2. x \div a \in Nat /\ x % a \in 0 .. a - 1 /\ x = (x \div a) * a + (x % a)
  BY <1>1
<1>3. PointerIn(b, a) = (x \div a) * a
  BY DEF PointerIn, x
<1> DEFINE q == (x \div a) * a
<1>4. q \in Nat
  BY <1>2
<1>5. x = q + (x % a)
  BY <1>2
<1> HIDE DEF q
<1>6. x < q + a
  BY <1>1, <1>2, <1>4, <1>5
<1>7. PointerIn(b, a) = q
  BY <1>3 DEF q
<1> QED
  BY <1>4, <1>6, <1>7 DEF x, HeaderSize

-----------------------------------------------------------------------------
(* The words. *)

StateSet == [mem : [Heap -> Int], first : Int, used : Int]

(* The two words of a free block written. *)
LEMMA SetFreeIs ==
  ASSUME NEW s \in StateSet, NEW b \in Heap, b + 1 \in Heap, NEW size \in Int, NEW next \in Int,
         NEW t, t = SetFree(s, b, size, next)
  PROVE  /\ t \in StateSet /\ t.first = s.first /\ t.used = s.used
         /\ t.mem[b] = size /\ t.mem[b + 1] = next
         /\ \A w \in Heap \ {b, b + 1} : t.mem[w] = s.mem[w]
<1>0. s.mem \in [Heap -> Int] /\ s.first \in Int /\ s.used \in Int /\ b \in Int /\ b # b + 1
  BY DEF StateSet, Heap
<1> DEFINE m == [s.mem EXCEPT ![b] = size]
           n == [m EXCEPT ![b + 1] = next]
<1>1. m \in [Heap -> Int] /\ m[b] = size /\ \A w \in Heap \ {b} : m[w] = s.mem[w]
  BY <1>0
<1>2. n \in [Heap -> Int] /\ n[b + 1] = next /\ \A w \in Heap \ {b + 1} : n[w] = m[w]
  <2> HIDE DEF m
  <2> QED
    BY <1>0, <1>1
<1>3. t = [s EXCEPT !.mem = n]
  BY DEF SetFree, StateSet
<1> HIDE DEF m, n
<1>4. t.mem = n /\ t.first = s.first /\ t.used = s.used /\ t \in StateSet
  BY <1>0, <1>2, <1>3 DEF StateSet
<1> QED
  BY <1>0, <1>1, <1>2, <1>4

(* The link just written is what is read there. *)
LEMMA SetFreeNext ==
  ASSUME NEW s \in StateSet, NEW b \in Heap, b + 1 \in Heap, NEW size \in Int, NEW next \in Int
  PROVE  NextOf(SetFree(s, b, size, next), b) = next
<1>1. PICK t : t = SetFree(s, b, size, next)
  OBVIOUS
<1>2. t.mem[b + 1] = next
  BY <1>1, SetFreeIs
<1> QED
  BY <1>1, <1>2 DEF NextOf

(* link_separated_blocks_ writes one word, or the head of the list. *)
LEMMA LinkIs ==
  ASSUME NEW s \in StateSet, NEW b \in Heap \cup {Null}, b # Null => b + 1 \in Heap, NEW next \in Int,
         NEW t, t = Link(s, b, next)
  PROVE  /\ t \in StateSet /\ t.used = s.used
         /\ b = Null => t.first = next /\ t.mem = s.mem
         /\ b # Null => /\ t.first = s.first /\ t.mem[b + 1] = next
                        /\ \A w \in Heap \ {b + 1} : t.mem[w] = s.mem[w]
BY DEF StateSet, Link, SetNext, Heap

(* The three words of a header written. *)
LEMMA SetHeaderIs ==
  ASSUME NEW s \in StateSet, NEW p \in Heap, p - 3 \in Heap,
         NEW start \in Int, NEW size \in Int, NEW a \in Int,
         NEW t, t = SetHeader(s, p, start, size, a)
  PROVE  /\ t \in StateSet /\ t.first = s.first /\ t.used = s.used
         /\ Start(t, p) = start /\ Held(t, p) = size /\ Alignment(t, p) = a
         /\ \A w \in Heap : w < p - 3 \/ p <= w => t.mem[w] = s.mem[w]
<1>0. /\ s.mem \in [Heap -> Int] /\ s.first \in Int /\ s.used \in Int
      /\ p \in Int /\ p - 2 \in Heap /\ p - 1 \in Heap
  BY DEF StateSet, Heap
<1> DEFINE m == [s.mem EXCEPT ![p - 3] = start]
           n == [m EXCEPT ![p - 2] = size]
           o == [n EXCEPT ![p - 1] = a]
<1>1. m \in [Heap -> Int] /\ m[p - 3] = start /\ \A w \in Heap \ {p - 3} : m[w] = s.mem[w]
  BY <1>0
<1>2. n \in [Heap -> Int] /\ n[p - 2] = size /\ \A w \in Heap \ {p - 2} : n[w] = m[w]
  <2> HIDE DEF m
  <2> QED
    BY <1>0, <1>1
<1>3. o \in [Heap -> Int] /\ o[p - 1] = a /\ \A w \in Heap \ {p - 1} : o[w] = n[w]
  <2> HIDE DEF n
  <2> QED
    BY <1>0, <1>2
<1>4. t = [s EXCEPT !.mem = o]
  BY DEF SetHeader, StateSet
<1> HIDE DEF m, n, o
<1>5. t.mem = o /\ t.first = s.first /\ t.used = s.used /\ t \in StateSet
  BY <1>0, <1>3, <1>4 DEF StateSet
<1>6. o[p - 2] = size /\ o[p - 3] = start
  <2>1. p - 2 # p - 1 /\ p - 3 # p - 1 /\ p - 3 # p - 2
    BY <1>0
  <2> QED
    BY <1>0, <1>1, <1>2, <1>3, <2>1
<1>7. \A w \in Heap : w < p - 3 \/ p <= w => o[w] = s.mem[w]
  <2>1. \A w \in Heap : w < p - 3 \/ p <= w => w # p - 1 /\ w # p - 2 /\ w # p - 3
    BY <1>0 DEF Heap
  <2> QED
    BY <1>1, <1>2, <1>3, <2>1
<1> QED
  BY <1>3, <1>5, <1>6, <1>7 DEF Start, Held, Alignment

(* The caller writes its mark into the words it is given. *)
LEMMA FillIs ==
  ASSUME NEW s \in StateSet, NEW p \in Int, NEW old \in Int, NEW size \in Int, NEW h \in Handles,
         NEW t, t = Fill(s, p, old, size, h)
  PROVE  /\ t \in StateSet /\ t.first = s.first /\ t.used = s.used
         /\ \A w \in Heap : t.mem[w] = IF p + old <= w /\ w < p + size THEN h ELSE s.mem[w]
<1>1. h \in Int
  OBVIOUS
<1> DEFINE m == [w \in Heap |-> IF w \in p + old .. p + size - 1 THEN h ELSE s.mem[w]]
<1>2. m \in [Heap -> Int]
  BY <1>1 DEF StateSet
<1>3. \A w \in Heap : m[w] = IF p + old <= w /\ w < p + size THEN h ELSE s.mem[w]
  BY DEF Heap
<1>4. t = [s EXCEPT !.mem = m]
  BY DEF Fill
<1> HIDE DEF m
<1> QED
  BY <1>2, <1>3, <1>4 DEF StateSet

(* It is in the memory only. *)
LEMMA FillStays ==
  ASSUME NEW s \in StateSet, NEW p \in Int, NEW old \in Int, NEW size \in Int, NEW h \in Handles,
         NEW t, t = Fill(s, p, old, size, h)
  PROVE  t \in StateSet /\ t.first = s.first /\ t.used = s.used
BY FillIs

-----------------------------------------------------------------------------
(* The list.                                                               *)

(* The least a block leaves of the memory, whatever its size says.         *)
Least == IF Words > HeaderSize THEN HeaderSize + 1 ELSE Words
FootEnd(s, b) == b + (IF SizeOf(s, b) > Least THEN SizeOf(s, b) ELSE Least)

(* y is the element of F behind x, Null when there is none.                *)
IsNext(F, x, y) ==
  \/ y = Null /\ \A c \in F : c <= x
  \/ y \in F /\ x < y /\ \A c \in F : c <= x \/ y <= c

(* The link behind a free block, the head of the list behind Null.         *)
LinkOf(s, x) == IF x = Null THEN s.first ELSE NextOf(s, x)

(* The free blocks are F: each links to the next of them, and none is in   *)
(* another's way.                                                          *)
IsList(s, F) == F \subseteq Heap /\ \A x \in F \cup {Null} : IsNext(F, x, LinkOf(s, x))
Feet(s, F) ==
  \A b \in F : /\ SizeOf(s, b) \in Nat
               /\ FootEnd(s, b) <= Base + Words
               /\ \A c \in F : b < c => FootEnd(s, b) <= c

(* MaxFree is enough: that many blocks and one more do not fit in the      *)
(* memory.                                                                 *)
LEMMA LeastIs ==
  /\ Least \in {2, 3, 4} /\ Least <= Words
  /\ MaxFree \in Nat \ {0} /\ Least * (MaxFree + 1) > Words
<1>1. Words \in Nat /\ Words >= 2
  OBVIOUS
<1>2. Least \in {2, 3, 4} /\ Least <= Words /\ (Least = 4 \/ Least = Words)
  BY <1>1 DEF Least, HeaderSize
<1>3. MaxFree \in Nat \ {0} /\ 4 * MaxFree > Words
  BY <1>1 DEF MaxFree, HeaderSize
<1>4. CASE Least = 4
  BY <1>1, <1>2, <1>3, <1>4
<1>5. CASE Least = Words
  <2>1. Words \in {2, 3, 4}
    BY <1>2, <1>5
  <2> QED
    BY <1>2, <1>3, <1>5, <2>1
<1> QED
  BY <1>2, <1>3, <1>4, <1>5

(* What FreeAt is defined to be, up to any n. *)
Chain(at, s, n) ==
  at = [i \in 0 .. n |-> IF i = 0 THEN s.first
                         ELSE LET b == at[i - 1] IN IF b = Null THEN Null ELSE NextOf(s, b)]

(* There is such a function for every n. *)
LEMMA ChainExists ==
  ASSUME NEW s, NEW n \in Nat
  PROVE  \E at : Chain(at, s, n)
<1> DEFINE Without == {m \in Nat : ~ \E at : Chain(at, s, m)}
<1> SUFFICES ASSUME Without # {}
             PROVE  FALSE
  OBVIOUS
<1>1. PICK m \in Without : \A k \in Without : m <= k
  <2> HIDE DEF Without
  <2>1. Without \subseteq Nat
    BY DEF Without
  <2> QED
    BY <2>1, LeastNatural
<1>2. m \in Nat /\ ~ \E at : Chain(at, s, m)
  OBVIOUS
<1>3. m # 0
  <2> DEFINE z == [i \in 0 .. 0 |-> s.first]
  <2>1. z = [i \in 0 .. 0 |-> IF i = 0 THEN s.first
                              ELSE LET b == z[i - 1] IN IF b = Null THEN Null ELSE NextOf(s, b)]
    OBVIOUS
  <2>2. Chain(z, s, 0)
    BY <2>1, Zenon DEF Chain
  <2> QED
    BY <1>2, <2>2
<1>4. m - 1 \in Nat /\ m - 1 \notin Without
  BY <1>1, <1>2, <1>3
<1>5. PICK v : Chain(v, s, m - 1)
  BY <1>4
<1> DEFINE Behind(u, i) == IF i = 0 THEN s.first
                           ELSE LET b == u[i - 1] IN IF b = Null THEN Null ELSE NextOf(s, b)
           w == [i \in 0 .. m |-> Behind(v, i)]
<1>6. ASSUME NEW i \in 0 .. m - 1
      PROVE  w[i] = v[i]
  <2>1. i \in 0 .. m
    BY <1>2
  <2>2. w[i] = Behind(v, i)
    BY <2>1, Zenon
  <2>3. v[i] = Behind(v, i)
    BY <1>5, Zenon DEF Chain
  <2> HIDE DEF w, Behind
  <2> QED
    BY <2>2, <2>3, Zenon
<1>7. \A i \in 0 .. m : Behind(v, i) = Behind(w, i)
  <2> TAKE i \in 0 .. m
  <2>1. CASE i = 0
    BY <2>1
  <2>2. CASE i # 0
    <3>1. i - 1 \in 0 .. m - 1
      BY <1>2, <2>2
    <3>2. w[i - 1] = v[i - 1]
      BY <1>6, <3>1
    <3> HIDE DEF w
    <3> QED
      BY <3>2, Zenon
  <2> QED
    BY <2>1, <2>2
<1>8. w = [i \in 0 .. m |-> Behind(w, i)]
  BY <1>7, Zenon
<1>9. Chain(w, s, m)
  <2>1. \A u : u = [i \in 0 .. m |-> Behind(u, i)] => Chain(u, s, m)
    BY Zenon DEF Chain
  <2> HIDE DEF w
  <2> QED
    BY <1>8, <2>1, Zenon
<1> QED
  BY <1>2, <1>9

(* The chain is followed link by link. *)
LEMMA FreeAtIs ==
  ASSUME NEW s, NEW at, at = FreeAt(s)
  PROVE  /\ DOMAIN at = 0 .. MaxFree
         /\ at[0] = s.first
         /\ \A n \in 1 .. MaxFree : at[n] = IF at[n - 1] = Null THEN Null ELSE NextOf(s, at[n - 1])
<1> DEFINE u == CHOOSE v : Chain(v, s, MaxFree)
<1>1. Chain(u, s, MaxFree)
  <2>1. \E v : Chain(v, s, MaxFree)
    BY ChainExists, LeastIs
  <2> QED
    BY <2>1
<1>2. u = FreeAt(s)
  BY Zenon DEF Chain, FreeAt
<1>3. Chain(at, s, MaxFree)
  BY <1>1, <1>2
<1> DEFINE Behind(i) == IF i = 0 THEN s.first
                        ELSE LET b == at[i - 1] IN IF b = Null THEN Null ELSE NextOf(s, b)
<1>4. at = [i \in 0 .. MaxFree |-> Behind(i)]
  BY <1>3, Zenon DEF Chain
<1>5. \A i \in 0 .. MaxFree : at[i] = Behind(i)
  BY <1>4, Zenon
<1>6. 0 \in 0 .. MaxFree /\ \A n \in 1 .. MaxFree : n \in 0 .. MaxFree /\ n # 0
  BY LeastIs
<1> QED
  BY <1>4, <1>5, <1>6, Zenon

(* A free block and the next words it takes are in the memory. *)
LEMMA FootIs ==
  ASSUME NEW s \in StateSet, NEW F, IsList(s, F), Feet(s, F), NEW b \in F
  PROVE  /\ b \in Heap /\ b + 1 \in Heap /\ b # Null /\ b \in Nat /\ Base <= b
         /\ SizeOf(s, b) \in Nat /\ FootEnd(s, b) \in Nat
         /\ b + 2 <= FootEnd(s, b) /\ b + Least <= FootEnd(s, b)
         /\ b + SizeOf(s, b) <= FootEnd(s, b) /\ FootEnd(s, b) <= Base + Words
         /\ SizeOf(s, b) >= Least => FootEnd(s, b) = b + SizeOf(s, b)
         /\ NextOf(s, b) \in Int /\ LinkOf(s, b) = NextOf(s, b)
<1>1. b \in Heap /\ b \in Nat /\ Base <= b /\ b # Null
  BY DEF IsList, Heap, Null
<1>2. SizeOf(s, b) \in Nat /\ FootEnd(s, b) <= Base + Words
  BY DEF Feet
<1>3. /\ FootEnd(s, b) \in Nat /\ b + Least <= FootEnd(s, b) /\ b + SizeOf(s, b) <= FootEnd(s, b)
      /\ SizeOf(s, b) >= Least => FootEnd(s, b) = b + SizeOf(s, b)
  BY <1>1, <1>2, LeastIs DEF FootEnd
<1>4. b + 2 <= FootEnd(s, b)
  BY <1>1, <1>3, LeastIs
<1>5. b + 1 \in Heap
  BY <1>1, <1>2, <1>3, <1>4 DEF Heap
<1>6. NextOf(s, b) \in Int /\ LinkOf(s, b) = NextOf(s, b)
  BY <1>1, <1>5 DEF NextOf, LinkOf, StateSet
<1> QED
  BY <1>1, <1>2, <1>3, <1>4, <1>5, <1>6

(* Following the links from the head finds exactly the blocks of the list, *)
(* in their order, and ends where FreeAt does.                             *)
LEMMA ListIs ==
  ASSUME NEW s \in StateSet, NEW F, IsList(s, F), Feet(s, F), NEW at, at = FreeAt(s)
  PROVE  /\ FreeBlocks(s) = F
         /\ at[MaxFree] = Null
         /\ \A n \in 1 .. MaxFree : at[n] # Null => at[n - 1] < at[n]
<1>1. /\ at[0] = s.first
      /\ \A n \in 1 .. MaxFree : at[n] = IF at[n - 1] = Null THEN Null ELSE NextOf(s, at[n - 1])
  BY FreeAtIs
<1>2. /\ at[0] = LinkOf(s, Null)
      /\ \A n \in 1 .. MaxFree :
           at[n] = IF at[n - 1] = Null THEN Null ELSE LinkOf(s, at[n - 1])
  BY <1>1 DEF LinkOf
<1>3. \A x \in F \cup {Null} : IsNext(F, x, LinkOf(s, x))
  BY DEF IsList
<1>4. \A b \in F : b \in Nat /\ b # Null /\ Base <= b
  BY FootIs
<1> DEFINE Fine(n) == at[n] = Null \/ (at[n] \in F /\ Base + Least * n <= at[n])
<1>5. \A n \in 0 .. MaxFree : Fine(n)
  <2> DEFINE Bad == {n \in 0 .. MaxFree : ~Fine(n)}
  <2> SUFFICES ASSUME Bad # {}
               PROVE  FALSE
    OBVIOUS
  <2>1. PICK n \in Bad : \A k \in Bad : n <= k
    <3>1. Bad \subseteq Nat
      BY LeastIs
    <3> HIDE DEF Bad
    <3> QED
      BY <3>1, LeastNatural
  <2>2. n \in 0 .. MaxFree /\ ~Fine(n)
    OBVIOUS
  <2>3. n # 0
    <3>1. ASSUME n = 0 PROVE FALSE
      <4>1. IsNext(F, Null, at[0])
        BY <1>2, <1>3
      <4>2. at[0] = Null \/ at[0] \in F
        BY <4>1 DEF IsNext
      <4>3. Least * 0 = 0
        BY LeastIs
      <4>4. at[0] \in F => Base + Least * 0 <= at[0]
        BY <1>4, <4>3
      <4> QED
        BY <2>2, <3>1, <4>2, <4>4
    <3> QED
      BY <3>1
  <2>4. n - 1 \in 0 .. MaxFree /\ n \in 1 .. MaxFree /\ ~(n <= n - 1)
    BY <2>2, <2>3, LeastIs
  <2>5. Fine(n - 1)
    BY <2>1, <2>4
  <2>6. CASE at[n - 1] = Null
    BY <1>2, <2>2, <2>4, <2>6
  <2>7. CASE at[n - 1] # Null
    <3>1. PICK x \in F : x = at[n - 1] /\ Base + Least * (n - 1) <= x
      BY <2>5, <2>7
    <3>2. PICK y : y = at[n] /\ y = LinkOf(s, x)
      BY <1>2, <2>4, <2>7, <3>1
    <3>3. IsNext(F, x, y)
      BY <1>3, <3>1, <3>2
    <3>4. y # Null
      BY <2>2, <3>2
    <3>5. y \in F /\ x < y
      BY <3>3, <3>4 DEF IsNext
    <3>6. FootEnd(s, x) <= y
      BY <3>5 DEF Feet
    <3>7. x + Least <= y
      BY <1>4, <3>1, <3>5, <3>6, FootIs, LeastIs
    <3>8. Least * n = Least * (n - 1) + Least /\ Least * (n - 1) \in Nat
      BY LeastIs, <2>4
    <3>9. Base + Least * n <= y
      BY <1>4, <3>1, <3>5, <3>7, <3>8, LeastIs
    <3> QED
      BY <2>2, <3>2, <3>5, <3>9
  <2> QED
    BY <2>6, <2>7
<1>6. at[MaxFree] = Null
  <2> SUFFICES ASSUME at[MaxFree] # Null
               PROVE  FALSE
    OBVIOUS
  <2>1. PICK y \in F : y = at[MaxFree] /\ Base + Least * MaxFree <= y
    <3>1. MaxFree \in 0 .. MaxFree
      BY LeastIs
    <3> QED
      BY <1>5, <3>1
  <2>2. y + Least <= Base + Words
    BY <1>4, <2>1, FootIs, LeastIs
  <2>3. Least * (MaxFree + 1) = Least * MaxFree + Least /\ Least * MaxFree \in Nat
    BY LeastIs
  <2> QED
    BY <1>4, <2>1, <2>2, <2>3, LeastIs
<1>7. \A n \in 1 .. MaxFree : at[n] # Null => at[n - 1] < at[n]
  <2> TAKE n \in 1 .. MaxFree
  <2> HAVE at[n] # Null
  <2>1. at[n - 1] # Null /\ at[n] = LinkOf(s, at[n - 1])
    BY <1>2
  <2>2. n - 1 \in 0 .. MaxFree
    BY LeastIs
  <2>3. at[n - 1] \in F
    BY <1>5, <2>1, <2>2
  <2>4. IsNext(F, at[n - 1], at[n])
    BY <1>3, <2>1, <2>3
  <2> QED
    BY <2>4 DEF IsNext
<1>8. F \subseteq {at[n] : n \in 0 .. MaxFree}
  <2> SUFFICES ASSUME NEW f \in F, \A n \in 0 .. MaxFree : at[n] # f
               PROVE  FALSE
    OBVIOUS
  <2> DEFINE Bad == {n \in 0 .. MaxFree : ~(at[n] \in F /\ at[n] < f)}
  <2>0. ASSUME NEW x \in F \cup {Null}, x < f, NEW y, y = LinkOf(s, x), y # f
        PROVE  y \in F /\ y < f
    <3>1. IsNext(F, x, y)
      BY <1>3, <2>0
    <3>2. f \in Nat /\ x \in Nat
      BY <1>4 DEF Null
    <3>3. ~(f <= x)
      BY <2>0, <3>2
    <3>4. y \in F /\ y <= f
      BY <3>1, <3>3 DEF IsNext
    <3> QED
      BY <1>4, <2>0, <3>2, <3>4
  <2>1. Bad # {}
    <3>1. MaxFree \in 0 .. MaxFree /\ Null \notin F
      BY <1>4, LeastIs
    <3> QED
      BY <1>6, <3>1
  <2>2. PICK n \in Bad : \A k \in Bad : n <= k
    <3>1. Bad \subseteq Nat
      BY LeastIs
    <3> HIDE DEF Bad
    <3> QED
      BY <2>1, <3>1, LeastNatural
  <2>3. n \in 0 .. MaxFree /\ ~(at[n] \in F /\ at[n] < f) /\ at[n] # f
    OBVIOUS
  <2>4. n # 0
    <3>1. Null < f
      BY <1>4 DEF Null
    <3>2. ASSUME n = 0 PROVE FALSE
      BY <1>2, <2>0, <2>3, <3>1, <3>2
    <3> QED
      BY <3>2
  <2>5. n - 1 \in 0 .. MaxFree /\ n \in 1 .. MaxFree /\ ~(n <= n - 1)
    BY <2>3, <2>4, LeastIs
  <2>6. at[n - 1] \in F /\ at[n - 1] < f
    BY <2>2, <2>5
  <2>7. at[n] = LinkOf(s, at[n - 1])
    BY <1>2, <1>4, <2>5, <2>6
  <2> QED
    BY <2>0, <2>3, <2>6, <2>7
<1>9. FreeBlocks(s) = F
  <2>1. FreeBlocks(s) = {at[n] : n \in 0 .. MaxFree} \ {Null}
    BY DEF FreeBlocks
  <2>2. \A n \in 0 .. MaxFree : at[n] = Null \/ at[n] \in F
    BY <1>5
  <2> QED
    BY <1>4, <1>8, <2>1, <2>2
<1> QED
  BY <1>6, <1>7, <1>9

(* get_adjacent_blocks_ finds the last free block before p and the first   *)
(* from p on, and the one links to the other.                              *)
LEMMA AdjacentAre ==
  ASSUME NEW s \in StateSet, NEW F, IsList(s, F), Feet(s, F), NEW p \in Nat \ {0},
         NEW x, x = Prior(s, p), NEW y, y = Following(s, p)
  PROVE  /\ x \in F \cup {Null} /\ x < p /\ \A b \in F : b < p => b <= x
         /\ y \in F \cup {Null} /\ LinkOf(s, x) = y
         /\ y = Null => \A b \in F : b < p
         /\ y # Null => p <= y /\ \A b \in F : b < p \/ y <= b
<1>1. FreeBlocks(s) = F
  BY ListIs
<1>2. \A b \in F : b \in Nat /\ b # Null /\ b < Base + Words
  BY FootIs DEF Heap
<1> DEFINE before == {b \in F : b < p}
           behind == {b \in F : b >= p}
<1>3. x = (IF before = {} THEN Null ELSE Max(before)) /\ y = IF behind = {} THEN Null ELSE Min(behind)
  BY <1>1 DEF Prior, Following
<1>4. x \in F \cup {Null} /\ x < p /\ \A b \in F : b < p => b <= x
  <2>1. CASE before = {}
    BY <1>3, <2>1 DEF Null
  <2>2. CASE before # {}
    <3>1. before \subseteq 0 .. Base + Words /\ Base + Words \in Nat
      BY <1>2
    <3> HIDE DEF before
    <3>2. \E m \in before : \A k \in before : k <= m
      BY <2>2, <3>1, GreatestNatural
    <3>3. \E m \in before : \A k \in before : m >= k
      BY <3>1, <3>2
    <3>4. x \in before /\ \A k \in before : x >= k
      BY <1>3, <2>2, <3>3 DEF Max
    <3> QED
      BY <1>2, <3>4 DEF before
  <2> QED
    BY <2>1, <2>2
<1>5. /\ y \in F \cup {Null}
      /\ y = Null => \A b \in F : b < p
      /\ y # Null => p <= y /\ \A b \in F : b < p \/ y <= b
  <2>1. CASE behind = {}
    BY <1>2, <1>3, <2>1
  <2>2. CASE behind # {}
    <3>1. behind \subseteq Nat
      BY <1>2
    <3> HIDE DEF behind
    <3>2. \E m \in behind : \A k \in behind : m <= k
      BY <2>2, <3>1, LeastNatural
    <3>4. y \in behind /\ \A k \in behind : y <= k
      BY <1>3, <2>2, <3>2 DEF Min
    <3> QED
      BY <1>2, <3>4 DEF behind
  <2> QED
    BY <2>1, <2>2
<1>6. LinkOf(s, x) = y
  <2>1. IsNext(F, x, LinkOf(s, x))
    BY <1>4 DEF IsList
  <2>2. x \in Nat
    BY <1>2, <1>4 DEF Null
  <2> HIDE DEF before, behind
  <2>3. PICK z : z = LinkOf(s, x)
    OBVIOUS
  <2>4. CASE z = Null /\ \A c \in F : c <= x
    BY <1>2, <1>4, <1>5, <2>2, <2>3, <2>4
  <2>5. CASE z \in F /\ x < z /\ \A c \in F : c <= x \/ z <= c
    BY <1>2, <1>4, <1>5, <2>2, <2>3, <2>5
  <2> QED
    BY <2>1, <2>3, <2>4, <2>5 DEF IsNext
<1> QED
  BY <1>4, <1>5, <1>6

(* A block put into the list behind x. *)
LEMMA ListInserts ==
  ASSUME NEW s \in StateSet, NEW F, IsList(s, F), Feet(s, F), NEW x \in F \cup {Null},
         NEW n \in Heap, n \notin F, x < n, LinkOf(s, x) = Null \/ n < LinkOf(s, x),
         NEW t, LinkOf(t, x) = n, LinkOf(t, n) = LinkOf(s, x),
         \A c \in (F \cup {Null}) \ {x} : LinkOf(t, c) = LinkOf(s, c)
  PROVE  IsList(t, F \cup {n})
<1>1. \A b \in F : b \in Nat /\ b # Null
  BY FootIs
<1>2. n \in Nat /\ n # Null /\ Null \in Nat
  BY DEF Heap, Null
<1>3. \A c \in F \cup {Null} : IsNext(F, c, LinkOf(s, c))
  BY DEF IsList
<1>4. PICK y : y = LinkOf(s, x)
  OBVIOUS
<1>5. IsNext(F, x, y)
  BY <1>3, <1>4
<1>6. IsNext(F \cup {n}, x, n)
  BY <1>1, <1>2, <1>4, <1>5 DEF IsNext
<1>7. IsNext(F \cup {n}, n, y)
  BY <1>1, <1>2, <1>4, <1>5 DEF IsNext
<1>8. ASSUME NEW c \in (F \cup {Null}) \ {x}
      PROVE  IsNext(F \cup {n}, c, LinkOf(t, c))
  <2>1. PICK z : z = LinkOf(s, c) /\ IsNext(F, c, z)
    BY <1>3
  <2>2. c < x \/ x < c
    BY <1>1, <1>2
  <2>3. CASE c < x
    <3>1. c \in Nat /\ x \in F
      BY <1>1, <1>2, <2>3 DEF Null
    <3>2. z \in F /\ c < z /\ z <= x /\ \A d \in F : d <= c \/ z <= d
      BY <1>1, <2>1, <2>3, <3>1 DEF IsNext
    <3>3. z <= n
      BY <1>1, <1>2, <3>1, <3>2
    <3> QED
      BY <2>1, <3>2, <3>3 DEF IsNext
  <2>4. CASE x < c
    <3>1. c \in F /\ c \in Nat
      BY <1>1, <1>2, <2>4 DEF Null
    <3>2. y \in F /\ y <= c
      BY <1>1, <1>2, <1>5, <2>4, <3>1 DEF IsNext
    <3>3. n <= c
      BY <1>1, <1>2, <1>4, <3>1, <3>2
    <3> QED
      BY <2>1, <3>1, <3>3 DEF IsNext
  <2> QED
    BY <2>2, <2>3, <2>4
<1>9. ASSUME NEW c \in F \cup {n} \cup {Null}
      PROVE  IsNext(F \cup {n}, c, LinkOf(t, c))
  BY <1>4, <1>6, <1>7, <1>8
<1>10. F \cup {n} \subseteq Heap
  BY DEF IsList
<1> QED
  BY <1>9, <1>10 DEF IsList

(* The block behind x taken out of it. *)
LEMMA ListRemoves ==
  ASSUME NEW s \in StateSet, NEW F, IsList(s, F), Feet(s, F), NEW x \in F \cup {Null},
         NEW y \in F, y = LinkOf(s, x),
         NEW t, LinkOf(t, x) = LinkOf(s, y),
         \A c \in (F \cup {Null}) \ {x, y} : LinkOf(t, c) = LinkOf(s, c)
  PROVE  IsList(t, F \ {y})
<1>1. \A b \in F : b \in Nat /\ b # Null
  BY FootIs
<1>2. Null \in Nat
  BY DEF Null
<1>3. \A c \in F \cup {Null} : IsNext(F, c, LinkOf(s, c))
  BY DEF IsList
<1>4. PICK z : z = LinkOf(s, y) /\ IsNext(F, y, z)
  BY <1>3
<1>5. IsNext(F, x, y)
  BY <1>3
<1>6. IsNext(F \ {y}, x, z)
  BY <1>1, <1>2, <1>4, <1>5 DEF IsNext
<1>7. ASSUME NEW c \in (F \cup {Null}) \ {x, y}
      PROVE  IsNext(F \ {y}, c, LinkOf(s, c))
  <2>1. PICK d : d = LinkOf(s, c) /\ IsNext(F, c, d)
    BY <1>3
  <2>2. d # y
    <3>1. x < y /\ (c <= x \/ y <= c)
      BY <1>1, <1>2, <1>5 DEF IsNext, Null
    <3>2. c < x \/ y < c
      BY <1>1, <1>2, <3>1
    <3>3. ASSUME d = y PROVE FALSE
      <4>1. c < y /\ \A e \in F : e <= c \/ y <= e
        BY <1>1, <2>1, <3>3 DEF IsNext
      <4>2. c < x /\ x \in F
        BY <1>1, <1>2, <3>2, <4>1 DEF Null
      <4> QED
        BY <1>1, <1>2, <3>1, <4>1, <4>2
    <3> QED
      BY <3>3
  <2> QED
    BY <2>1, <2>2 DEF IsNext
<1>8. ASSUME NEW c \in (F \ {y}) \cup {Null}
      PROVE  IsNext(F \ {y}, c, LinkOf(t, c))
  <2>1. y # Null
    BY <1>1
  <2> QED
    BY <1>4, <1>6, <1>7, <2>1
<1>10. F \ {y} \subseteq Heap
  BY DEF IsList
<1> QED
  BY <1>8, <1>10 DEF IsList

(* The link of x changed, and no other word. *)
LEMMA LinkedIs ==
  ASSUME NEW s \in StateSet, NEW F, IsList(s, F), Feet(s, F), NEW x \in F \cup {Null}, NEW n \in Int,
         NEW t, t = Link(s, x, n)
  PROVE  /\ t \in StateSet /\ t.used = s.used /\ LinkOf(t, x) = n
         /\ \A c \in (F \cup {Null}) \ {x} : LinkOf(t, c) = LinkOf(s, c)
         /\ \A c \in F : SizeOf(t, c) = SizeOf(s, c) /\ FootEnd(t, c) = FootEnd(s, c)
         /\ \A w \in Heap : t.mem[w] = s.mem[w] \/ (x \in F /\ w = x + 1)
         /\ x = Null => t.mem = s.mem
         /\ x \in F => t.first = s.first
<1>1. \A b \in F : /\ b \in Heap /\ b + 1 \in Heap /\ b # Null /\ b \in Nat
                   /\ b + 2 <= FootEnd(s, b) /\ FootEnd(s, b) \in Nat
  BY FootIs
<1>2. /\ t \in StateSet /\ t.used = s.used
      /\ x = Null => t.first = n /\ t.mem = s.mem
      /\ x # Null => /\ t.first = s.first /\ t.mem[x + 1] = n
                     /\ \A w \in Heap \ {x + 1} : t.mem[w] = s.mem[w]
  <2>1. x \in Heap \cup {Null} /\ (x # Null => x + 1 \in Heap)
    BY <1>1
  <2> QED
    BY <2>1, LinkIs
<1>3. \A c \in F : c # x /\ x # Null => c # x + 1 /\ c + 1 # x + 1
  <2> SUFFICES ASSUME NEW c \in F, c # x, x # Null
               PROVE  c # x + 1 /\ c + 1 # x + 1
    OBVIOUS
  <2>1. x \in F /\ (c < x \/ (x < c /\ FootEnd(s, x) <= c))
    BY <1>1 DEF Feet
  <2> QED
    BY <1>1, <2>1
<1>4. \A c \in F : SizeOf(t, c) = SizeOf(s, c)
  <2>1. CASE x = Null
    BY <1>2, <2>1 DEF SizeOf
  <2>2. CASE x # Null
    <3>1. \A c \in F : c # x + 1
      BY <1>1, <1>3, <2>2
    <3> QED
      BY <1>1, <1>2, <2>2, <3>1 DEF SizeOf
  <2> QED
    BY <2>1, <2>2
<1>5. \A c \in F : FootEnd(t, c) = FootEnd(s, c)
  BY <1>4 DEF FootEnd
<1>6. LinkOf(t, x) = n
  BY <1>2 DEF LinkOf, NextOf
<1>7. \A c \in (F \cup {Null}) \ {x} : LinkOf(t, c) = LinkOf(s, c)
  BY <1>1, <1>2, <1>3 DEF LinkOf, NextOf
<1>8. \A w \in Heap : t.mem[w] = s.mem[w] \/ (x \in F /\ w = x + 1)
  BY <1>2
<1> QED
  BY <1>1, <1>2, <1>4, <1>5, <1>6, <1>7, <1>8

-----------------------------------------------------------------------------
(* The blocks that callers hold.                                           *)

End(s, o) == o.p + Held(s, o.p)

IsBlock(s, o, h) ==
  /\ o = [p |-> o.p, size |-> o.size] /\ o.p \in Int /\ o.size \in Sizes
  /\ Start(s, o.p) \in Int /\ Held(s, o.p) \in Int /\ Alignment(s, o.p) \in Alignments
  /\ Base <= Start(s, o.p) /\ Start(s, o.p) + HeaderSize <= o.p
  /\ o.size <= Held(s, o.p) /\ End(s, o) <= Base + Words
  /\ \A w \in o.p .. o.p + o.size - 1 : s.mem[w] = h

Blocks(s, os) ==
  /\ os = [h \in Handles |-> os[h]]
  /\ \A h \in Handles : os[h] # NoBlock => IsBlock(s, os[h], h)

(* No block is in the way of another, or of the list. *)
Apart(s, F, os) ==
  /\ \A g, h \in Handles : os[g] # NoBlock /\ os[h] # NoBlock /\ g # h =>
       End(s, os[g]) <= Start(s, os[h].p) \/ End(s, os[h]) <= Start(s, os[g].p)
  /\ \A b \in F, h \in Handles : os[h] # NoBlock =>
       FootEnd(s, b) <= Start(s, os[h].p) \/ End(s, os[h]) <= b

Laid(s, F, os) ==
  s \in StateSet /\ IsList(s, F) /\ Feet(s, F) /\ Blocks(s, os) /\ Apart(s, F, os)

InFoot(s, F, w) == \E c \in F : c <= w /\ w < FootEnd(s, c)

(* The same blocks are where they were. *)
SameBlocks(s, t, os) ==
  \A h \in Handles : os[h] # NoBlock =>
    Start(t, os[h].p) = Start(s, os[h].p) /\ End(t, os[h]) = End(s, os[h])

(* The words from lo to below hi are in nobody's hands. *)
Clear(s, F, os, lo, hi) ==
  /\ lo \in Int /\ hi \in Int /\ Base <= lo /\ hi <= Base + Words
  /\ \A h \in Handles : os[h] # NoBlock => End(s, os[h]) <= lo \/ hi <= Start(s, os[h].p)
  /\ \A b \in F : FootEnd(s, b) <= lo \/ hi <= b

(* What the words say of a block of z words at p. *)
Shape(s, p, z) ==
  /\ p \in Heap /\ p \in Nat /\ z \in Nat \ {0} /\ z \in Sizes
  /\ p - 3 \in Heap /\ p - 2 \in Heap /\ p - 1 \in Heap
  /\ Start(s, p) \in Heap /\ Start(s, p) \in Nat \ {0} /\ Start(s, p) + 1 \in Heap
  /\ Held(s, p) \in Nat \ {0} /\ p + Held(s, p) \in Nat
  /\ Base <= Start(s, p) /\ Start(s, p) + 3 <= p
  /\ z <= Held(s, p) /\ p + Held(s, p) <= Base + Words
  /\ Start(s, p) + Least <= p + Held(s, p)
  /\ Alignment(s, p) \in Alignments

(* The bounds of a block, in the form the lemmas below ask for. *)
LEMMA BlockIs ==
  ASSUME NEW s \in StateSet, NEW os, Blocks(s, os), NEW h \in Handles, os[h] # NoBlock
  PROVE  /\ IsBlock(s, os[h], h)
         /\ os[h] = [p |-> os[h].p, size |-> os[h].size]
         /\ Shape(s, os[h].p, os[h].size)
<1>1. IsBlock(s, os[h], h)
  BY DEF Blocks
<1>2. os[h].size \in Nat \ {0}
  BY <1>1 DEF IsBlock
<1>3. PICK p : p = os[h].p
  OBVIOUS
<1>4. PICK z : z = os[h].size
  OBVIOUS
<1>5. /\ p \in Int /\ z \in Nat \ {0} /\ Start(s, p) \in Int /\ Held(s, p) \in Int
      /\ Base <= Start(s, p) /\ Start(s, p) + 3 <= p /\ z \in Sizes
      /\ z <= Held(s, p) /\ p + Held(s, p) <= Base + Words /\ Alignment(s, p) \in Alignments
  BY <1>1, <1>2, <1>3, <1>4 DEF IsBlock, End, HeaderSize
<1>6. /\ p \in Nat /\ Held(s, p) \in Nat \ {0} /\ Start(s, p) \in Nat \ {0}
      /\ p + Held(s, p) \in Nat /\ Start(s, p) + Least <= p + Held(s, p)
  BY <1>5, LeastIs
<1>7. /\ p \in Heap /\ p - 3 \in Heap /\ p - 2 \in Heap /\ p - 1 \in Heap
      /\ Start(s, p) \in Heap /\ Start(s, p) + 1 \in Heap
  BY <1>5, <1>6 DEF Heap
<1>8. Shape(s, p, z)
  BY <1>5, <1>6, <1>7 DEF Shape
<1> QED
  BY <1>1, <1>3, <1>4, <1>8, Zenon DEF IsBlock

(* A block whose words have not changed. *)
LEMMA BlocksStay ==
  ASSUME NEW s \in StateSet, NEW os, Blocks(s, os), NEW t \in StateSet,
         \A h \in Handles, w \in Heap :
           os[h] # NoBlock /\ Start(s, os[h].p) <= w /\ w < End(s, os[h]) => t.mem[w] = s.mem[w]
  PROVE  Blocks(t, os) /\ SameBlocks(s, t, os)
<1> SUFFICES ASSUME NEW h \in Handles, os[h] # NoBlock
             PROVE  /\ IsBlock(t, os[h], h)
                    /\ Start(t, os[h].p) = Start(s, os[h].p) /\ End(t, os[h]) = End(s, os[h])
  BY DEF Blocks, SameBlocks
<1>1. PICK p : p = os[h].p
  OBVIOUS
<1>2. PICK z : z = os[h].size
  OBVIOUS
<1>3. Shape(s, p, z) /\ End(s, os[h]) = p + Held(s, p)
  <2>1. Shape(s, os[h].p, os[h].size)
    BY BlockIs
  <2> QED
    BY <1>1, <1>2, <2>1 DEF End
<1>4. \A w \in Heap : Start(s, p) <= w /\ w < End(s, os[h]) => t.mem[w] = s.mem[w]
  BY <1>1
<1>5. Start(t, p) = Start(s, p) /\ Held(t, p) = Held(s, p) /\ Alignment(t, p) = Alignment(s, p)
  <2>1. Start(s, p) <= p - 3 /\ p - 1 < End(s, os[h]) /\ p - 2 < End(s, os[h])
        /\ p - 3 < End(s, os[h]) /\ Start(s, p) <= p - 2 /\ Start(s, p) <= p - 1
    BY <1>3 DEF Shape
  <2>2. p - 3 \in Heap /\ p - 2 \in Heap /\ p - 1 \in Heap
    BY <1>3 DEF Shape
  <2>3. t.mem[p - 3] = s.mem[p - 3] /\ t.mem[p - 2] = s.mem[p - 2] /\ t.mem[p - 1] = s.mem[p - 1]
    BY <1>4, <2>1, <2>2
  <2> QED
    BY <2>3 DEF Start, Held, Alignment
<1>6. End(t, os[h]) = End(s, os[h])
  BY <1>1, <1>5 DEF End
<1>7. \A w \in p .. p + z - 1 : t.mem[w] = s.mem[w]
  <2> TAKE w \in p .. p + z - 1
  <2>1. w \in Heap /\ Start(s, p) <= w /\ w < End(s, os[h])
    BY <1>3 DEF Heap, Shape
  <2> QED
    BY <1>4, <2>1
<1>8. IsBlock(s, os[h], h)
  BY BlockIs
<1>9. IsBlock(t, os[h], h)
  BY <1>1, <1>2, <1>5, <1>6, <1>7, <1>8 DEF IsBlock
<1> QED
  BY <1>1, <1>5, <1>6, <1>9

(* The list becomes G, the same blocks but for n, and the words that       *)
(* changed are in free blocks or between lo and hi, where no block is.     *)
Relisted(s, F, os, t, G, n, lo, hi) ==
  /\ t \in StateSet /\ IsList(t, G) /\ lo \in Int /\ hi \in Int
  /\ \A c \in G : SizeOf(t, c) \in Nat
  /\ \A c \in G \ {n} : /\ c \in F /\ FootEnd(t, c) = FootEnd(s, c)
                        /\ n \in G => FootEnd(s, c) <= lo \/ hi <= c
  /\ n \in G => lo <= n /\ FootEnd(t, n) <= hi /\ hi <= Base + Words
  /\ \A h \in Handles : os[h] # NoBlock => End(s, os[h]) <= lo \/ hi <= Start(s, os[h].p)
  /\ \A w \in Heap : t.mem[w] = s.mem[w] \/ InFoot(s, F, w) \/ (lo <= w /\ w < hi)

(* The blocks that callers hold stay what they were. *)
LEMMA Relist ==
  ASSUME NEW s, NEW F, NEW os, Laid(s, F, os), NEW t, NEW G, NEW n, NEW lo, NEW hi,
         Relisted(s, F, os, t, G, n, lo, hi)
  PROVE  Laid(t, G, os) /\ SameBlocks(s, t, os)
<1>a. t \in StateSet /\ IsList(t, G) /\ lo \in Int /\ hi \in Int
  BY DEF Relisted
<1>b. \A c \in G : SizeOf(t, c) \in Nat
  BY DEF Relisted
<1>c. \A c \in G \ {n} : /\ c \in F /\ FootEnd(t, c) = FootEnd(s, c)
                         /\ n \in G => FootEnd(s, c) <= lo \/ hi <= c
  BY DEF Relisted
<1>d. n \in G => lo <= n /\ FootEnd(t, n) <= hi /\ hi <= Base + Words
  BY DEF Relisted
<1>e. \A h \in Handles : os[h] # NoBlock => End(s, os[h]) <= lo \/ hi <= Start(s, os[h].p)
  BY DEF Relisted
<1>f. \A w \in Heap : t.mem[w] = s.mem[w] \/ InFoot(s, F, w) \/ (lo <= w /\ w < hi)
  BY DEF Relisted
<1> USE <1>a, <1>b, <1>c, <1>d, <1>e, <1>f
<1>1. s \in StateSet /\ IsList(s, F) /\ Feet(s, F) /\ Blocks(s, os) /\ Apart(s, F, os)
  BY DEF Laid
<1>2. \A b \in F : /\ b \in Nat /\ FootEnd(s, b) \in Nat /\ b < FootEnd(s, b)
                   /\ FootEnd(s, b) <= Base + Words
  BY <1>1, FootIs
<1>3. \A h \in Handles : os[h] # NoBlock =>
        /\ Start(s, os[h].p) \in Nat /\ End(s, os[h]) \in Nat
        /\ Start(s, os[h].p) < End(s, os[h])
  <2> SUFFICES ASSUME NEW h \in Handles, os[h] # NoBlock
               PROVE  /\ Start(s, os[h].p) \in Nat /\ End(s, os[h]) \in Nat
                      /\ Start(s, os[h].p) < End(s, os[h])
    OBVIOUS
  <2>1. Shape(s, os[h].p, os[h].size)
    BY <1>1, BlockIs
  <2> QED
    BY <2>1 DEF Shape, End
<1>4. ASSUME NEW h \in Handles, NEW w \in Heap,
             os[h] # NoBlock, Start(s, os[h].p) <= w, w < End(s, os[h])
      PROVE  t.mem[w] = s.mem[w]
  <2>0. PICK a, e : a = Start(s, os[h].p) /\ e = End(s, os[h])
    OBVIOUS
  <2>1. a \in Nat /\ e \in Nat /\ a <= w /\ w < e /\ w \in Int
    BY <1>3, <1>4, <2>0 DEF Heap
  <2>2. e <= lo \/ hi <= a
    BY <1>4, <2>0
  <2>3. ~(lo <= w /\ w < hi)
    BY <2>1, <2>2
  <2>4. ~InFoot(s, F, w)
    <3>1. ASSUME NEW c \in F, c <= w, w < FootEnd(s, c)
          PROVE  FALSE
      <4>1. FootEnd(s, c) <= a \/ e <= c
        BY <1>1, <1>4, <2>0 DEF Apart
      <4> QED
        BY <1>2, <2>1, <3>1, <4>1
    <3> QED
      BY <3>1 DEF InFoot
  <2> QED
    BY <2>3, <2>4
<1>5. Blocks(t, os) /\ SameBlocks(s, t, os)
  BY <1>1, <1>4, BlocksStay
<1>6. \A c \in G : c \in Nat /\ FootEnd(t, c) \in Nat /\ c < FootEnd(t, c)
  <2> SUFFICES ASSUME NEW c \in G
               PROVE  c \in Nat /\ FootEnd(t, c) \in Nat /\ c < FootEnd(t, c)
    OBVIOUS
  <2>1. c \in Nat
    BY DEF IsList, Heap
  <2> QED
    BY <2>1, LeastIs DEF FootEnd
<1>7. Feet(t, G)
  <2>1. ASSUME NEW c \in G
        PROVE  FootEnd(t, c) <= Base + Words
    BY <1>2, <1>6
  <2>2. ASSUME NEW c \in G, NEW d \in G, c < d
        PROVE  FootEnd(t, c) <= d
    <3>1. CASE c # n /\ d # n
      <4>1. c \in F /\ d \in F /\ FootEnd(t, c) = FootEnd(s, c)
        BY <3>1
      <4> QED
        BY <1>1, <2>2, <4>1 DEF Feet
    <3>2. CASE c = n
      <4>1. d \in F /\ (FootEnd(s, d) <= lo \/ hi <= d) /\ lo <= c /\ FootEnd(t, c) <= hi
        BY <1>6, <2>2, <3>2
      <4> QED
        BY <1>2, <1>6, <2>2, <4>1
    <3>3. CASE c # n /\ d = n
      <4>1. /\ c \in F /\ (FootEnd(s, c) <= lo \/ hi <= c) /\ FootEnd(t, c) = FootEnd(s, c)
            /\ lo <= d /\ FootEnd(t, d) <= hi
        BY <3>3
      <4> QED
        BY <1>2, <1>6, <2>2, <4>1
    <3> QED
      BY <3>1, <3>2, <3>3
  <2> QED
    BY <2>1, <2>2 DEF Feet
<1>8. Apart(t, G, os)
  <2>1. \A h \in Handles : os[h] # NoBlock =>
          Start(t, os[h].p) = Start(s, os[h].p) /\ End(t, os[h]) = End(s, os[h])
    BY <1>5 DEF SameBlocks
  <2>2. ASSUME NEW g \in Handles, NEW h \in Handles, os[g] # NoBlock, os[h] # NoBlock, g # h
        PROVE  End(t, os[g]) <= Start(t, os[h].p) \/ End(t, os[h]) <= Start(t, os[g].p)
    BY <1>1, <2>1, <2>2 DEF Apart
  <2>3. ASSUME NEW c \in G, NEW h \in Handles, os[h] # NoBlock
        PROVE  FootEnd(t, c) <= Start(t, os[h].p) \/ End(t, os[h]) <= c
    <3>0. PICK a, e : a = Start(s, os[h].p) /\ e = End(s, os[h])
      OBVIOUS
    <3>1. a = Start(t, os[h].p) /\ e = End(t, os[h]) /\ a \in Nat /\ e \in Nat
      BY <1>3, <2>1, <2>3, <3>0
    <3>2. CASE c # n
      <4>1. c \in F /\ FootEnd(t, c) = FootEnd(s, c)
        BY <3>2
      <4>2. FootEnd(s, c) <= a \/ e <= c
        BY <1>1, <2>3, <3>0, <4>1 DEF Apart
      <4> QED
        BY <3>1, <4>1, <4>2
    <3>3. CASE c = n
      <4>1. lo <= c /\ FootEnd(t, c) <= hi /\ (e <= lo \/ hi <= a)
        BY <2>3, <3>0, <3>3
      <4> QED
        BY <1>6, <3>1, <4>1
    <3> QED
      BY <3>2, <3>3
  <2> QED
    BY <2>2, <2>3 DEF Apart
<1> QED
  BY <1>1, <1>5, <1>7, <1>8 DEF Laid

(* Writing the words between lo and hi, which nobody has. *)
LEMMA ClearWrite ==
  ASSUME NEW s, NEW F, NEW os, Laid(s, F, os), NEW lo, NEW hi, Clear(s, F, os, lo, hi),
         NEW t \in StateSet, t.first = s.first,
         \A w \in Heap : t.mem[w] = s.mem[w] \/ (lo <= w /\ w < hi)
  PROVE  /\ Laid(t, F, os) /\ SameBlocks(s, t, os) /\ Clear(t, F, os, lo, hi)
         /\ \A c \in F : SizeOf(t, c) = SizeOf(s, c)
<1>1. s \in StateSet /\ IsList(s, F) /\ Feet(s, F) /\ lo \in Int /\ hi \in Int
  BY DEF Laid, Clear
<1>2. \A b \in F : /\ b \in Nat /\ FootEnd(s, b) \in Nat /\ b + 2 <= FootEnd(s, b) /\ SizeOf(s, b) \in Nat
                   /\ b \in Heap /\ b + 1 \in Heap
  BY <1>1, FootIs
<1>3. \A c \in F : t.mem[c] = s.mem[c] /\ t.mem[c + 1] = s.mem[c + 1]
  <2> SUFFICES ASSUME NEW c \in F
               PROVE  t.mem[c] = s.mem[c] /\ t.mem[c + 1] = s.mem[c + 1]
    OBVIOUS
  <2>1. FootEnd(s, c) <= lo \/ hi <= c
    BY DEF Clear
  <2>2. c \in Heap /\ c + 1 \in Heap /\ ~(lo <= c /\ c < hi) /\ ~(lo <= c + 1 /\ c + 1 < hi)
    BY <1>1, <1>2, <2>1
  <2> QED
    BY <2>2
<1>4. \A c \in F : SizeOf(t, c) = SizeOf(s, c) /\ FootEnd(t, c) = FootEnd(s, c)
  BY <1>3 DEF SizeOf, FootEnd
<1>5. \A c \in F \cup {Null} : LinkOf(t, c) = LinkOf(s, c)
  BY <1>3 DEF LinkOf, NextOf
<1>6. IsList(t, F)
  BY <1>1, <1>5 DEF IsList
<1>7. Laid(t, F, os) /\ SameBlocks(s, t, os)
  <2>1. PICK n : n \notin F
    <3>1. Null \notin F
      BY <1>1, FootIs
    <3> QED
      BY <3>1
  <2>2. \A h \in Handles : os[h] # NoBlock => End(s, os[h]) <= lo \/ hi <= Start(s, os[h].p)
    BY DEF Clear
  <2>3. \A c \in F : SizeOf(t, c) \in Nat
    BY <1>2, <1>4
  <2>4. \A c \in F \ {n} : /\ c \in F /\ FootEnd(t, c) = FootEnd(s, c)
                           /\ n \in F => FootEnd(s, c) <= lo \/ hi <= c
    BY <1>4, <2>1
  <2>5. n \in F => lo <= n /\ FootEnd(t, n) <= hi /\ hi <= Base + Words
    BY <2>1
  <2>6. \A w \in Heap : t.mem[w] = s.mem[w] \/ InFoot(s, F, w) \/ (lo <= w /\ w < hi)
    OBVIOUS
  <2> QED
    <3>1. Relisted(s, F, os, t, F, n, lo, hi)
      BY <1>1, <1>6, <2>2, <2>3, <2>4, <2>5, <2>6 DEF Relisted
    <3> QED
      BY <3>1, Relist
<1>8. Clear(t, F, os, lo, hi)
  BY <1>4, <1>7 DEF Clear, SameBlocks
<1> QED
  BY <1>4, <1>7, <1>8

Without(os, h) == [os EXCEPT ![h] = NoBlock]

(* Without a block, its words are nobody's. *)
LEMMA TakeOut ==
  ASSUME NEW s, NEW F, NEW os, Laid(s, F, os), NEW h \in Handles, os[h] # NoBlock
  PROVE  /\ Laid(s, F, Without(os, h))
         /\ Clear(s, F, Without(os, h), Start(s, os[h].p), End(s, os[h]))
<1>1. s \in StateSet /\ IsList(s, F) /\ Feet(s, F) /\ Blocks(s, os) /\ Apart(s, F, os)
  BY DEF Laid
<1>2. PICK o : o = Without(os, h)
  OBVIOUS
<1>3. /\ o = [g \in Handles |-> o[g]] /\ o[h] = NoBlock
      /\ \A g \in Handles : g # h => o[g] = os[g]
  BY <1>1, <1>2 DEF Blocks, Without
<1>4. Blocks(s, o)
  BY <1>1, <1>3 DEF Blocks
<1>5. Apart(s, F, o)
  BY <1>1, <1>3 DEF Apart
<1>6. Shape(s, os[h].p, os[h].size)
  BY <1>1, BlockIs
<1>7. Clear(s, F, o, Start(s, os[h].p), End(s, os[h]))
  <2>1. \A g \in Handles : o[g] # NoBlock =>
          End(s, o[g]) <= Start(s, os[h].p) \/ End(s, os[h]) <= Start(s, o[g].p)
    BY <1>1, <1>3 DEF Apart
  <2>2. \A b \in F : FootEnd(s, b) <= Start(s, os[h].p) \/ End(s, os[h]) <= b
    BY <1>1 DEF Apart
  <2>3. /\ Start(s, os[h].p) \in Int /\ End(s, os[h]) \in Int
        /\ Base <= Start(s, os[h].p) /\ End(s, os[h]) <= Base + Words
    BY <1>6 DEF Shape, End
  <2> QED
    BY <2>1, <2>2, <2>3 DEF Clear
<1> QED
  BY <1>1, <1>2, <1>4, <1>5, <1>7 DEF Laid

(* A block put where nobody is. *)
LEMMA PutIn ==
  ASSUME NEW s, NEW F, NEW os, Laid(s, F, os), NEW h \in Handles, os[h] = NoBlock,
         NEW o, IsBlock(s, o, h), Clear(s, F, os, Start(s, o.p), End(s, o))
  PROVE  Laid(s, F, [os EXCEPT ![h] = o])
<1>1. s \in StateSet /\ IsList(s, F) /\ Feet(s, F) /\ Blocks(s, os) /\ Apart(s, F, os)
  BY DEF Laid
<1>2. PICK q : q = [os EXCEPT ![h] = o]
  OBVIOUS
<1>3. q = [g \in Handles |-> q[g]] /\ q[h] = o /\ \A g \in Handles : g # h => q[g] = os[g]
  BY <1>1, <1>2 DEF Blocks
<1>4. Blocks(s, q)
  BY <1>1, <1>3 DEF Blocks
<1>5. Apart(s, F, q)
  <2>1. \A g \in Handles : g # h /\ q[g] # NoBlock =>
          End(s, q[g]) <= Start(s, o.p) \/ End(s, o) <= Start(s, q[g].p)
    BY <1>3 DEF Clear
  <2>2. \A b \in F : FootEnd(s, b) <= Start(s, o.p) \/ End(s, o) <= b
    BY DEF Clear
  <2>3. ASSUME NEW f \in Handles, NEW g \in Handles, q[f] # NoBlock, q[g] # NoBlock, f # g
        PROVE  End(s, q[f]) <= Start(s, q[g].p) \/ End(s, q[g]) <= Start(s, q[f].p)
    <3>1. CASE f = h
      BY <1>3, <2>1, <2>3, <3>1
    <3>2. CASE g = h
      BY <1>3, <2>1, <2>3, <3>2
    <3>3. CASE f # h /\ g # h
      BY <1>1, <1>3, <2>3, <3>3 DEF Apart
    <3> QED
      BY <3>1, <3>2, <3>3
  <2>4. ASSUME NEW b \in F, NEW g \in Handles, q[g] # NoBlock
        PROVE  FootEnd(s, b) <= Start(s, q[g].p) \/ End(s, q[g]) <= b
    <3>1. CASE g = h
      BY <1>3, <2>2, <3>1
    <3>2. CASE g # h
      BY <1>1, <1>3, <2>4, <3>2 DEF Apart
    <3> QED
      BY <3>1, <3>2
  <2> QED
    BY <2>3, <2>4 DEF Apart
<1> QED
  BY <1>1, <1>2, <1>4, <1>5 DEF Laid

-----------------------------------------------------------------------------
(* The five ways the list changes.                                         *)

(* Only the link of x and the words between lo and hi have changed. *)
Changed(s, F, t, x, lo, hi) ==
  /\ t \in StateSet
  /\ x \in F => t.first = s.first
  /\ \A w \in Heap : t.mem[w] = s.mem[w] \/ (x \in F /\ w = x + 1) \/ (lo <= w /\ w < hi)

(* The free blocks that are not between lo and hi. *)
LEMMA OthersStay ==
  ASSUME NEW s \in StateSet, NEW F, IsList(s, F), Feet(s, F), NEW x \in F \cup {Null},
         NEW lo \in Int, NEW hi \in Int, NEW t, Changed(s, F, t, x, lo, hi)
  PROVE  /\ \A c \in F : FootEnd(s, c) <= lo \/ hi <= c =>
              /\ SizeOf(t, c) = SizeOf(s, c) /\ FootEnd(t, c) = FootEnd(s, c)
              /\ c # x => LinkOf(t, c) = LinkOf(s, c)
         /\ x # Null => LinkOf(t, Null) = LinkOf(s, Null)
<1>1. \A b \in F : /\ b \in Heap /\ b + 1 \in Heap /\ b # Null /\ b \in Nat
                   /\ b + 2 <= FootEnd(s, b) /\ FootEnd(s, b) \in Nat
  BY FootIs
<1>2. \A c, d \in F : c < d => FootEnd(s, c) <= d
  BY DEF Feet
<1>3. ASSUME NEW c \in F, FootEnd(s, c) <= lo \/ hi <= c
      PROVE  t.mem[c] = s.mem[c] /\ (c # x => t.mem[c + 1] = s.mem[c + 1])
  <2>1. ~(lo <= c /\ c < hi) /\ ~(lo <= c + 1 /\ c + 1 < hi)
    BY <1>1, <1>3
  <2>2. x \in F => c # x + 1
    <3>1. ASSUME x \in F, c = x + 1 PROVE FALSE
      BY <1>1, <1>2, <3>1
    <3> QED
      BY <3>1
  <2>3. c # x /\ x \in F => c + 1 # x + 1
    BY <1>1
  <2> QED
    BY <1>1, <2>1, <2>2, <2>3 DEF Changed
<1>4. \A c \in F : FootEnd(s, c) <= lo \/ hi <= c =>
        /\ SizeOf(t, c) = SizeOf(s, c) /\ FootEnd(t, c) = FootEnd(s, c)
        /\ c # x => LinkOf(t, c) = LinkOf(s, c)
  BY <1>1, <1>3 DEF SizeOf, FootEnd, LinkOf, NextOf
<1>5. x # Null => LinkOf(t, Null) = LinkOf(s, Null)
  BY DEF Changed, LinkOf
<1> QED
  BY <1>4, <1>5

(* Words in a link or between lo and hi: what Relisted asks for. *)
LEMMA ChangedWords ==
  ASSUME NEW s \in StateSet, NEW F, IsList(s, F), Feet(s, F), NEW x,
         NEW lo, NEW hi, NEW t, Changed(s, F, t, x, lo, hi)
  PROVE  \A w \in Heap : t.mem[w] = s.mem[w] \/ InFoot(s, F, w) \/ (lo <= w /\ w < hi)
<1> SUFFICES ASSUME NEW w \in Heap, x \in F, w = x + 1
             PROVE  InFoot(s, F, w)
  BY DEF Changed
<1>1. x \in Nat /\ x + 2 <= FootEnd(s, x) /\ FootEnd(s, x) \in Nat
  BY FootIs
<1>2. x <= w /\ w < FootEnd(s, x)
  BY <1>1
<1> QED
  BY <1>2 DEF InFoot

(* A free block grows into words that are nobody's. *)
LEMMA Grows ==
  ASSUME NEW s, NEW F, NEW os, Laid(s, F, os), NEW x \in F, NEW lo, NEW hi,
         Clear(s, F, os, lo, hi), FootEnd(s, x) = lo, lo <= hi,
         NEW t, Changed(s, F, t, x, x, hi),
         LinkOf(t, x) = LinkOf(s, x), SizeOf(t, x) \in Nat, FootEnd(t, x) <= hi
  PROVE  Laid(t, F, os) /\ SameBlocks(s, t, os)
<1>1. /\ s \in StateSet /\ IsList(s, F) /\ Feet(s, F) /\ Apart(s, F, os) /\ t \in StateSet
      /\ lo \in Int /\ hi \in Int /\ hi <= Base + Words /\ Blocks(s, os)
  BY DEF Laid, Clear, Changed
<1>2. /\ \A b \in F : /\ b \in Nat /\ FootEnd(s, b) \in Nat /\ b < FootEnd(s, b) /\ SizeOf(s, b) \in Nat
                      /\ b # Null
      /\ x \in Nat
  BY <1>1, FootIs
<1>3. \A c \in F \ {x} : FootEnd(s, c) <= x \/ hi <= c
  <2> SUFFICES ASSUME NEW c \in F, c # x
               PROVE  FootEnd(s, c) <= x \/ hi <= c
    OBVIOUS
  <2>1. c < x \/ x < c
    BY <1>2
  <2>2. CASE c < x
    BY <1>1, <2>2 DEF Feet
  <2>3. CASE x < c
    <3>1. lo <= c
      BY <1>1, <2>3 DEF Feet
    <3>2. FootEnd(s, c) <= lo \/ hi <= c
      BY DEF Clear
    <3> QED
      BY <1>1, <1>2, <3>1, <3>2
  <2> QED
    BY <2>1, <2>2, <2>3
<1>4. /\ \A c \in F \ {x} : /\ SizeOf(t, c) = SizeOf(s, c) /\ FootEnd(t, c) = FootEnd(s, c)
                            /\ LinkOf(t, c) = LinkOf(s, c)
      /\ LinkOf(t, Null) = LinkOf(s, Null)
  BY <1>1, <1>2, <1>3, OthersStay
<1>5. IsList(t, F)
  BY <1>1, <1>4 DEF IsList
<1>6. ASSUME NEW h \in Handles, os[h] # NoBlock
      PROVE  End(s, os[h]) <= x \/ hi <= Start(s, os[h].p)
  <2>1. Shape(s, os[h].p, os[h].size)
    BY <1>1, <1>6, BlockIs
  <2>2. PICK a, e : a = Start(s, os[h].p) /\ e = End(s, os[h])
    OBVIOUS
  <2>3. a \in Nat /\ e \in Nat /\ a < e
    BY <2>1, <2>2 DEF Shape, End
  <2>4. (lo <= a \/ e <= x) /\ (e <= lo \/ hi <= a)
    BY <1>1, <1>6, <2>2 DEF Apart, Clear
  <2> QED
    BY <1>1, <1>2, <2>2, <2>3, <2>4
<1>7. \A w \in Heap : t.mem[w] = s.mem[w] \/ InFoot(s, F, w) \/ (x <= w /\ w < hi)
  BY <1>1, ChangedWords
<1>8. Relisted(s, F, os, t, F, x, x, hi)
  <2>1. \A c \in F : SizeOf(t, c) \in Nat
    BY <1>2, <1>4
  <2>2. \A c \in F \ {x} : /\ c \in F /\ FootEnd(t, c) = FootEnd(s, c)
                           /\ x \in F => FootEnd(s, c) <= x \/ hi <= c
    BY <1>3, <1>4
  <2>3. x \in F => x <= x /\ FootEnd(t, x) <= hi /\ hi <= Base + Words
    BY <1>1, <1>2
  <2>4. x \in Int
    BY <1>2
  <2> QED
    BY <1>1, <1>5, <1>6, <1>7, <2>1, <2>2, <2>3, <2>4 DEF Relisted
<1> QED
  BY <1>8, Relist

(* A free block leaves the list: the words before it that are nobody's and *)
(* its own are nobody's.                                                   *)
LEMMA Goes ==
  ASSUME NEW s, NEW F, NEW os, Laid(s, F, os), NEW x \in F \cup {Null}, NEW y \in F, y = LinkOf(s, x),
         NEW lo, Clear(s, F, os, lo, y), lo <= y,
         NEW t, t = Link(s, x, LinkOf(s, y))
  PROVE  /\ Laid(t, F \ {y}, os) /\ SameBlocks(s, t, os) /\ t.used = s.used
         /\ Clear(t, F \ {y}, os, lo, FootEnd(s, y))
         /\ x \in (F \ {y}) \cup {Null} /\ x < y
         /\ LinkOf(t, x) = LinkOf(s, y) /\ (LinkOf(t, x) = Null \/ FootEnd(s, y) <= LinkOf(t, x))
         /\ \A c \in F : SizeOf(t, c) = SizeOf(s, c) /\ FootEnd(t, c) = FootEnd(s, c)
         /\ \A w \in Heap : t.mem[w] = s.mem[w] \/ (x \in F /\ w = x + 1)
         /\ x \in F => t.first = s.first
<1>1. /\ s \in StateSet /\ IsList(s, F) /\ Feet(s, F) /\ Apart(s, F, os) /\ Blocks(s, os)
      /\ lo \in Int /\ Base <= lo
  BY DEF Laid, Clear
<1>2. \A b \in F : /\ b \in Nat /\ FootEnd(s, b) \in Nat /\ b < FootEnd(s, b) /\ SizeOf(s, b) \in Nat
                   /\ b # Null /\ LinkOf(s, b) \in Int /\ FootEnd(s, b) <= Base + Words
  BY <1>1, FootIs
<1>3. PICK z : z = LinkOf(s, y)
  OBVIOUS
<1>4. z \in Int /\ t = Link(s, x, z)
  BY <1>2, <1>3
<1>5. /\ t \in StateSet /\ t.used = s.used /\ LinkOf(t, x) = z
      /\ \A c \in (F \cup {Null}) \ {x} : LinkOf(t, c) = LinkOf(s, c)
      /\ \A c \in F : SizeOf(t, c) = SizeOf(s, c) /\ FootEnd(t, c) = FootEnd(s, c)
      /\ \A w \in Heap : t.mem[w] = s.mem[w] \/ (x \in F /\ w = x + 1)
      /\ x \in F => t.first = s.first
  BY <1>1, <1>4, LinkedIs
<1>6. IsNext(F, x, y) /\ IsNext(F, y, z)
  BY <1>1, <1>3 DEF IsList
<1>7. x < y /\ (z = Null \/ (z \in F /\ y < z))
  BY <1>2, <1>6 DEF IsNext
<1>8. z = Null \/ FootEnd(s, y) <= z
  BY <1>1, <1>7 DEF Feet
<1>9. x \in (F \ {y}) \cup {Null}
  BY <1>2, <1>7
<1>10. IsList(t, F \ {y})
  BY <1>1, <1>3, <1>5, ListRemoves
<1>11. \A w \in Heap : t.mem[w] = s.mem[w] \/ InFoot(s, F, w) \/ (0 <= w /\ w < 0)
  <2>1. Changed(s, F, t, x, 0, 0)
    BY <1>5 DEF Changed
  <2> QED
    BY <1>1, <2>1, ChangedWords
<1>12. Relisted(s, F, os, t, F \ {y}, y, 0, 0)
  <2>1. \A c \in F \ {y} : SizeOf(t, c) \in Nat
    BY <1>2, <1>5
  <2>2. \A c \in (F \ {y}) \ {y} : /\ c \in F /\ FootEnd(t, c) = FootEnd(s, c)
                                   /\ y \in F \ {y} => FootEnd(s, c) <= 0 \/ 0 <= c
    BY <1>5
  <2>3. \A h \in Handles : os[h] # NoBlock => End(s, os[h]) <= 0 \/ 0 <= Start(s, os[h].p)
    <3> SUFFICES ASSUME NEW h \in Handles, os[h] # NoBlock
                 PROVE  0 <= Start(s, os[h].p)
      OBVIOUS
    <3>1. Shape(s, os[h].p, os[h].size)
      BY <1>1, BlockIs
    <3> QED
      BY <3>1 DEF Shape
  <2>4. y \in F \ {y} => 0 <= y /\ FootEnd(t, y) <= 0 /\ 0 <= Base + Words
    OBVIOUS
  <2> QED
    BY <1>5, <1>10, <1>11, <2>1, <2>2, <2>3, <2>4 DEF Relisted
<1>13. Laid(t, F \ {y}, os) /\ SameBlocks(s, t, os)
  BY <1>12, Relist
<1>14. Clear(t, F \ {y}, os, lo, FootEnd(s, y))
  <2>1. ASSUME NEW h \in Handles, os[h] # NoBlock
        PROVE  End(t, os[h]) <= lo \/ FootEnd(s, y) <= Start(t, os[h].p)
    <3>1. Shape(s, os[h].p, os[h].size)
      BY <1>1, <2>1, BlockIs
    <3>2. PICK a, e : a = Start(s, os[h].p) /\ e = End(s, os[h])
      OBVIOUS
    <3>3. a \in Nat /\ e \in Nat /\ a < e
      BY <3>1, <3>2 DEF Shape, End
    <3>4. (e <= lo \/ y <= a) /\ (FootEnd(s, y) <= a \/ e <= y)
      BY <1>1, <2>1, <3>2 DEF Apart, Clear
    <3>5. a = Start(t, os[h].p) /\ e = End(t, os[h])
      BY <1>13, <2>1, <3>2 DEF SameBlocks
    <3> QED
      BY <1>1, <1>2, <3>3, <3>4, <3>5
  <2>2. ASSUME NEW c \in F \ {y}
        PROVE  FootEnd(t, c) <= lo \/ FootEnd(s, y) <= c
    <3>1. FootEnd(s, c) <= lo \/ y <= c
      BY DEF Clear
    <3>2. y < c => FootEnd(s, y) <= c
      BY <1>1 DEF Feet
    <3> QED
      BY <1>2, <1>5, <3>1, <3>2
  <2>3. FootEnd(s, y) \in Int /\ FootEnd(s, y) <= Base + Words
    BY <1>2
  <2> QED
    BY <1>1, <2>1, <2>2, <2>3 DEF Clear
<1> QED
  BY <1>3, <1>5, <1>7, <1>8, <1>9, <1>13, <1>14

(* A free block comes into the list, made of words that were nobody's. *)
LEMMA Comes ==
  ASSUME NEW s, NEW F, NEW os, Laid(s, F, os), NEW x \in F \cup {Null}, NEW lo, NEW hi,
         Clear(s, F, os, lo, hi), x < lo, LinkOf(s, x) = Null \/ lo <= LinkOf(s, x),
         NEW n \in Int, lo <= n, NEW t, Changed(s, F, t, x, lo, hi),
         LinkOf(t, x) = n, LinkOf(t, n) = LinkOf(s, x), SizeOf(t, n) \in Nat, FootEnd(t, n) <= hi
  PROVE  Laid(t, F \cup {n}, os) /\ SameBlocks(s, t, os) /\ Clear(t, F \cup {n}, os, lo, n)
<1>1. /\ s \in StateSet /\ IsList(s, F) /\ Feet(s, F) /\ Apart(s, F, os) /\ t \in StateSet
      /\ lo \in Int /\ hi \in Int /\ hi <= Base + Words /\ Base <= lo
  BY DEF Laid, Clear, Changed
<1>2. \A b \in F : /\ b \in Nat /\ FootEnd(s, b) \in Nat /\ b < FootEnd(s, b) /\ SizeOf(s, b) \in Nat
                   /\ b # Null
  BY <1>1, FootIs
<1>3. n < hi
  <2>1. n + 2 <= FootEnd(t, n) /\ FootEnd(t, n) \in Int
    BY LeastIs DEF FootEnd
  <2> QED
    BY <1>1, <2>1
<1>4. n \in Heap /\ n # Null /\ n \in Nat
  BY <1>1, <1>3 DEF Heap, Null
<1>5. \A c \in F : FootEnd(s, c) <= lo \/ hi <= c
  BY DEF Clear
<1>6. n \notin F
  BY <1>1, <1>2, <1>3, <1>5
<1>7. /\ \A c \in F : SizeOf(t, c) = SizeOf(s, c) /\ FootEnd(t, c) = FootEnd(s, c)
      /\ \A c \in F \ {x} : LinkOf(t, c) = LinkOf(s, c)
      /\ x # Null => LinkOf(t, Null) = LinkOf(s, Null)
  <2>1. x # Null => LinkOf(t, Null) = LinkOf(s, Null)
    BY <1>1, OthersStay
  <2>2. ASSUME NEW c \in F
        PROVE  /\ SizeOf(t, c) = SizeOf(s, c) /\ FootEnd(t, c) = FootEnd(s, c)
               /\ c # x => LinkOf(t, c) = LinkOf(s, c)
    <3>1. FootEnd(s, c) <= lo \/ hi <= c
      BY <1>5
    <3> QED
      BY <1>1, <1>2, <3>1, OthersStay
  <2> QED
    BY <2>1, <2>2
<1>8. \A c \in (F \cup {Null}) \ {x} : LinkOf(t, c) = LinkOf(s, c)
  BY <1>7
<1>9. x < n
  BY <1>1, <1>2 DEF Null
<1>10. LinkOf(s, x) = Null \/ n < LinkOf(s, x)
  <2>1. PICK z : z = LinkOf(s, x)
    OBVIOUS
  <2>2. z = Null \/ z \in F
    BY <1>1, <2>1 DEF IsList, IsNext
  <2>3. z \in F /\ lo <= z => hi <= z
    BY <1>1, <1>2, <1>5
  <2> QED
    BY <1>1, <1>2, <1>3, <2>1, <2>2, <2>3
<1>11. IsList(t, F \cup {n})
  BY <1>1, <1>4, <1>6, <1>8, <1>9, <1>10, ListInserts
<1>12. \A w \in Heap : t.mem[w] = s.mem[w] \/ InFoot(s, F, w) \/ (lo <= w /\ w < hi)
  BY <1>1, ChangedWords
<1>13. Relisted(s, F, os, t, F \cup {n}, n, lo, hi)
  <2>1. \A c \in F \cup {n} : SizeOf(t, c) \in Nat
    BY <1>2, <1>7
  <2>2. \A c \in (F \cup {n}) \ {n} : /\ c \in F /\ FootEnd(t, c) = FootEnd(s, c)
                                      /\ n \in F \cup {n} => FootEnd(s, c) <= lo \/ hi <= c
    BY <1>5, <1>7
  <2>3. \A h \in Handles : os[h] # NoBlock => End(s, os[h]) <= lo \/ hi <= Start(s, os[h].p)
    BY DEF Clear
  <2> QED
    BY <1>1, <1>11, <1>12, <2>1, <2>2, <2>3 DEF Relisted
<1>14. Laid(t, F \cup {n}, os) /\ SameBlocks(s, t, os)
  BY <1>13, Relist
<1>15. Clear(t, F \cup {n}, os, lo, n)
  <2>1. ASSUME NEW h \in Handles, os[h] # NoBlock
        PROVE  End(t, os[h]) <= lo \/ n <= Start(t, os[h].p)
    <3>1. Shape(s, os[h].p, os[h].size)
      BY <2>1, BlockIs DEF Laid
    <3>2. PICK a, e : a = Start(s, os[h].p) /\ e = End(s, os[h])
      OBVIOUS
    <3>3. a \in Nat /\ e \in Nat
      BY <3>1, <3>2 DEF Shape, End
    <3>4. e <= lo \/ hi <= a
      BY <2>1, <3>2 DEF Clear
    <3>5. a = Start(t, os[h].p) /\ e = End(t, os[h])
      BY <1>14, <2>1, <3>2 DEF SameBlocks
    <3> QED
      BY <1>1, <1>3, <3>3, <3>4, <3>5
  <2>2. ASSUME NEW c \in F \cup {n}
        PROVE  FootEnd(t, c) <= lo \/ n <= c
    <3>1. CASE c = n
      BY <1>4, <3>1
    <3>2. CASE c \in F
      BY <1>1, <1>2, <1>3, <1>5, <1>7, <3>2
    <3> QED
      BY <3>1, <3>2
  <2> QED
    BY <1>1, <1>3, <1>4, <2>1, <2>2 DEF Clear
<1> QED
  BY <1>14, <1>15

-----------------------------------------------------------------------------
(* The operations on the list.                                             *)

(* What add_and_merge_free_block_ is given: the words from b on, e of      *)
(* them, are nobody's, and b is a free block of all of them or of none.    *)
Addable(s, F, os, b, e) ==
  /\ Laid(s, F, os) /\ Clear(s, F, os, b, b + e)
  /\ b \in Heap /\ e \in Nat /\ Least <= e
  /\ SizeOf(s, b) \in {0, e} /\ NextOf(s, b) \in Int
  /\ Following(s, b) = Null => NextOf(s, b) = Null

(* Numbers of a block about to be added, and its neighbours. *)
LEMMA AddableIs ==
  ASSUME NEW s, NEW F, NEW os, NEW b, NEW e, Addable(s, F, os, b, e),
         NEW x, x = Prior(s, b), NEW y, y = Following(s, b)
  PROVE  /\ s \in StateSet /\ IsList(s, F) /\ Feet(s, F)
         /\ b \in Nat /\ b # Null /\ b \in Heap /\ b + 1 \in Heap /\ e \in Nat /\ Least <= e
         /\ x \in F \cup {Null} /\ x \in Nat /\ x < b /\ y \in F \cup {Null} /\ y \in Nat
         /\ LinkOf(s, x) = y
         /\ x \in F => /\ x \in Heap /\ x + 1 \in Heap /\ FootEnd(s, x) \in Nat /\ FootEnd(s, x) <= b
                       /\ x + 2 <= FootEnd(s, x) /\ SizeOf(s, x) \in Nat /\ x # Null
                       /\ x + SizeOf(s, x) <= FootEnd(s, x) /\ x + Least <= b
         /\ y \in F => /\ y \in Heap /\ y + 1 \in Heap /\ FootEnd(s, y) \in Nat /\ b + e <= y
                       /\ y + SizeOf(s, y) <= FootEnd(s, y) /\ SizeOf(s, y) \in Nat
                       /\ y + Least <= FootEnd(s, y) /\ y # Null
                       /\ NextOf(s, y) = LinkOf(s, y) /\ NextOf(s, y) \in Int
<1>1. /\ s \in StateSet /\ IsList(s, F) /\ Feet(s, F) /\ b \in Heap /\ e \in Nat /\ Least <= e
      /\ b + e <= Base + Words
  BY DEF Addable, Laid, Clear
<1>2. b \in Nat \ {0} /\ b + 1 \in Heap
  BY <1>1, LeastIs DEF Heap
<1>3. /\ x \in F \cup {Null} /\ x < b /\ y \in F \cup {Null} /\ LinkOf(s, x) = y
      /\ y # Null => b <= y
  BY <1>1, <1>2, AdjacentAre
<1>4. \A c \in F : FootEnd(s, c) <= b \/ b + e <= c
  BY DEF Addable, Clear
<1>5. x \in F => /\ x \in Heap /\ x + 1 \in Heap /\ FootEnd(s, x) \in Nat /\ FootEnd(s, x) <= b
                 /\ x + 2 <= FootEnd(s, x) /\ SizeOf(s, x) \in Nat /\ x # Null /\ x \in Nat
                 /\ x + SizeOf(s, x) <= FootEnd(s, x) /\ x + Least <= b
  <2> SUFFICES ASSUME x \in F
               PROVE  /\ x \in Heap /\ x + 1 \in Heap /\ FootEnd(s, x) \in Nat /\ FootEnd(s, x) <= b
                      /\ x + 2 <= FootEnd(s, x) /\ SizeOf(s, x) \in Nat /\ x # Null /\ x \in Nat
                      /\ x + SizeOf(s, x) <= FootEnd(s, x) /\ x + Least <= b
    OBVIOUS
  <2>1. /\ x \in Heap /\ x + 1 \in Heap /\ FootEnd(s, x) \in Nat
        /\ x + 2 <= FootEnd(s, x) /\ SizeOf(s, x) \in Nat /\ x # Null /\ x \in Nat
        /\ x + SizeOf(s, x) <= FootEnd(s, x) /\ x + Least <= FootEnd(s, x)
    BY <1>1, FootIs
  <2>2. FootEnd(s, x) <= b
    BY <1>1, <1>2, <1>3, <1>4, <2>1
  <2> QED
    BY <1>2, <2>1, <2>2, LeastIs
<1>6. y \in F => /\ y \in Heap /\ y + 1 \in Heap /\ FootEnd(s, y) \in Nat /\ b + e <= y
                 /\ y + SizeOf(s, y) <= FootEnd(s, y) /\ SizeOf(s, y) \in Nat
                 /\ y + Least <= FootEnd(s, y) /\ y # Null /\ y \in Nat
                 /\ NextOf(s, y) = LinkOf(s, y) /\ NextOf(s, y) \in Int
  <2> SUFFICES ASSUME y \in F
               PROVE  /\ y \in Heap /\ y + 1 \in Heap /\ FootEnd(s, y) \in Nat /\ b + e <= y
                      /\ y + SizeOf(s, y) <= FootEnd(s, y) /\ SizeOf(s, y) \in Nat
                      /\ y + Least <= FootEnd(s, y) /\ y # Null /\ y \in Nat
                      /\ NextOf(s, y) = LinkOf(s, y) /\ NextOf(s, y) \in Int
    OBVIOUS
  <2>1. /\ y \in Heap /\ y + 1 \in Heap /\ FootEnd(s, y) \in Nat
        /\ y + SizeOf(s, y) <= FootEnd(s, y) /\ SizeOf(s, y) \in Nat
        /\ y + Least <= FootEnd(s, y) /\ y # Null /\ y \in Nat /\ y + 2 <= FootEnd(s, y)
        /\ NextOf(s, y) = LinkOf(s, y) /\ NextOf(s, y) \in Int
    BY <1>1, FootIs
  <2>2. b + e <= y
    BY <1>1, <1>2, <1>3, <1>4, <2>1
  <2> QED
    BY <2>1, <2>2
<1>7. x \in Nat /\ y \in Nat
  BY <1>3, <1>5, <1>6 DEF Null
<1> QED
  BY <1>1, <1>2, <1>3, <1>5, <1>6, <1>7 DEF Null

(* What it does: the list is as good as before, and only the two words of  *)
(* b and those of the free block before it have changed.                   *)
Added(s, F, os, b, t) ==
  /\ \E G : Laid(t, G, os)
  /\ SameBlocks(s, t, os) /\ t.used = s.used
  /\ \A w \in Heap : \/ t.mem[w] = s.mem[w] \/ w \in {b, b + 1}
                     \/ Prior(s, b) \in F /\ w \in {Prior(s, b), Prior(s, b) + 1}

(* The block before reaches b: it grows, up to the block behind it or over *)
(* it.                                                                     *)
LEMMA AddingGrows ==
  ASSUME NEW s, NEW F, NEW os, NEW b, NEW e, Addable(s, F, os, b, e), Touch(s, Prior(s, b), b),
         NEW t, t = AddAndMerge(s, b)
  PROVE  Added(s, F, os, b, t)
<1>1. PICK x, y : x = Prior(s, b) /\ y = Following(s, b)
  OBVIOUS
<1>2. x # Null /\ x + SizeOf(s, x) = b
  BY <1>1 DEF Touch
<1>3. /\ s \in StateSet /\ IsList(s, F) /\ Feet(s, F)
      /\ b \in Nat /\ b # Null /\ b \in Heap /\ b + 1 \in Heap /\ e \in Nat /\ Least <= e
      /\ x \in F \cup {Null} /\ x \in Nat /\ x < b /\ y \in F \cup {Null} /\ y \in Nat
      /\ LinkOf(s, x) = y
      /\ x \in F => /\ x \in Heap /\ x + 1 \in Heap /\ FootEnd(s, x) \in Nat /\ FootEnd(s, x) <= b
                    /\ x + 2 <= FootEnd(s, x) /\ SizeOf(s, x) \in Nat /\ x # Null
                    /\ x + SizeOf(s, x) <= FootEnd(s, x) /\ x + Least <= b
      /\ y \in F => /\ y \in Heap /\ y + 1 \in Heap /\ FootEnd(s, y) \in Nat /\ b + e <= y
                    /\ y + SizeOf(s, y) <= FootEnd(s, y) /\ SizeOf(s, y) \in Nat
                    /\ y + Least <= FootEnd(s, y) /\ y # Null
                    /\ NextOf(s, y) = LinkOf(s, y) /\ NextOf(s, y) \in Int
  BY <1>1, AddableIs
<1>4. Laid(s, F, os) /\ Clear(s, F, os, b, b + e)
  BY DEF Addable
<1>5. PICK zx, z, n : zx = SizeOf(s, x) /\ z = SizeOf(s, b) /\ n = NextOf(s, b)
  OBVIOUS
<1>6. x \in F /\ zx \in Nat /\ z \in {0, e} /\ n \in Int /\ (y = Null => n = Null)
  BY <1>1, <1>2, <1>3, <1>5 DEF Addable
<1>7. FootEnd(s, x) = b
  BY <1>2, <1>3, <1>6
<1>8. PICK linked : linked = SetFree(s, x, zx + z, n)
  OBVIOUS
<1>9. /\ linked \in StateSet /\ linked.first = s.first /\ linked.used = s.used
      /\ linked.mem[x] = zx + z /\ linked.mem[x + 1] = n
      /\ \A w \in Heap \ {x, x + 1} : linked.mem[w] = s.mem[w]
  <2>1. zx + z \in Int
    BY <1>3, <1>6
  <2> QED
    BY <1>3, <1>6, <1>8, <2>1, SetFreeIs
<1>10. t = IF y = Null THEN linked ELSE LinkAndMerge(linked, x, y)
  BY <1>1, <1>2, <1>5, <1>8 DEF AddAndMerge, LinkAndMerge, Merged, Touch
<1>11. x + (zx + z) = b + z
  BY <1>2, <1>3, <1>5, <1>6
<1>12. CASE y = Null \/ b + z # y
  <2>1. /\ t \in StateSet /\ t.first = s.first /\ t.used = s.used
        /\ t.mem[x] = zx + z /\ t.mem[x + 1] = y
        /\ \A w \in Heap \ {x, x + 1} : t.mem[w] = s.mem[w]
    <3>1. CASE y = Null
      BY <1>6, <1>9, <1>10, <3>1
    <3>2. CASE y # Null
      <4>1. ~Touch(linked, x, y)
        BY <1>9, <1>11, <1>12, <3>2 DEF Touch, SizeOf
      <4>2. t = Link(linked, x, y)
        BY <1>10, <3>2, <4>1 DEF LinkAndMerge
      <4>3. /\ t \in StateSet /\ t.used = linked.used /\ t.first = linked.first /\ t.mem[x + 1] = y
            /\ \A w \in Heap \ {x + 1} : t.mem[w] = linked.mem[w]
        <5>1. x \in Heap \cup {Null} /\ x # Null /\ x + 1 \in Heap /\ y \in Int
          BY <1>3, <1>6
        <5> QED
          BY <1>9, <4>2, <5>1, LinkIs
      <4>4. x # x + 1
        BY <1>3
      <4> QED
        BY <1>3, <1>6, <1>9, <4>3, <4>4
    <3> QED
      BY <3>1, <3>2
  <2>2. LinkOf(t, x) = LinkOf(s, x) /\ SizeOf(t, x) = zx + z /\ SizeOf(t, x) \in Nat
    BY <1>3, <1>6, <2>1 DEF LinkOf, NextOf, SizeOf
  <2>3. FootEnd(t, x) <= b + e
    BY <1>3, <1>6, <1>11, <2>2, LeastIs DEF FootEnd
  <2>4. Changed(s, F, t, x, x, b + e)
    <3>1. x < b + e /\ x + 1 < b + e /\ x <= x /\ x <= x + 1
      BY <1>3, <1>6
    <3> QED
      BY <2>1, <3>1 DEF Changed
  <2>5. b <= b + e
    BY <1>3
  <2>6. Laid(t, F, os) /\ SameBlocks(s, t, os)
    BY <1>4, <1>6, <1>7, <2>2, <2>3, <2>4, <2>5, Grows
  <2> QED
    BY <1>1, <1>6, <2>1, <2>6 DEF Added
<1>13. CASE y # Null /\ b + z = y
  <2>1. y \in F /\ z = e /\ y = b + e
    BY <1>3, <1>6, <1>13, LeastIs
  <2>2. PICK zy, l : zy = SizeOf(s, y) /\ l = LinkOf(s, y)
    OBVIOUS
  <2>3. zy \in Nat /\ l \in Int /\ l = NextOf(s, y)
    BY <1>3, <2>1, <2>2
  <2>4. SizeOf(linked, y) = zy /\ NextOf(linked, y) = l
    <3>1. y # x /\ y # x + 1 /\ y + 1 # x /\ y + 1 # x + 1
      BY <1>3, <1>6, <2>1
    <3> QED
      BY <1>3, <1>9, <2>1, <2>2, <2>3, <3>1 DEF SizeOf, NextOf
  <2>5. t = SetFree(linked, x, zx + z + zy, l)
    <3>1. SizeOf(linked, x) = zx + z
      BY <1>9 DEF SizeOf
    <3>2. Touch(linked, x, y)
      BY <1>2, <1>11, <1>13, <3>1 DEF Touch
    <3> QED
      BY <1>10, <1>13, <2>4, <3>1, <3>2 DEF LinkAndMerge
  <2>6. /\ t \in StateSet /\ t.first = s.first /\ t.used = s.used
        /\ t.mem[x] = zx + z + zy /\ t.mem[x + 1] = l
        /\ \A w \in Heap \ {x, x + 1} : t.mem[w] = s.mem[w]
    <3>1. zx + z + zy \in Int
      BY <1>3, <1>6, <2>3
    <3>2. /\ t \in StateSet /\ t.first = linked.first /\ t.used = linked.used
          /\ t.mem[x] = zx + z + zy /\ t.mem[x + 1] = l
          /\ \A w \in Heap \ {x, x + 1} : t.mem[w] = linked.mem[w]
      BY <1>3, <1>6, <1>9, <2>3, <2>5, <3>1, SetFreeIs
    <3> QED
      BY <1>9, <3>2
  <2>7. PICK m : m = Link(s, x, l)
    OBVIOUS
  <2>8. /\ Laid(m, F \ {y}, os) /\ SameBlocks(s, m, os)
        /\ Clear(m, F \ {y}, os, b, FootEnd(s, y))
        /\ x \in (F \ {y}) \cup {Null}
        /\ LinkOf(m, x) = l
        /\ \A c \in F : SizeOf(m, c) = SizeOf(s, c) /\ FootEnd(m, c) = FootEnd(s, c)
        /\ \A w \in Heap : m.mem[w] = s.mem[w] \/ (x \in F /\ w = x + 1)
        /\ x \in F => m.first = s.first
    <3>1. Clear(s, F, os, b, y) /\ b <= y
      BY <1>3, <1>4, <2>1
    <3> QED
      BY <1>3, <1>4, <2>1, <2>2, <2>7, <3>1, Goes
  <2>9. LinkOf(t, x) = l /\ SizeOf(t, x) = zx + z + zy /\ SizeOf(t, x) \in Nat
    BY <1>3, <1>6, <2>3, <2>6 DEF LinkOf, NextOf, SizeOf
  <2>10. FootEnd(t, x) <= FootEnd(s, y)
    <3>1. x + (zx + z + zy) = y + zy
      BY <1>3, <1>6, <1>11, <2>1, <2>3
    <3> QED
      BY <1>3, <1>6, <2>1, <2>2, <2>3, <2>9, <3>1, LeastIs DEF FootEnd
  <2>11. Changed(m, F \ {y}, t, x, x, FootEnd(s, y))
    <3>1. x < FootEnd(s, y) /\ x + 1 < FootEnd(s, y) /\ x <= x /\ x <= x + 1
      BY <1>3, <1>6, <2>1, LeastIs
    <3> QED
      BY <1>6, <2>6, <2>8, <3>1 DEF Changed
  <2>12. b <= FootEnd(s, y) /\ x \in F \ {y} /\ FootEnd(m, x) = b
    BY <1>3, <1>6, <1>7, <2>1, <2>8, LeastIs
  <2>13. LinkOf(t, x) = LinkOf(m, x)
    BY <2>8, <2>9
  <2>14. Laid(t, F \ {y}, os) /\ SameBlocks(m, t, os)
    BY <2>8, <2>9, <2>10, <2>11, <2>12, <2>13, Grows
  <2>15. SameBlocks(s, t, os)
    BY <2>8, <2>14 DEF SameBlocks
  <2> QED
    BY <1>1, <1>6, <2>6, <2>14, <2>15 DEF Added
<1> QED
  BY <1>12, <1>13

(* The block before does not reach b: b comes into the list, alone or with *)
(* the block behind it, which leaves.                                      *)
LEMMA AddingComes ==
  ASSUME NEW s, NEW F, NEW os, NEW b, NEW e, Addable(s, F, os, b, e), ~Touch(s, Prior(s, b), b),
         NEW t, t = AddAndMerge(s, b)
  PROVE  Added(s, F, os, b, t)
<1>1. PICK x, y : x = Prior(s, b) /\ y = Following(s, b)
  OBVIOUS
<1>2. ~Touch(s, x, b)
  BY <1>1
<1>3. /\ s \in StateSet /\ IsList(s, F) /\ Feet(s, F)
      /\ b \in Nat /\ b # Null /\ b \in Heap /\ b + 1 \in Heap /\ e \in Nat /\ Least <= e
      /\ x \in F \cup {Null} /\ x \in Nat /\ x < b /\ y \in F \cup {Null} /\ y \in Nat
      /\ LinkOf(s, x) = y
      /\ x \in F => /\ x \in Heap /\ x + 1 \in Heap /\ FootEnd(s, x) \in Nat /\ FootEnd(s, x) <= b
                    /\ x + 2 <= FootEnd(s, x) /\ SizeOf(s, x) \in Nat /\ x # Null
                    /\ x + SizeOf(s, x) <= FootEnd(s, x) /\ x + Least <= b
      /\ y \in F => /\ y \in Heap /\ y + 1 \in Heap /\ FootEnd(s, y) \in Nat /\ b + e <= y
                    /\ y + SizeOf(s, y) <= FootEnd(s, y) /\ SizeOf(s, y) \in Nat
                    /\ y + Least <= FootEnd(s, y) /\ y # Null
                    /\ NextOf(s, y) = LinkOf(s, y) /\ NextOf(s, y) \in Int
  BY <1>1, AddableIs
<1>4. Laid(s, F, os) /\ Clear(s, F, os, b, b + e)
  BY DEF Addable
<1>5. PICK z, n : z = SizeOf(s, b) /\ n = NextOf(s, b)
  OBVIOUS
<1>6. z \in {0, e} /\ n \in Int /\ (y = Null => n = Null)
  BY <1>1, <1>5 DEF Addable
<1>7. s.mem[b] = z /\ s.mem[b + 1] = n
  BY <1>5 DEF SizeOf, NextOf
<1>8. PICK linked : linked = Link(s, x, b)
  OBVIOUS
<1>9. /\ linked \in StateSet /\ linked.used = s.used
      /\ x \in F => linked.first = s.first
      /\ LinkOf(linked, x) = b
      /\ \A w \in Heap : linked.mem[w] = s.mem[w] \/ (x \in F /\ w = x + 1)
  <2>1. b \in Int
    BY <1>3
  <2> QED
    BY <1>3, <1>8, <2>1, LinkedIs
<1>10. x \in F => x + 1 # b /\ x + 1 # b + 1
  BY <1>3
<1>11. linked.mem[b] = z /\ linked.mem[b + 1] = n
  BY <1>3, <1>7, <1>9, <1>10
<1>12. t = IF y = Null THEN linked ELSE LinkAndMerge(linked, b, y)
  BY <1>1, <1>2, <1>8 DEF AddAndMerge, LinkAndMerge, Merged
<1>13. \A u : (x \in F => u.mem[x + 1] = linked.mem[x + 1]) /\ u.first = linked.first
              => LinkOf(u, x) = b
  BY <1>3, <1>9 DEF LinkOf, NextOf
<1>14. x < b /\ (LinkOf(s, x) = Null \/ b <= LinkOf(s, x))
  BY <1>3
<1>15. CASE y = Null \/ b + z # y
  <2>1. /\ t \in StateSet /\ t.first = linked.first /\ t.used = s.used
        /\ t.mem[b] = z /\ t.mem[b + 1] = y
        /\ \A w \in Heap \ {b + 1} : t.mem[w] = linked.mem[w]
    <3>1. CASE y = Null
      BY <1>6, <1>9, <1>11, <1>12, <3>1
    <3>2. CASE y # Null
      <4>1. ~Touch(linked, b, y)
        BY <1>11, <1>15, <3>2 DEF Touch, SizeOf
      <4>2. t = Link(linked, b, y)
        BY <1>12, <3>2, <4>1 DEF LinkAndMerge
      <4>3. /\ t \in StateSet /\ t.used = linked.used /\ t.first = linked.first /\ t.mem[b + 1] = y
            /\ \A w \in Heap \ {b + 1} : t.mem[w] = linked.mem[w]
        <5>1. b \in Heap \cup {Null} /\ b # Null /\ b + 1 \in Heap /\ y \in Int
          BY <1>3
        <5> QED
          BY <1>9, <4>2, <5>1, LinkIs
      <4>4. b # b + 1
        BY <1>3
      <4> QED
        BY <1>3, <1>9, <1>11, <4>3, <4>4
    <3> QED
      BY <3>1, <3>2
  <2>2. LinkOf(t, x) = b
    <3>1. x \in F => t.mem[x + 1] = linked.mem[x + 1]
      BY <1>3, <1>10, <2>1
    <3> QED
      BY <1>13, <2>1, <3>1
  <2>3. LinkOf(t, b) = LinkOf(s, x) /\ SizeOf(t, b) = z /\ SizeOf(t, b) \in Nat
    BY <1>3, <1>6, <2>1 DEF LinkOf, NextOf, SizeOf
  <2>4. FootEnd(t, b) <= b + e
    BY <1>3, <1>6, <2>3, LeastIs DEF FootEnd
  <2>5. \A w \in Heap : t.mem[w] = s.mem[w] \/ (x \in F /\ w = x + 1) \/ w \in {b, b + 1}
    BY <1>9, <2>1
  <2>6. Changed(s, F, t, x, b, b + e)
    <3>1. b < b + e /\ b + 1 < b + e /\ b <= b /\ b <= b + 1
      BY <1>3, LeastIs
    <3> QED
      BY <1>9, <2>1, <2>5, <3>1 DEF Changed
  <2>7. b <= b /\ b \in Int
    BY <1>3
  <2>8. Laid(t, F \cup {b}, os) /\ SameBlocks(s, t, os)
    BY <1>3, <1>4, <1>14, <2>2, <2>3, <2>4, <2>6, <2>7, Comes
  <2> QED
    BY <1>1, <2>1, <2>5, <2>8 DEF Added
<1>16. CASE y # Null /\ b + z = y
  <2>1. y \in F /\ z = e /\ y = b + e
    BY <1>3, <1>6, <1>16, LeastIs
  <2>2. PICK zy, l : zy = SizeOf(s, y) /\ l = LinkOf(s, y)
    OBVIOUS
  <2>3. zy \in Nat /\ l \in Int /\ l = NextOf(s, y)
    BY <1>3, <2>1, <2>2
  <2>4. SizeOf(linked, y) = zy /\ NextOf(linked, y) = l
    <3>1. x \in F => y # x + 1 /\ y + 1 # x + 1
      BY <1>3, <1>6, <2>1
    <3> QED
      BY <1>3, <1>9, <2>1, <2>2, <2>3, <3>1 DEF SizeOf, NextOf
  <2>5. t = SetFree(linked, b, z + zy, l)
    <3>1. SizeOf(linked, b) = z
      BY <1>11 DEF SizeOf
    <3>2. Touch(linked, b, y)
      BY <1>3, <1>16, <3>1 DEF Touch
    <3> QED
      BY <1>12, <1>16, <2>4, <3>1, <3>2 DEF LinkAndMerge
  <2>6. /\ t \in StateSet /\ t.first = linked.first /\ t.used = s.used
        /\ t.mem[b] = z + zy /\ t.mem[b + 1] = l
        /\ \A w \in Heap \ {b, b + 1} : t.mem[w] = linked.mem[w]
    <3>1. z + zy \in Int
      BY <1>3, <1>6, <2>3
    <3>2. /\ t \in StateSet /\ t.first = linked.first /\ t.used = linked.used
          /\ t.mem[b] = z + zy /\ t.mem[b + 1] = l
          /\ \A w \in Heap \ {b, b + 1} : t.mem[w] = linked.mem[w]
      BY <1>3, <1>9, <2>3, <2>5, <3>1, SetFreeIs
    <3> QED
      BY <1>9, <3>2
  <2>7. PICK m : m = Link(s, x, l)
    OBVIOUS
  <2>8. /\ Laid(m, F \ {y}, os) /\ SameBlocks(s, m, os)
        /\ Clear(m, F \ {y}, os, b, FootEnd(s, y))
        /\ x \in (F \ {y}) \cup {Null}
        /\ LinkOf(m, x) = l /\ (LinkOf(m, x) = Null \/ FootEnd(s, y) <= LinkOf(m, x))
        /\ \A w \in Heap : m.mem[w] = s.mem[w] \/ (x \in F /\ w = x + 1)
        /\ x \in F => m.first = s.first
    <3>1. Clear(s, F, os, b, y) /\ b <= y
      BY <1>3, <1>4, <2>1
    <3> QED
      BY <1>3, <1>4, <2>1, <2>2, <2>7, <3>1, Goes
  <2>9. LinkOf(t, x) = b
    <3>1. x \in F => t.mem[x + 1] = linked.mem[x + 1]
      BY <1>3, <1>10, <2>6
    <3> QED
      BY <1>13, <2>6, <3>1
  <2>10. LinkOf(t, b) = LinkOf(m, x) /\ SizeOf(t, b) = z + zy /\ SizeOf(t, b) \in Nat
    BY <1>3, <1>6, <2>3, <2>6, <2>8 DEF LinkOf, NextOf, SizeOf
  <2>11. FootEnd(t, b) <= FootEnd(s, y)
    <3>1. b + (z + zy) = y + zy /\ b + Least <= FootEnd(s, y)
      BY <1>3, <1>6, <2>1, <2>3, LeastIs
    <3> QED
      BY <1>3, <2>1, <2>2, <2>3, <2>10, <3>1 DEF FootEnd
  <2>12. \A w \in Heap : t.mem[w] = s.mem[w] \/ (x \in F /\ w = x + 1) \/ w \in {b, b + 1}
    BY <1>9, <2>6
  <2>13. Changed(m, F \ {y}, t, x, b, FootEnd(s, y))
    <3>1. b < FootEnd(s, y) /\ b + 1 < FootEnd(s, y) /\ b <= b /\ b <= b + 1
      BY <1>3, <2>1, LeastIs
    <3>2. x \in F <=> x \in F \ {y}
      BY <1>3, <2>8
    <3>3. \A w \in Heap : t.mem[w] = m.mem[w] \/ (x \in F /\ w = x + 1) \/ w \in {b, b + 1}
      BY <2>8, <2>12
    <3>4. \A w \in Heap : t.mem[w] = m.mem[w] \/ (x \in F \ {y} /\ w = x + 1)
                          \/ (b <= w /\ w < FootEnd(s, y))
      BY <3>1, <3>2, <3>3
    <3> QED
      BY <1>9, <2>6, <2>8, <3>2, <3>4 DEF Changed
  <2>14. LinkOf(m, x) = Null \/ b <= LinkOf(m, x)
    BY <1>3, <2>1, <2>3, <2>8, LeastIs
  <2>15. Laid(t, (F \ {y}) \cup {b}, os) /\ SameBlocks(m, t, os)
    <3>1. b \in Int /\ b <= b
      BY <1>3
    <3> QED
      BY <1>3, <2>8, <2>9, <2>10, <2>11, <2>13, <2>14, <3>1, Comes
  <2>16. SameBlocks(s, t, os)
    BY <2>8, <2>15 DEF SameBlocks
  <2> QED
    BY <1>1, <2>6, <2>12, <2>15, <2>16 DEF Added
<1> QED
  BY <1>15, <1>16

(* Nobody's words come into the list, whatever is around them. *)
LEMMA Adding ==
  ASSUME NEW s, NEW F, NEW os, Laid(s, F, os), NEW b \in Heap, NEW e \in Nat, Least <= e,
         Clear(s, F, os, b, b + e), NEW z \in {0, e}, NEW n \in Int,
         Following(s, b) = Null => n = Null,
         NEW t, t = AddAndMerge(SetFree(s, b, z, n), b)
  PROVE  Added(s, F, os, b, t)
<1>1. PICK m : m = SetFree(s, b, z, n)
  OBVIOUS
<1>2. s \in StateSet /\ IsList(s, F) /\ Feet(s, F) /\ b + e <= Base + Words
  BY DEF Laid, Clear
<1>3. b \in Nat \ {0} /\ b + 1 \in Heap /\ b < b + e /\ b + 1 < b + e /\ z \in Int
  BY <1>2, LeastIs DEF Heap
<1>4. /\ m \in StateSet /\ m.first = s.first /\ m.used = s.used
      /\ m.mem[b] = z /\ m.mem[b + 1] = n
      /\ \A w \in Heap \ {b, b + 1} : m.mem[w] = s.mem[w]
  BY <1>1, <1>2, <1>3, SetFreeIs
<1>5. \A w \in Heap : m.mem[w] = s.mem[w] \/ (b <= w /\ w < b + e)
  BY <1>3, <1>4
<1>6. Laid(m, F, os) /\ SameBlocks(s, m, os) /\ Clear(m, F, os, b, b + e)
  BY <1>4, <1>5, ClearWrite
<1>7. FreeBlocks(m) = F /\ FreeBlocks(s) = F
  BY <1>2, <1>6, ListIs DEF Laid
<1>8. Prior(m, b) = Prior(s, b) /\ Following(m, b) = Following(s, b)
  BY <1>7 DEF Prior, Following
<1>9. Addable(m, F, os, b, e)
  BY <1>4, <1>6, <1>8 DEF Addable, SizeOf, NextOf
<1>10. Added(m, F, os, b, t)
  BY <1>1, <1>9, AddingComes, AddingGrows
<1>11. SameBlocks(s, t, os)
  BY <1>6, <1>10 DEF Added, SameBlocks
<1>12. \A w \in Heap : \/ t.mem[w] = s.mem[w] \/ w \in {b, b + 1}
                       \/ Prior(s, b) \in F /\ w \in {Prior(s, b), Prior(s, b) + 1}
  BY <1>4, <1>8, <1>10 DEF Added
<1> QED
  BY <1>4, <1>8, <1>10, <1>11, <1>12 DEF Added

(* m_used_size is no part of it. *)
WithUsed(s, u) == [s EXCEPT !.used = u]

(* m_used_size is not in the memory. *)
LEMMA UsedOnly ==
  ASSUME NEW s, NEW F, NEW os, Laid(s, F, os), NEW u \in Int, NEW t, t = WithUsed(s, u)
  PROVE  /\ Laid(t, F, os) /\ SameBlocks(s, t, os)
         /\ t \in StateSet /\ t.mem = s.mem /\ t.first = s.first /\ t.used = u
<1>1. s \in StateSet
  BY DEF Laid
<1>2. t \in StateSet /\ t.mem = s.mem /\ t.first = s.first /\ t.used = u
  BY <1>1 DEF StateSet, WithUsed
<1>3. \A c \in Int : SizeOf(t, c) = SizeOf(s, c) /\ LinkOf(t, c) = LinkOf(s, c) /\ FootEnd(t, c) = FootEnd(s, c)
  BY <1>2 DEF SizeOf, LinkOf, NextOf, FootEnd
<1>4. F \subseteq Int /\ Null \in Int
  BY DEF Laid, IsList, Heap, Null
<1>5. \A c \in F : SizeOf(t, c) = SizeOf(s, c) /\ FootEnd(t, c) = FootEnd(s, c)
  BY <1>3, <1>4
<1>6. \A c \in F \cup {Null} : LinkOf(t, c) = LinkOf(s, c)
  BY <1>3, <1>4
<1>7. IsList(t, F)
  BY <1>6 DEF Laid, IsList
<1>8. Feet(t, F)
  BY <1>5 DEF Laid, Feet
<1>9. Blocks(t, os) /\ SameBlocks(s, t, os)
  BY <1>1, <1>2, BlocksStay DEF Laid
<1>10. Apart(t, F, os)
  BY <1>5, <1>9 DEF Laid, Apart, SameBlocks
<1> QED
  BY <1>2, <1>7, <1>8, <1>9, <1>10 DEF Laid

(* No one ends inside a free block that begins there. *)
LEMMA FreeIsClear ==
  ASSUME NEW s, NEW F, NEW os, Laid(s, F, os), NEW b \in F
  PROVE  Clear(s, F, os, b, b)
<1>1. s \in StateSet /\ IsList(s, F) /\ Feet(s, F) /\ Blocks(s, os) /\ Apart(s, F, os)
  BY DEF Laid
<1>2. \A c \in F : /\ c \in Nat /\ FootEnd(s, c) \in Nat /\ c < FootEnd(s, c)
                   /\ FootEnd(s, c) <= Base + Words /\ Base <= c
  BY <1>1, FootIs
<1>3. ASSUME NEW h \in Handles, os[h] # NoBlock
      PROVE  End(s, os[h]) <= b \/ b <= Start(s, os[h].p)
  <2>1. Shape(s, os[h].p, os[h].size)
    BY <1>1, <1>3, BlockIs
  <2>2. FootEnd(s, b) <= Start(s, os[h].p) \/ End(s, os[h]) <= b
    BY <1>1, <1>3 DEF Apart
  <2> QED
    BY <1>2, <2>1, <2>2 DEF Shape
<1>4. ASSUME NEW c \in F
      PROVE  FootEnd(s, c) <= b \/ b <= c
  <2>1. c < b => FootEnd(s, c) <= b
    BY <1>1 DEF Feet
  <2> QED
    BY <1>2, <2>1
<1> QED
  BY <1>2, <1>3, <1>4 DEF Clear

(* The header written and the words filled that the caller did not have. *)
LEMMA HeaderAndFill ==
  ASSUME NEW s \in StateSet, NEW q \in Heap, q - 3 \in Heap, NEW b \in Int, NEW k \in Int, NEW a \in Int,
         NEW old \in Nat, NEW size \in Nat, old <= size, q + size <= Base + Words, NEW h \in Handles,
         \A w \in q .. q + old - 1 : s.mem[w] = h,
         NEW t, t = Fill(SetHeader(s, q, b, k, a), q, old, size, h)
  PROVE  /\ t \in StateSet /\ t.first = s.first /\ t.used = s.used
         /\ Start(t, q) = b /\ Held(t, q) = k /\ Alignment(t, q) = a
         /\ \A w \in q .. q + size - 1 : t.mem[w] = h
         /\ \A w \in Heap : w < q - 3 \/ q + size <= w => t.mem[w] = s.mem[w]
<1>1. PICK m : m = SetHeader(s, q, b, k, a)
  OBVIOUS
<1>2. /\ m \in StateSet /\ m.first = s.first /\ m.used = s.used
      /\ Start(m, q) = b /\ Held(m, q) = k /\ Alignment(m, q) = a
      /\ \A w \in Heap : w < q - 3 \/ q <= w => m.mem[w] = s.mem[w]
  <2>1. /\ m \in StateSet /\ m.first = s.first /\ m.used = s.used
        /\ Start(m, q) = b /\ Held(m, q) = k /\ Alignment(m, q) = a
    BY <1>1, SetHeaderIs
  <2>2. ASSUME NEW w \in Heap, w < q - 3 \/ q <= w
        PROVE  m.mem[w] = s.mem[w]
    BY <1>1, <2>2, SetHeaderIs
  <2> QED
    BY <2>1, <2>2
<1>3. q \in Int /\ q - 1 \in Heap /\ q - 2 \in Heap
  BY DEF Heap
<1>4. /\ t \in StateSet /\ t.first = m.first /\ t.used = m.used
      /\ \A w \in Heap : t.mem[w] = IF q + old <= w /\ w < q + size THEN h ELSE m.mem[w]
  <2>1. t = Fill(m, q, old, size, h) /\ old \in Int /\ size \in Int
    BY <1>1
  <2>2. t \in StateSet /\ t.first = m.first /\ t.used = m.used
    BY <1>2, <1>3, <2>1, FillIs
  <2>3. ASSUME NEW w \in Heap
        PROVE  t.mem[w] = IF q + old <= w /\ w < q + size THEN h ELSE m.mem[w]
    BY <1>2, <1>3, <2>1, FillIs
  <2> QED
    BY <2>2, <2>3
<1>5. t.mem[q - 3] = m.mem[q - 3] /\ t.mem[q - 2] = m.mem[q - 2] /\ t.mem[q - 1] = m.mem[q - 1]
  BY <1>3, <1>4
<1>6. Start(t, q) = b /\ Held(t, q) = k /\ Alignment(t, q) = a
  BY <1>2, <1>5 DEF Start, Held, Alignment
<1>7. ASSUME NEW w \in q .. q + size - 1
      PROVE  t.mem[w] = h
  <2>1. w \in Heap /\ q <= w /\ w < q + size
    BY <1>3 DEF Heap
  <2>2. m.mem[w] = s.mem[w]
    BY <1>2, <2>1
  <2>3. w < q + old => w \in q .. q + old - 1
    BY <1>3, <2>1
  <2> QED
    BY <1>3, <1>4, <2>1, <2>2, <2>3
<1>8. ASSUME NEW w \in Heap, w < q - 3 \/ q + size <= w
      PROVE  t.mem[w] = s.mem[w]
  <2>1. w \in Int /\ ~(q + old <= w /\ w < q + size) /\ (w < q - 3 \/ q <= w)
    BY <1>3, <1>8 DEF Heap
  <2> QED
    BY <1>2, <1>4, <2>1
<1> QED
  BY <1>2, <1>4, <1>6, <1>7, <1>8

(* What is placed: a block of size words behind its header and padding in  *)
(* a free block that has room for it, with the words that are there        *)
(* already.                                                                *)
Placeable(s, F, os, h, b, q, size, a, old) ==
  /\ Laid(s, F, os) /\ h \in Handles /\ os[h] = NoBlock /\ b \in F
  /\ a \in Alignments /\ size \in Sizes /\ q = PointerIn(b, a)
  /\ SizeOf(s, b) >= q - b + size
  /\ old \in Nat /\ old <= size
  /\ \A w \in q .. q + old - 1 : s.mem[w] = h

(* m_used_size is k and what the block at q takes. *)
Accounts(t, q, k) == t.used = k + (q + Held(t, q) - Start(t, q))

Placed(s, os, h, q, size, t) ==
  /\ \E G : Laid(t, G, [os EXCEPT ![h] = [p |-> q, size |-> size]])
  /\ SameBlocks(s, t, os)
  /\ Accounts(t, q, s.used)

(* Numbers of a free block about to be given to a caller. *)
LEMMA PlaceableIs ==
  ASSUME NEW s, NEW F, NEW os, NEW h, NEW b, NEW q, NEW size, NEW a, NEW old,
         Placeable(s, F, os, h, b, q, size, a, old), NEW x, x = Prior(s, b)
  PROVE  /\ s \in StateSet /\ IsList(s, F) /\ Feet(s, F) /\ s.used \in Int
         /\ b \in Nat /\ b # Null /\ b \in Heap /\ b + 1 \in Heap /\ Base <= b
         /\ q \in Heap /\ q \in Nat /\ q - 3 \in Heap /\ b + 3 <= q
         /\ size \in Nat \ {0} /\ a \in Int /\ old \in Nat /\ old <= size /\ h \in Handles
         /\ SizeOf(s, b) \in Nat /\ q + size <= b + SizeOf(s, b)
         /\ FootEnd(s, b) = b + SizeOf(s, b) /\ FootEnd(s, b) <= Base + Words
         /\ x \in F \cup {Null} /\ x < b /\ LinkOf(s, x) = b /\ x \in Nat
         /\ x \in F => x + 2 <= b
         /\ NextOf(s, b) = LinkOf(s, b) /\ NextOf(s, b) \in Int
<1>1. /\ s \in StateSet /\ IsList(s, F) /\ Feet(s, F) /\ b \in F /\ a \in Nat \ {0} /\ size \in Nat \ {0}
      /\ q = PointerIn(b, a) /\ SizeOf(s, b) >= q - b + size
      /\ old \in Nat /\ old <= size /\ h \in Handles
  BY DEF Placeable, Laid
<1>2. \A c \in F : /\ c \in Heap /\ c + 1 \in Heap /\ c # Null /\ c \in Nat /\ Base <= c
                   /\ SizeOf(s, c) \in Nat /\ FootEnd(s, c) \in Nat
                   /\ c + 2 <= FootEnd(s, c) /\ FootEnd(s, c) <= Base + Words
                   /\ SizeOf(s, c) >= Least => FootEnd(s, c) = c + SizeOf(s, c)
                   /\ NextOf(s, c) \in Int /\ LinkOf(s, c) = NextOf(s, c)
  BY <1>1, FootIs
<1>3. q \in Nat /\ b + 3 <= q
  BY <1>1, <1>2, PointerBounds DEF HeaderSize
<1>4. SizeOf(s, b) >= 4 /\ q + size <= b + SizeOf(s, b)
  BY <1>1, <1>2, <1>3
<1>5. FootEnd(s, b) = b + SizeOf(s, b)
  BY <1>1, <1>2, <1>4, LeastIs
<1>6. q \in Heap /\ q - 3 \in Heap
  BY <1>1, <1>2, <1>3, <1>4, <1>5 DEF Heap
<1>7. PICK y : y = Following(s, b)
  OBVIOUS
<1>8. b \in Nat \ {0}
  BY <1>1, <1>2 DEF Null
<1>9. /\ x \in F \cup {Null} /\ x < b /\ y \in F \cup {Null} /\ LinkOf(s, x) = y
      /\ y = Null => \A c \in F : c < b
      /\ y # Null => b <= y /\ \A c \in F : c < b \/ y <= c
  BY <1>1, <1>7, <1>8, AdjacentAre
<1>10. y = b
  <2>1. ~(b < b)
    BY <1>8
  <2>2. y # Null
    BY <1>1, <1>9, <2>1
  <2>3. b <= y /\ y <= b /\ y \in Nat
    BY <1>1, <1>2, <1>9, <2>1, <2>2
  <2> QED
    BY <1>8, <2>3
<1>11. x \in Nat /\ (x \in F => x + 2 <= b)
  <2>1. x \in F => FootEnd(s, x) <= b
    BY <1>1, <1>9 DEF Feet
  <2> QED
    BY <1>1, <1>2, <1>9, <2>1 DEF Null
<1>12. s.used \in Int
  BY <1>1 DEF StateSet
<1> QED
  BY <1>1, <1>2, <1>3, <1>4, <1>5, <1>6, <1>9, <1>10, <1>11, <1>12

(* The free block is taken whole. *)
LEMMA PlacingAll ==
  ASSUME NEW s, NEW F, NEW os, NEW h, NEW b, NEW q, NEW size, NEW a, NEW old,
         Placeable(s, F, os, h, b, q, size, a, old), TakesAll(s, b, q - b + size),
         NEW t, t = Fill(Place(s, b, q, size, a), q, old, size, h)
  PROVE  Placed(s, os, h, q, size, t)
<1>1. PICK x, z, l : x = Prior(s, b) /\ z = SizeOf(s, b) /\ l = NextOf(s, b)
  OBVIOUS
<1>2. /\ s \in StateSet /\ s.used \in Int
      /\ b \in Nat /\ b # Null /\ Base <= b
      /\ q \in Heap /\ q \in Nat /\ q - 3 \in Heap /\ b + 3 <= q
      /\ size \in Nat \ {0} /\ a \in Int /\ old \in Nat /\ old <= size /\ h \in Handles
      /\ z \in Nat /\ q + size <= b + z
      /\ FootEnd(s, b) = b + z /\ b + z <= Base + Words
      /\ x \in F \cup {Null} /\ x < b /\ LinkOf(s, x) = b /\ x \in Nat
      /\ x \in F => x + 2 <= b
      /\ l = LinkOf(s, b) /\ l \in Int
  BY <1>1, PlaceableIs
<1>3. /\ Laid(s, F, os) /\ os[h] = NoBlock /\ b \in F /\ a \in Alignments /\ size \in Sizes
      /\ \A w \in q .. q + old - 1 : s.mem[w] = h
  BY DEF Placeable
<1>4. PICK u : u = [s EXCEPT !.used = s.used + z]
  OBVIOUS
<1>5. /\ Laid(u, F, os) /\ SameBlocks(s, u, os)
      /\ u \in StateSet /\ u.mem = s.mem /\ u.first = s.first /\ u.used = s.used + z
  <2>1. s.used + z \in Int
    BY <1>2
  <2> QED
    BY <1>3, <1>4, <2>1, UsedOnly DEF WithUsed
<1>6. LinkOf(u, x) = b /\ LinkOf(u, b) = l /\ FootEnd(u, b) = b + z
  BY <1>2, <1>5 DEF LinkOf, NextOf, FootEnd, SizeOf
<1>7. PICK g : g = Link(u, x, l)
  OBVIOUS
<1>8. /\ Laid(g, F \ {b}, os) /\ SameBlocks(u, g, os) /\ g.used = u.used
      /\ Clear(g, F \ {b}, os, b, b + z)
      /\ \A w \in Heap : g.mem[w] = u.mem[w] \/ (x \in F /\ w = x + 1)
  <2>1. Clear(u, F, os, b, b) /\ b <= b
    BY <1>2, <1>3, <1>5, FreeIsClear
  <2>2. g = Link(u, x, LinkOf(u, b)) /\ b = LinkOf(u, x)
    BY <1>6, <1>7
  <2>3. /\ Laid(g, F \ {b}, os) /\ SameBlocks(u, g, os) /\ g.used = u.used
        /\ Clear(g, F \ {b}, os, b, FootEnd(u, b))
    BY <1>2, <1>3, <1>5, <2>1, <2>2, Goes
  <2>4. ASSUME NEW w \in Heap
        PROVE  g.mem[w] = u.mem[w] \/ (x \in F /\ w = x + 1)
    <3>1. u \in StateSet /\ IsList(u, F) /\ Feet(u, F) /\ x \in F \cup {Null} /\ l \in Int
      BY <1>2, <1>5 DEF Laid
    <3> QED
      BY <1>7, <3>1, LinkedIs
  <2> QED
    BY <1>6, <2>3, <2>4
<1>9. t = Fill(SetHeader(g, q, b, z - (q - b), a), q, old, size, h)
  <2>1. ~EnoughForHeader(z - (q - b + size))
    BY <1>1 DEF TakesAll
  <2>2. Shrunk(s, b, x, q - b + size) = g
    BY <1>1, <1>4, <1>7, <2>1 DEF Shrunk
  <2> QED
    BY <1>1, <2>2 DEF Place
<1>10. \A w \in q .. q + old - 1 : g.mem[w] = h
  <2> TAKE w \in q .. q + old - 1
  <2>1. w \in Heap /\ ~(x \in F /\ w = x + 1)
    BY <1>2 DEF Heap
  <2>2. s.mem[w] = h
    BY <1>3
  <2> QED
    BY <1>5, <1>8, <2>1, <2>2
<1>11. PICK k : k = z - (q - b)
  OBVIOUS
<1>12. /\ t \in StateSet /\ t.first = g.first /\ t.used = g.used
       /\ Start(t, q) = b /\ Held(t, q) = k /\ Alignment(t, q) = a
       /\ \A w \in q .. q + size - 1 : t.mem[w] = h
       /\ \A w \in Heap : w < q - 3 \/ q + size <= w => t.mem[w] = g.mem[w]
  <2>1. g \in StateSet /\ k \in Int /\ b \in Int /\ q + size <= Base + Words /\ size \in Nat
    BY <1>2, <1>8, <1>11 DEF Laid
  <2>2. t = Fill(SetHeader(g, q, b, k, a), q, old, size, h)
    BY <1>9, <1>11
  <2> QED
    BY <1>2, <1>10, <2>1, <2>2, HeaderAndFill
<1>13. Laid(t, F \ {b}, os) /\ SameBlocks(g, t, os) /\ Clear(t, F \ {b}, os, b, b + z)
  <2>1. \A w \in Heap : t.mem[w] = g.mem[w] \/ (b <= w /\ w < b + z)
    <3> TAKE w \in Heap
    <3>1. w \in Int /\ (w < q - 3 \/ q + size <= w \/ (b <= w /\ w < b + z))
      BY <1>2 DEF Heap
    <3> QED
      BY <1>12, <3>1
  <2> QED
    BY <1>8, <1>12, <2>1, ClearWrite
<1>14. PICK o : o = [p |-> q, size |-> size]
  OBVIOUS
<1>15. q + k = b + z
  BY <1>2, <1>11
<1>16. IsBlock(t, o, h)
  BY <1>2, <1>3, <1>11, <1>12, <1>14, <1>15 DEF IsBlock, End, HeaderSize
<1>17. Start(t, o.p) = b /\ End(t, o) = b + z
  BY <1>12, <1>14, <1>15 DEF End
<1>18. Laid(t, F \ {b}, [os EXCEPT ![h] = o])
  BY <1>2, <1>3, <1>13, <1>16, <1>17, PutIn
<1>19. t.used = s.used + (q + Held(t, q) - Start(t, q))
  BY <1>2, <1>5, <1>8, <1>11, <1>12, <1>15
<1>20. SameBlocks(s, t, os)
  BY <1>5, <1>8, <1>13 DEF SameBlocks
<1> QED
  BY <1>14, <1>18, <1>19, <1>20 DEF Placed, Accounts

(* Of the free block the words behind stay free. *)
LEMMA PlacingRest ==
  ASSUME NEW s, NEW F, NEW os, NEW h, NEW b, NEW q, NEW size, NEW a, NEW old,
         Placeable(s, F, os, h, b, q, size, a, old), ~TakesAll(s, b, q - b + size),
         NEW t, t = Fill(Place(s, b, q, size, a), q, old, size, h)
  PROVE  Placed(s, os, h, q, size, t)
<1>1. PICK x, z, l, n, rest :
        /\ x = Prior(s, b) /\ z = SizeOf(s, b) /\ l = NextOf(s, b)
        /\ n = q + size /\ rest = z - (q - b + size)
  OBVIOUS
<1>2. /\ s \in StateSet /\ s.used \in Int
      /\ b \in Nat /\ b # Null /\ Base <= b
      /\ q \in Heap /\ q \in Nat /\ q - 3 \in Heap /\ b + 3 <= q
      /\ size \in Nat \ {0} /\ a \in Int /\ old \in Nat /\ old <= size /\ h \in Handles
      /\ z \in Nat /\ q + size <= b + z
      /\ FootEnd(s, b) = b + z /\ b + z <= Base + Words
      /\ x \in F \cup {Null} /\ x < b /\ LinkOf(s, x) = b /\ x \in Nat
      /\ x \in F => x + 2 <= b
      /\ l = LinkOf(s, b) /\ l \in Int
  BY <1>1, PlaceableIs
<1>3. /\ Laid(s, F, os) /\ os[h] = NoBlock /\ b \in F /\ a \in Alignments /\ size \in Sizes
      /\ \A w \in q .. q + old - 1 : s.mem[w] = h
  BY DEF Placeable
<1>4. rest > 3
  BY <1>1 DEF TakesAll, EnoughForHeader, HeaderSize
<1>5. PICK need : need = q - b + size
  OBVIOUS
<1>6. b + need = n /\ need \in Nat /\ rest \in Nat /\ n \in Nat /\ n + rest = b + z
  BY <1>1, <1>2, <1>4, <1>5
<1>7. PICK u : u = [s EXCEPT !.used = s.used + need]
  OBVIOUS
<1>8. /\ Laid(u, F, os) /\ SameBlocks(s, u, os)
      /\ u \in StateSet /\ u.mem = s.mem /\ u.first = s.first /\ u.used = s.used + need
  <2>1. s.used + need \in Int
    BY <1>2, <1>6
  <2> QED
    BY <1>3, <1>7, <2>1, UsedOnly DEF WithUsed
<1>9. LinkOf(u, x) = b /\ LinkOf(u, b) = l /\ FootEnd(u, b) = b + z
  BY <1>2, <1>8 DEF LinkOf, NextOf, FootEnd, SizeOf
<1>10. PICK g : g = Link(u, x, l)
  OBVIOUS
<1>11. /\ Laid(g, F \ {b}, os) /\ SameBlocks(u, g, os) /\ g.used = u.used
       /\ Clear(g, F \ {b}, os, b, b + z)
       /\ x \in (F \ {b}) \cup {Null}
       /\ LinkOf(g, x) = l /\ (LinkOf(g, x) = Null \/ b + z <= LinkOf(g, x))
       /\ \A w \in Heap : g.mem[w] = u.mem[w] \/ (x \in F /\ w = x + 1)
       /\ x \in F => g.first = u.first
  <2>1. Clear(u, F, os, b, b) /\ b <= b
    BY <1>2, <1>3, <1>8, FreeIsClear
  <2>2. x \in F \cup {Null} /\ b \in F /\ b = LinkOf(u, x) /\ Laid(u, F, os)
    BY <1>2, <1>3, <1>8, <1>9
  <2>3. g = Link(u, x, LinkOf(u, b))
    BY <1>9, <1>10
  <2> QED
    BY <1>9, <2>1, <2>2, <2>3, Goes
<1>12. n \in Heap /\ n + 1 \in Heap
  BY <1>1, <1>2, <1>4, <1>6 DEF Heap
<1>13. PICK v : v = SetFree(u, n, rest, l)
  OBVIOUS
<1>14. /\ v \in StateSet /\ v.first = u.first /\ v.used = u.used
       /\ v.mem[n] = rest /\ v.mem[n + 1] = l
       /\ \A w \in Heap \ {n, n + 1} : v.mem[w] = u.mem[w]
  BY <1>2, <1>6, <1>8, <1>12, <1>13, SetFreeIs
<1>15. PICK sh : sh = Link(v, x, n)
  OBVIOUS
<1>16. x \in F => x \in Heap /\ x + 1 \in Heap /\ x # Null
  BY <1>3, FootIs DEF Laid
<1>17. /\ sh \in StateSet /\ sh.used = v.used
       /\ x = Null => sh.first = n /\ sh.mem = v.mem
       /\ x # Null => /\ sh.first = v.first /\ sh.mem[x + 1] = n
                      /\ \A w \in Heap \ {x + 1} : sh.mem[w] = v.mem[w]
  <2>1. x \in Heap \cup {Null} /\ (x # Null => x + 1 \in Heap) /\ n \in Int
    BY <1>2, <1>6, <1>16
  <2>2. v \in StateSet
    BY <1>14
  <2>3. sh \in StateSet /\ sh.used = v.used /\ (x = Null => sh.first = n /\ sh.mem = v.mem)
    BY <1>15, <2>1, <2>2, LinkIs
  <2>4. ASSUME x # Null
        PROVE  sh.first = v.first /\ sh.mem[x + 1] = n
    <3>1. x \in Heap /\ x + 1 \in Heap
      BY <2>1, <2>4
    <3>2. sh = SetNext(v, x, n)
      BY <1>15, <2>4 DEF Link
    <3> QED
      BY <2>1, <2>2, <3>1, <3>2 DEF SetNext, StateSet
  <2>5. ASSUME x # Null, NEW w \in Heap \ {x + 1}
        PROVE  sh.mem[w] = v.mem[w]
    BY <1>15, <2>1, <2>2, <2>5, LinkIs
  <2> QED
    BY <2>3, <2>4, <2>5
<1>18. /\ x \in F => sh.mem[x + 1] = n /\ sh.first = u.first
       /\ x \notin F => sh.first = n
       /\ \A w \in Heap : ~(x \in F /\ w = x + 1) => sh.mem[w] = v.mem[w]
  BY <1>2, <1>14, <1>16, <1>17
<1>19. t = Fill(SetHeader(sh, q, b, size, a), q, old, size, h)
  <2>1. EnoughForHeader(z - (q - b + size)) /\ b + (q - b + size) = n
    BY <1>1, <1>5, <1>6 DEF TakesAll
  <2>2. Shrunk(s, b, x, q - b + size) = sh
    <3>1. rest = z - need /\ b + need = n /\ EnoughForHeader(rest)
      BY <1>1, <1>5, <1>6, <2>1
    <3>2. Shrunk(s, b, x, need) = sh
      BY <1>1, <1>7, <1>13, <1>15, <3>1 DEF Shrunk
    <3> QED
      BY <1>5, <3>2
  <2> QED
    BY <1>1, <2>2 DEF Place
<1>20. \A w \in q .. q + old - 1 : sh.mem[w] = h
  <2> TAKE w \in q .. q + old - 1
  <2>1. w \in Heap /\ ~(x \in F /\ w = x + 1) /\ w # n /\ w # n + 1
    BY <1>1, <1>2 DEF Heap
  <2>2. s.mem[w] = h
    BY <1>3
  <2> QED
    BY <1>8, <1>14, <1>18, <2>1, <2>2
<1>21. /\ t \in StateSet /\ t.first = sh.first /\ t.used = sh.used
       /\ Start(t, q) = b /\ Held(t, q) = size /\ Alignment(t, q) = a
       /\ \A w \in q .. q + size - 1 : t.mem[w] = h
       /\ \A w \in Heap : w < q - 3 \/ q + size <= w => t.mem[w] = sh.mem[w]
  <2>1. b \in Int /\ q + size <= Base + Words /\ size \in Nat /\ size \in Int
    BY <1>2
  <2>2. /\ sh \in StateSet /\ q \in Heap /\ q - 3 \in Heap /\ a \in Int
        /\ old \in Nat /\ old <= size /\ h \in Handles
    BY <1>2, <1>17
  <2>3. /\ t \in StateSet /\ t.first = sh.first /\ t.used = sh.used
        /\ Start(t, q) = b /\ Held(t, q) = size /\ Alignment(t, q) = a
    BY <1>19, <1>20, <2>1, <2>2, HeaderAndFill
  <2>4. ASSUME NEW w \in q .. q + size - 1
        PROVE  t.mem[w] = h
    BY <1>19, <1>20, <2>1, <2>2, HeaderAndFill
  <2>5. ASSUME NEW w \in Heap, w < q - 3 \/ q + size <= w
        PROVE  t.mem[w] = sh.mem[w]
    BY <1>19, <1>20, <2>1, <2>2, <2>5, HeaderAndFill
  <2> QED
    BY <2>3, <2>4, <2>5
<1>22. t.mem[n] = rest /\ t.mem[n + 1] = l /\ (x \in F => t.mem[x + 1] = n)
  <2>1. q + size <= n /\ q + size <= n + 1 /\ (x \in F => x + 1 < q - 3 /\ n # x + 1 /\ n + 1 # x + 1)
    BY <1>1, <1>2, <1>6
  <2> QED
    BY <1>12, <1>14, <1>16, <1>18, <1>21, <2>1
<1>23. /\ LinkOf(t, x) = n /\ LinkOf(t, n) = LinkOf(g, x) /\ SizeOf(t, n) = rest
       /\ FootEnd(t, n) = b + z
  <2>1. LinkOf(t, x) = n
    BY <1>2, <1>16, <1>18, <1>21, <1>22 DEF LinkOf, NextOf
  <2>2. LinkOf(t, n) = l /\ SizeOf(t, n) = rest
    BY <1>2, <1>6, <1>22, <1>1 DEF LinkOf, NextOf, SizeOf, Null
  <2>3. FootEnd(t, n) = n + rest
    BY <1>4, <1>6, <2>2, LeastIs DEF FootEnd
  <2> QED
    BY <1>6, <1>11, <2>1, <2>2, <2>3
<1>24. Changed(g, F \ {b}, t, x, b, b + z)
  <2>1. x \in F <=> x \in F \ {b}
    BY <1>2
  <2>2. \A w \in Heap : t.mem[w] = g.mem[w] \/ (x \in F /\ w = x + 1) \/ (b <= w /\ w < b + z)
    <3> TAKE w \in Heap
    <3>1. \/ b <= w /\ w < b + z
          \/ (w < q - 3 \/ q + size <= w) /\ w # n /\ w # n + 1
      BY <1>1, <1>2, <1>4, <1>6 DEF Heap
    <3>2. ASSUME w < q - 3 \/ q + size <= w, w # n, w # n + 1, ~(x \in F /\ w = x + 1)
          PROVE  t.mem[w] = g.mem[w]
      <4>1. t.mem[w] = sh.mem[w]
        BY <1>21, <3>2
      <4>2. sh.mem[w] = v.mem[w]
        BY <1>18, <3>2
      <4>3. v.mem[w] = u.mem[w]
        BY <1>14, <3>2
      <4>4. g.mem[w] = u.mem[w]
        BY <1>11, <3>2
      <4> QED
        BY <4>1, <4>2, <4>3, <4>4
    <3> QED
      BY <3>1, <3>2
  <2> QED
    BY <1>11, <1>18, <1>21, <2>1, <2>2 DEF Changed
<1>25. Laid(t, (F \ {b}) \cup {n}, os) /\ SameBlocks(g, t, os) /\ Clear(t, (F \ {b}) \cup {n}, os, b, n)
  <2>1. n \in Int /\ b <= n /\ x < b /\ SizeOf(t, n) \in Nat /\ FootEnd(t, n) <= b + z
    BY <1>1, <1>2, <1>6, <1>23
  <2>2. LinkOf(g, x) = Null \/ b <= LinkOf(g, x)
    BY <1>2, <1>11
  <2> QED
    BY <1>11, <1>23, <1>24, <2>1, <2>2, Comes
<1>26. PICK o : o = [p |-> q, size |-> size]
  OBVIOUS
<1>27. IsBlock(t, o, h)
  BY <1>2, <1>3, <1>21, <1>26 DEF IsBlock, End, HeaderSize
<1>28. Start(t, o.p) = b /\ End(t, o) = n
  BY <1>1, <1>21, <1>26 DEF End
<1>29. Laid(t, (F \ {b}) \cup {n}, [os EXCEPT ![h] = o])
  BY <1>2, <1>3, <1>25, <1>27, <1>28, PutIn
<1>30. t.used = s.used + (q + Held(t, q) - Start(t, q))
  BY <1>1, <1>2, <1>5, <1>8, <1>14, <1>17, <1>21
<1>31. SameBlocks(s, t, os)
  BY <1>8, <1>11, <1>25 DEF SameBlocks
<1> QED
  BY <1>26, <1>29, <1>30, <1>31 DEF Placed, Accounts

(* A block placed in a free block, whole or not, is one block more. *)
LEMMA Placing ==
  ASSUME NEW s, NEW F, NEW os, NEW h, NEW b, NEW q, NEW size, NEW a, NEW old,
         Placeable(s, F, os, h, b, q, size, a, old),
         NEW t, t = Fill(Place(s, b, q, size, a), q, old, size, h)
  PROVE  Placed(s, os, h, q, size, t)
BY PlacingAll, PlacingRest

-----------------------------------------------------------------------------
(* What the blocks take.                                                   *)

Taken(s, os) ==
  {w \in Heap : \E g \in Handles :
     os[g] # NoBlock /\ Start(s, os[g].p) <= w /\ w < End(s, os[g])}

(* Blocks that stay take the same words. *)
LEMMA TakenSame ==
  ASSUME NEW s, NEW t, NEW os, SameBlocks(s, t, os)
  PROVE  Taken(t, os) = Taken(s, os)
BY DEF SameBlocks, Taken

(* There are no more words taken than there are. *)
LEMMA TakenFinite ==
  ASSUME NEW s, NEW os
  PROVE  /\ IsFiniteSet(Taken(s, os)) /\ Cardinality(Taken(s, os)) \in Nat
         /\ Cardinality(Taken(s, os)) <= Words
<1>1. IsFiniteSet(Heap) /\ Cardinality(Heap) = Words
  <2>1. Base \in Int /\ Base + Words - 1 \in Int
    OBVIOUS
  <2>2. /\ IsFiniteSet(Base .. Base + Words - 1)
        /\ Cardinality(Base .. Base + Words - 1)
             = IF Base > Base + Words - 1 THEN 0 ELSE (Base + Words - 1) - Base + 1
    BY <2>1, FS_Interval
  <2>3. ~(Base > Base + Words - 1) /\ (Base + Words - 1) - Base + 1 = Words
    OBVIOUS
  <2> QED
    BY <2>2, <2>3 DEF Heap
<1>2. Taken(s, os) \in SUBSET Heap
  BY DEF Taken
<1>3. IsFiniteSet(Taken(s, os)) /\ Cardinality(Taken(s, os)) <= Cardinality(Heap)
  BY <1>1, <1>2, FS_Subset
<1> QED
  BY <1>1, <1>3, FS_CardinalityType

(* A block takes the words of its extent, and no other takes them. *)
Takes(s, os, h) ==
  /\ End(s, os[h]) - Start(s, os[h].p) \in Nat
  /\ Cardinality(Taken(s, os)) =
       Cardinality(Taken(s, Without(os, h))) + (End(s, os[h]) - Start(s, os[h].p))

(* Taking a block out gives back the words of its extent. *)
LEMMA TakenWithout ==
  ASSUME NEW s, NEW F, NEW os, Laid(s, F, os), NEW h \in Handles, os[h] # NoBlock
  PROVE  Takes(s, os, h)
<1>1. s \in StateSet /\ Blocks(s, os) /\ Apart(s, F, os)
  BY DEF Laid
<1>2. PICK a, e : a = Start(s, os[h].p) /\ e = End(s, os[h])
  OBVIOUS
<1>3. a \in Nat /\ e \in Nat /\ a < e /\ Base <= a /\ e <= Base + Words
  <2>1. Shape(s, os[h].p, os[h].size)
    BY <1>1, BlockIs
  <2> QED
    BY <1>2, <2>1 DEF Shape, End
<1>4. PICK o : o = Without(os, h)
  OBVIOUS
<1>5. o[h] = NoBlock /\ \A g \in Handles : g # h => o[g] = os[g]
  BY <1>1, <1>4 DEF Blocks, Without
<1>6. PICK T, R, X : T = Taken(s, os) /\ R = Taken(s, o) /\ X = a .. e - 1
  OBVIOUS
<1>7. T = R \cup X
  <2>1. \A w \in X : w \in Heap /\ a <= w /\ w < e
    BY <1>3, <1>6 DEF Heap
  <2>2. X \subseteq T
    BY <1>2, <1>6, <2>1 DEF Taken
  <2>3. R \subseteq T
    BY <1>5, <1>6 DEF Taken
  <2>4. T \subseteq R \cup X
    <3> SUFFICES ASSUME NEW w \in T
                 PROVE  w \in R \cup X
      OBVIOUS
    <3>1. PICK g \in Handles : os[g] # NoBlock /\ Start(s, os[g].p) <= w /\ w < End(s, os[g])
      BY <1>6 DEF Taken
    <3>2. w \in Heap /\ w \in Int
      BY <1>6 DEF Taken, Heap
    <3>3. CASE g = h
      BY <1>2, <1>3, <1>6, <3>1, <3>2, <3>3
    <3>4. CASE g # h
      BY <1>5, <1>6, <3>1, <3>2, <3>4 DEF Taken
    <3> QED
      BY <3>3, <3>4
  <2> QED
    BY <2>2, <2>3, <2>4
<1>8. R \cap X = {}
  <2> SUFFICES ASSUME NEW w \in R, w \in X
               PROVE  FALSE
    OBVIOUS
  <2>1. PICK g \in Handles : o[g] # NoBlock /\ Start(s, o[g].p) <= w /\ w < End(s, o[g])
    BY <1>6 DEF Taken
  <2>2. g # h /\ os[g] = o[g]
    BY <1>5, <2>1
  <2>3. Shape(s, os[g].p, os[g].size)
    BY <1>1, <2>1, <2>2, BlockIs
  <2>4. PICK c, d : c = Start(s, os[g].p) /\ d = End(s, os[g])
    OBVIOUS
  <2>5. c \in Nat /\ d \in Nat
    BY <2>3, <2>4 DEF Shape, End
  <2>6. d <= a \/ e <= c
    BY <1>1, <1>2, <2>1, <2>2, <2>4 DEF Apart
  <2>7. w \in Int /\ a <= w /\ w < e /\ c <= w /\ w < d
    BY <1>3, <1>6, <2>1, <2>2, <2>4
  <2> QED
    BY <1>3, <2>5, <2>6, <2>7
<1>9. IsFiniteSet(R) /\ Cardinality(R) \in Nat
  BY <1>6, TakenFinite
<1>10. IsFiniteSet(X) /\ Cardinality(X) = e - a
  <2>1. a \in Int /\ e - 1 \in Int /\ ~(a > e - 1) /\ (e - 1) - a + 1 = e - a
    BY <1>3
  <2>2. IsFiniteSet(a .. e - 1)
        /\ Cardinality(a .. e - 1) = IF a > e - 1 THEN 0 ELSE (e - 1) - a + 1
    BY <2>1, FS_Interval
  <2> QED
    BY <1>6, <2>1, <2>2
<1>11. Cardinality(T) = Cardinality(R) + Cardinality(X) - Cardinality(R \cap X)
  BY <1>7, <1>9, <1>10, FS_Union
<1>12. Cardinality(R \cap X) = 0
  BY <1>8, FS_EmptySet
<1>13. Cardinality(T) = Cardinality(R) + (e - a)
  BY <1>3, <1>9, <1>10, <1>11, <1>12
<1> QED
  BY <1>2, <1>3, <1>4, <1>6, <1>13 DEF Takes

(* The memory is laid out, and m_used_size is what the blocks take. *)
Good(s, os) ==
  /\ \E F : Laid(s, F, os)
  /\ s.used = Cardinality(Taken(s, os))

(* One block more. *)
LEMMA GoodWith ==
  ASSUME NEW s, NEW os, NEW F, Laid(s, F, os), NEW h \in Handles, os[h] = NoBlock,
         NEW p \in Heap, NEW size \in Sizes,
         NEW q, q = [os EXCEPT ![h] = [p |-> p, size |-> size]],
         NEW t, SameBlocks(s, t, os), NEW G, Laid(t, G, q),
         Accounts(t, p, Cardinality(Taken(s, os)))
  PROVE  Good(t, q)
<1>1. PICK o : o = [p |-> p, size |-> size]
  OBVIOUS
<1>2. q = [os EXCEPT ![h] = o]
  BY <1>1
<1>3. Laid(t, G, q)
  OBVIOUS
<1>4. os = [g \in Handles |-> os[g]]
  BY DEF Laid, Blocks
<1>5. q[h] = o /\ Without(q, h) = os
  BY <1>2, <1>4 DEF Without
<1>6. o # NoBlock
  <2>1. o \in [p : Heap, size : Sizes]
    BY <1>1
  <2> QED
    BY <2>1, NoBlockAssumption
<1>7. Cardinality(Taken(t, q)) =
        Cardinality(Taken(t, os)) + (End(t, o) - Start(t, o.p))
  <2>1. Takes(t, q, h)
    BY <1>3, <1>5, <1>6, TakenWithout
  <2> QED
    BY <1>5, <2>1 DEF Takes
<1>8. Taken(t, os) = Taken(s, os)
  BY TakenSame
<1>9. End(t, o) = p + Held(t, p) /\ Start(t, o.p) = Start(t, p)
  BY <1>1 DEF End
<1>10. t.used = Cardinality(Taken(t, q))
  <2>1. Shape(t, q[h].p, q[h].size)
    BY <1>3, <1>5, <1>6, BlockIs DEF Laid
  <2>2. p \in Int /\ Held(t, p) \in Int /\ Start(t, p) \in Int
    BY <1>1, <1>5, <2>1 DEF Shape
  <2>3. Cardinality(Taken(s, os)) \in Nat
    BY TakenFinite
  <2> QED
    BY <1>7, <1>8, <1>9, <2>2, <2>3 DEF Accounts
<1> QED
  BY <1>3, <1>10 DEF Good

-----------------------------------------------------------------------------
(* The calls.                                                              *)

(* find_best_fit_free_block_ returns a block of the list that is large     *)
(* enough.                                                                 *)
LEMMA BestFitFits ==
  ASSUME NEW s \in StateSet, NEW F, IsList(s, F), Feet(s, F), NEW size \in Sizes, NEW a \in Alignments,
         NEW fitting, fitting = Fitting(s, size, a), fitting # {}, NEW b, b = BestFit(s, fitting)
  PROVE  b \in F /\ SizeOf(s, b) >= PointerIn(b, a) - b + size
<1>1. FreeBlocks(s) = F
  BY ListIs
<1>2. \A c \in F : c \in Nat /\ SizeOf(s, c) \in Nat
  BY FootIs
<1>3. fitting \subseteq F /\ \A c \in fitting : SizeOf(s, c) >= PointerIn(c, a) - c + size
  BY <1>1 DEF Fitting
<1> DEFINE sizes == {SizeOf(s, c) : c \in fitting}
<1>4. sizes \subseteq Nat /\ sizes # {}
  BY <1>2, <1>3
<1>5. PICK z \in sizes : \A y \in sizes : z <= y
  <2> HIDE DEF sizes
  <2> QED
    BY <1>4, LeastNatural
<1> DEFINE best == {c \in fitting : SizeOf(s, c) = z}
<1>6. best \subseteq Nat /\ best # {}
  BY <1>2, <1>3, <1>5
<1>7. PICK c \in best : \A d \in best : c <= d
  <2> HIDE DEF best
  <2> QED
    BY <1>6, LeastNatural
<1>8. c \in fitting /\ \A d \in fitting :
        SizeOf(s, c) < SizeOf(s, d) \/ (SizeOf(s, c) = SizeOf(s, d) /\ c <= d)
  <2>1. c \in fitting /\ SizeOf(s, c) = z
    BY <1>7
  <2>2. ASSUME NEW d \in fitting
        PROVE  SizeOf(s, c) < SizeOf(s, d) \/ (SizeOf(s, c) = SizeOf(s, d) /\ c <= d)
    <3>1. SizeOf(s, d) \in sizes /\ z <= SizeOf(s, d)
      BY <1>5
    <3>2. SizeOf(s, d) = z => c <= d
      BY <1>7
    <3>3. z \in Nat /\ SizeOf(s, d) \in Nat
      BY <1>4, <1>5, <3>1
    <3> QED
      BY <2>1, <3>1, <3>2, <3>3
  <2> QED
    BY <2>1, <2>2
<1>9. b \in fitting
  BY <1>8, Zenon DEF BestFit
<1> QED
  BY <1>3, <1>9

(* aligned_alloc *)
LEMMA AllocGood ==
  ASSUME NEW s, NEW os, Good(s, os), NEW h \in Handles, os[h] = NoBlock,
         NEW size \in Sizes, NEW a \in Alignments,
         NEW fitting, fitting = Fitting(s, size, a), fitting # {},
         NEW b, b = BestFit(s, fitting), NEW p, p = PointerIn(b, a),
         NEW t, t = Fill(Place(s, b, p, size, a), p, 0, size, h)
  PROVE  /\ t \in StateSet /\ [p |-> p, size |-> size] # NoBlock
         /\ Good(t, [os EXCEPT ![h] = [p |-> p, size |-> size]])
<1>1. PICK F : Laid(s, F, os)
  BY DEF Good
<1>2. s \in StateSet /\ IsList(s, F) /\ Feet(s, F)
  BY <1>1 DEF Laid
<1>3. b \in F /\ SizeOf(s, b) >= p - b + size
  BY <1>2, BestFitFits
<1>4. Placeable(s, F, os, h, b, p, size, a, 0)
  <2>1. 0 \in Nat /\ 0 <= size
    OBVIOUS
  <2>2. \A w \in p .. p + 0 - 1 : s.mem[w] = h
    <3>1. b \in Nat
      BY <1>2, <1>3, FootIs
    <3>2. p \in Nat
      BY <3>1, PointerBounds
    <3> QED
      BY <3>2
  <2> QED
    BY <1>1, <1>3, <2>1, <2>2 DEF Placeable
<1>5. Placed(s, os, h, p, size, t)
  BY <1>4, Placing
<1>6. p \in Heap
  BY <1>4, PlaceableIs
<1>0. PICK q : q = [os EXCEPT ![h] = [p |-> p, size |-> size]]
  OBVIOUS
<1>7. PICK G : Laid(t, G, q)
  BY <1>0, <1>5 DEF Placed
<1>8. SameBlocks(s, t, os) /\ Accounts(t, p, Cardinality(Taken(s, os)))
  BY <1>5 DEF Placed, Good
<1>9. Good(t, q)
  BY <1>0, <1>1, <1>6, <1>7, <1>8, GoodWith
<1>10. t \in StateSet
  BY <1>7 DEF Laid
<1>11. [p |-> p, size |-> size] # NoBlock
  <2>1. [p |-> p, size |-> size] \in [p : Heap, size : Sizes]
    BY <1>6
  <2> QED
    BY <2>1, NoBlockAssumption
<1> QED
  BY <1>0, <1>9, <1>10, <1>11

(* Without the block at p, k words are taken. *)
Leaves(s, p, k) == s.used - (p + Held(s, p) - Start(s, p)) = k

(* The block at h, and what is left of the memory without it, o. *)
Detached(s, F, o, h, p, z) ==
  /\ s \in StateSet /\ IsList(s, F) /\ Feet(s, F) /\ s.used \in Int
  /\ Shape(s, p, z)
  /\ \A w \in p .. p + z - 1 : s.mem[w] = h
  /\ Laid(s, F, o) /\ o[h] = NoBlock
  /\ Clear(s, F, o, Start(s, p), p + Held(s, p))
  /\ Leaves(s, p, Cardinality(Taken(s, o)))

(* A block in a caller's hands, taken apart from the others. *)
LEMMA HeldIs ==
  ASSUME NEW s, NEW os, NEW F, Laid(s, F, os), s.used = Cardinality(Taken(s, os)),
         NEW h \in Handles, os[h] # NoBlock, NEW p, p = os[h].p, NEW z, z = os[h].size,
         NEW o, o = Without(os, h)
  PROVE  Detached(s, F, o, h, p, z) /\ os[h] = [p |-> p, size |-> z]
<1>1. s \in StateSet /\ IsList(s, F) /\ Feet(s, F) /\ Blocks(s, os) /\ s.used \in Int
  BY DEF Laid, StateSet
<1>2. Shape(s, p, z) /\ os[h] = [p |-> p, size |-> z]
  BY <1>1, BlockIs
<1>3. \A w \in p .. p + z - 1 : s.mem[w] = h
  <2>1. IsBlock(s, os[h], h)
    BY <1>1, BlockIs
  <2> QED
    BY <2>1 DEF IsBlock
<1>4. End(s, os[h]) = p + Held(s, p)
  BY DEF End
<1>5. Laid(s, F, o) /\ Clear(s, F, o, Start(s, p), p + Held(s, p))
  BY <1>4, TakeOut
<1>6. Leaves(s, p, Cardinality(Taken(s, o)))
  <2>1. Takes(s, os, h)
    BY TakenWithout
  <2>2. Cardinality(Taken(s, o)) \in Nat
    BY TakenFinite
  <2>3. p \in Int /\ Held(s, p) \in Int /\ Start(s, p) \in Int
    BY <1>2 DEF Shape
  <2> QED
    BY <1>1, <1>4, <2>1, <2>2, <2>3 DEF Takes, Leaves
<1>7. o[h] = NoBlock
  BY <1>1 DEF Blocks, Without
<1> QED
  BY <1>1, <1>2, <1>3, <1>5, <1>6, <1>7 DEF Detached

(* free, unless it stores garbage *)
LEMMA FreeGood ==
  ASSUME NEW s, NEW os, Good(s, os), NEW h \in Handles, os[h] # NoBlock,
         NEW p, p = os[h].p, NEW b, b = Start(s, p), NEW freed, freed = Held(s, p) + p - b,
         NEW new, new = SetFree(WithUsed(s, s.used - freed), b, 0, NextOf(s, b)),
         ~(Following(s, b) = Null /\ NextOf(new, b) # Null),
         NEW t, t = AddAndMerge(new, b)
  PROVE  t \in StateSet /\ Good(t, [os EXCEPT ![h] = NoBlock])
<1>1. PICK F : Laid(s, F, os)
  BY DEF Good
<1>2. PICK o : o = Without(os, h)
  OBVIOUS
<1>3. /\ s \in StateSet /\ IsList(s, F) /\ Feet(s, F) /\ s.used \in Int
      /\ Shape(s, p, os[h].size)
      /\ Laid(s, F, o) /\ Clear(s, F, o, Start(s, p), p + Held(s, p))
      /\ Leaves(s, p, Cardinality(Taken(s, o)))
  <2>1. s.used = Cardinality(Taken(s, os))
    BY DEF Good
  <2>2. Detached(s, F, o, h, p, os[h].size)
    BY <1>1, <1>2, <2>1, HeldIs
  <2> QED
    BY <2>2 DEF Detached
<1>4. /\ b \in Heap /\ b \in Nat /\ b + 1 \in Heap /\ freed \in Nat /\ Least <= freed
      /\ b + freed = p + Held(s, p) /\ s.used - freed = Cardinality(Taken(s, o))
      /\ s.used - freed \in Int
  BY <1>3, LeastIs DEF Shape, Leaves
<1>5. PICK u : u = WithUsed(s, s.used - freed)
  OBVIOUS
<1>6. /\ Laid(u, F, o) /\ SameBlocks(s, u, o)
      /\ u \in StateSet /\ u.mem = s.mem /\ u.first = s.first /\ u.used = s.used - freed
  <2>1. PICK k : k = s.used - freed
    OBVIOUS
  <2>2. k \in Int /\ Laid(s, F, o) /\ u = WithUsed(s, k)
    BY <1>3, <1>4, <1>5, <2>1
  <2>3. /\ Laid(u, F, o) /\ SameBlocks(s, u, o)
        /\ u \in StateSet /\ u.mem = s.mem /\ u.first = s.first /\ u.used = k
    BY <2>2, UsedOnly
  <2> QED
    BY <2>1, <2>3
<1>7. Clear(u, F, o, b, b + freed)
  <2>1. Clear(s, F, o, b, b + freed)
    BY <1>3, <1>4
  <2> QED
    BY <1>3, <1>6, <2>1, ClearWrite
<1>8. FreeBlocks(u) = FreeBlocks(s)
  <2>1. FreeBlocks(u) = F
    BY <1>6, ListIs DEF Laid
  <2> QED
    BY <1>3, <2>1, ListIs
<1>9. Following(u, b) = Following(s, b)
  BY <1>8 DEF Following
<1>10. PICK n : n = NextOf(s, b)
  OBVIOUS
<1>11. n \in Int
  BY <1>3, <1>4, <1>10 DEF StateSet, NextOf
<1>12. new = SetFree(u, b, 0, n)
  BY <1>5, <1>10
<1>13. NextOf(new, b) = n
  BY <1>4, <1>6, <1>11, <1>12, SetFreeNext
<1>14. Following(u, b) = Null => n = Null
  BY <1>9, <1>13
<1>15. Added(u, F, o, b, t)
  BY <1>4, <1>6, <1>7, <1>11, <1>12, <1>14, Adding
<1>16. PICK G : Laid(t, G, o)
  BY <1>15 DEF Added
<1>17. SameBlocks(u, t, o) /\ t.used = u.used
  BY <1>15 DEF Added
<1>18. Taken(t, o) = Taken(s, o)
  BY <1>6, <1>17, TakenSame
<1>19. t.used = Cardinality(Taken(t, o))
  BY <1>4, <1>6, <1>17, <1>18
<1>20. t \in StateSet
  BY <1>16 DEF Laid
<1>21. Good(t, o)
  BY <1>16, <1>19 DEF Good
<1> QED
  BY <1>2, <1>20, <1>21 DEF Without

(* Words written in a free block, behind what it says of itself. *)
LEMMA InsideWrite ==
  ASSUME NEW s, NEW F, NEW os, Laid(s, F, os), NEW b \in F, NEW t \in StateSet, t.first = s.first,
         \A w \in Heap : t.mem[w] = s.mem[w] \/ (b + 2 <= w /\ w < FootEnd(s, b))
  PROVE  /\ Laid(t, F, os) /\ SameBlocks(s, t, os)
         /\ \A c \in F : SizeOf(t, c) = SizeOf(s, c)
<1>1. s \in StateSet /\ IsList(s, F) /\ Feet(s, F) /\ Blocks(s, os)
  BY DEF Laid
<1>2. \A c \in F : /\ c \in Nat /\ FootEnd(s, c) \in Nat /\ c + 2 <= FootEnd(s, c) /\ SizeOf(s, c) \in Nat
                   /\ c \in Heap /\ c + 1 \in Heap
  BY <1>1, FootIs
<1>3. \A c \in F : t.mem[c] = s.mem[c] /\ t.mem[c + 1] = s.mem[c + 1]
  <2> SUFFICES ASSUME NEW c \in F
               PROVE  t.mem[c] = s.mem[c] /\ t.mem[c + 1] = s.mem[c + 1]
    OBVIOUS
  <2>1. (c < b => FootEnd(s, c) <= b) /\ (b < c => FootEnd(s, b) <= c)
    BY <1>1 DEF Feet
  <2>2. ~(b + 2 <= c /\ c < FootEnd(s, b)) /\ ~(b + 2 <= c + 1 /\ c + 1 < FootEnd(s, b))
    BY <1>2, <2>1
  <2> QED
    BY <1>2, <2>2
<1>4. \A c \in F : SizeOf(t, c) = SizeOf(s, c) /\ FootEnd(t, c) = FootEnd(s, c)
  BY <1>3 DEF SizeOf, FootEnd
<1>5. \A c \in F \cup {Null} : LinkOf(t, c) = LinkOf(s, c)
  BY <1>3 DEF LinkOf, NextOf
<1>6. t \in StateSet /\ IsList(t, F)
  BY <1>1, <1>5 DEF IsList
<1>7. PICK n : n = 0
  OBVIOUS
<1>8. n \in Int /\ n \notin F
  BY <1>1, <1>7, FootIs DEF Null
<1>9. Relisted(s, F, os, t, F, n, 0, 0)
  <2>1. \A h \in Handles : os[h] # NoBlock => End(s, os[h]) <= 0 \/ 0 <= Start(s, os[h].p)
    <3> SUFFICES ASSUME NEW h \in Handles, os[h] # NoBlock
                 PROVE  0 <= Start(s, os[h].p)
      OBVIOUS
    <3>1. Shape(s, os[h].p, os[h].size)
      BY <1>1, BlockIs
    <3> QED
      BY <3>1 DEF Shape
  <2>2. \A c \in F : SizeOf(t, c) \in Nat
    BY <1>2, <1>4
  <2>3. \A c \in F \ {n} : /\ c \in F /\ FootEnd(t, c) = FootEnd(s, c)
                           /\ n \in F => FootEnd(s, c) <= 0 \/ 0 <= c
    BY <1>4, <1>8
  <2>4. \A w \in Heap : t.mem[w] = s.mem[w] \/ InFoot(s, F, w) \/ (0 <= w /\ w < 0)
    <3>1. \A w \in Heap : b + 2 <= w => b <= w
      BY <1>2 DEF Heap
    <3> QED
      BY <3>1 DEF InFoot
  <2>5. n \in F => 0 <= n /\ FootEnd(t, n) <= 0 /\ 0 <= Base + Words
    BY <1>8
  <2>6. 0 \in Int
    OBVIOUS
  <2> QED
    BY <1>6, <2>1, <2>2, <2>3, <2>4, <2>5, <2>6, Zenon DEF Relisted
<1> QED
  BY <1>4, <1>9, Relist

(* realloc_bigger_ frees the block first. *)
LEMMA FreedIs ==
  ASSUME NEW s, NEW F, NEW o, NEW h, NEW p, NEW z, Detached(s, F, o, h, p, z),
         NEW b, b = Start(s, p), NEW extent, extent = Held(s, p) + p - b,
         NEW t, t = AddAndMerge(SetFree(s, b, extent, Null), b)
  PROVE  /\ Added(s, F, o, b, t) /\ Prior(s, b) = Prior(s, p)
         /\ b \in Nat /\ b \in Heap /\ b + 1 \in Heap /\ b + 3 <= p /\ extent \in Nat
         /\ p + Held(s, p) = b + extent
         /\ Prior(s, p) \in F => Prior(s, p) + 2 <= b /\ Prior(s, p) \in Heap
<1>1. /\ s \in StateSet /\ IsList(s, F) /\ Feet(s, F) /\ Laid(s, F, o)
      /\ Clear(s, F, o, b, p + Held(s, p))
  BY DEF Detached
<1>2. /\ b \in Heap /\ b \in Nat \ {0} /\ b + 1 \in Heap /\ extent \in Nat /\ Least <= extent
      /\ p \in Nat \ {0} /\ b + 3 <= p /\ p <= p + Held(s, p) /\ p + Held(s, p) = b + extent
  BY LeastIs DEF Detached, Shape
<1>3. Clear(s, F, o, b, b + extent)
  BY <1>1, <1>2
<1>4. PICK n, y : n = Null /\ y = Following(s, b)
  OBVIOUS
<1>5. n \in Int /\ extent \in {0, extent} /\ (y = Null => n = Null)
  BY <1>4 DEF Null
<1>6. Added(s, F, o, b, t)
  <2>1. t = AddAndMerge(SetFree(s, b, extent, n), b)
    BY <1>4
  <2>2. Following(s, b) = Null => n = Null
    BY <1>4
  <2> QED
    BY <1>1, <1>2, <1>3, <1>5, <2>1, <2>2, Adding
<1>7. FreeBlocks(s) = F
  BY <1>1, ListIs
<1>8. \A c \in F : c < b <=> c < p
  <2> SUFFICES ASSUME NEW c \in F
               PROVE  c < b <=> c < p
    OBVIOUS
  <2>1. c \in Nat /\ FootEnd(s, c) \in Nat /\ c < FootEnd(s, c)
    BY <1>1, FootIs
  <2>2. FootEnd(s, c) <= b \/ b + extent <= c
    BY <1>3 DEF Clear
  <2> QED
    BY <1>2, <2>1, <2>2
<1>9. Prior(s, b) = Prior(s, p)
  BY <1>7, <1>8, Zenon DEF Prior
<1>10. Prior(s, b) \in F => Prior(s, b) + 2 <= b /\ Prior(s, b) \in Heap
  <2> SUFFICES ASSUME Prior(s, b) \in F
               PROVE  Prior(s, b) + 2 <= b /\ Prior(s, b) \in Heap
    OBVIOUS
  <2>1. PICK x : x = Prior(s, b)
    OBVIOUS
  <2>2. x < b
    BY <1>1, <1>2, <2>1, AdjacentAre
  <2>3. /\ x \in Nat /\ x \in Heap /\ FootEnd(s, x) \in Nat /\ x + 2 <= FootEnd(s, x)
    BY <1>1, <2>1, FootIs
  <2>4. FootEnd(s, x) <= b \/ b + extent <= x
    BY <1>3, <2>1 DEF Clear
  <2> QED
    BY <1>2, <2>1, <2>2, <2>3, <2>4
<1> QED
  BY <1>2, <1>6, <1>9, <1>10

(* memmove takes z words of h along. *)
Carried(s, t, q, size, z, h) ==
  /\ t \in StateSet /\ t.first = s.first /\ t.used = s.used
  /\ \A w \in Heap : t.mem[w] = s.mem[w] \/ (q <= w /\ w < q + size)
  /\ \A w \in q .. q + z - 1 : t.mem[w] = h

(* memmove writes into the new place only. *)
LEMMA MovedIs ==
  ASSUME NEW s \in StateSet, NEW p \in Nat, NEW q \in Nat, NEW size \in Nat, NEW z \in Nat, z <= size,
         Base <= p, p + z <= Base + Words, Base <= q, q + size <= Base + Words,
         NEW h, \A w \in p .. p + z - 1 : s.mem[w] = h,
         NEW t, t = Moved(s, p, q, size)
  PROVE  Carried(s, t, q, size, z, h)
<1>1. s = [mem |-> s.mem, first |-> s.first, used |-> s.used] /\ s.mem \in [Heap -> Int]
      /\ s.first \in Int /\ s.used \in Int
  BY DEF StateSet
<1> DEFINE words == [w \in Heap |-> IF w \in q .. q + size - 1 /\ w - q + p \in Heap
                                     THEN s.mem[w - q + p] ELSE s.mem[w]]
<1>2. t.mem = words /\ t.first = s.first /\ t.used = s.used
      /\ t = [mem |-> words, first |-> s.first, used |-> s.used]
  BY <1>1 DEF Moved
<1>3. words \in [Heap -> Int]
  BY <1>1
<1>4. t \in StateSet
  BY <1>1, <1>2, <1>3 DEF StateSet
<1>5. ASSUME NEW w \in Heap
      PROVE  t.mem[w] = s.mem[w] \/ (q <= w /\ w < q + size)
  <2>1. w \in Int
    BY DEF Heap
  <2>2. w \in q .. q + size - 1 => q <= w /\ w < q + size
    BY <2>1
  <2>3. t.mem[w] = words[w]
    BY <1>2
  <2>4. w \notin q .. q + size - 1 => words[w] = s.mem[w]
    OBVIOUS
  <2> HIDE DEF words
  <2> QED
    BY <2>2, <2>3, <2>4
<1>6. ASSUME NEW w \in q .. q + z - 1
      PROVE  t.mem[w] = h
  <2>1. w \in Heap /\ w \in q .. q + size - 1
    BY DEF Heap
  <2>2. w - q + p \in Heap /\ w - q + p \in p .. p + z - 1
    BY DEF Heap
  <2>3. t.mem[w] = words[w] /\ words[w] = s.mem[w - q + p]
    BY <1>2, <2>1, <2>2
  <2>4. s.mem[w - q + p] = h
    BY <2>2
  <2> HIDE DEF words
  <2> QED
    BY <2>3, <2>4
<1> QED
  BY <1>2, <1>4, <1>5, <1>6 DEF Carried

(* The memory after a block was freed: the words at p are what they were. *)
Vacated(f, G, o, h, p, z) ==
  /\ Laid(f, G, o) /\ h \in Handles /\ o[h] = NoBlock
  /\ p \in Nat /\ z \in Nat /\ Base <= p /\ p + z <= Base + Words
  /\ \A w \in p .. p + z - 1 : f.mem[w] = h

(* The first half of a move: the block is freed, its words still there. *)
LEMMA Vacates ==
  ASSUME NEW s, NEW F, NEW o, NEW h \in Handles, NEW p, NEW z, Detached(s, F, o, h, p, z),
         NEW b, b = Start(s, p), NEW extent, extent = Held(s, p) + p - b,
         NEW t, t = AddAndMerge(SetFree(s, b, extent, Null), b)
  PROVE  /\ \E G : Vacated(t, G, o, h, p, z)
         /\ SameBlocks(s, t, o) /\ t.used = s.used
<1>1. /\ o[h] = NoBlock
      /\ p \in Nat /\ z \in Nat /\ Held(s, p) \in Nat /\ Base <= p /\ z <= Held(s, p)
      /\ p + Held(s, p) <= Base + Words
      /\ \A w \in p .. p + z - 1 : s.mem[w] = h
  BY DEF Detached, Shape, Heap
<1>2. /\ Added(s, F, o, b, t) /\ Prior(s, b) = Prior(s, p)
      /\ b \in Nat /\ b \in Heap /\ b + 3 <= p /\ extent \in Nat
      /\ Prior(s, p) \in F => Prior(s, p) + 2 <= b /\ Prior(s, p) \in Heap
  BY FreedIs
<1>3. PICK G : Laid(t, G, o)
  BY <1>2 DEF Added
<1>4. ASSUME NEW w \in p .. p + z - 1
      PROVE  t.mem[w] = h
  <2>1. w \in Heap /\ p <= w /\ w \in Int
    BY <1>1 DEF Heap
  <2>2. s.mem[w] = h
    BY <1>1
  <2>3. PICK x : x = Prior(s, p)
    OBVIOUS
  <2>4. \/ t.mem[w] = s.mem[w] \/ w \in {b, b + 1}
        \/ x \in F /\ w \in {x, x + 1}
    BY <1>2, <2>1, <2>3 DEF Added
  <2>5. w \notin {b, b + 1}
    BY <1>1, <1>2, <2>1
  <2>6. x \in F => w \notin {x, x + 1}
    <3>1. x \in F => x + 2 <= b /\ x \in Int
      BY <1>2, <2>3 DEF Heap
    <3> QED
      BY <1>1, <1>2, <2>1, <3>1
  <2> QED
    BY <2>2, <2>4, <2>5, <2>6
<1>5. p + z <= Base + Words
  BY <1>1
<1>6. Vacated(t, G, o, h, p, z)
  BY <1>1, <1>3, <1>4, <1>5 DEF Vacated
<1> QED
  BY <1>2, <1>6 DEF Added

(* The words moved into the free block that fits. *)
LEMMA Carries ==
  ASSUME NEW f, NEW G, NEW o, NEW h, NEW p, NEW z, Vacated(f, G, o, h, p, z),
         NEW k \in Int, NEW size \in Sizes, z <= size, NEW a \in Alignments,
         NEW fit \in G, NEW q, q = PointerIn(fit, a), SizeOf(f, fit) >= q - fit + size,
         NEW moved, moved = Moved(WithUsed(f, k), p, q, size)
  PROVE  /\ Placeable(moved, G, o, h, fit, q, size, a, z)
         /\ SameBlocks(f, moved, o) /\ moved.used = k
<1>1. /\ Laid(f, G, o) /\ h \in Handles /\ o[h] = NoBlock
      /\ p \in Nat /\ z \in Nat /\ Base <= p /\ p + z <= Base + Words
      /\ \A w \in p .. p + z - 1 : f.mem[w] = h
      /\ f \in StateSet /\ IsList(f, G) /\ Feet(f, G)
  BY DEF Vacated, Laid
<1>2. PICK v : v = WithUsed(f, k)
  OBVIOUS
<1>3. /\ Laid(v, G, o) /\ SameBlocks(f, v, o)
      /\ v \in StateSet /\ v.mem = f.mem /\ v.first = f.first /\ v.used = k
  <2>1. Laid(f, G, o)
    BY <1>1
  <2> QED
    BY <1>2, <2>1, UsedOnly
<1>4. SizeOf(v, fit) = SizeOf(f, fit) /\ FootEnd(v, fit) = FootEnd(f, fit)
  BY <1>3 DEF SizeOf, FootEnd
<1>5. /\ fit \in Nat /\ Base <= fit /\ SizeOf(f, fit) \in Nat /\ FootEnd(f, fit) \in Nat
      /\ fit + SizeOf(f, fit) <= FootEnd(f, fit) /\ FootEnd(f, fit) <= Base + Words
  BY <1>1, FootIs
<1>6. q \in Nat /\ fit + 3 <= q
  BY <1>5, PointerBounds DEF HeaderSize
<1>7. size \in Nat /\ Base <= q /\ q + size <= FootEnd(f, fit) /\ q + size <= Base + Words
  BY <1>5, <1>6
<1>8. /\ moved \in StateSet /\ moved.first = v.first /\ moved.used = v.used
      /\ \A w \in Heap : moved.mem[w] = v.mem[w] \/ (q <= w /\ w < q + size)
      /\ \A w \in q .. q + z - 1 : moved.mem[w] = h
  <2>1. \A w \in p .. p + z - 1 : v.mem[w] = h
    BY <1>1, <1>3
  <2>2. moved = Moved(v, p, q, size)
    BY <1>2
  <2>3. v \in StateSet /\ p \in Nat /\ q \in Nat /\ size \in Nat /\ z \in Nat /\ z <= size
    BY <1>1, <1>3, <1>6, <1>7
  <2>4. Base <= p /\ p + z <= Base + Words /\ Base <= q /\ q + size <= Base + Words
    BY <1>1, <1>7
  <2>5. Carried(v, moved, q, size, z, h)
    BY <2>1, <2>2, <2>3, <2>4, MovedIs
  <2> QED
    BY <2>5 DEF Carried
<1>9. Laid(moved, G, o) /\ SameBlocks(v, moved, o) /\ SizeOf(moved, fit) = SizeOf(f, fit)
  <2>1. ASSUME NEW w \in Heap
        PROVE  moved.mem[w] = v.mem[w] \/ (fit + 2 <= w /\ w < FootEnd(v, fit))
    <3>1. w \in Int
      BY DEF Heap
    <3>2. moved.mem[w] = v.mem[w] \/ (q <= w /\ w < q + size)
      BY <1>8
    <3>3. q <= w /\ w < q + size => fit + 2 <= w /\ w < FootEnd(v, fit)
      BY <1>4, <1>5, <1>6, <1>7, <3>1
    <3> QED
      BY <3>2, <3>3
  <2>2. Laid(moved, G, o) /\ SameBlocks(v, moved, o) /\ \A c \in G : SizeOf(moved, c) = SizeOf(v, c)
    BY <1>3, <1>8, <2>1, InsideWrite
  <2> QED
    BY <1>4, <2>2
<1>10. Placeable(moved, G, o, h, fit, q, size, a, z)
  BY <1>1, <1>8, <1>9 DEF Placeable
<1> QED
  BY <1>3, <1>8, <1>9, <1>10 DEF SameBlocks

(* A block placed in a memory m that is s but for free words. *)
LEMMA PlacedGood ==
  ASSUME NEW s, NEW F, NEW o, Laid(s, F, o), NEW h \in Handles, o[h] = NoBlock, NEW size \in Sizes,
         NEW m, SameBlocks(s, m, o), m.used = Cardinality(Taken(s, o)),
         NEW q \in Heap, NEW t, Placed(m, o, h, q, size, t)
  PROVE  /\ t \in StateSet /\ [p |-> q, size |-> size] # NoBlock
         /\ Good(t, [o EXCEPT ![h] = [p |-> q, size |-> size]])
<1>1. PICK r : r = [o EXCEPT ![h] = [p |-> q, size |-> size]]
  OBVIOUS
<1>2. PICK H : Laid(t, H, r)
  BY <1>1 DEF Placed
<1>3. SameBlocks(s, t, o) /\ Accounts(t, q, Cardinality(Taken(s, o)))
  BY DEF Placed, SameBlocks
<1>4. Good(t, r)
  BY <1>1, <1>2, <1>3, GoodWith
<1>5. t \in StateSet
  BY <1>2 DEF Laid
<1>6. [p |-> q, size |-> size] # NoBlock
  <2>1. [p |-> q, size |-> size] \in [p : Heap, size : Sizes]
    OBVIOUS
  <2> QED
    BY <2>1, NoBlockAssumption
<1> QED
  BY <1>1, <1>4, <1>5, <1>6

(* m_used_size after a block of k words is freed. *)
Released(s, k) == WithUsed(s, s.used - k)

(* What realloc_bigger_ moves, where, and what is there then. *)
MovesTo(s, p, size, freed, fit, q, moved) ==
  LET b == Start(s, p)
      a == Alignment(s, p)
      extent == Held(s, p) + p - b
  IN
  /\ Held(s, p) < size
  /\ freed = AddAndMerge(SetFree(s, b, extent, Null), b)
  /\ Fitting(freed, size, a) # {}
  /\ fit = BestFit(freed, Fitting(freed, size, a))
  /\ q = PointerIn(fit, a)
  /\ moved = Moved(Released(freed, extent), p, q, size)

(* The second half of a move: the place that was found can be taken. *)
LEMMA MovesOn ==
  ASSUME NEW s, NEW F, NEW o, NEW h \in Handles, NEW p, NEW z, Detached(s, F, o, h, p, z),
         NEW f, NEW G, Vacated(f, G, o, h, p, z), SameBlocks(s, f, o), f.used = s.used,
         NEW size \in Sizes, NEW fit, NEW q, NEW moved, MovesTo(s, p, size, f, fit, q, moved)
  PROVE  /\ Placeable(moved, G, o, h, fit, q, size, Alignment(s, p), z)
         /\ SameBlocks(s, moved, o) /\ moved.used = Cardinality(Taken(s, o))
<1>1. PICK a, extent : a = Alignment(s, p) /\ extent = Held(s, p) + p - Start(s, p)
  OBVIOUS
<1>2. /\ s.used \in Int /\ p \in Nat /\ z \in Nat /\ Held(s, p) \in Nat /\ Start(s, p) \in Nat
      /\ z <= Held(s, p) /\ a \in Alignments
      /\ s.used - extent = Cardinality(Taken(s, o))
  BY <1>1 DEF Detached, Shape, Leaves
<1>3. PICK k : k = s.used - extent
  OBVIOUS
<1>4. k \in Int /\ k = Cardinality(Taken(s, o))
  BY <1>1, <1>2, <1>3
<1>5. z <= size
  <2>1. Held(s, p) < size
    BY DEF MovesTo
  <2> QED
    BY <1>2, <2>1
<1>6. /\ fit = BestFit(f, Fitting(f, size, a)) /\ Fitting(f, size, a) # {}
      /\ q = PointerIn(fit, a) /\ moved = Moved(WithUsed(f, k), p, q, size)
  BY <1>1, <1>3 DEF MovesTo, Released
<1>7. Laid(f, G, o) /\ f \in StateSet /\ IsList(f, G) /\ Feet(f, G)
  BY DEF Vacated, Laid
<1>8. fit \in G /\ SizeOf(f, fit) >= q - fit + size
  <2>1. a \in Alignments
    BY <1>2
  <2> QED
    BY <1>6, <1>7, <2>1, BestFitFits
<1>9. /\ Placeable(moved, G, o, h, fit, q, size, a, z)
      /\ SameBlocks(f, moved, o) /\ moved.used = k
  <2>1. k \in Int /\ z <= size /\ a \in Alignments
    BY <1>2, <1>4, <1>5
  <2>2. moved = Moved(WithUsed(f, k), p, q, size) /\ q = PointerIn(fit, a)
    BY <1>6
  <2>3. Placeable(moved, G, o, h, fit, q, size, a, z)
    BY <1>8, <2>1, <2>2, Carries
  <2>4. SameBlocks(f, moved, o) /\ moved.used = k
    BY <1>8, <2>1, <2>2, Carries
  <2> QED
    BY <2>3, <2>4
<1> QED
  BY <1>1, <1>4, <1>9 DEF SameBlocks

(* realloc_bigger_ that moves the block *)
LEMMA MovesGood ==
  ASSUME NEW s, NEW os, Good(s, os), NEW h \in Handles, os[h] # NoBlock, NEW size \in Sizes,
         NEW p, p = os[h].p, NEW z, z = os[h].size, NEW freed, NEW fit, NEW q, NEW moved,
         MovesTo(s, p, size, freed, fit, q, moved),
         NEW t, t = Fill(Place(moved, fit, q, size, Alignment(s, p)), q, z, size, h)
  PROVE  /\ t \in StateSet /\ [p |-> q, size |-> size] # NoBlock
         /\ Good(t, [os EXCEPT ![h] = [p |-> q, size |-> size]])
<1>1. PICK F : Laid(s, F, os)
  BY DEF Good
<1>2. PICK o : o = Without(os, h)
  OBVIOUS
<1>3. Detached(s, F, o, h, p, z)
  <2>1. s.used = Cardinality(Taken(s, os))
    BY DEF Good
  <2> QED
    BY <1>1, <1>2, <2>1, HeldIs
<1>4. /\ \E G : Vacated(freed, G, o, h, p, z)
      /\ SameBlocks(s, freed, o) /\ freed.used = s.used
  <2>1. PICK b : b = Start(s, p)
    OBVIOUS
  <2>2. PICK extent : extent = Held(s, p) + p - b
    OBVIOUS
  <2>3. freed = AddAndMerge(SetFree(s, b, extent, Null), b)
    BY <2>1, <2>2 DEF MovesTo
  <2>4. \E G : Vacated(freed, G, o, h, p, z)
    BY <1>3, <2>1, <2>2, <2>3, Vacates
  <2>5. SameBlocks(s, freed, o) /\ freed.used = s.used
    BY <1>3, <2>1, <2>2, <2>3, Vacates
  <2> QED
    BY <2>4, <2>5
<1>5. PICK G : Vacated(freed, G, o, h, p, z)
  BY <1>4
<1>6. PICK a : a = Alignment(s, p)
  OBVIOUS
<1>7. /\ Placeable(moved, G, o, h, fit, q, size, a, z)
      /\ SameBlocks(s, moved, o) /\ moved.used = Cardinality(Taken(s, o))
  <2>1. SameBlocks(s, freed, o) /\ freed.used = s.used
    BY <1>4
  <2>2. Placeable(moved, G, o, h, fit, q, size, a, z)
    BY <1>3, <1>5, <1>6, <2>1, MovesOn
  <2>3. SameBlocks(s, moved, o) /\ moved.used = Cardinality(Taken(s, o))
    BY <1>3, <1>5, <2>1, MovesOn
  <2> QED
    BY <2>2, <2>3
<1>8. Placed(moved, o, h, q, size, t)
  BY <1>6, <1>7, Placing
<1>9. q \in Heap
  BY <1>7, PlaceableIs
<1>10. Laid(s, F, o) /\ o[h] = NoBlock
  BY <1>3 DEF Detached
<1>11. /\ t \in StateSet /\ [p |-> q, size |-> size] # NoBlock
       /\ Good(t, [o EXCEPT ![h] = [p |-> q, size |-> size]])
  BY <1>7, <1>8, <1>9, <1>10, PlacedGood
<1>12. \A r : [o EXCEPT ![h] = r] = [os EXCEPT ![h] = r]
  BY <1>2 DEF Without
<1> QED
  BY <1>11, <1>12

(* What a block at p needs of the words of t, when z words of h are there. *)
LEMMA BlockOf ==
  ASSUME NEW t, NEW h, NEW p, NEW z, Shape(t, p, z), \A w \in p .. p + z - 1 : t.mem[w] = h,
         NEW r, r = [p |-> p, size |-> z]
  PROVE  IsBlock(t, r, h) /\ Start(t, r.p) = Start(t, p) /\ End(t, r) = p + Held(t, p)
<1>1. r.p = p /\ r.size = z
  OBVIOUS
<1>2. /\ p \in Int /\ z \in Sizes /\ Start(t, p) \in Int /\ Held(t, p) \in Int
      /\ Alignment(t, p) \in Alignments /\ Base <= Start(t, p) /\ Start(t, p) + 3 <= p
      /\ z <= Held(t, p) /\ p + Held(t, p) <= Base + Words
  BY DEF Shape
<1>3. Start(t, r.p) = Start(t, p) /\ End(t, r) = p + Held(t, p)
  BY <1>1 DEF End
<1> QED
  BY <1>1, <1>2, <1>3 DEF IsBlock, HeaderSize

(* Nothing fits: what was written on the way is written back. *)
LEMMA RestoredWords ==
  ASSUME NEW s, NEW F, NEW o, NEW h, NEW p, NEW z, Detached(s, F, o, h, p, z),
         NEW b, b = Start(s, p), NEW extent, extent = Held(s, p) + p - b,
         NEW freed, freed = AddAndMerge(SetFree(s, b, extent, Null), b),
         NEW t, t = Restored(s, freed, p)
  PROVE  /\ t \in StateSet /\ t.first = s.first /\ t.used = s.used
         /\ \A w \in Heap : t.mem[w] = s.mem[w] \/ (b <= w /\ w < b + 2)
         /\ \A w \in Heap : p - 3 <= w /\ w < p => t.mem[w] = s.mem[w]
<1>1. s \in StateSet /\ p \in Nat
  BY DEF Detached, Shape
<1>2. /\ Added(s, F, o, b, freed) /\ Prior(s, b) = Prior(s, p) /\ b \in Nat
  BY FreedIs
<1>3. freed \in StateSet
  BY <1>2 DEF Added, Laid
<1> DEFINE words == {Prior(s, p), Prior(s, p) + 1, Following(s, p), Following(s, p) + 1}
                    \cup p - HeaderSize .. p - 1
           m == [w \in Heap |-> IF w \in words THEN s.mem[w] ELSE freed.mem[w]]
<1>4. t.mem = m /\ t.first = s.first /\ t.used = s.used
      /\ t = [mem |-> m, first |-> s.first, used |-> s.used]
  BY <1>1 DEF Restored, StateSet
<1>5. m \in [Heap -> Int]
  <2> HIDE DEF words
  <2> QED
    BY <1>1, <1>3 DEF StateSet
<1>6. \A w \in Heap : w \in words => m[w] = s.mem[w]
  <2> HIDE DEF words
  <2> QED
    OBVIOUS
<1>7. \A w \in Heap : m[w] = s.mem[w] \/ m[w] = freed.mem[w]
  <2> HIDE DEF words
  <2> QED
    OBVIOUS
<1>8. t \in StateSet
  <2> HIDE DEF m
  <2> QED
    BY <1>1, <1>4, <1>5 DEF StateSet
<1>9. ASSUME NEW w \in Heap
      PROVE  t.mem[w] = s.mem[w] \/ (b <= w /\ w < b + 2)
  <2>1. PICK x : x = Prior(s, p)
    OBVIOUS
  <2>2. freed.mem[w] = s.mem[w] \/ w \in {b, b + 1} \/ w \in {x, x + 1}
    BY <1>2, <2>1 DEF Added
  <2>3. w \in {x, x + 1} => w \in words
    BY <2>1
  <2>4. w \in {b, b + 1} => b <= w /\ w < b + 2
    BY <1>2
  <2> HIDE DEF m, words
  <2> QED
    BY <1>4, <1>6, <1>7, <2>2, <2>3, <2>4
<1>10. ASSUME NEW w \in Heap, p - 3 <= w, w < p
       PROVE  t.mem[w] = s.mem[w]
  <2>1. w \in p - HeaderSize .. p - 1
    BY <1>1, <1>10 DEF Heap, HeaderSize
  <2>2. w \in words
    BY <2>1
  <2> HIDE DEF m, words
  <2> QED
    BY <1>4, <1>6, <2>2
<1> QED
  BY <1>4, <1>8, <1>9, <1>10

(* The words that a header at p says are its block's are nobody's. *)
ClearAround(t, G, o, p) == Clear(t, G, o, Start(t, p), p + Held(t, p))

Marked(t, p, z, h) == \A w \in p .. p + z - 1 : t.mem[w] = h

(* A block of z words at p put into the hands of h. *)
Puts(o, h, p, z, r, q) == r = [p |-> p, size |-> z] /\ q = [o EXCEPT ![h] = r]

(* A block put where it is: the memory is s without it and t with it. *)
LEMMA PutGood ==
  ASSUME NEW s, NEW F, NEW o, Laid(s, F, o), NEW h \in Handles, o[h] = NoBlock, NEW p, NEW z,
         NEW t, NEW G, Laid(t, G, o), SameBlocks(s, t, o),
         Shape(t, p, z), Marked(t, p, z, h),
         ClearAround(t, G, o, p), Accounts(t, p, Cardinality(Taken(s, o))),
         NEW r, NEW q, Puts(o, h, p, z, r, q)
  PROVE  t \in StateSet /\ r # NoBlock /\ Good(t, q)
<1>1. r = [p |-> p, size |-> z]
  BY DEF Puts
<1>2. IsBlock(t, r, h) /\ Start(t, r.p) = Start(t, p) /\ End(t, r) = p + Held(t, p)
  BY <1>1, BlockOf DEF Marked
<1>3. q = [o EXCEPT ![h] = r]
  BY DEF Puts
<1>4. Laid(t, G, q)
  <2>1. Clear(t, G, o, Start(t, r.p), End(t, r))
    BY <1>2 DEF ClearAround
  <2> QED
    BY <1>2, <1>3, <2>1, PutIn
<1>5. p \in Heap /\ z \in Sizes
  BY DEF Shape
<1>6. Good(t, q)
  BY <1>1, <1>3, <1>4, <1>5, GoodWith
<1>7. r # NoBlock
  <2>1. r \in [p : Heap, size : Sizes]
    BY <1>1, <1>5
  <2> QED
    BY <2>1, NoBlockAssumption
<1>8. t \in StateSet
  BY DEF Laid
<1> QED
  BY <1>1, <1>3, <1>6, <1>7, <1>8

(* What a failed realloc leaves. *)
RestoredGood(s, os, t) ==
  /\ t \in StateSet /\ Good(t, os) /\ t.first = s.first /\ t.used = s.used
  /\ FreeBlocks(t) = FreeBlocks(s)
  /\ \A c \in FreeBlocks(s) : SizeOf(t, c) = SizeOf(s, c)

(* Nothing has changed but the first two words of the block at p, and not  *)
(* its header.                                                             *)
Rewritten(s, t, p, b) ==
  /\ t \in StateSet /\ t.first = s.first /\ t.used = s.used
  /\ \A w \in Heap : t.mem[w] = s.mem[w] \/ (b <= w /\ w < b + 2)
  /\ \A w \in Heap : p - 3 <= w /\ w < p => t.mem[w] = s.mem[w]

(* These two words are the block's own. *)
LEMMA RewrittenGood ==
  ASSUME NEW s, NEW os, Good(s, os), NEW h \in Handles, os[h] # NoBlock,
         NEW p, p = os[h].p, NEW b, b = Start(s, p), NEW t, Rewritten(s, t, p, b)
  PROVE  RestoredGood(s, os, t)
<1>1. PICK F : Laid(s, F, os)
  BY DEF Good
<1>2. PICK o, z : o = Without(os, h) /\ z = os[h].size
  OBVIOUS
<1>3. Detached(s, F, o, h, p, z) /\ os[h] = [p |-> p, size |-> z]
  <2>1. s.used = Cardinality(Taken(s, os))
    BY DEF Good
  <2>2. Detached(s, F, o, h, p, z)
    BY <1>1, <1>2, <2>1, HeldIs
  <2>3. os[h] = [p |-> p, size |-> z]
    BY <1>1, <1>2, BlockIs DEF Laid
  <2> QED
    BY <2>2, <2>3
<1>4. /\ t \in StateSet /\ t.first = s.first /\ t.used = s.used
      /\ \A w \in Heap : t.mem[w] = s.mem[w] \/ (b <= w /\ w < b + 2)
      /\ \A w \in Heap : p - 3 <= w /\ w < p => t.mem[w] = s.mem[w]
  BY DEF Rewritten
<1>5. /\ s \in StateSet /\ IsList(s, F) /\ Feet(s, F) /\ Laid(s, F, o) /\ o[h] = NoBlock
      /\ Shape(s, p, z) /\ \A w \in p .. p + z - 1 : s.mem[w] = h
  BY <1>3 DEF Detached
<1>6. PICK e : e = p + Held(s, p)
  OBVIOUS
<1>7. /\ p \in Nat /\ e \in Nat /\ b \in Nat /\ z \in Nat /\ b + 3 <= p /\ p <= e
      /\ Base <= b /\ p + z <= e /\ e <= Base + Words
  BY <1>5, <1>6 DEF Shape
<1>8. Clear(s, F, o, b, e)
  BY <1>3, <1>6 DEF Detached
<1>9. /\ Laid(t, F, o) /\ SameBlocks(s, t, o) /\ Clear(t, F, o, b, e)
      /\ \A c \in F : SizeOf(t, c) = SizeOf(s, c)
  <2>1. ASSUME NEW w \in Heap
        PROVE  t.mem[w] = s.mem[w] \/ (b <= w /\ w < e)
    <3>1. w < b + 2 => w < e
      BY <1>7 DEF Heap
    <3> QED
      BY <1>4, <3>1
  <2>2. t \in StateSet /\ t.first = s.first /\ Laid(s, F, o)
    BY <1>4, <1>5
  <2>3. Laid(t, F, o) /\ SameBlocks(s, t, o) /\ Clear(t, F, o, b, e)
    BY <1>8, <2>1, <2>2, ClearWrite
  <2>4. \A c \in F : SizeOf(t, c) = SizeOf(s, c)
    BY <1>8, <2>1, <2>2, ClearWrite
  <2> QED
    BY <2>3, <2>4
<1>10. /\ Start(t, p) = Start(s, p) /\ Held(t, p) = Held(s, p) /\ Alignment(t, p) = Alignment(s, p)
  <2>1. p - 3 \in Heap /\ p - 2 \in Heap /\ p - 1 \in Heap
    BY <1>5 DEF Shape
  <2>2. \A w \in {p - 3, p - 2, p - 1} : w \in Heap /\ p - 3 <= w /\ w < p
    BY <1>7, <2>1
  <2>3. \A w \in {p - 3, p - 2, p - 1} : t.mem[w] = s.mem[w]
    BY <1>4, <2>2
  <2> QED
    BY <2>3 DEF Start, Held, Alignment
<1>11. Shape(t, p, z)
  BY <1>5, <1>10 DEF Shape
<1>12. Marked(t, p, z, h)
  <2> SUFFICES ASSUME NEW w \in p .. p + z - 1
               PROVE  t.mem[w] = h
    BY DEF Marked
  <2>1. w \in Heap /\ ~(w < b + 2)
    BY <1>7 DEF Heap
  <2> QED
    BY <1>4, <1>5, <2>1
<1>13. ClearAround(t, F, o, p)
  BY <1>6, <1>9, <1>10 DEF ClearAround
<1>14. Accounts(t, p, Cardinality(Taken(s, o)))
  <2>1. PICK k : k = Cardinality(Taken(s, o))
    OBVIOUS
  <2>2. s.used - (p + Held(s, p) - Start(s, p)) = k /\ s.used \in Int
    BY <1>3, <2>1 DEF Detached, Leaves
  <2>3. p \in Int /\ Held(s, p) \in Int /\ Start(s, p) \in Int
    BY <1>5 DEF Shape
  <2>4. s.used = k + (p + Held(s, p) - Start(s, p))
    BY <2>2, <2>3
  <2>5. t.used = k + (p + Held(t, p) - Start(t, p))
    BY <1>4, <1>10, <2>4
  <2> QED
    BY <2>1, <2>5 DEF Accounts
<1>15. PICK r, q : Puts(o, h, p, z, r, q)
  BY DEF Puts
<1>16. Good(t, q)
  <2>1. Laid(s, F, o) /\ o[h] = NoBlock /\ Laid(t, F, o) /\ SameBlocks(s, t, o)
    BY <1>5, <1>9
  <2> QED
    BY <1>11, <1>12, <1>13, <1>14, <1>15, <2>1, PutGood
<1>17. q = os
  <2>1. os = [g \in Handles |-> os[g]]
    BY <1>1 DEF Laid, Blocks
  <2> QED
    BY <1>2, <1>3, <1>15, <2>1 DEF Without, Puts
<1>18. FreeBlocks(s) = F
  BY <1>5, ListIs
<1>19. FreeBlocks(t) = F
  <2>1. t \in StateSet /\ IsList(t, F) /\ Feet(t, F)
    BY <1>9 DEF Laid
  <2> QED
    BY <2>1, ListIs
<1> QED
  BY <1>4, <1>9, <1>16, <1>17, <1>18, <1>19 DEF RestoredGood

(* When nothing fits, the four words of the neighbours and the header are  *)
(* enough to undo it.                                                      *)
LEMMA RestoreGood ==
  ASSUME NEW s, NEW os, Good(s, os), NEW h \in Handles, os[h] # NoBlock,
         NEW p, p = os[h].p, NEW b, b = Start(s, p), NEW extent, extent = Held(s, p) + p - b,
         NEW freed, freed = AddAndMerge(SetFree(s, b, extent, Null), b),
         NEW t, t = Restored(s, freed, p)
  PROVE  RestoredGood(s, os, t)
<1>1. PICK F : Laid(s, F, os)
  BY DEF Good
<1>2. PICK o, z : o = Without(os, h) /\ z = os[h].size
  OBVIOUS
<1>3. Detached(s, F, o, h, p, z) /\ os[h] = [p |-> p, size |-> z]
  <2>1. s.used = Cardinality(Taken(s, os))
    BY DEF Good
  <2>2. Detached(s, F, o, h, p, z)
    BY <1>1, <1>2, <2>1, HeldIs
  <2>3. os[h] = [p |-> p, size |-> z]
    BY <1>1, <1>2, BlockIs DEF Laid
  <2> QED
    BY <2>2, <2>3
<1>4. /\ t \in StateSet /\ t.first = s.first /\ t.used = s.used
      /\ \A w \in Heap : t.mem[w] = s.mem[w] \/ (b <= w /\ w < b + 2)
      /\ \A w \in Heap : p - 3 <= w /\ w < p => t.mem[w] = s.mem[w]
  BY <1>3, RestoredWords
<1>5. Rewritten(s, t, p, b)
  BY <1>4 DEF Rewritten
<1> QED
  BY <1>5, RewrittenGood

(* realloc in place that leaves a free block behind the block at p: the    *)
(* header says size, r words behind it are free and link to l, x to them.  *)
Cut(s, p, size, x, l, r, z, u, h) ==
  Fill(Link(SetFree(WithUsed(SetHeader(s, p, Start(s, p), size, Alignment(s, p)), u), p + size, r, l),
            x, p + size), p, z, size, h)

(* Where it may: x is before the block, and up to hi nobody is. *)
CutsIn(s, p, size, x, l, r, z, u, h, hi) ==
  /\ s \in StateSet /\ Shape(s, p, z) /\ size \in Sizes /\ h \in Handles
  /\ x \in Nat /\ (x # Null => x \in Heap /\ x + 1 \in Heap /\ x + 2 <= Start(s, p))
  /\ hi \in Nat /\ p + size + 2 <= hi /\ hi <= Base + Words
  /\ l \in Int /\ r \in Nat /\ u \in Int
  /\ \A w \in p .. p + z - 1 : s.mem[w] = h

CutWords(s, t, p, size, x, l, r, u, h, hi) ==
  /\ t \in StateSet /\ t.used = u
  /\ Start(t, p) = Start(s, p) /\ Held(t, p) = size /\ Alignment(t, p) = Alignment(s, p)
  /\ SizeOf(t, p + size) = r /\ NextOf(t, p + size) = l
  /\ x = Null => t.first = p + size
  /\ x # Null => t.first = s.first /\ NextOf(t, x) = p + size
  /\ \A w \in Heap : \/ t.mem[w] = s.mem[w]
                     \/ x # Null /\ w = x + 1
                     \/ Start(s, p) <= w /\ w < hi
  /\ \A w \in p .. p + size - 1 : t.mem[w] = h

(* Numbers of a block that is cut in two. *)
LEMMA CutIs ==
  ASSUME NEW s, NEW p, NEW size, NEW x, NEW l, NEW r, NEW z, NEW u, NEW h, NEW hi,
         CutsIn(s, p, size, x, l, r, z, u, h, hi),
         NEW t, t = Cut(s, p, size, x, l, r, z, u, h)
  PROVE  CutWords(s, t, p, size, x, l, r, u, h, hi)
<1>1. PICK b, n, al : b = Start(s, p) /\ n = p + size /\ al = Alignment(s, p)
  OBVIOUS
<1>2. /\ s \in StateSet /\ size \in Nat \ {0} /\ h \in Handles /\ x \in Nat /\ z \in Nat
      /\ l \in Int /\ r \in Nat /\ u \in Int /\ hi \in Nat /\ size \in Int
      /\ p \in Nat /\ p \in Heap /\ p - 3 \in Heap /\ b \in Nat /\ al \in Int
      /\ b + 3 <= p /\ Base <= b /\ n \in Nat /\ n + 2 <= hi /\ hi <= Base + Words
  <2>1. /\ s \in StateSet /\ size \in Sizes /\ h \in Handles /\ x \in Nat
        /\ l \in Int /\ r \in Nat /\ u \in Int /\ hi \in Nat /\ Shape(s, p, z)
    BY DEF CutsIn
  <2>2. /\ p \in Nat /\ p \in Heap /\ p - 3 \in Heap /\ b \in Nat /\ al \in Alignments /\ z \in Nat
        /\ b + 3 <= p /\ Base <= b
    BY <1>1, <2>1 DEF Shape
  <2>3. size \in Nat \ {0} /\ al \in Int
    BY <2>1, <2>2
  <2>4. p + size + 2 <= hi /\ hi <= Base + Words
    BY DEF CutsIn
  <2>5. n \in Nat /\ n + 2 <= hi
    BY <1>1, <2>2, <2>3, <2>4
  <2> QED
    BY <2>1, <2>2, <2>3, <2>4, <2>5
<1>3. x # Null => x \in Heap /\ x + 1 \in Heap /\ x + 2 <= b
  BY <1>1 DEF CutsIn
<1>4. \A w \in p .. p + z - 1 : s.mem[w] = h
  BY DEF CutsIn
<1>5. n \in Heap /\ n + 1 \in Heap /\ Base <= p
  <2>1. Base <= p /\ p <= n
    BY <1>1, <1>2
  <2> QED
    BY <1>2, <2>1 DEF Heap
<1>6. PICK s1 : s1 = SetHeader(s, p, b, size, al)
  OBVIOUS
<1>7. /\ s1 \in StateSet /\ s1.first = s.first
      /\ Start(s1, p) = b /\ Held(s1, p) = size /\ Alignment(s1, p) = al
      /\ \A w \in Heap : w < p - 3 \/ p <= w => s1.mem[w] = s.mem[w]
  BY <1>2, <1>6, SetHeaderIs
<1>8. PICK s2 : s2 = WithUsed(s1, u)
  OBVIOUS
<1>9. s2 \in StateSet /\ s2.first = s1.first /\ s2.used = u /\ s2.mem = s1.mem
  BY <1>2, <1>7, <1>8 DEF StateSet, WithUsed
<1>10. PICK s3 : s3 = SetFree(s2, n, r, l)
  OBVIOUS
<1>11. /\ s3 \in StateSet /\ s3.first = s2.first /\ s3.used = s2.used
       /\ s3.mem[n] = r /\ s3.mem[n + 1] = l
       /\ \A w \in Heap \ {n, n + 1} : s3.mem[w] = s2.mem[w]
  BY <1>2, <1>5, <1>9, <1>10, SetFreeIs
<1>12. PICK s4 : s4 = Link(s3, x, n)
  OBVIOUS
<1>13. /\ s4 \in StateSet /\ s4.used = s3.used
       /\ x = Null => s4.first = n /\ s4.mem = s3.mem
       /\ x # Null => /\ s4.first = s3.first /\ s4.mem[x + 1] = n
                      /\ \A w \in Heap \ {x + 1} : s4.mem[w] = s3.mem[w]
  <2>1. x \in Heap \cup {Null} /\ n \in Int /\ (x # Null => x + 1 \in Heap) /\ s3 \in StateSet
    BY <1>2, <1>3, <1>11
  <2>2. s4 \in StateSet /\ s4.used = s3.used /\ (x = Null => s4.first = n /\ s4.mem = s3.mem)
    BY <1>12, <2>1 DEF StateSet, Link, SetNext, Heap
  <2>3. x # Null => /\ s4.first = s3.first /\ s4.mem[x + 1] = n
                    /\ \A w \in Heap \ {x + 1} : s4.mem[w] = s3.mem[w]
    BY <1>12, <2>1, LinkIs
  <2> QED
    BY <2>2, <2>3
<1>14. t = Fill(s4, p, z, size, h)
  BY <1>1, <1>6, <1>8, <1>10, <1>12 DEF Cut
<1>15. /\ t \in StateSet /\ t.first = s4.first /\ t.used = s4.used
       /\ \A w \in Heap : t.mem[w] = IF p + z <= w /\ w < p + size THEN h ELSE s4.mem[w]
  BY <1>2, <1>13, <1>14, FillIs
<1>16. t.used = u /\ (x = Null => t.first = n) /\ (x # Null => t.first = s.first)
  BY <1>7, <1>9, <1>11, <1>13, <1>15
<1>17. \A w \in Heap : (x # Null /\ w = x + 1) \/ s4.mem[w] = s3.mem[w]
  BY <1>13
<1>18. Start(t, p) = b /\ Held(t, p) = size /\ Alignment(t, p) = al
  <2>1. \A w \in {p - 3, p - 2, p - 1} : w \in Heap /\ w < p /\ w \notin {n, n + 1} /\ ~(p + z <= w) /\ b <= w
    BY <1>1, <1>2 DEF Heap
  <2>2. \A w \in {p - 3, p - 2, p - 1} : ~(x # Null /\ w = x + 1)
    BY <1>2, <1>3, <2>1
  <2>3. \A w \in {p - 3, p - 2, p - 1} : t.mem[w] = s1.mem[w]
    BY <1>9, <1>11, <1>15, <1>17, <2>1, <2>2
  <2> QED
    BY <1>7, <2>3 DEF Start, Held, Alignment
<1>19. t.mem[n] = r /\ t.mem[n + 1] = l
  <2>1. \A w \in {n, n + 1} : w \in Heap /\ ~(w < p + size) /\ ~(x # Null /\ w = x + 1)
    BY <1>1, <1>2, <1>3, <1>5
  <2> QED
    BY <1>11, <1>15, <1>17, <2>1
<1>20. x # Null => t.mem[x + 1] = n
  <2>1. x # Null => x + 1 \in Heap /\ ~(p + z <= x + 1)
    BY <1>2, <1>3
  <2> QED
    BY <1>13, <1>15, <2>1
<1>21. ASSUME NEW w \in Heap
       PROVE  \/ t.mem[w] = s.mem[w]
              \/ x # Null /\ w = x + 1
              \/ b <= w /\ w < hi
  <2>1. w \in Int
    BY DEF Heap
  <2>2. SUFFICES ASSUME ~(b <= w /\ w < hi), ~(x # Null /\ w = x + 1)
                 PROVE  t.mem[w] = s.mem[w]
    OBVIOUS
  <2>3. ~(p + z <= w /\ w < p + size) /\ w \notin {n, n + 1} /\ (w < p - 3 \/ p <= w)
    BY <1>1, <1>2, <2>1, <2>2
  <2> QED
    BY <1>7, <1>9, <1>11, <1>15, <1>17, <2>2, <2>3
<1>22. ASSUME NEW w \in p .. p + size - 1
       PROVE  t.mem[w] = h
  <2>1. w \in Int /\ p <= w /\ w < n /\ w < p + size /\ w \in Heap
    BY <1>1, <1>2 DEF Heap
  <2>2. CASE p + z <= w
    BY <1>15, <2>1, <2>2
  <2>3. CASE ~(p + z <= w)
    <3>1. w \in p .. p + z - 1
      BY <1>2, <2>1, <2>3
    <3>2. w \notin {n, n + 1} /\ ~(x # Null /\ w = x + 1) /\ p <= w
      BY <1>2, <1>3, <2>1
    <3> QED
      BY <1>4, <1>7, <1>9, <1>11, <1>15, <1>17, <2>1, <2>3, <3>1, <3>2
  <2> QED
    BY <2>2, <2>3
<1> QED
  BY <1>1, <1>15, <1>16, <1>18, <1>19, <1>20, <1>21, <1>22 DEF CutWords, SizeOf, NextOf

(* The list before the cut: G in g, which is s but for the link of x, and  *)
(* from the block's start to hi nobody is.                                 *)
Opened(s, g, G, o, p, x, l, hi) ==
  /\ Laid(g, G, o) /\ SameBlocks(s, g, o)
  /\ x \in G \cup {Null} /\ x < Start(s, p) /\ Clear(g, G, o, Start(s, p), hi)
  /\ LinkOf(g, x) = l /\ l \in Int /\ (l = Null \/ Start(s, p) <= l)
  /\ x \in G => g.first = s.first
  /\ \A w \in Heap : g.mem[w] = s.mem[w] \/ (x \in G /\ w = x + 1)

(* The free block left has room up to hi, and the block and k are used.    *)
CutFits(s, p, size, r, u, k, hi) ==
  /\ size \in Sizes /\ r \in Nat
  /\ p + size + r <= hi /\ p + size + Least <= hi
  /\ u = k + (p + size - Start(s, p))

(* The end of a block cut off becomes a free block. *)
LEMMA CutGood ==
  ASSUME NEW s, NEW F, NEW o, NEW h \in Handles, NEW p, NEW z, Detached(s, F, o, h, p, z),
         NEW g, NEW G, NEW x, NEW l, NEW hi, Opened(s, g, G, o, p, x, l, hi),
         NEW size, NEW r, NEW u, CutFits(s, p, size, r, u, Cardinality(Taken(s, o)), hi),
         NEW t, t = Cut(s, p, size, x, l, r, z, u, h),
         NEW c, NEW q, Puts(o, h, p, size, c, q)
  PROVE  t \in StateSet /\ c # NoBlock /\ Good(t, q) /\ t.used = u
<1>1. PICK b, n, k : b = Start(s, p) /\ n = p + size /\ k = Cardinality(Taken(s, o))
  OBVIOUS
<1>2. /\ s \in StateSet /\ Shape(s, p, z) /\ Laid(s, F, o) /\ o[h] = NoBlock
      /\ \A w \in p .. p + z - 1 : s.mem[w] = h
  BY DEF Detached
<1>3. /\ p \in Nat /\ p \in Heap /\ b \in Nat /\ b + 3 <= p /\ Base <= b
      /\ Alignment(s, p) \in Alignments
  BY <1>1, <1>2 DEF Shape
<1>4. size \in Sizes /\ size \in Nat \ {0} /\ r \in Nat
  BY DEF CutFits
<1>5. k \in Nat
  BY <1>1, TakenFinite
<1>6. n + r <= hi /\ n + Least <= hi /\ n \in Nat /\ n # Null /\ u = k + (n - b) /\ u \in Int
  BY <1>1, <1>3, <1>4, <1>5 DEF CutFits, Null
<1>7. /\ Laid(g, G, o) /\ SameBlocks(s, g, o) /\ Clear(g, G, o, b, hi) /\ LinkOf(g, x) = l /\ l \in Int
      /\ x \in G \cup {Null} /\ x < b /\ (l = Null \/ b <= l)
  BY <1>1 DEF Opened
<1>8. g \in StateSet /\ IsList(g, G) /\ Feet(g, G)
  BY <1>7 DEF Laid
<1>9. hi \in Int /\ hi <= Base + Words /\ \A a \in G : FootEnd(g, a) <= b \/ hi <= a
  BY <1>7 DEF Clear
<1>10. n + 2 <= hi /\ hi \in Nat /\ b <= n /\ b < hi
  BY <1>1, <1>3, <1>4, <1>6, <1>9, LeastIs
<1>11. x \in G => x \in Nat /\ x # Null /\ x \in Heap /\ x + 1 \in Heap /\ x + 2 <= b
  <2> SUFFICES ASSUME x \in G
               PROVE  x \in Nat /\ x # Null /\ x \in Heap /\ x + 1 \in Heap /\ x + 2 <= b
    OBVIOUS
  <2>1. /\ x \in Nat /\ x # Null /\ x \in Heap /\ x + 1 \in Heap
        /\ FootEnd(g, x) \in Nat /\ x + 2 <= FootEnd(g, x)
    BY <1>8, FootIs
  <2>2. FootEnd(g, x) <= b \/ hi <= x
    BY <1>9
  <2> QED
    BY <1>3, <1>7, <1>10, <2>1, <2>2
<1>12. x \in Nat /\ (x # Null <=> x \in G)
  BY <1>7, <1>11 DEF Null
<1>13. CutsIn(s, p, size, x, l, r, z, u, h, hi)
  <2>1. p + size + 2 <= hi
    BY <1>1, <1>10
  <2>2. x # Null => x \in Heap /\ x + 1 \in Heap /\ x + 2 <= Start(s, p)
    BY <1>1, <1>11, <1>12
  <2> QED
    BY <1>2, <1>4, <1>6, <1>7, <1>9, <1>10, <1>12, <2>1, <2>2 DEF CutsIn
<1>14. CutWords(s, t, p, size, x, l, r, u, h, hi)
  BY <1>13, CutIs
<1>15. /\ t \in StateSet /\ t.used = u
       /\ Start(t, p) = b /\ Held(t, p) = size /\ Alignment(t, p) = Alignment(s, p)
       /\ SizeOf(t, n) = r /\ NextOf(t, n) = l
       /\ x = Null => t.first = n
       /\ x # Null => t.first = s.first /\ NextOf(t, x) = n
       /\ \A w \in Heap : \/ t.mem[w] = s.mem[w]
                          \/ x # Null /\ w = x + 1
                          \/ b <= w /\ w < hi
       /\ \A w \in p .. p + size - 1 : t.mem[w] = h
  BY <1>1, <1>14 DEF CutWords
<1>16. Changed(g, G, t, x, b, hi)
  <2>1. x \in G => t.first = g.first
    BY <1>12, <1>15 DEF Opened
  <2>2. \A w \in Heap : t.mem[w] = g.mem[w] \/ (x \in G /\ w = x + 1) \/ (b <= w /\ w < hi)
    <3> SUFFICES ASSUME NEW w \in Heap
                 PROVE  t.mem[w] = g.mem[w] \/ (x \in G /\ w = x + 1) \/ (b <= w /\ w < hi)
      OBVIOUS
    <3>1. g.mem[w] = s.mem[w] \/ (x \in G /\ w = x + 1)
      BY DEF Opened
    <3>2. \/ t.mem[w] = s.mem[w]
          \/ x # Null /\ w = x + 1
          \/ b <= w /\ w < hi
      BY <1>15
    <3> QED
      BY <1>12, <3>1, <3>2
  <2> QED
    BY <1>15, <2>1, <2>2 DEF Changed
<1>17. LinkOf(t, x) = n /\ LinkOf(t, n) = LinkOf(g, x)
  BY <1>6, <1>7, <1>15 DEF LinkOf
<1>18. SizeOf(t, n) \in Nat /\ FootEnd(t, n) <= hi
  BY <1>4, <1>6, <1>15, LeastIs DEF FootEnd
<1>19. Laid(t, G \cup {n}, o) /\ SameBlocks(g, t, o) /\ Clear(t, G \cup {n}, o, b, n)
  <2>1. LinkOf(g, x) = Null \/ b <= LinkOf(g, x)
    BY <1>7
  <2>2. n \in Int /\ b <= n
    BY <1>6, <1>10
  <2> QED
    BY <1>7, <1>16, <1>17, <1>18, <2>1, <2>2, Comes
<1>20. SameBlocks(s, t, o)
  BY <1>7, <1>19 DEF SameBlocks
<1>21. Shape(t, p, size)
  <2>1. n <= Base + Words /\ b + Least <= n /\ n \in Nat
    BY <1>1, <1>3, <1>4, <1>6, <1>9, <1>10, LeastIs
  <2>2. /\ p - 3 \in Heap /\ p - 2 \in Heap /\ p - 1 \in Heap
        /\ b \in Heap /\ b \in Nat \ {0} /\ b + 1 \in Heap
    BY <1>1, <1>2 DEF Shape
  <2>3. p + Held(t, p) = n /\ size <= size
    BY <1>1, <1>4, <1>15
  <2> QED
    BY <1>3, <1>4, <1>15, <2>1, <2>2, <2>3 DEF Shape
<1>22. ClearAround(t, G \cup {n}, o, p)
  BY <1>1, <1>15, <1>19 DEF ClearAround
<1>23. Accounts(t, p, k)
  <2>1. p + Held(t, p) - Start(t, p) = n - b
    <3>1. Start(t, p) = b /\ Held(t, p) = size
      BY <1>15
    <3> QED
      BY <1>1, <1>3, <1>4, <3>1
  <2>2. t.used = k + (n - b)
    BY <1>6, <1>15
  <2>3. t.used = k + (p + Held(t, p) - Start(t, p))
    BY <2>1, <2>2
  <2> QED
    BY <2>3 DEF Accounts
<1>24. Marked(t, p, size, h)
  BY <1>15 DEF Marked
<1> QED
  <2>1. Laid(s, F, o) /\ o[h] = NoBlock /\ Laid(t, G \cup {n}, o) /\ Accounts(t, p, Cardinality(Taken(s, o)))
    BY <1>1, <1>2, <1>19, <1>23
  <2>2. t \in StateSet /\ c # NoBlock /\ Good(t, q)
    BY <1>20, <1>21, <1>22, <1>24, <2>1, PutGood
  <2> QED
    BY <1>15, <2>2

(* The free blocks around a block. *)
LEMMA Around ==
  ASSUME NEW s, NEW F, NEW o, NEW h, NEW p, NEW z, Detached(s, F, o, h, p, z),
         NEW x, x = Prior(s, p), NEW y, y = Following(s, p)
  PROVE  /\ x \in F \cup {Null} /\ x \in Nat /\ x < Start(s, p) /\ LinkOf(s, x) = y
         /\ y \in F \cup {Null} /\ y \in Nat
         /\ x \in F => /\ x # Null /\ x + 1 < Start(s, p) /\ SizeOf(s, x) \in Nat
                       /\ x + SizeOf(s, x) <= Start(s, p) /\ x \in Heap
         /\ y \in F => p + Held(s, p) <= y /\ y # Null
<1>1. PICK b, e, extent : b = Start(s, p) /\ e = p + Held(s, p) /\ extent = Held(s, p) + p - b
  OBVIOUS
<1>2. s \in StateSet /\ IsList(s, F) /\ Feet(s, F) /\ Clear(s, F, o, b, e)
  BY <1>1 DEF Detached
<1>3. p \in Nat \ {0} /\ b \in Nat \ {0} /\ e \in Nat /\ b < e /\ b + 3 <= p /\ p < e
  BY <1>1 DEF Detached, Shape
<1>4. /\ x \in F \cup {Null} /\ x < p /\ y \in F \cup {Null} /\ LinkOf(s, x) = y
      /\ y # Null => p <= y
  BY <1>2, <1>3, AdjacentAre
<1>5. \A c \in F : FootEnd(s, c) <= b \/ e <= c
  BY <1>2 DEF Clear
<1>6. \A c \in F : /\ c \in Nat /\ c # Null /\ c \in Heap /\ SizeOf(s, c) \in Nat /\ FootEnd(s, c) \in Nat
                   /\ c + 2 <= FootEnd(s, c) /\ c + SizeOf(s, c) <= FootEnd(s, c)
  BY <1>2, FootIs
<1>7. x \in F => /\ x \in Nat /\ x # Null /\ x + 1 < b /\ SizeOf(s, x) \in Nat /\ x \in Heap
                 /\ x + SizeOf(s, x) <= b /\ x < b
  BY <1>3, <1>4, <1>5, <1>6
<1>8. y \in F => e <= y /\ y # Null /\ y \in Nat
  BY <1>3, <1>4, <1>5, <1>6
<1>9. Null \in Nat /\ Null < b
  BY <1>3 DEF Null
<1> QED
  BY <1>1, <1>4, <1>7, <1>8, <1>9

(* Nothing is taken out of the list. *)
LEMMA OpenedAlone ==
  ASSUME NEW s, NEW F, NEW o, NEW h, NEW p, NEW z, Detached(s, F, o, h, p, z),
         NEW x, x = Prior(s, p), NEW y, y = Following(s, p), NEW hi, hi = p + Held(s, p)
  PROVE  Opened(s, s, F, o, p, x, y, hi)
<1>1. Laid(s, F, o) /\ Clear(s, F, o, Start(s, p), hi)
  BY DEF Detached
<1>2. /\ x \in F \cup {Null} /\ x < Start(s, p) /\ LinkOf(s, x) = y
      /\ y \in F \cup {Null} /\ y \in Nat
  BY Around
<1>3. y = Null \/ Start(s, p) <= y
  <2>1. y \in F => p + Held(s, p) <= y
    BY Around
  <2>2. p \in Nat /\ Start(s, p) \in Nat /\ Start(s, p) + 3 <= p /\ Held(s, p) \in Nat
    BY DEF Detached, Shape
  <2> QED
    BY <1>2, <2>1, <2>2
<1>4. SameBlocks(s, s, o)
  BY DEF SameBlocks
<1> QED
  BY <1>1, <1>2, <1>3, <1>4 DEF Opened

(* The free block behind is taken out of it. *)
LEMMA OpenedNext ==
  ASSUME NEW s, NEW F, NEW o, NEW h, NEW p, NEW z, Detached(s, F, o, h, p, z), AdjacentFree(s, p),
         NEW x, x = Prior(s, p), NEW y, y = Following(s, p), NEW l, l = NextOf(s, y),
         NEW hi, hi = FootEnd(s, y)
  PROVE  y \in F /\ y = p + Held(s, p) /\ Opened(s, Link(s, x, l), F \ {y}, o, p, x, l, hi)
<1>1. PICK b, e, g : b = Start(s, p) /\ e = p + Held(s, p) /\ g = Link(s, x, l)
  OBVIOUS
<1>2. s \in StateSet /\ IsList(s, F) /\ Feet(s, F) /\ Laid(s, F, o) /\ Clear(s, F, o, b, e)
  BY <1>1 DEF Detached
<1>3. y # Null /\ e = y
  BY <1>1 DEF AdjacentFree
<1>4. y \in F /\ x \in F \cup {Null} /\ x < b /\ LinkOf(s, x) = y
  <2>1. y \in F \cup {Null} /\ x \in F \cup {Null} /\ x < Start(s, p) /\ LinkOf(s, x) = y
    BY Around
  <2> QED
    BY <1>1, <1>3, <2>1
<1>5. b \in Nat /\ b <= y
  <2>1. p \in Nat /\ b \in Nat /\ b + 3 <= p /\ Held(s, p) \in Nat
    BY <1>1 DEF Detached, Shape
  <2> QED
    BY <1>1, <1>3, <2>1
<1>6. LinkOf(s, y) = l /\ l \in Int /\ FootEnd(s, y) \in Nat /\ y \in Nat /\ y < FootEnd(s, y)
  BY <1>2, <1>4, FootIs
<1>7. /\ Laid(g, F \ {y}, o) /\ SameBlocks(s, g, o)
      /\ Clear(g, F \ {y}, o, b, hi)
      /\ x \in (F \ {y}) \cup {Null}
      /\ LinkOf(g, x) = l /\ (l = Null \/ hi <= l)
      /\ \A w \in Heap : g.mem[w] = s.mem[w] \/ (x \in F /\ w = x + 1)
      /\ x \in F => g.first = s.first
  <2>1. Clear(s, F, o, b, y) /\ g = Link(s, x, LinkOf(s, y)) /\ y = LinkOf(s, x)
    BY <1>1, <1>2, <1>3, <1>4, <1>6
  <2>2. /\ Laid(g, F \ {y}, o) /\ SameBlocks(s, g, o)
        /\ Clear(g, F \ {y}, o, b, FootEnd(s, y))
        /\ x \in (F \ {y}) \cup {Null}
        /\ LinkOf(g, x) = LinkOf(s, y) /\ (LinkOf(g, x) = Null \/ FootEnd(s, y) <= LinkOf(g, x))
    BY <1>2, <1>4, <1>5, <2>1, Goes
  <2>3. x \in F => g.first = s.first
    <3>1. x \in F => x # Null
      BY <1>2, FootIs
    <3> QED
      BY <1>1, <1>2, <3>1 DEF StateSet, Link, SetNext
  <2>4. ASSUME NEW w \in Heap
        PROVE  g.mem[w] = s.mem[w] \/ (x \in F /\ w = x + 1)
    BY <1>2, <1>4, <1>6, <2>1, LinkedIs
  <2> QED
    BY <1>6, <2>2, <2>3, <2>4
<1>8. x \in F \ {y} <=> x \in F
  BY <1>3, <1>4, <1>5, <1>6, <1>7
<1>9. l = Null \/ b <= l
  <2>1. hi \in Nat /\ y < hi
    BY <1>6
  <2> QED
    BY <1>5, <1>6, <1>7, <2>1
<1>10. Opened(s, g, F \ {y}, o, p, x, l, hi)
  BY <1>1, <1>4, <1>6, <1>7, <1>8, <1>9 DEF Opened
<1> QED
  BY <1>1, <1>3, <1>4, <1>10

(* The header says size and m_used_size counts it. *)
Resized(s, p, size) ==
  WithUsed(SetHeader(s, p, Start(s, p), size, Alignment(s, p)), s.used + (size - Held(s, p)))

(* A new size in the header changes nothing else. *)
LEMMA ResizedIs ==
  ASSUME NEW s \in StateSet, NEW p, NEW z, Shape(s, p, z), NEW size \in Nat, NEW t, t = Resized(s, p, size)
  PROVE  /\ t \in StateSet /\ t.first = s.first /\ t.used = s.used + (size - Held(s, p))
         /\ \A w \in Heap : w < p - 3 \/ p <= w => t.mem[w] = s.mem[w]
         /\ t = [SetHeader(s, p, Start(s, p), size, Alignment(s, p))
                   EXCEPT !.used = @ - (Held(s, p) - size)]
<1>1. PICK b, al, k : b = Start(s, p) /\ al = Alignment(s, p) /\ k = Held(s, p)
  OBVIOUS
<1>2. p \in Heap /\ p - 3 \in Heap /\ b \in Int /\ al \in Int /\ k \in Int /\ size \in Int
  <2>1. p \in Heap /\ p - 3 \in Heap /\ b \in Nat /\ al \in Alignments /\ k \in Nat
    BY <1>1 DEF Shape
  <2> QED
    BY <2>1
<1>3. PICK c : c = SetHeader(s, p, b, size, al)
  OBVIOUS
<1>4. /\ c \in StateSet /\ c.first = s.first /\ c.used = s.used
      /\ \A w \in Heap : w < p - 3 \/ p <= w => c.mem[w] = s.mem[w]
  <2>1. c \in StateSet /\ c.first = s.first /\ c.used = s.used
    BY <1>2, <1>3, SetHeaderIs
  <2>2. ASSUME NEW w \in Heap, w < p - 3 \/ p <= w
        PROVE  c.mem[w] = s.mem[w]
    BY <1>2, <1>3, <2>2, SetHeaderIs
  <2> QED
    BY <2>1, <2>2
<1>5. PICK u : u = s.used + (size - k)
  OBVIOUS
<1>6. s.used \in Int /\ u \in Int /\ u = c.used - (k - size)
  BY <1>2, <1>4, <1>5 DEF StateSet
<1>7. t = [c EXCEPT !.used = u]
  BY <1>1, <1>3, <1>5 DEF Resized, WithUsed
<1>8. t \in StateSet /\ t.first = c.first /\ t.used = u /\ t.mem = c.mem
  BY <1>4, <1>6, <1>7 DEF StateSet
<1>9. t = [c EXCEPT !.used = @ - (k - size)]
  BY <1>6, <1>7
<1> QED
  BY <1>1, <1>3, <1>4, <1>5, <1>8, <1>9

(* The free block before a block does not reach behind its header. *)
LEMMA NoTouch ==
  ASSUME NEW s, NEW F, NEW o, NEW h, NEW p, NEW z, Detached(s, F, o, h, p, z),
         NEW x, x = Prior(s, p), NEW size \in Sizes, NEW n, n = p + size,
         n \in Heap, n + 1 \in Heap, NEW r \in Int, NEW l \in Int,
         NEW c, c = SetFree(Resized(s, p, size), n, r, l)
  PROVE  ~Touch(c, x, n)
<1>1. PICK b, a : b = Start(s, p) /\ a = Resized(s, p, size)
  OBVIOUS
<1>2. s \in StateSet /\ Shape(s, p, z)
  BY DEF Detached
<1>3. p \in Nat /\ b \in Nat /\ b + 3 <= p /\ size \in Nat /\ n \in Nat /\ p <= n
  BY <1>1, <1>2 DEF Shape
<1>4. a \in StateSet
  BY <1>1, <1>2, <1>3, ResizedIs
<1>5. \A w \in Heap : w < p - 3 \/ p <= w => a.mem[w] = s.mem[w]
  BY <1>1, <1>2, <1>3, ResizedIs
<1>6. SUFFICES ASSUME x # Null
               PROVE  x + SizeOf(c, x) # n
  BY DEF Touch
<1>7. /\ x \in Nat /\ x < b /\ SizeOf(s, x) \in Nat /\ x + SizeOf(s, x) <= b /\ x \in Heap
      /\ x + 1 < b
  BY <1>1, <1>6, Around
<1>8. c.mem[x] = s.mem[x]
  <2>1. x \in Heap \ {n, n + 1} /\ x < p - 3
    BY <1>3, <1>7
  <2>2. \A w \in Heap \ {n, n + 1} : c.mem[w] = a.mem[w]
    BY <1>1, <1>4, SetFreeIs
  <2> QED
    BY <1>5, <2>1, <2>2
<1> QED
  BY <1>3, <1>7, <1>8 DEF SizeOf

(* The fill after the cut, as the calls have it. *)
LEMMA CutAgain ==
  ASSUME NEW s, NEW p, NEW size, NEW x, NEW l, NEW r, NEW z, NEW h, NEW n, n = p + size,
         NEW u, u = s.used + (size - Held(s, p))
  PROVE  Cut(s, p, size, x, l, r, z, u, h) =
           Fill(Link(SetFree(Resized(s, p, size), n, r, l), x, n), p, z, size, h)
BY DEF Cut, Resized

(* What the cut leaves used. *)
LEMMA FitsUsed ==
  ASSUME NEW s, NEW F, NEW o, NEW h, NEW p, NEW z, Detached(s, F, o, h, p, z),
         NEW size \in Sizes, NEW r \in Nat, NEW u, u = s.used + (size - Held(s, p)),
         NEW hi, p + size + r <= hi, p + size + Least <= hi
  PROVE  CutFits(s, p, size, r, u, Cardinality(Taken(s, o)), hi)
<1>1. PICK b, k, m : b = Start(s, p) /\ k = Held(s, p) /\ m = Cardinality(Taken(s, o))
  OBVIOUS
<1>2. p \in Nat /\ b \in Nat /\ k \in Nat
  BY <1>1 DEF Detached, Shape
<1>3. s.used \in Int /\ s.used - (p + k - b) = m
  BY <1>1 DEF Detached, Leaves
<1>4. size \in Nat /\ m \in Nat
  BY <1>1, TakenFinite
<1>5. u = m + (p + size - b)
  BY <1>1, <1>2, <1>3, <1>4
<1> QED
  BY <1>1, <1>5 DEF CutFits

(* The words behind become a free block of their own. *)
LEMMA CutsAlone ==
  ASSUME NEW s, NEW F, NEW o, NEW h \in Handles, NEW p, NEW z, Detached(s, F, o, h, p, z),
         NEW size \in Sizes, NEW x, x = Prior(s, p), NEW y, y = Following(s, p),
         NEW n, n = p + size, NEW r, r = Held(s, p) - size, EnoughForHeader(r),
         NEW t, t = Fill(Link(SetFree(Resized(s, p, size), n, r, y), x, n), p, z, size, h),
         NEW c, NEW q, Puts(o, h, p, size, c, q)
  PROVE  t \in StateSet /\ c # NoBlock /\ Good(t, q) /\ t.used = s.used + (size - Held(s, p))
<1>1. PICK u, hi : u = s.used + (size - Held(s, p)) /\ hi = p + Held(s, p)
  OBVIOUS
<1>2. p \in Nat /\ Held(s, p) \in Nat /\ size \in Nat
  BY DEF Detached, Shape
<1>3. r \in Nat /\ Least <= r
  <2>1. r \in Int
    BY <1>2
  <2>2. r > 3
    BY DEF EnoughForHeader, HeaderSize
  <2> QED
    BY <2>1, <2>2, LeastIs
<1>4. p + size + r <= hi /\ p + size + Least <= hi
  BY <1>1, <1>2, <1>3, LeastIs
<1>5. Opened(s, s, F, o, p, x, y, hi)
  BY <1>1, OpenedAlone
<1>6. CutFits(s, p, size, r, u, Cardinality(Taken(s, o)), hi)
  <2>1. u = s.used + (size - Held(s, p))
    BY <1>1
  <2> QED
    BY <1>3, <1>4, <2>1, FitsUsed
<1>7. t = Cut(s, p, size, x, y, r, z, u, h)
  BY <1>1, CutAgain
<1>8. t \in StateSet /\ c # NoBlock /\ Good(t, q) /\ t.used = u
  BY <1>5, <1>6, <1>7, CutGood
<1> QED
  BY <1>1, <1>8

(* The words behind join the free block that is there. *)
LEMMA CutsNext ==
  ASSUME NEW s, NEW F, NEW o, NEW h \in Handles, NEW p, NEW z, Detached(s, F, o, h, p, z),
         AdjacentFree(s, p), NEW size \in Sizes, NEW x, x = Prior(s, p), NEW y, y = Following(s, p),
         NEW n, n = p + size, NEW r \in Nat, n + r = y + SizeOf(s, y), n + Least <= FootEnd(s, y),
         NEW t, t = Fill(LinkAndMerge(SetFree(Resized(s, p, size), n, r, NextOf(s, y)), x, n), p, z, size, h),
         NEW c, NEW q, Puts(o, h, p, size, c, q)
  PROVE  t \in StateSet /\ c # NoBlock /\ Good(t, q) /\ t.used = s.used + (size - Held(s, p))
<1>1. PICK u, hi, l : u = s.used + (size - Held(s, p)) /\ hi = FootEnd(s, y) /\ l = NextOf(s, y)
  OBVIOUS
<1>2. p \in Nat /\ Held(s, p) \in Nat /\ size \in Nat /\ n \in Nat /\ Base <= p
  BY DEF Detached, Shape, Heap
<1>3. y \in F /\ y = p + Held(s, p) /\ Opened(s, Link(s, x, l), F \ {y}, o, p, x, l, hi)
  BY <1>1, OpenedNext
<1>4. /\ y \in Nat /\ SizeOf(s, y) \in Nat /\ hi \in Nat /\ y + SizeOf(s, y) <= hi
      /\ hi <= Base + Words /\ l \in Int
  <2>1. s \in StateSet /\ IsList(s, F) /\ Feet(s, F)
    BY DEF Detached
  <2> QED
    BY <1>1, <1>3, <2>1, FootIs
<1>5. p + size + r <= hi /\ p + size + Least <= hi
  BY <1>1, <1>2, <1>4, LeastIs
<1>6. CutFits(s, p, size, r, u, Cardinality(Taken(s, o)), hi)
  <2>1. u = s.used + (size - Held(s, p))
    BY <1>1
  <2> QED
    BY <1>5, <2>1, FitsUsed
<1>7. n \in Heap /\ n + 1 \in Heap
  <2>1. Base <= n /\ n + 2 <= Base + Words
    BY <1>2, <1>4, <1>5, LeastIs
  <2> QED
    BY <1>2, <2>1 DEF Heap
<1>8. PICK a : a = SetFree(Resized(s, p, size), n, r, l)
  OBVIOUS
<1>9. ~Touch(a, x, n)
  <2>1. r \in Int /\ l \in Int
    BY <1>4
  <2> QED
    BY <1>7, <1>8, <2>1, NoTouch
<1>10. t = Fill(Link(a, x, n), p, z, size, h)
  BY <1>1, <1>8, <1>9 DEF LinkAndMerge
<1>11. t = Cut(s, p, size, x, l, r, z, u, h)
  BY <1>1, <1>8, <1>10, CutAgain
<1>12. t \in StateSet /\ c # NoBlock /\ Good(t, q) /\ t.used = u
  BY <1>3, <1>6, <1>11, CutGood
<1> QED
  BY <1>1, <1>12

(* The block at p has its header in g, for size words, z of them filled;   *)
(* s is the memory before.                                                 *)
Stands(s, F, o, h, p, z, size, g, G) ==
  /\ Laid(s, F, o) /\ h \in Handles /\ o[h] = NoBlock /\ z \in Nat
  /\ Laid(g, G, o) /\ SameBlocks(s, g, o) /\ Shape(g, p, size)
  /\ Marked(g, p, z, h)
  /\ ClearAround(g, G, o, p) /\ Accounts(g, p, Cardinality(Taken(s, o)))

(* The caller fills the words it did not have. *)
LEMMA FillGood ==
  ASSUME NEW s, NEW F, NEW o, NEW h, NEW p, NEW z, NEW size, NEW g, NEW G,
         Stands(s, F, o, h, p, z, size, g, G),
         NEW t, t = Fill(g, p, z, size, h), NEW c, NEW q, Puts(o, h, p, size, c, q)
  PROVE  /\ t \in StateSet /\ c # NoBlock /\ Good(t, q)
         /\ t.first = g.first /\ Laid(t, G, o) /\ \A d \in G : SizeOf(t, d) = SizeOf(g, d)
<1>0. /\ Laid(s, F, o) /\ h \in Handles /\ o[h] = NoBlock /\ z \in Nat
      /\ Laid(g, G, o) /\ SameBlocks(s, g, o) /\ Shape(g, p, size)
      /\ ClearAround(g, G, o, p) /\ Accounts(g, p, Cardinality(Taken(s, o)))
  BY DEF Stands
<1>1. PICK b, e : b = Start(g, p) /\ e = p + Held(g, p)
  OBVIOUS
<1>2. /\ p \in Nat /\ size \in Nat /\ b \in Nat /\ e \in Nat /\ b + 3 <= p /\ p + size <= e
      /\ p - 3 \in Heap /\ p - 2 \in Heap /\ p - 1 \in Heap /\ Base <= p /\ e <= Base + Words
  BY <1>0, <1>1 DEF Shape, Heap
<1>3. g \in StateSet /\ Clear(g, G, o, b, e)
  BY <1>0, <1>1 DEF Laid, ClearAround
<1>4. /\ t \in StateSet /\ t.first = g.first /\ t.used = g.used
      /\ \A w \in Heap : t.mem[w] = IF p + z <= w /\ w < p + size THEN h ELSE g.mem[w]
  <2>1. p \in Int /\ z \in Int /\ size \in Int /\ h \in Handles
    BY <1>0, <1>2
  <2>2. t \in StateSet /\ t.first = g.first /\ t.used = g.used
    BY <1>3, <2>1, FillStays
  <2>3. ASSUME NEW w \in Heap
        PROVE  t.mem[w] = IF p + z <= w /\ w < p + size THEN h ELSE g.mem[w]
    BY <1>3, <2>1, FillIs
  <2> QED
    BY <2>2, <2>3
<1>5. ASSUME NEW w \in Heap
      PROVE  t.mem[w] = g.mem[w] \/ (b <= w /\ w < e)
  <2>1. w \in Int
    BY DEF Heap
  <2>2. p + z <= w /\ w < p + size => b <= w /\ w < e
    BY <1>0, <1>2, <2>1
  <2> QED
    BY <1>4, <2>2
<1>6. Laid(t, G, o) /\ SameBlocks(g, t, o) /\ Clear(t, G, o, b, e)
  BY <1>0, <1>3, <1>4, <1>5, ClearWrite
<1>7. \A d \in G : SizeOf(t, d) = SizeOf(g, d)
  BY <1>0, <1>3, <1>4, <1>5, ClearWrite
<1>8. Start(t, p) = Start(g, p) /\ Held(t, p) = Held(g, p) /\ Alignment(t, p) = Alignment(g, p)
  <2>1. \A w \in {p - 3, p - 2, p - 1} : w \in Heap /\ ~(p + z <= w)
    BY <1>0, <1>2
  <2>2. \A w \in {p - 3, p - 2, p - 1} : t.mem[w] = g.mem[w]
    BY <1>4, <2>1
  <2> QED
    BY <2>2 DEF Start, Held, Alignment
<1>9. Shape(t, p, size)
  BY <1>0, <1>8 DEF Shape
<1>10. ClearAround(t, G, o, p)
  BY <1>1, <1>6, <1>8 DEF ClearAround
<1>11. Accounts(t, p, Cardinality(Taken(s, o)))
  BY <1>0, <1>4, <1>8 DEF Accounts
<1>12. Marked(t, p, size, h)
  <2> SUFFICES ASSUME NEW w \in p .. p + size - 1
               PROVE  t.mem[w] = h
    BY DEF Marked
  <2>1. w \in Heap /\ w < p + size /\ (w \in p .. p + z - 1 \/ p + z <= w)
    BY <1>0, <1>2 DEF Heap
  <2>2. w \in p .. p + z - 1 => g.mem[w] = h
    BY DEF Stands, Marked
  <2> QED
    BY <1>4, <2>1, <2>2
<1>13. SameBlocks(s, t, o)
  BY <1>0, <1>6 DEF SameBlocks
<1>14. t \in StateSet /\ c # NoBlock /\ Good(t, q)
  <2>1. Laid(s, F, o) /\ h \in Handles /\ o[h] = NoBlock /\ Laid(t, G, o)
    BY <1>0, <1>6
  <2> QED
    BY <1>9, <1>10, <1>11, <1>12, <1>13, <2>1, PutGood
<1> QED
  BY <1>4, <1>6, <1>7, <1>14

(* What a caller's block accounts for when it is still there. *)
LEMMA StillAccounts ==
  ASSUME NEW s, NEW F, NEW o, NEW h, NEW p, NEW z, Detached(s, F, o, h, p, z)
  PROVE  Accounts(s, p, Cardinality(Taken(s, o)))
<1>1. PICK k : k = Cardinality(Taken(s, o))
  OBVIOUS
<1>2. s.used - (p + Held(s, p) - Start(s, p)) = k /\ s.used \in Int
  BY <1>1 DEF Detached, Leaves
<1>3. p \in Int /\ Held(s, p) \in Int /\ Start(s, p) \in Int
  BY DEF Detached, Shape
<1>4. s.used = k + (p + Held(s, p) - Start(s, p))
  BY <1>2, <1>3
<1> QED
  BY <1>1, <1>4 DEF Accounts

(* realloc that makes no difference to the allocator *)
LEMMA FillsOnly ==
  ASSUME NEW s, NEW F, NEW o, NEW h \in Handles, NEW p, NEW z, Detached(s, F, o, h, p, z),
         NEW size \in Sizes, size <= Held(s, p),
         NEW t, t = Fill(s, p, z, size, h), NEW c, NEW q, Puts(o, h, p, size, c, q)
  PROVE  /\ t \in StateSet /\ c # NoBlock /\ Good(t, q)
         /\ t.first = s.first /\ FreeBlocks(t) = FreeBlocks(s)
         /\ \A d \in FreeBlocks(s) : SizeOf(t, d) = SizeOf(s, d)
<1>1. /\ Laid(s, F, o) /\ o[h] = NoBlock /\ Shape(s, p, z) /\ z \in Nat
      /\ s \in StateSet /\ IsList(s, F) /\ Feet(s, F)
      /\ \A w \in p .. p + z - 1 : s.mem[w] = h
  BY DEF Detached, Shape
<1>2. Shape(s, p, size)
  <2>1. size \in Nat \ {0}
    OBVIOUS
  <2> QED
    BY <1>1, <2>1 DEF Shape
<1>3. SameBlocks(s, s, o)
  BY DEF SameBlocks
<1>4. ClearAround(s, F, o, p)
  BY DEF Detached, ClearAround
<1>5. Accounts(s, p, Cardinality(Taken(s, o)))
  BY StillAccounts
<1>6. Stands(s, F, o, h, p, z, size, s, F)
  BY <1>1, <1>2, <1>3, <1>4, <1>5 DEF Stands, Marked
<1>7. t \in StateSet /\ c # NoBlock /\ Good(t, q) /\ t.first = s.first /\ Laid(t, F, o)
  BY <1>6, FillGood
<1>8. \A d \in F : SizeOf(t, d) = SizeOf(s, d)
  BY <1>6, FillGood
<1>9. FreeBlocks(s) = F
  BY <1>1, ListIs
<1>10. FreeBlocks(t) = F
  <2>1. IsList(t, F) /\ Feet(t, F)
    BY <1>7 DEF Laid
  <2> QED
    BY <1>7, <2>1, ListIs
<1> QED
  BY <1>7, <1>8, <1>9, <1>10

(* The header of a block that grows over the free block behind it. *)
LEMMA BiggerIs ==
  ASSUME NEW s \in StateSet, NEW p, NEW z, Shape(s, p, z), NEW n \in Nat
  PROVE  [SetHeader(s, p, Start(s, p), Held(s, p) + n, Alignment(s, p)) EXCEPT !.used = @ + n]
           = Resized(s, p, Held(s, p) + n)
<1>1. PICK k, m : k = Held(s, p) /\ m = k + n
  OBVIOUS
<1>2. PICK b, al : b = Start(s, p) /\ al = Alignment(s, p)
  OBVIOUS
<1>3. p \in Heap /\ p - 3 \in Heap /\ b \in Int /\ al \in Alignments /\ k \in Nat
  BY <1>1, <1>2 DEF Shape
<1>4. al \in Int /\ m \in Int
  BY <1>1, <1>3
<1>5. PICK c : c = SetHeader(s, p, b, m, al)
  OBVIOUS
<1>6. c \in StateSet /\ c.used = s.used
  <2>1. p \in Heap /\ p - 3 \in Heap /\ b \in Int /\ al \in Int /\ m \in Int
    BY <1>3, <1>4
  <2> QED
    BY <1>5, <2>1, SetHeaderIs
<1>7. s.used + (m - k) = c.used + n
  BY <1>1, <1>3, <1>6 DEF StateSet
<1>8. [c EXCEPT !.used = @ + n] = [c EXCEPT !.used = s.used + (m - k)]
  BY <1>7
<1> QED
  BY <1>1, <1>2, <1>5, <1>8 DEF Resized, WithUsed

(* The free block behind is taken whole: the memory with the longer header *)
(* and without that block in the list.                                     *)
LEMMA ExtendsWhole ==
  ASSUME NEW s, NEW F, NEW o, NEW h \in Handles, NEW p, NEW z, Detached(s, F, o, h, p, z),
         AdjacentFree(s, p), NEW x, x = Prior(s, p), NEW y, y = Following(s, p),
         NEW size \in Sizes, NEW k, k = Held(s, p) + SizeOf(s, y), size <= k,
         NEW g, g = Link(Resized(s, p, k), x, NextOf(s, y))
  PROVE  Stands(s, F, o, h, p, z, size, g, F \ {y})
<1>1. PICK b, e, hi : b = Start(s, p) /\ e = p + Held(s, p) /\ hi = FootEnd(s, y)
  OBVIOUS
<1>2. /\ s \in StateSet /\ IsList(s, F) /\ Feet(s, F) /\ Laid(s, F, o) /\ Clear(s, F, o, b, e)
      /\ o[h] = NoBlock /\ Shape(s, p, z) /\ \A w \in p .. p + z - 1 : s.mem[w] = h
  BY <1>1 DEF Detached
<1>3. y \in F /\ y = e
  <2>1. y # Null /\ e = y
    BY <1>1 DEF AdjacentFree
  <2>2. y \in F \cup {Null}
    BY Around
  <2> QED
    BY <2>1, <2>2
<1>4. /\ x \in F \cup {Null} /\ x \in Nat /\ x < b /\ LinkOf(s, x) = y
      /\ x \in F => x # Null /\ x + 1 < b /\ x \in Heap
  BY <1>1, Around
<1>5. /\ p \in Nat /\ b \in Nat /\ e \in Nat /\ z \in Nat /\ Held(s, p) \in Nat /\ b + 3 <= p /\ p + z <= e
      /\ Base <= p /\ e <= Base + Words
      /\ p - 3 \in Heap /\ p - 2 \in Heap /\ p - 1 \in Heap
  BY <1>1, <1>2 DEF Shape, Heap
<1>6. /\ y \in Nat /\ y \in Heap /\ y + 1 \in Heap /\ SizeOf(s, y) \in Nat /\ hi \in Nat
      /\ y + SizeOf(s, y) <= hi /\ hi <= Base + Words
      /\ LinkOf(s, y) = NextOf(s, y) /\ NextOf(s, y) \in Int /\ y # Null
  BY <1>1, <1>2, <1>3, FootIs
<1>7. k \in Nat /\ p + k <= hi /\ e <= p + k /\ p + k = y + SizeOf(s, y)
  BY <1>1, <1>3, <1>5, <1>6
<1>8. PICK r : r = Resized(s, p, k)
  OBVIOUS
<1>9. r \in StateSet /\ r.first = s.first /\ r.used = s.used + (k - Held(s, p))
  BY <1>2, <1>7, <1>8, ResizedIs
<1>10. \A w \in Heap : w < p - 3 \/ p <= w => r.mem[w] = s.mem[w]
  BY <1>2, <1>7, <1>8, ResizedIs
<1>11. Start(r, p) = b /\ Held(r, p) = k /\ Alignment(r, p) = Alignment(s, p)
  <2>1. PICK c, al : al = Alignment(s, p) /\ c = SetHeader(s, p, b, k, al)
    OBVIOUS
  <2>2. p \in Heap /\ p - 3 \in Heap /\ al \in Alignments
    BY <1>2, <2>1 DEF Shape
  <2>3. b \in Int /\ k \in Int /\ al \in Int
    BY <1>5, <1>7, <2>2
  <2>4. c \in StateSet /\ Start(c, p) = b /\ Held(c, p) = k /\ Alignment(c, p) = al
    BY <1>2, <2>1, <2>2, <2>3, SetHeaderIs
  <2>5. r = [c EXCEPT !.used = s.used + (k - Held(s, p))]
    BY <1>1, <1>8, <2>1 DEF Resized, WithUsed
  <2>6. r.mem = c.mem
    BY <2>4, <2>5 DEF StateSet
  <2> QED
    BY <2>1, <2>4, <2>6 DEF Start, Held, Alignment
<1>12. ASSUME NEW w \in Heap
       PROVE  r.mem[w] = s.mem[w] \/ (b <= w /\ w < e)
  <2>1. w \in Int
    BY DEF Heap
  <2>2. w < p - 3 \/ p <= w \/ (b <= w /\ w < e)
    BY <1>5, <2>1
  <2> QED
    BY <1>10, <2>2
<1>13. Laid(r, F, o) /\ SameBlocks(s, r, o) /\ Clear(r, F, o, b, e)
  BY <1>2, <1>9, <1>12, ClearWrite
<1>14. SizeOf(r, y) = SizeOf(s, y) /\ FootEnd(r, y) = hi /\ NextOf(r, y) = NextOf(s, y)
  <2>1. p <= y /\ p <= y + 1
    BY <1>3, <1>5
  <2>2. r.mem[y] = s.mem[y] /\ r.mem[y + 1] = s.mem[y + 1]
    BY <1>6, <1>10, <2>1
  <2> QED
    BY <1>1, <2>2 DEF SizeOf, FootEnd, NextOf
<1>15. LinkOf(r, x) = y
  <2>1. x \in F => x + 1 \in Heap
    BY <1>2, FootIs
  <2>2. x \in F => x + 1 < p - 3 \/ b <= x + 1
    BY <1>4, <1>5
  <2>3. x \in F => r.mem[x + 1] = s.mem[x + 1]
    BY <1>4, <1>5, <1>10, <2>1
  <2> QED
    BY <1>4, <1>9, <2>3 DEF LinkOf, NextOf
<1>16. LinkOf(r, y) = NextOf(s, y)
  BY <1>6, <1>14 DEF LinkOf
<1>17. /\ Laid(g, F \ {y}, o) /\ SameBlocks(r, g, o) /\ g.used = r.used
       /\ Clear(g, F \ {y}, o, b, hi)
  <2>1. Clear(r, F, o, b, y) /\ b <= y /\ y = LinkOf(r, x) /\ g = Link(r, x, LinkOf(r, y))
    <3>1. b <= y
      BY <1>3, <1>5
    <3>2. g = Link(r, x, LinkOf(r, y))
      BY <1>8, <1>16
    <3> QED
      BY <1>3, <1>13, <1>15, <3>1, <3>2
  <2>2. /\ Laid(g, F \ {y}, o) /\ SameBlocks(r, g, o) /\ g.used = r.used
        /\ Clear(g, F \ {y}, o, b, FootEnd(r, y))
    BY <1>3, <1>4, <1>13, <2>1, Goes
  <2> QED
    BY <1>14, <2>2
<1>18. \A w \in Heap : b <= w => g.mem[w] = r.mem[w]
  <2> SUFFICES ASSUME NEW w \in Heap, b <= w
               PROVE  g.mem[w] = r.mem[w]
    OBVIOUS
  <2>1. g.mem[w] = r.mem[w] \/ (x \in F /\ w = x + 1)
    <3>1. IsList(r, F) /\ Feet(r, F) /\ NextOf(s, y) \in Int
      BY <1>6, <1>13 DEF Laid
    <3> QED
      BY <1>4, <1>8, <1>9, <3>1, LinkedIs
  <2>2. x \in F => w # x + 1
    BY <1>4, <1>5 DEF Heap
  <2> QED
    BY <2>1, <2>2
<1>19. Start(g, p) = b /\ Held(g, p) = k /\ Alignment(g, p) = Alignment(s, p)
  <2>1. b <= p - 3 /\ b <= p - 2 /\ b <= p - 1
    BY <1>5
  <2>2. g.mem[p - 3] = r.mem[p - 3] /\ g.mem[p - 2] = r.mem[p - 2] /\ g.mem[p - 1] = r.mem[p - 1]
    BY <1>5, <1>18, <2>1
  <2> QED
    BY <1>11, <2>2 DEF Start, Held, Alignment
<1>20. Shape(g, p, size)
  <2>1. p + k <= Base + Words /\ b + Least <= p + k /\ k \in Nat \ {0} /\ p + k \in Nat /\ size \in Nat \ {0}
    <3>1. b + Least <= e /\ Held(s, p) # 0
      BY <1>1, <1>2 DEF Shape
    <3> QED
      BY <1>5, <1>6, <1>7, <3>1, LeastIs
  <2> QED
    BY <1>1, <1>2, <1>19, <2>1 DEF Shape
<1>21. Marked(g, p, z, h)
  <2> SUFFICES ASSUME NEW w \in p .. p + z - 1
               PROVE  g.mem[w] = h
    BY DEF Marked
  <2>1. w \in Heap /\ b <= w /\ p <= w
    BY <1>5 DEF Heap
  <2>2. s.mem[w] = h
    BY <1>2
  <2> QED
    BY <1>10, <1>18, <2>1, <2>2
<1>22. ClearAround(g, F \ {y}, o, p)
  <2>1. Clear(g, F \ {y}, o, b, p + k)
    <3>1. \A d \in Nat : hi <= d => p + k <= d
      BY <1>6, <1>7, <1>5
    <3>2. \A j \in Handles : o[j] # NoBlock => Start(g, o[j].p) \in Nat
      <4>1. g \in StateSet /\ Blocks(g, o)
        BY <1>17 DEF Laid
      <4> QED
        BY <4>1, BlockIs DEF Shape
    <3>3. \A d \in F \ {y} : d \in Nat
      BY <1>2, FootIs
    <3>4. /\ b \in Int /\ Base <= b
          /\ \A j \in Handles : o[j] # NoBlock => End(g, o[j]) <= b \/ hi <= Start(g, o[j].p)
          /\ \A d \in F \ {y} : FootEnd(g, d) <= b \/ hi <= d
      BY <1>17 DEF Clear
    <3>5. p + k \in Int /\ p + k <= Base + Words
      BY <1>5, <1>6, <1>7
    <3> QED
      BY <3>1, <3>2, <3>3, <3>4, <3>5 DEF Clear
  <2> QED
    BY <1>19, <2>1 DEF ClearAround
<1>23. Accounts(g, p, Cardinality(Taken(s, o)))
  <2>1. PICK m : m = Cardinality(Taken(s, o))
    OBVIOUS
  <2>2. s.used = m + (p + Held(s, p) - b) /\ s.used \in Int /\ m \in Nat
    BY <1>1, <2>1, StillAccounts, TakenFinite DEF Accounts, Detached
  <2>3. g.used = s.used + (k - Held(s, p))
    BY <1>9, <1>17
  <2>4. g.used = m + (p + k - b)
    BY <1>5, <1>7, <2>2, <2>3
  <2> QED
    BY <1>19, <2>1, <2>4 DEF Accounts
<1>24. SameBlocks(s, g, o)
  BY <1>13, <1>17 DEF SameBlocks
<1>25. Laid(s, F, o) /\ h \in Handles /\ o[h] = NoBlock /\ z \in Nat /\ Laid(g, F \ {y}, o)
  BY <1>2, <1>5, <1>17
<1> QED
  BY <1>20, <1>21, <1>22, <1>23, <1>24, <1>25 DEF Stands

(* The free blocks are the same, of the same sizes. *)
SameList(s, t) ==
  /\ t.first = s.first /\ FreeBlocks(t) = FreeBlocks(s)
  /\ \A c \in FreeBlocks(s) : SizeOf(t, c) = SizeOf(s, c)

(* A block taken out and put back with another size. *)
LEMMA PutsBack ==
  ASSUME NEW os, NEW h \in Handles, NEW o, o = Without(os, h), NEW p, NEW size, NEW c, NEW q,
         Puts(os, h, p, size, c, q)
  PROVE  Puts(o, h, p, size, c, q)
BY DEF Puts, Without

(* What realloc_smaller_ makes of the memory. *)
SmallerAfter(s, p, size) ==
  LET less == Held(s, p) - size
      next == Following(s, p)
      smaller == [SetHeader(s, p, Start(s, p), size, Alignment(s, p)) EXCEPT !.used = @ - less]
  IN  IF less > 0 /\ AdjacentFree(s, p)
      THEN LinkAndMerge(SetFree(smaller, p + size, SizeOf(s, next) + less, NextOf(s, next)),
                        Prior(s, p), p + size)
      ELSE IF EnoughForHeader(less)
      THEN Link(SetFree(smaller, p + size, less, next), Prior(s, p), p + size)
      ELSE s

(* realloc_smaller_, the block taken apart from the others. *)
LEMMA SmallerOn ==
  ASSUME NEW s, NEW F, NEW o, NEW h \in Handles, NEW p, NEW z, Detached(s, F, o, h, p, z),
         NEW size \in Sizes, size <= Held(s, p),
         NEW t, t = Fill(SmallerAfter(s, p, size), p, z, size, h), NEW c, NEW q, Puts(o, h, p, size, c, q)
  PROVE  /\ t \in StateSet /\ c # NoBlock /\ Good(t, q)
         /\ t.used # s.used \/ SameList(s, t)
<1>1. PICK x, y, n, less : x = Prior(s, p) /\ y = Following(s, p) /\ n = p + size /\ less = Held(s, p) - size
  OBVIOUS
<1>2. s \in StateSet /\ Shape(s, p, z) /\ IsList(s, F) /\ Feet(s, F) /\ s.used \in Int
  BY DEF Detached
<1>3. p \in Nat /\ Held(s, p) \in Nat /\ size \in Nat
  BY <1>2 DEF Shape
<1>4. PICK r : r = Resized(s, p, size)
  OBVIOUS
<1>5. r = [SetHeader(s, p, Start(s, p), size, Alignment(s, p)) EXCEPT !.used = @ - less]
  BY <1>1, <1>2, <1>3, <1>4, ResizedIs
<1>6. SmallerAfter(s, p, size) =
        IF less > 0 /\ AdjacentFree(s, p)
        THEN LinkAndMerge(SetFree(r, n, SizeOf(s, y) + less, NextOf(s, y)), x, n)
        ELSE IF EnoughForHeader(less) THEN Link(SetFree(r, n, less, y), x, n) ELSE s
  BY <1>1, <1>5 DEF SmallerAfter
<1>7. less \in Nat
  BY <1>1, <1>3
<1>8. CASE less > 0 /\ AdjacentFree(s, p)
  <2>1. PICK k : k = SizeOf(s, y) + less
    OBVIOUS
  <2>2. t = Fill(LinkAndMerge(SetFree(r, n, k, NextOf(s, y)), x, n), p, z, size, h)
    BY <1>6, <1>8, <2>1
  <2>3. y \in F /\ y = p + Held(s, p)
    <3>1. y # Null /\ y = p + Held(s, p)
      BY <1>1, <1>8 DEF AdjacentFree
    <3>2. y \in F \cup {Null}
      BY <1>1, Around
    <3> QED
      BY <3>1, <3>2
  <2>4. y \in Nat /\ SizeOf(s, y) \in Nat /\ FootEnd(s, y) \in Nat /\ y + Least <= FootEnd(s, y)
    BY <1>2, <2>3, FootIs
  <2>5. k \in Nat /\ n + k = y + SizeOf(s, y)
    BY <1>1, <1>3, <1>7, <2>1, <2>3, <2>4
  <2>6. n + Least <= FootEnd(s, y)
    BY <1>1, <1>3, <1>7, <2>3, <2>4, LeastIs
  <2>7. t = Fill(LinkAndMerge(SetFree(Resized(s, p, size), n, k, NextOf(s, y)), x, n), p, z, size, h)
    BY <1>4, <2>2
  <2>8. t \in StateSet /\ c # NoBlock /\ Good(t, q) /\ t.used = s.used + (size - Held(s, p))
    BY <1>1, <1>8, <2>5, <2>6, <2>7, CutsNext
  <2>9. t.used # s.used
    BY <1>1, <1>2, <1>3, <1>8, <2>8
  <2> QED
    BY <2>8, <2>9
<1>9. CASE ~(less > 0 /\ AdjacentFree(s, p)) /\ EnoughForHeader(less)
  <2>1. t = Fill(Link(SetFree(Resized(s, p, size), n, less, y), x, n), p, z, size, h)
    BY <1>4, <1>6, <1>9
  <2>2. t \in StateSet /\ c # NoBlock /\ Good(t, q) /\ t.used = s.used + (size - Held(s, p))
    BY <1>1, <1>9, <2>1, CutsAlone
  <2>3. less > 3
    BY <1>9 DEF EnoughForHeader, HeaderSize
  <2>4. t.used # s.used
    BY <1>1, <1>2, <1>3, <2>2, <2>3
  <2> QED
    BY <2>2, <2>4
<1>10. CASE ~(less > 0 /\ AdjacentFree(s, p)) /\ ~EnoughForHeader(less)
  <2>1. t = Fill(s, p, z, size, h)
    BY <1>6, <1>10
  <2>2. /\ t \in StateSet /\ c # NoBlock /\ Good(t, q)
        /\ t.first = s.first /\ FreeBlocks(t) = FreeBlocks(s)
    BY <2>1, FillsOnly
  <2>3. \A d \in FreeBlocks(s) : SizeOf(t, d) = SizeOf(s, d)
    BY <2>1, FillsOnly
  <2> QED
    BY <2>2, <2>3 DEF SameList
<1> QED
  BY <1>8, <1>9, <1>10

(* realloc_smaller_ *)
LEMMA SmallerGood ==
  ASSUME NEW s, NEW os, Good(s, os), NEW h \in Handles, os[h] # NoBlock,
         NEW p, p = os[h].p, NEW z, z = os[h].size, NEW size \in Sizes, size <= Held(s, p),
         NEW t, t = Fill(SmallerAfter(s, p, size), p, z, size, h), NEW c, NEW q, Puts(os, h, p, size, c, q)
  PROVE  /\ t \in StateSet /\ c # NoBlock /\ Good(t, q)
         /\ t.used # s.used \/ SameList(s, t)
<1>1. PICK F : Laid(s, F, os)
  BY DEF Good
<1>2. PICK o : o = Without(os, h)
  OBVIOUS
<1>3. Detached(s, F, o, h, p, z)
  <2>1. s.used = Cardinality(Taken(s, os))
    BY DEF Good
  <2> QED
    BY <1>1, <1>2, <2>1, HeldIs
<1>4. Puts(o, h, p, size, c, q)
  BY <1>2, PutsBack
<1> QED
  BY <1>3, <1>4, SmallerOn

(* What realloc_bigger_ makes of the memory in place. *)
ExtendsAfter(s, p, size) ==
  LET next == Following(s, p)
      more == size - Held(s, p)
      rest == SizeOf(s, next) - more
      bigger(n) == [SetHeader(s, p, Start(s, p), Held(s, p) + n, Alignment(s, p))
                      EXCEPT !.used = @ + n]
  IN  IF ~EnoughForHeader(rest)
      THEN Link(bigger(SizeOf(s, next)), Prior(s, p), NextOf(s, next))
      ELSE LinkAndMerge(SetFree(bigger(more), p + size, rest, NextOf(s, next)), Prior(s, p), p + size)

Extends(s, p, size) ==
  /\ AdjacentFree(s, p) /\ Held(s, p) < size
  /\ size - Held(s, p) <= SizeOf(s, Following(s, p))

(* realloc_bigger_ in place, the block taken apart from the others. *)
LEMMA ExtendsOn ==
  ASSUME NEW s, NEW F, NEW o, NEW h \in Handles, NEW p, NEW z, Detached(s, F, o, h, p, z),
         NEW size \in Sizes, Extends(s, p, size),
         NEW t, t = Fill(ExtendsAfter(s, p, size), p, z, size, h), NEW c, NEW q, Puts(o, h, p, size, c, q)
  PROVE  t \in StateSet /\ c # NoBlock /\ Good(t, q)
<1>1. PICK x, y, n, more : x = Prior(s, p) /\ y = Following(s, p) /\ n = p + size /\ more = size - Held(s, p)
  OBVIOUS
<1>2. s \in StateSet /\ Shape(s, p, z) /\ IsList(s, F) /\ Feet(s, F)
  BY DEF Detached
<1>3. p \in Nat /\ Held(s, p) \in Nat /\ size \in Nat
  BY <1>2 DEF Shape
<1>4. y \in F /\ y = p + Held(s, p)
  <2>1. y # Null /\ y = p + Held(s, p)
    BY <1>1 DEF Extends, AdjacentFree
  <2>2. y \in F \cup {Null}
    BY <1>1, Around
  <2> QED
    BY <2>1, <2>2
<1>5. /\ y \in Nat /\ SizeOf(s, y) \in Nat /\ FootEnd(s, y) \in Nat /\ y + Least <= FootEnd(s, y)
      /\ y + SizeOf(s, y) <= FootEnd(s, y)
  BY <1>2, <1>4, FootIs
<1>6. more \in Nat /\ more <= SizeOf(s, y) /\ AdjacentFree(s, p)
  BY <1>1, <1>3, <1>5 DEF Extends
<1>7. PICK rest : rest = SizeOf(s, y) - more
  OBVIOUS
<1>8. rest \in Nat /\ Held(s, p) + more = size /\ n + rest = y + SizeOf(s, y)
  BY <1>1, <1>3, <1>4, <1>5, <1>6, <1>7
<1>9. PICK v : v = SizeOf(s, y)
  OBVIOUS
<1>10. /\ [SetHeader(s, p, Start(s, p), Held(s, p) + v, Alignment(s, p)) EXCEPT !.used = @ + v]
             = Resized(s, p, Held(s, p) + v)
       /\ [SetHeader(s, p, Start(s, p), Held(s, p) + more, Alignment(s, p)) EXCEPT !.used = @ + more]
             = Resized(s, p, Held(s, p) + more)
  <2>1. v \in Nat /\ more \in Nat
    BY <1>5, <1>6, <1>9
  <2> QED
    BY <1>2, <2>1, BiggerIs
<1>11. ExtendsAfter(s, p, size) =
         IF ~EnoughForHeader(rest)
         THEN Link(Resized(s, p, Held(s, p) + v), x, NextOf(s, y))
         ELSE LinkAndMerge(SetFree(Resized(s, p, Held(s, p) + more), n, rest, NextOf(s, y)), x, n)
  BY <1>1, <1>7, <1>9, <1>10 DEF ExtendsAfter
<1>12. CASE ~EnoughForHeader(rest)
  <2>1. PICK k, g : k = Held(s, p) + SizeOf(s, y) /\ g = Link(Resized(s, p, k), x, NextOf(s, y))
    OBVIOUS
  <2>2. t = Fill(g, p, z, size, h)
    BY <1>9, <1>11, <1>12, <2>1
  <2>3. size <= k
    BY <1>3, <1>5, <1>6, <1>8, <2>1
  <2>4. Stands(s, F, o, h, p, z, size, g, F \ {y})
    BY <1>1, <1>6, <2>1, <2>3, ExtendsWhole
  <2> QED
    BY <2>2, <2>4, FillGood
<1>13. CASE EnoughForHeader(rest)
  <2>1. t = Fill(LinkAndMerge(SetFree(Resized(s, p, size), n, rest, NextOf(s, y)), x, n), p, z, size, h)
    BY <1>8, <1>11, <1>13
  <2>2. rest > 3
    BY <1>13 DEF EnoughForHeader, HeaderSize
  <2>3. n \in Nat /\ n + Least <= FootEnd(s, y)
    BY <1>1, <1>3, <1>5, <1>8, <2>2, LeastIs
  <2>4. rest \in Nat /\ n + rest = y + SizeOf(s, y) /\ n + Least <= FootEnd(s, y)
    BY <1>8, <2>3
  <2> QED
    BY <1>1, <1>6, <2>1, <2>4, CutsNext
<1> QED
  BY <1>12, <1>13

(* realloc_bigger_ in place *)
LEMMA ExtendsGood ==
  ASSUME NEW s, NEW os, Good(s, os), NEW h \in Handles, os[h] # NoBlock,
         NEW p, p = os[h].p, NEW z, z = os[h].size, NEW size \in Sizes, Extends(s, p, size),
         NEW t, t = Fill(ExtendsAfter(s, p, size), p, z, size, h), NEW c, NEW q, Puts(os, h, p, size, c, q)
  PROVE  t \in StateSet /\ c # NoBlock /\ Good(t, q)
<1>1. PICK F : Laid(s, F, os)
  BY DEF Good
<1>2. PICK o : o = Without(os, h)
  OBVIOUS
<1>3. Detached(s, F, o, h, p, z)
  <2>1. s.used = Cardinality(Taken(s, os))
    BY DEF Good
  <2> QED
    BY <1>1, <1>2, <2>1, HeldIs
<1>4. Puts(o, h, p, size, c, q)
  BY <1>2, PutsBack
<1> QED
  BY <1>3, <1>4, ExtendsOn

-----------------------------------------------------------------------------
(* The invariant of the specification.                                     *)

Inv == Good(Allocator, objs) /\ broken \in BOOLEAN

(* A step that leaves blocks and m_used_size alone leaves the list alone. *)
Undone == objs' = objs /\ used' = used => UNCHANGED <<Listed, first>>

(* The memory at first: one free block. *)
LEMMA InitGood == Init => Inv
<1> SUFFICES ASSUME Init
             PROVE  Inv
  OBVIOUS
<1>1. PICK s, F, os : s = Allocator /\ F = {Base} /\ os = objs
  OBVIOUS
<1>2. /\ s.mem = [w \in Heap |-> IF w = Base THEN Words ELSE 0]
      /\ s.first = Base /\ s.used = 0 /\ broken = FALSE
      /\ os = [h \in Handles |-> NoBlock]
  BY <1>1 DEF Init, Allocator
<1>3. Base \in Heap /\ Base + 1 \in Heap /\ Base # Null /\ Base \in Nat
  BY DEF Heap, Null
<1>4. s.mem \in [Heap -> Int]
  BY <1>2
<1>5. s \in StateSet
  <2>1. s = [mem |-> mem, first |-> first, used |-> used]
    BY <1>1 DEF Allocator
  <2> QED
    BY <1>2, <1>4, <2>1 DEF StateSet
<1>6. SizeOf(s, Base) = Words /\ NextOf(s, Base) = 0
  <2>1. Base + 1 # Base
    OBVIOUS
  <2> QED
    BY <1>2, <1>3, <2>1 DEF SizeOf, NextOf
<1>7. FootEnd(s, Base) = Base + Words
  BY <1>6, LeastIs DEF FootEnd
<1>8. IsList(s, F)
  <2>1. LinkOf(s, Null) = Base /\ LinkOf(s, Base) = Null
    BY <1>2, <1>3, <1>6 DEF LinkOf, Null
  <2>2. IsNext(F, Null, Base) /\ IsNext(F, Base, Null)
    BY <1>1, <1>3 DEF IsNext, Null
  <2> QED
    BY <1>1, <1>3, <2>1, <2>2 DEF IsList
<1>9. Feet(s, F)
  BY <1>1, <1>3, <1>6, <1>7 DEF Feet
<1>10. \A h \in Handles : os[h] = NoBlock
  BY <1>2
<1>11. Laid(s, F, os)
  <2>1. os = [h \in Handles |-> os[h]]
    BY <1>2
  <2> QED
    BY <1>5, <1>8, <1>9, <1>10, <2>1 DEF Laid, Blocks, Apart
<1>12. Taken(s, os) = {}
  BY <1>10 DEF Taken
<1>13. s.used = Cardinality(Taken(s, os))
  BY <1>2, <1>12, FS_EmptySet
<1>14. Good(s, os)
  BY <1>11, <1>13 DEF Good
<1>15. Good(Allocator, objs)
  BY <1>1, <1>14
<1> QED
  BY <1>2, <1>15 DEF Inv

(* How a call ends. *)
LEMMA EndsIs ==
  ASSUME NEW t \in StateSet, NEW h, NEW c, Ends(t, h, c)
  PROVE  /\ Allocator' = t /\ objs' = [objs EXCEPT ![h] = c] /\ broken' = broken
         /\ first' = t.first /\ used' = t.used
<1>1. t = [mem |-> t.mem, first |-> t.first, used |-> t.used]
  BY DEF StateSet
<1>2. mem' = t.mem /\ first' = t.first /\ used' = t.used /\ objs' = [objs EXCEPT ![h] = c]
      /\ broken' = broken
  BY DEF Ends
<1>3. Allocator' = [mem |-> t.mem, first |-> t.first, used |-> t.used]
  BY <1>2 DEF Allocator
<1> QED
  BY <1>1, <1>2, <1>3

(* With other blocks in the callers' hands. *)
LEMMA EndsKeeps ==
  ASSUME Inv, NEW t \in StateSet, NEW h \in Handles, NEW c, Ends(t, h, c),
         NEW q, q = [objs EXCEPT ![h] = c], Good(t, q), objs[h] # c
  PROVE  Inv' /\ Undone
<1>1. Allocator' = t /\ objs' = q /\ broken' = broken
  BY EndsIs
<1>2. Inv'
  BY <1>1 DEF Inv
<1>3. objs' # objs
  <2>1. objs = [g \in Handles |-> objs[g]]
    BY DEF Inv, Good, Laid, Blocks
  <2>2. q[h] = c
    BY <2>1
  <2> QED
    BY <1>1, <2>2
<1> QED
  BY <1>2, <1>3 DEF Undone

(* The same list has the same words free. *)
LEMMA ListedSame ==
  ASSUME SameList(Allocator, Allocator')
  PROVE  Listed' = Listed
<1>1. /\ FreeBlocks(Allocator') = FreeBlocks(Allocator)
      /\ \A b \in FreeBlocks(Allocator) : SizeOf(Allocator', b) = SizeOf(Allocator, b)
  BY DEF SameList
<1>2. Listed' = UNION {b .. b + SizeOf(Allocator', b) - 1 : b \in FreeBlocks(Allocator')}
  BY DEF Listed, FreeExtent
<1>3. Listed = UNION {b .. b + SizeOf(Allocator, b) - 1 : b \in FreeBlocks(Allocator)}
  BY DEF Listed, FreeExtent
<1> QED
  BY <1>1, <1>2, <1>3

(* With the same blocks there is no more to say of it than of the list. *)
LEMMA EndsAlike ==
  ASSUME Inv, NEW t \in StateSet, NEW h \in Handles, NEW c, Ends(t, h, c),
         NEW q, q = [objs EXCEPT ![h] = c], Good(t, q),
         t.used # Allocator.used \/ SameList(Allocator, t)
  PROVE  Inv' /\ Undone
<1>1. Allocator' = t /\ objs' = q /\ broken' = broken /\ used' = t.used /\ first' = t.first
  BY EndsIs
<1>2. Inv'
  BY <1>1 DEF Inv
<1>3. Allocator.used = used /\ Allocator.first = first
  BY DEF Allocator
<1>4. CASE t.used # Allocator.used
  BY <1>1, <1>2, <1>3, <1>4 DEF Undone
<1>5. CASE SameList(Allocator, t)
  <2>1. first' = first
    BY <1>1, <1>3, <1>5 DEF SameList
  <2>2. Listed' = Listed
    BY <1>1, <1>5, ListedSame
  <2> QED
    BY <1>2, <2>1, <2>2 DEF Undone
<1> QED
  BY <1>4, <1>5

(* Nothing moves when the code stores garbage: the model stops. *)
LEMMA BreaksKeeps ==
  ASSUME Inv, Breaks
  PROVE  Inv' /\ Undone
<1>1. mem' = mem /\ first' = first /\ used' = used /\ objs' = objs /\ broken' = TRUE
  BY DEF Breaks
<1>2. Allocator' = Allocator
  BY <1>1 DEF Allocator
<1>3. Inv'
  BY <1>1, <1>2 DEF Inv
<1>4. Listed' = Listed
  <2>1. SameList(Allocator, Allocator')
    BY <1>2 DEF SameList
  <2> QED
    BY <2>1, ListedSame
<1> QED
  BY <1>1, <1>3, <1>4 DEF Undone

(* aligned_alloc *)
LEMMA AllocKeeps ==
  ASSUME Inv, NEW h \in Handles, NEW size \in Sizes, NEW a \in Alignments, AlignedAlloc(h, size, a)
  PROVE  Inv' /\ Undone
<1> DEFINE fitting == Fitting(Allocator, size, a)
           b == BestFit(Allocator, fitting)
           p == PointerIn(b, a)
<1>1. /\ objs[h] = NoBlock /\ fitting # {}
      /\ \/ GarbageSize(Allocator, b, p, size) /\ Breaks
         \/ Ends(Fill(Place(Allocator, b, p, size, a), p, 0, size, h), h, [p |-> p, size |-> size])
  BY Zenon DEF AlignedAlloc
<1>2. CASE Breaks
  BY <1>2, BreaksKeeps
<1>3. CASE Ends(Fill(Place(Allocator, b, p, size, a), p, 0, size, h), h, [p |-> p, size |-> size])
  <2>1. PICK s, os : s = Allocator /\ os = objs
    OBVIOUS
  <2>2. PICK fs : fs = fitting
    OBVIOUS
  <2>3. PICK d : d = b
    OBVIOUS
  <2>4. PICK r : r = p
    OBVIOUS
  <2>5. PICK t : t = Fill(Place(s, d, r, size, a), r, 0, size, h)
    OBVIOUS
  <2>6. PICK c : c = [p |-> r, size |-> size]
    OBVIOUS
  <2>7. fs = Fitting(s, size, a) /\ fs # {} /\ d = BestFit(s, fs) /\ r = PointerIn(d, a)
    BY <1>1, <2>1, <2>2, <2>3, <2>4, Zenon
  <2>8. Good(s, os) /\ os[h] = NoBlock
    BY <1>1, <2>1, Zenon DEF Inv
  <2>9. Ends(t, h, c)
    BY <1>3, <2>1, <2>3, <2>4, <2>5, <2>6, Zenon
  <2> HIDE DEF fitting, b, p
  <2>10. t \in StateSet /\ c # NoBlock /\ Good(t, [os EXCEPT ![h] = c])
    BY <2>5, <2>6, <2>7, <2>8, AllocGood
  <2>11. PICK q : q = [objs EXCEPT ![h] = c]
    OBVIOUS
  <2>12. Good(t, q) /\ objs[h] # c
    BY <2>1, <2>8, <2>10, <2>11
  <2> QED
    BY <2>9, <2>10, <2>11, <2>12, EndsKeeps
<1> QED
  BY <1>1, <1>2, <1>3

(* free *)
LEMMA FreeKeeps ==
  ASSUME Inv, NEW h \in Handles, Free(h)
  PROVE  Inv' /\ Undone
<1> DEFINE p == objs[h].p
           b == Start(Allocator, p)
           freed == Held(Allocator, p) + p - b
           new == SetFree([Allocator EXCEPT !.used = @ - freed], b, 0, NextOf(Allocator, b))
<1>1. /\ objs[h] # NoBlock
      /\ IF Following(Allocator, b) = Null /\ NextOf(new, b) # Null THEN Breaks
         ELSE Ends(AddAndMerge(new, b), h, NoBlock)
  BY Zenon DEF Free
<1>2. CASE Breaks
  BY <1>2, BreaksKeeps
<1>3. CASE /\ ~(Following(Allocator, b) = Null /\ NextOf(new, b) # Null)
           /\ Ends(AddAndMerge(new, b), h, NoBlock)
  <2>1. PICK s, os : s = Allocator /\ os = objs
    OBVIOUS
  <2>2. PICK r : r = p
    OBVIOUS
  <2>3. PICK d : d = b
    OBVIOUS
  <2>4. PICK k : k = freed
    OBVIOUS
  <2>5. PICK n : n = new
    OBVIOUS
  <2>6. PICK t : t = AddAndMerge(n, d)
    OBVIOUS
  <2>7. r = os[h].p /\ d = Start(s, r) /\ k = Held(s, r) + r - d
    BY <2>1, <2>2, <2>3, <2>4, Zenon
  <2>8. n = SetFree(WithUsed(s, s.used - k), d, 0, NextOf(s, d))
    <3>1. [s EXCEPT !.used = @ - k] = WithUsed(s, s.used - k)
      BY Zenon DEF WithUsed
    <3> QED
      BY <2>1, <2>3, <2>4, <2>5, <3>1, Zenon
  <2>9. ~(Following(s, d) = Null /\ NextOf(n, d) # Null) /\ Ends(t, h, NoBlock)
    BY <1>3, <2>1, <2>3, <2>5, <2>6, Zenon
  <2>10. Good(s, os) /\ os[h] # NoBlock
    BY <1>1, <2>1, Zenon DEF Inv
  <2> HIDE DEF p, b, freed, new
  <2>11. t \in StateSet /\ Good(t, [os EXCEPT ![h] = NoBlock])
    BY <2>6, <2>7, <2>8, <2>9, <2>10, FreeGood
  <2>12. PICK q : q = [objs EXCEPT ![h] = NoBlock]
    OBVIOUS
  <2>13. Good(t, q) /\ objs[h] # NoBlock
    BY <1>1, <2>1, <2>11, <2>12
  <2> QED
    BY <2>9, <2>11, <2>12, <2>13, EndsKeeps
<1> QED
  BY <1>1, <1>2, <1>3

(* A block in a caller's hands, of a memory that is good. *)
LEMMA GoodShape ==
  ASSUME NEW s, NEW os, Good(s, os), NEW h \in Handles, os[h] # NoBlock
  PROVE  /\ Shape(s, os[h].p, os[h].size) /\ os[h] = [p |-> os[h].p, size |-> os[h].size]
         /\ os = [g \in Handles |-> os[g]] /\ s \in StateSet
<1>1. PICK F : Laid(s, F, os)
  BY DEF Good
<1>2. s \in StateSet /\ Blocks(s, os)
  BY <1>1 DEF Laid
<1>3. os = [g \in Handles |-> os[g]]
  BY <1>2 DEF Blocks
<1> QED
  BY <1>2, <1>3, BlockIs

(* realloc to a size the block has room for *)
LEMMA SmallerKeeps ==
  ASSUME Inv, NEW h \in Handles, NEW size \in Sizes, ReallocSmaller(h, size)
  PROVE  Inv' /\ Undone
<1> DEFINE p == objs[h].p
<1>1. /\ objs[h] # NoBlock /\ Held(Allocator, p) - size >= 0
      /\ Ends(Fill(SmallerAfter(Allocator, p, size), p, objs[h].size, size, h), h,
              [p |-> p, size |-> size])
  BY Zenon DEF ReallocSmaller, CanRealloc, SmallerAfter
<1>2. PICK s, os : s = Allocator /\ os = objs
  OBVIOUS
<1>3. PICK r, z : r = p /\ z = objs[h].size
  OBVIOUS
<1>4. PICK c : c = [p |-> r, size |-> size]
  OBVIOUS
<1>5. PICK q : q = [objs EXCEPT ![h] = c]
  OBVIOUS
<1>6. PICK t : t = Fill(SmallerAfter(s, r, size), r, z, size, h)
  OBVIOUS
<1>7. Good(s, os) /\ os[h] # NoBlock /\ r = os[h].p /\ z = os[h].size
  BY <1>1, <1>2, <1>3, Zenon DEF Inv
<1>8. Ends(t, h, c)
  BY <1>1, <1>2, <1>3, <1>4, <1>6, Zenon
<1>9. Puts(os, h, r, size, c, q)
  BY <1>2, <1>4, <1>5, Zenon DEF Puts
<1>10. size <= Held(s, r)
  <2>1. Shape(s, r, z)
    BY <1>7, GoodShape
  <2>2. Held(s, r) - size >= 0
    BY <1>1, <1>2, <1>3, Zenon
  <2>3. Held(s, r) \in Nat
    BY <2>1 DEF Shape
  <2> QED
    BY <2>2, <2>3
<1> HIDE DEF p
<1>11. /\ t \in StateSet /\ c # NoBlock /\ Good(t, q)
       /\ t.used # s.used \/ SameList(s, t)
  BY <1>6, <1>7, <1>9, <1>10, SmallerGood
<1> QED
  BY <1>2, <1>5, <1>8, <1>11, EndsAlike

(* realloc into the free block behind *)
LEMMA ExtendsKeeps ==
  ASSUME Inv, NEW h \in Handles, NEW size \in Sizes, ReallocExtends(h, size)
  PROVE  Inv' /\ Undone
<1> DEFINE p == objs[h].p
           next == Following(Allocator, p)
           more == size - Held(Allocator, p)
           rest == SizeOf(Allocator, next) - more
           o == [p |-> p, size |-> size]
           bigger(n) == [SetHeader(Allocator, p, Start(Allocator, p), Held(Allocator, p) + n,
                                   Alignment(Allocator, p)) EXCEPT !.used = @ + n]
<1>1. /\ objs[h] # NoBlock /\ more > 0 /\ AdjacentFree(Allocator, p) /\ rest >= 0
  BY Zenon DEF ReallocExtends, CanRealloc
<1>2. IF ~EnoughForHeader(rest)
      THEN Ends(Fill(Link(bigger(SizeOf(Allocator, next)), Prior(Allocator, p), NextOf(Allocator, next)),
                     p, objs[h].size, size, h), h, o)
      ELSE \/ more = 1 /\ Breaks
           \/ Ends(Fill(LinkAndMerge(SetFree(bigger(more), p + size, rest, NextOf(Allocator, next)),
                                     Prior(Allocator, p), p + size), p, objs[h].size, size, h), h, o)
  BY Zenon DEF ReallocExtends
<1>3. CASE Breaks
  BY <1>3, BreaksKeeps
<1>4. ~Breaks => Ends(Fill(ExtendsAfter(Allocator, p, size), p, objs[h].size, size, h), h, o)
  <2>1. CASE ~EnoughForHeader(rest)
    <3>1. ExtendsAfter(Allocator, p, size) =
            Link(bigger(SizeOf(Allocator, next)), Prior(Allocator, p), NextOf(Allocator, next))
      BY <2>1, Zenon DEF ExtendsAfter
    <3> HIDE DEF p, next, more, rest, o, bigger
    <3> QED
      BY <1>2, <2>1, <3>1, Zenon
  <2>2. CASE EnoughForHeader(rest)
    <3>1. ExtendsAfter(Allocator, p, size) =
            LinkAndMerge(SetFree(bigger(more), p + size, rest, NextOf(Allocator, next)),
                         Prior(Allocator, p), p + size)
      BY <2>2, Zenon DEF ExtendsAfter
    <3> HIDE DEF p, next, more, rest, o, bigger
    <3> QED
      BY <1>2, <2>2, <3>1, Zenon
  <2> QED
    BY <2>1, <2>2, Zenon
<1>5. CASE ~Breaks
  <2>1. PICK s, os : s = Allocator /\ os = objs
    OBVIOUS
  <2>2. PICK r, z : r = p /\ z = objs[h].size
    OBVIOUS
  <2>3. PICK c : c = [p |-> r, size |-> size]
    OBVIOUS
  <2>4. PICK q : q = [objs EXCEPT ![h] = c]
    OBVIOUS
  <2>5. PICK t : t = Fill(ExtendsAfter(s, r, size), r, z, size, h)
    OBVIOUS
  <2>6. Good(s, os) /\ os[h] # NoBlock /\ r = os[h].p /\ z = os[h].size
    BY <1>1, <2>1, <2>2, Zenon DEF Inv
  <2>7. Ends(t, h, c)
    BY <1>4, <1>5, <2>1, <2>2, <2>3, <2>5, Zenon
  <2>8. Puts(os, h, r, size, c, q)
    BY <2>1, <2>3, <2>4, Zenon DEF Puts
  <2>9. Shape(s, r, z) /\ s \in StateSet /\ \E F : Laid(s, F, os)
    BY <2>6, GoodShape DEF Good
  <2>10. size - Held(s, r) > 0 /\ AdjacentFree(s, r) /\ SizeOf(s, Following(s, r)) - (size - Held(s, r)) >= 0
    BY <1>1, <2>1, <2>2, Zenon
  <2> HIDE DEF p, next, more, rest, o, bigger
  <2>11. Held(s, r) \in Nat /\ size \in Nat /\ z <= Held(s, r) /\ z \in Nat
    BY <2>9 DEF Shape
  <2>12. Extends(s, r, size)
    <3>1. PICK F : Laid(s, F, os)
      BY <2>9
    <3>2. PICK y, n : y = Following(s, r) /\ n = SizeOf(s, y)
      OBVIOUS
    <3>3. y \in F
      <4>1. PICK w : w = Without(os, h)
        OBVIOUS
      <4>2. s.used = Cardinality(Taken(s, os))
        BY <2>6 DEF Good
      <4>3. Detached(s, F, w, h, r, z)
        BY <2>6, <3>1, <4>1, <4>2, HeldIs
      <4>4. y \in F \cup {Null}
        BY <3>2, <4>3, Around
      <4>5. y # Null
        BY <2>10, <3>2 DEF AdjacentFree
      <4> QED
        BY <4>4, <4>5
    <3>4. n \in Nat
      BY <3>1, <3>2, <3>3, FootIs DEF Laid
    <3>5. Held(s, r) < size /\ size - Held(s, r) <= n
      BY <2>10, <2>11, <3>2, <3>4
    <3> QED
      BY <2>10, <3>2, <3>5 DEF Extends
  <2>13. t \in StateSet /\ c # NoBlock /\ Good(t, q)
    BY <2>5, <2>6, <2>8, <2>12, ExtendsGood
  <2>14. objs[h] # c
    <3>1. objs[h].size = z /\ c.size = size
      BY <2>2, <2>3
    <3>2. z # size
      BY <2>10, <2>11
    <3> QED
      BY <3>1, <3>2
  <2> QED
    BY <2>4, <2>7, <2>13, <2>14, EndsKeeps
<1> QED
  BY <1>3, <1>5

(* realloc by freeing and allocating anew, and its failure *)
LEMMA MovesKeeps ==
  ASSUME Inv, NEW h \in Handles, NEW size \in Sizes, ReallocMoves(h, size)
  PROVE  Inv' /\ Undone
<1> DEFINE p == objs[h].p
           b == Start(Allocator, p)
           a == Alignment(Allocator, p)
           extent == Held(Allocator, p) + p - b
           freed == AddAndMerge(SetFree(Allocator, b, extent, Null), b)
           fitting == Fitting(freed, size, a)
           fit == BestFit(freed, fitting)
           q == PointerIn(fit, a)
           moved == Moved([freed EXCEPT !.used = @ - extent], p, q, size)
<1>1. /\ objs[h] # NoBlock /\ size > Held(Allocator, p)
      /\ IF fitting = {}
         THEN Ends(Restored(Allocator, freed, p), h, objs[h])
         ELSE \/ GarbageSize(moved, fit, q, size) /\ Breaks
              \/ Ends(Fill(Place(moved, fit, q, size, a), q, objs[h].size, size, h), h,
                      [p |-> q, size |-> size])
  BY Zenon DEF ReallocMoves, CanRealloc
<1>2. PICK s, os : s = Allocator /\ os = objs
  OBVIOUS
<1>3. PICK r, z : r = p /\ z = objs[h].size
  OBVIOUS
<1>4. PICK d, al : d = b /\ al = a
  OBVIOUS
<1>5. PICK k : k = extent
  OBVIOUS
<1>6. PICK f : f = freed
  OBVIOUS
<1>7. /\ r = os[h].p /\ z = os[h].size /\ d = Start(s, r) /\ al = Alignment(s, r)
      /\ k = Held(s, r) + r - d /\ f = AddAndMerge(SetFree(s, d, k, Null), d)
  BY <1>2, <1>3, <1>4, <1>5, <1>6, Zenon
<1>8. Good(s, os) /\ os[h] # NoBlock
  BY <1>1, <1>2, Zenon DEF Inv
<1>9. CASE Breaks
  BY <1>9, BreaksKeeps
<1>10. CASE fitting = {}
  <2>1. PICK t : t = Restored(s, f, r)
    OBVIOUS
  <2>2. PICK c : c = os[h]
    OBVIOUS
  <2>3. Ends(t, h, c)
    BY <1>1, <1>2, <1>3, <1>6, <1>10, <2>1, <2>2, Zenon
  <2> HIDE DEF p, b, a, extent, freed, fitting, fit, q, moved
  <2>4. RestoredGood(s, os, t)
    BY <1>7, <1>8, <2>1, RestoreGood
  <2>5. t \in StateSet /\ Good(t, os) /\ SameList(s, t)
    BY <2>4 DEF RestoredGood, SameList
  <2>6. PICK e : e = [objs EXCEPT ![h] = c]
    OBVIOUS
  <2>7. e = os
    <3>1. os = [g \in Handles |-> os[g]]
      BY <1>8 DEF Good, Laid, Blocks
    <3> QED
      BY <1>2, <2>2, <2>6, <3>1
  <2> QED
    BY <1>2, <2>3, <2>5, <2>6, <2>7, EndsAlike
<1>11. CASE /\ fitting # {}
            /\ Ends(Fill(Place(moved, fit, q, size, a), q, objs[h].size, size, h), h,
                    [p |-> q, size |-> size])
  <2>1. PICK u : u = fit
    OBVIOUS
  <2>2. PICK x : x = q
    OBVIOUS
  <2>3. PICK m : m = moved
    OBVIOUS
  <2>4. PICK t : t = Fill(Place(m, u, x, size, al), x, z, size, h)
    OBVIOUS
  <2>5. PICK c : c = [p |-> x, size |-> size]
    OBVIOUS
  <2>6. Ends(t, h, c)
    BY <1>3, <1>4, <1>11, <2>1, <2>2, <2>3, <2>4, <2>5, Zenon
  <2>7. /\ Fitting(f, size, al) # {} /\ u = BestFit(f, Fitting(f, size, al)) /\ x = PointerIn(u, al)
    BY <1>4, <1>6, <1>11, <2>1, <2>2, Zenon
  <2>8. m = Moved(Released(f, k), r, x, size)
    <3>1. [f EXCEPT !.used = @ - k] = Released(f, k)
      BY Zenon DEF Released, WithUsed
    <3> QED
      BY <1>3, <1>5, <1>6, <2>2, <2>3, <3>1, Zenon
  <2>9. size > Held(s, r)
    BY <1>1, <1>2, <1>3, Zenon
  <2> HIDE DEF p, b, a, extent, freed, fitting, fit, q, moved
  <2>10. Held(s, r) \in Nat /\ z \in Nat /\ z <= Held(s, r) /\ size \in Nat
    <3>1. Shape(s, r, z)
      BY <1>7, <1>8, GoodShape
    <3> QED
      BY <3>1 DEF Shape
  <2>11. Held(s, r) < size /\ z # size
    BY <2>9, <2>10
  <2>12. MovesTo(s, r, size, f, u, x, m)
    BY <1>7, <2>7, <2>8, <2>11, Zenon DEF MovesTo
  <2>13. t \in StateSet /\ c # NoBlock /\ Good(t, [os EXCEPT ![h] = c])
    BY <1>7, <1>8, <2>4, <2>5, <2>12, MovesGood
  <2>14. PICK e : e = [objs EXCEPT ![h] = c]
    OBVIOUS
  <2>15. Good(t, e)
    BY <1>2, <2>13, <2>14, Zenon
  <2>16. objs[h] # c
    <3>1. objs[h].size = z /\ c.size = size
      BY <1>3, <2>5
    <3> QED
      BY <2>11, <3>1
  <2> QED
    BY <2>6, <2>13, <2>14, <2>15, <2>16, EndsKeeps
<1> QED
  BY <1>1, <1>9, <1>10, <1>11, Zenon

(* A step of the allocator. *)
LEMMA NextKeeps ==
  ASSUME Inv, [Next]_vars
  PROVE  Inv' /\ (Next => Undone)
<1>1. CASE UNCHANGED vars
  <2>1. /\ mem' = mem /\ first' = first /\ used' = used /\ objs' = objs /\ broken' = broken
    BY <1>1 DEF vars
  <2>2. Allocator' = Allocator
    BY <2>1 DEF Allocator
  <2>3. SameList(Allocator, Allocator')
    BY <2>2 DEF SameList
  <2> QED
    BY <2>1, <2>2, <2>3, ListedSame DEF Inv, Undone
<1>2. CASE Next
  <2>1. PICK h \in Handles :
          \/ \E size \in Sizes, a \in Alignments : AlignedAlloc(h, size, a)
          \/ Free(h)
          \/ \E size \in Sizes :
               ReallocSmaller(h, size) \/ ReallocExtends(h, size) \/ ReallocMoves(h, size)
    BY <1>2 DEF Next
  <2>2. CASE \E size \in Sizes, a \in Alignments : AlignedAlloc(h, size, a)
    BY <2>2, AllocKeeps
  <2>3. CASE Free(h)
    BY <2>3, FreeKeeps
  <2>4. ASSUME NEW size \in Sizes, ReallocSmaller(h, size)
        PROVE  Inv' /\ Undone
    BY <2>4, SmallerKeeps
  <2>5. ASSUME NEW size \in Sizes, ReallocExtends(h, size)
        PROVE  Inv' /\ Undone
    BY <2>5, ExtendsKeeps
  <2>6. ASSUME NEW size \in Sizes, ReallocMoves(h, size)
        PROVE  Inv' /\ Undone
    BY <2>6, MovesKeeps
  <2> QED
    BY <2>1, <2>2, <2>3, <2>4, <2>5, <2>6
<1> QED
  BY <1>1, <1>2

(* The invariant holds of every state between two calls, whatever was      *)
(* allocated, freed, resized in place, moved, or failed to move before.    *)
THEOREM Invariance == Spec => []Inv
<1>1. Init => Inv
  BY InitGood
<1>2. Inv /\ [Next]_vars => Inv'
  BY NextKeeps
<1> QED
  BY <1>1, <1>2, PTL DEF Spec

(* A realloc that finds no room undoes its freeing of the block: by then   *)
(* the block was merged with the free ones beside it and the head of the   *)
(* list may have moved; nothing of that remains.                           *)
THEOREM FailuresAreUndone == Spec => FailuresUndone
<1>1. Inv /\ [Next]_vars => [objs' = objs /\ used' = used => UNCHANGED <<Listed, first>>]_vars
  BY NextKeeps DEF Undone
<1> QED
  BY <1>1, Invariance, PTL DEF Spec, FailuresUndone

(* What the invariant says of the blocks in the callers' hands. *)
LEMMA InvBlock ==
  ASSUME Inv, NEW h \in Handles, objs[h] # NoBlock
  PROVE  /\ IsBlock(Allocator, objs[h], h) /\ Shape(Allocator, objs[h].p, objs[h].size)
         /\ Extent(h) = Start(Allocator, objs[h].p) .. End(Allocator, objs[h]) - 1
         /\ Start(Allocator, objs[h].p) \in Int /\ End(Allocator, objs[h]) \in Int
         /\ Base <= Start(Allocator, objs[h].p) /\ End(Allocator, objs[h]) <= Base + Words
<1>1. PICK s, os : s = Allocator /\ os = objs
  OBVIOUS
<1>2. PICK F : Laid(s, F, os)
  BY <1>1, Zenon DEF Inv, Good
<1>3. os[h] # NoBlock
  BY <1>1, Zenon
<1>4. IsBlock(s, os[h], h) /\ Shape(s, os[h].p, os[h].size)
  BY <1>2, <1>3, BlockIs DEF Laid
<1>5. Start(s, os[h].p) \in Int /\ End(s, os[h]) = os[h].p + Held(s, os[h].p)
  BY <1>4 DEF Shape, End
<1>6. End(s, os[h]) \in Int /\ Base <= Start(s, os[h].p) /\ End(s, os[h]) <= Base + Words
  BY <1>4, <1>5 DEF Shape
<1>7. Extent(h) = Start(s, os[h].p) .. End(s, os[h]) - 1
  <2>1. Extent(h) = Start(s, os[h].p) .. os[h].p + Held(s, os[h].p) - 1
    BY <1>1, Zenon DEF Extent
  <2>2. PICK x, y : x = os[h].p /\ y = Held(s, os[h].p)
    OBVIOUS
  <2>3. x \in Nat /\ y \in Nat
    BY <1>4, <2>2 DEF Shape
  <2>4. x + y - 1 = (x + y) - 1
    BY <2>3
  <2> QED
    BY <1>5, <2>1, <2>2, <2>4, Zenon
<1> QED
  BY <1>1, <1>4, <1>5, <1>6, <1>7, Zenon

(* The words of a block carry the mark of the caller that holds it. *)
LEMMA InvContents == Inv => ContentsKept
<1> SUFFICES ASSUME Inv, NEW h \in Handles, objs[h] # NoBlock,
                    NEW w \in objs[h].p .. objs[h].p + objs[h].size - 1
             PROVE  mem[w] = h
  BY DEF ContentsKept, Live
<1>1. IsBlock(Allocator, objs[h], h)
  BY InvBlock
<1>2. Allocator.mem[w] = h
  BY <1>1 DEF IsBlock
<1> QED
  BY <1>2 DEF Allocator

(* The words taken are those of the extents. *)
LEMMA InvUsed == Inv => UsedExact /\ used \in 0 .. Words
<1> SUFFICES ASSUME Inv
             PROVE  UsedExact /\ used \in 0 .. Words
  OBVIOUS
<1>1. used = Cardinality(Taken(Allocator, objs))
  BY DEF Inv, Good, Allocator
<1>2. UNION {Extent(h) : h \in Live} = Taken(Allocator, objs)
  <2>1. ASSUME NEW w \in Taken(Allocator, objs)
        PROVE  \E h \in Live : w \in Extent(h)
    <3>1. w \in Heap
      BY DEF Taken
    <3>2. PICK h \in Handles : /\ objs[h] # NoBlock
                               /\ Start(Allocator, objs[h].p) <= w /\ w < End(Allocator, objs[h])
      BY <2>1, Zenon DEF Taken
    <3>3. w \in Extent(h)
      <4>1. w \in Int
        BY <3>1 DEF Heap
      <4>2. PICK lo, hi : lo = Start(Allocator, objs[h].p) /\ hi = End(Allocator, objs[h])
        OBVIOUS
      <4>3. lo \in Int /\ hi \in Int /\ Extent(h) = lo .. hi - 1
        BY <3>2, <4>2, InvBlock
      <4>4. lo <= w /\ w < hi
        BY <3>2, <4>2, Zenon
      <4> QED
        BY <4>1, <4>3, <4>4
    <3> QED
      BY <3>2, <3>3 DEF Live
  <2>2. ASSUME NEW h \in Live, NEW w \in Extent(h)
        PROVE  w \in Taken(Allocator, objs)
    <3>1. h \in Handles /\ objs[h] # NoBlock
      BY DEF Live
    <3>2. PICK lo, hi : lo = Start(Allocator, objs[h].p) /\ hi = End(Allocator, objs[h])
      OBVIOUS
    <3>3. lo \in Int /\ hi \in Int /\ Extent(h) = lo .. hi - 1 /\ Base <= lo /\ hi <= Base + Words
      BY <3>1, <3>2, InvBlock
    <3>4. w \in lo .. hi - 1
      BY <3>3
    <3>5. w \in Heap /\ lo <= w /\ w < hi
      BY <3>3, <3>4 DEF Heap
    <3> QED
      BY <3>1, <3>2, <3>5, Zenon DEF Taken
  <2> QED
    BY <2>1, <2>2
<1>3. used = Cardinality(UNION {Extent(h) : h \in Live})
  BY <1>1, <1>2, Zenon
<1>4. used \in 0 .. Words
  BY <1>1, TakenFinite
<1> QED
  BY <1>3, <1>4 DEF UsedExact

(* What the list is taken for, from what Laid says of it. *)
LEMMA InvList ==
  ASSUME Inv
  PROVE  /\ ListSorted
         /\ \A b, c \in FreeBlocks(Allocator) : b # c => FreeExtent(b) \cap FreeExtent(c) = {}
         /\ first \in Heap \cup {Null}
<1>1. PICK s, os : s = Allocator /\ os = objs
  OBVIOUS
<1>2. PICK F : Laid(s, F, os)
  BY <1>1, Zenon DEF Inv, Good
<1>3. s \in StateSet /\ IsList(s, F) /\ Feet(s, F) /\ Apart(s, F, os)
  BY <1>2 DEF Laid
<1>4. PICK at : at = FreeAt(s)
  OBVIOUS
<1>5. /\ FreeBlocks(s) = F /\ at[MaxFree] = Null
      /\ \A n \in 1 .. MaxFree : at[n] # Null => at[n - 1] < at[n]
  BY <1>3, <1>4, ListIs
<1>6. ASSUME NEW b \in F
      PROVE  /\ b \in Nat /\ b \in Heap /\ b + 1 \in Heap /\ SizeOf(s, b) \in Nat
             /\ FootEnd(s, b) \in Nat /\ b + 2 <= FootEnd(s, b)
             /\ b + SizeOf(s, b) <= FootEnd(s, b) /\ FootEnd(s, b) <= Base + Words
             /\ FreeExtent(b) = b .. b + SizeOf(s, b) - 1
  <2>1. FreeExtent(b) = b .. b + SizeOf(s, b) - 1
    BY <1>1, Zenon DEF FreeExtent
  <2> QED
    BY <1>3, <2>1, FootIs
<1>7. ASSUME NEW b \in F, NEW w \in FreeExtent(b) \cup {b, b + 1}
      PROVE  w \in Int /\ b <= w /\ w < FootEnd(s, b)
  BY <1>6
<1>8. ASSUME NEW b \in F, NEW w \in FreeExtent(b) \cup {b, b + 1}
      PROVE  w \in Heap
  <2>1. /\ w \in Int /\ b <= w /\ w < FootEnd(s, b) /\ FootEnd(s, b) \in Nat
        /\ FootEnd(s, b) <= Base + Words /\ b \in Heap
    BY <1>6, <1>7
  <2> QED
    BY <2>1 DEF Heap
<1>9. ASSUME NEW b \in F, NEW h \in Live
      PROVE  (FreeExtent(b) \cup {b, b + 1}) \cap Extent(h) = {}
  <2>1. h \in Handles /\ os[h] # NoBlock
    BY <1>1 DEF Live
  <2>2. PICK lo, hi : lo = Start(s, os[h].p) /\ hi = End(s, os[h])
    OBVIOUS
  <2>3. lo \in Int /\ hi \in Int /\ Extent(h) = lo .. hi - 1
    BY <1>1, <2>1, <2>2, InvBlock
  <2>4. FootEnd(s, b) <= lo \/ hi <= b
    BY <1>3, <2>1, <2>2 DEF Apart
  <2>5. ASSUME NEW w \in FreeExtent(b) \cup {b, b + 1}, w \in Extent(h)
        PROVE  FALSE
    <3>1. w \in Int /\ b <= w /\ w < FootEnd(s, b) /\ FootEnd(s, b) \in Nat /\ b \in Nat
      BY <1>6, <1>7
    <3>2. w \in lo .. hi - 1
      BY <2>3, <2>5
    <3> QED
      BY <2>3, <2>4, <3>1, <3>2
  <2> QED
    BY <2>5
<1>10. ASSUME NEW b \in F, NEW c \in F, b # c
       PROVE  FreeExtent(b) \cap FreeExtent(c) = {}
  <2>1. /\ b \in Nat /\ c \in Nat /\ FootEnd(s, b) \in Nat /\ FootEnd(s, c) \in Nat
    BY <1>6
  <2>2. FootEnd(s, b) <= c \/ FootEnd(s, c) <= b
    <3>1. b < c \/ c < b
      BY <1>10, <2>1
    <3> QED
      BY <1>3, <3>1 DEF Feet
  <2>3. ASSUME NEW w \in FreeExtent(b), w \in FreeExtent(c)
        PROVE  FALSE
    <3>1. w \in Int /\ b <= w /\ w < FootEnd(s, b)
      BY <1>7
    <3>2. c <= w /\ w < FootEnd(s, c)
      BY <1>7, <2>3
    <3> QED
      BY <2>1, <2>2, <3>1, <3>2
  <2> QED
    BY <2>3
<1>11. s.first \in Heap \cup {Null}
  <2>1. IsNext(F, Null, LinkOf(s, Null)) /\ F \subseteq Heap
    BY <1>3 DEF IsList
  <2> QED
    BY <2>1 DEF IsNext, LinkOf
<1>12. first \in Heap \cup {Null}
  BY <1>1, <1>11 DEF Allocator
<1>13. FreeBlocks(Allocator) = F
  BY <1>1, <1>5
<1>14. ListSorted
  <2>1. \A b \in F : FreeExtent(b) \cup {b, b + 1} \subseteq Heap
    BY <1>8
  <2>2. at = FreeAt(Allocator)
    BY <1>1, <1>4, Zenon
  <2> QED
    BY <1>5, <1>9, <1>13, <2>1, <2>2 DEF ListSorted
<1> QED
  BY <1>10, <1>12, <1>13, <1>14

(* Blocks that are apart have no word in common. *)
LEMMA InvDisjoint == Inv => BlocksDisjoint
<1> SUFFICES ASSUME Inv
             PROVE  BlocksDisjoint
  OBVIOUS
<1>1. ASSUME NEW g \in Live, NEW h \in Live, g # h
      PROVE  Extent(g) \cap Extent(h) = {}
  <2>1. g \in Handles /\ objs[g] # NoBlock /\ h \in Handles /\ objs[h] # NoBlock
    BY DEF Live
  <2>2. PICK lo, hi : lo = Start(Allocator, objs[g].p) /\ hi = End(Allocator, objs[g])
    OBVIOUS
  <2>3. PICK lo2, hi2 : lo2 = Start(Allocator, objs[h].p) /\ hi2 = End(Allocator, objs[h])
    OBVIOUS
  <2>4. lo \in Int /\ hi \in Int /\ Extent(g) = lo .. hi - 1
    BY <2>1, <2>2, InvBlock
  <2>5. lo2 \in Int /\ hi2 \in Int /\ Extent(h) = lo2 .. hi2 - 1
    BY <2>1, <2>3, InvBlock
  <2>6. hi <= lo2 \/ hi2 <= lo
    <3>1. PICK F : Apart(Allocator, F, objs)
      BY DEF Inv, Good, Laid
    <3> QED
      BY <1>1, <2>1, <2>2, <2>3, <3>1, Zenon DEF Apart
  <2> QED
    BY <2>4, <2>5, <2>6
<1>2. \A b, c \in FreeBlocks(Allocator) : b # c => FreeExtent(b) \cap FreeExtent(c) = {}
  BY InvList
<1> QED
  BY <1>1, <1>2, Zenon DEF BlocksDisjoint

(* The types, which the invariant includes. *)
LEMMA InvType == Inv => TypeOK
<1> SUFFICES ASSUME Inv
             PROVE  TypeOK
  OBVIOUS
<1>1. mem \in [Heap -> Int]
  BY DEF Inv, Good, Laid, StateSet, Allocator
<1>2. ASSUME NEW h \in Live
      PROVE  objs[h].p \in Heap /\ objs[h].size \in Sizes
  <2>1. Shape(Allocator, objs[h].p, objs[h].size)
    BY InvBlock DEF Live
  <2> QED
    BY <2>1 DEF Shape
<1>3. first \in Heap \cup {Null} /\ used \in 0 .. Words /\ broken \in BOOLEAN
  BY InvList, InvUsed DEF Inv
<1> QED
  BY <1>1, <1>2, <1>3 DEF TypeOK

(* Between two calls the memory is whole: the list of free blocks ends, is *)
(* sorted and stays inside the region, no word is in two blocks or free    *)
(* twice, the two words of a free block are nobody else's, and m_used_size *)
(* is exactly what the blocks take with their headers and padding.         *)
THEOREM StaysWellFormed == Spec => []WellFormed
<1>1. Inv => WellFormed
  BY InvType, InvList, InvDisjoint, InvUsed DEF WellFormed
<1> QED
  BY <1>1, Invariance, PTL

(* What a caller wrote into its block stays there: no split, merge, move   *)
(* or restored failure writes into a block somebody holds, and a realloc   *)
(* takes the words along.                                                  *)
THEOREM ContentsStay == Spec => []ContentsKept
<1>1. Inv => ContentsKept
  BY InvContents
<1> QED
  BY <1>1, Invariance, PTL

=============================================================================
