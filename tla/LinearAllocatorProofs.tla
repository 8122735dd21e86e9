----------------------- MODULE LinearAllocatorProofs -----------------------
(***************************************************************************)
(* Proofs about LinearAllocator, for every set of sizes, alignments and    *)
(* page addresses, any number of handles and any depth of scopes.          *)
(*                                                                         *)
(* The inductive invariant is Inv: neither the bounds of the blocks nor    *)
(* their disjointness survives CloseScope without knowing that every block *)
(* older than the scope lies below its snapshot, and that in turn survives *)
(* a free only because younger blocks lie above it (ScopesProtectOlder).   *)
(***************************************************************************)
EXTENDS LinearAllocator, SequenceTheorems, TLAPS

(* Every page has room for its own header. *)
PagesLong == \A i \in 1 .. Len(pages) : PageHeaderSize <= pages[i].size

Inv == TypeOK /\ PagesLong /\ BlocksInside /\ BlocksDisjoint /\ ScopesProtectOlder

-----------------------------------------------------------------------------
(* Arithmetic of align_forward_. *)

(* A sum of integers is an integer. *)
LEMMA IntSum ==
  ASSUME NEW u \in Int, NEW v \in Int, NEW w \in Int, NEW x \in Int,
         NEW y \in Int, NEW z \in Int
  PROVE  u + (v - w) + x + (y - z) \in Int
OBVIOUS

(* Division with remainder, the fact the two lemmas below rest on. *)
LEMMA DivMod ==
  ASSUME NEW y \in Nat, NEW a \in Nat \ {0}
  PROVE  y \div a \in Nat /\ y % a \in 0 .. a - 1 /\ y = (y \div a) * a + (y % a)
OBVIOUS

(* Aligning an address moves it forward by less than the alignment. *)
LEMMA AlignUpBounds ==
  ASSUME NEW x \in Nat, NEW a \in Nat \ {0}
  PROVE  AlignUp(x, a) \in Nat /\ x <= AlignUp(x, a) /\ AlignUp(x, a) < x + a
<1> DEFINE y == x + a - 1
           q == y \div a
<1>1. y \in Nat
  OBVIOUS
<1>2. q \in Nat /\ y % a \in 0 .. a - 1 /\ y = q * a + (y % a)
  BY <1>1, DivMod
<1>3. q * a \in Int
  BY <1>2
<1> HIDE DEF q
<1>4. q * a <= y /\ y < q * a + a
  BY <1>1, <1>2, <1>3
<1> QED
  BY <1>1, <1>3, <1>4 DEF AlignUp, q

(* An aligned address is a multiple of the alignment. *)
LEMMA AlignUpMultiple ==
  ASSUME NEW x \in Nat, NEW a \in Nat \ {0}
  PROVE  AlignUp(x, a) % a = 0
<1> DEFINE q == (x + a - 1) \div a
           z == q * a
<1>1. q \in Nat
  BY DivMod
<1>2. z \in Nat
  BY <1>1
<1>3. z \div a \in Nat /\ z % a \in 0 .. a - 1 /\ z = (z \div a) * a + (z % a)
  BY <1>2, DivMod
<1> QED
  BY <1>1, <1>2, <1>3 DEF AlignUp

(* align_forward_ on an offset: forward by less than the alignment, to an  *)
(* aligned address.                                                        *)
LEMMA AlignForwardBounds ==
  ASSUME NEW page \in Page, NEW offset \in Nat, NEW a \in Nat \ {0}
  PROVE  /\ AlignForward(page, offset, a) \in Nat
         /\ offset <= AlignForward(page, offset, a)
         /\ AlignForward(page, offset, a) < offset + a
<1> DEFINE x == page.base + offset
<1>1. x \in Nat /\ page.base \in Nat
  BY DEF Page
<1>2. AlignUp(x, a) \in Nat /\ x <= AlignUp(x, a) /\ AlignUp(x, a) < x + a
  BY <1>1, AlignUpBounds
<1> QED
  BY <1>1, <1>2 DEF AlignForward

(* The address an aligned offset stands for is a multiple of the alignment. *)
LEMMA AlignForwardAligned ==
  ASSUME NEW page \in Page, NEW offset \in Nat, NEW a \in Nat \ {0}
  PROVE  (page.base + AlignForward(page, offset, a)) % a = 0
<1> DEFINE x == page.base + offset
<1>1. x \in Nat /\ page.base \in Nat
  BY DEF Page
<1>2. AlignUp(x, a) \in Nat /\ AlignUp(x, a) % a = 0
  BY <1>1, AlignUpBounds, AlignUpMultiple
<1>3. page.base + AlignForward(page, offset, a) = AlignUp(x, a)
  BY <1>1, <1>2 DEF AlignForward
<1> QED
  BY <1>2, <1>3

(* What a block carved from a page looks like: its header fits between its *)
(* start and its pointer, the pointer is aligned, the padding is less than *)
(* the alignment.                                                          *)
CarvedAt(b, page, j, s, size, a) ==
  /\ b \in Block
  /\ b.page = j /\ b.start = s /\ b.size = size /\ b.align = a
  /\ b.scope = Len(scopes)
  /\ s + HeaderSize <= b.p /\ b.p < s + HeaderSize + a
  /\ b.p \in Nat /\ End(b) = b.p + size /\ End(b) \in Nat
  /\ AddressAligned(page, b)

(* Carving a block gives it that shape. *)
LEMMA CarveShape ==
  ASSUME TypeOK, NEW page, page \in Page, NEW j, j \in Nat, NEW s, s \in Nat,
         NEW size \in Nat \ {0}, NEW a \in Nat \ {0}
  PROVE  CarvedAt(Carve(page, j, s, size, a), page, j, s, size, a)
<1>1. HeaderSize \in Nat /\ Len(scopes) \in Nat /\ s + HeaderSize \in Nat
  BY SizesAssumption, LenProperties DEF TypeOK
<1> DEFINE p == AlignForward(page, s + HeaderSize, a)
<1>2. p \in Nat /\ s + HeaderSize <= p /\ p < s + HeaderSize + a
  BY <1>1, AlignForwardBounds
<1>3. (page.base + p) % a = 0
  BY <1>1, AlignForwardAligned
<1> HIDE DEF p
<1> DEFINE b == [page |-> j, start |-> s, p |-> p, size |-> size, align |-> a,
                 scope |-> Len(scopes)]
<1>4. Carve(page, j, s, size, a) = b
  BY DEF Carve, p
<1>5. b \in Block
  BY <1>1, <1>2 DEF Block
<1>6. AddressAligned(page, b)
  BY <1>3 DEF AddressAligned
<1>7. End(b) = p + size
  BY DEF End
<1> QED
  BY <1>1, <1>2, <1>4, <1>5, <1>6, <1>7 DEF CarvedAt

-----------------------------------------------------------------------------
(* Allocation. *)

(* The chain only grows. *)
ChainGrows ==
  /\ Len(pages) <= Len(pages')
  /\ pages' \in Seq(Page)
  /\ \A i \in 1 .. Len(pages) : pages'[i] = pages[i]
  /\ PagesLong'

(* Block b starts where allocation starts in page j of the new chain, and  *)
(* ends in that page.                                                      *)
PlacedIn(j, b) ==
  /\ j \in cur .. Len(pages')
  /\ b \in Block
  /\ b.page = j /\ b.start = Offset(j) /\ b.scope = Len(scopes)
  /\ b.start + HeaderSize <= b.p
  /\ End(b) <= pages'[j].size
  /\ AddressAligned(pages'[j], b)

(* The fields no allocation depends on keep their types. *)
RestTyped ==
  /\ scopes' = scopes /\ closes' = closes
  /\ status' \in {"ready", "crashed", "destroyed"}
  /\ used' \in Int /\ total' \in Nat /\ heap' \in Int

(* The types the proofs use, without sequences. *)
LEMMA Types ==
  ASSUME TypeOK
  PROVE  /\ PageHeaderSize \in Nat /\ HeaderSize \in Nat
         /\ cur \in Nat /\ top \in Nat
         /\ objs \in [Handles -> Block \cup {NoBlock}]
         /\ Len(pages) \in Nat /\ Len(scopes) \in Nat
         /\ \A i \in 1 .. Len(pages) : pages[i].size \in Nat /\ pages[i].base \in Nat
         /\ \A k \in 1 .. Len(scopes) : scopes[k].page \in Nat /\ scopes[k].top \in Nat
<1>1. PageHeaderSize \in Nat /\ HeaderSize \in Nat
  BY SizesAssumption
<1>2. /\ cur \in Nat /\ top \in Nat
      /\ objs \in [Handles -> Block \cup {NoBlock}]
      /\ pages \in Seq(Page) /\ scopes \in Seq(Snapshot)
  BY DEF TypeOK
<1>3. /\ Len(pages) \in Nat /\ \A i \in 1 .. Len(pages) : pages[i] \in Page
      /\ Len(scopes) \in Nat /\ \A k \in 1 .. Len(scopes) : scopes[k] \in Snapshot
  BY <1>2, LenProperties, ElementOfSeq
<1> QED
  BY <1>1, <1>2, <1>3 DEF Page, Snapshot

(* A block takes at least a byte. *)
LEMMA BlockTypes ==
  ASSUME NEW b \in Block
  PROVE  /\ b # NoBlock
         /\ b.page \in Nat /\ b.start \in Nat /\ b.p \in Nat /\ b.scope \in Nat
         /\ b.size \in Nat /\ b.size > 0 /\ b.align \in Nat /\ b.align > 0
         /\ End(b) \in Nat /\ b.p < End(b)
BY NoBlockAssumption DEF Block, End

(* Blocks callers hold are blocks. *)
LEMMA LiveBlocks ==
  ASSUME TypeOK, NEW g \in Live
  PROVE  g \in Handles /\ objs[g] \in Block
BY DEF TypeOK, Live

(* A block put at the place where allocation starts in a page not before   *)
(* the current one keeps the invariant: all older blocks and all snapshots *)
(* are before that place.                                                  *)
LEMMA NewBlockKeepsInv ==
  ASSUME Inv, NEW h \in Handles, NEW j, NEW b,
         ChainGrows, PlacedIn(j, b), TakeFrom(h, b), RestTyped
  PROVE  Inv'
<1>1. TypeOK
  BY DEF Inv
<1>2. TypeOK'
  <2>1. pages' \in Seq(Page)
    BY DEF ChainGrows
  <2>2. cur' \in Nat /\ top' \in Nat
    BY <1>1, Types, BlockTypes DEF TakeFrom, PlacedIn
  <2>3. objs' \in [Handles -> Block \cup {NoBlock}]
    BY <1>1, Types DEF TakeFrom, PlacedIn
  <2> QED
    BY <1>1, <2>1, <2>2, <2>3 DEF TypeOK, RestTyped
<1>3. /\ j \in Nat /\ cur <= j /\ b \in Block
      /\ b.page = j /\ b.start \in Nat /\ End(b) \in Nat /\ b.start < End(b)
      /\ PageHeaderSize <= b.start /\ (j = cur => b.start = top)
      /\ b.start + HeaderSize <= b.p /\ b.p <= End(b) /\ b.scope = Len(scopes)
  BY <1>1, Types, BlockTypes, SMTT(30) DEF PlacedIn, Offset, Inv, BlocksInside
<1>4. /\ Live' = Live \cup {h} /\ objs'[h] = b
      /\ \A g \in Live' : g # h => g \in Live /\ objs'[g] = objs[g]
  BY <1>1, <1>3, Types, BlockTypes DEF Live, TakeFrom
<1>5. ASSUME NEW g \in Live
      PROVE  /\ objs[g] \in Block /\ End(objs[g]) \in Nat
             /\ objs[g].page \in Nat /\ objs[g].start \in Nat
             /\ objs[g].page <= cur /\ objs[g].page >= 1
             /\ NotAfter(objs[g].page, End(objs[g]), j, b.start)
             /\ End(objs[g]) <= pages[objs[g].page].size
  <2>1. objs[g] \in Block
    BY <1>1, LiveBlocks
  <2>2. /\ objs[g].page \in Nat /\ objs[g].start \in Nat /\ End(objs[g]) \in Nat
    BY <2>1, BlockTypes
  <2>3. /\ objs[g].page \in 1 .. cur
        /\ End(objs[g]) <= IF objs[g].page = cur THEN top ELSE pages[objs[g].page].size
        /\ top <= pages[cur].size
    BY DEF Inv, BlocksInside
  <2>4. pages[cur].size \in Nat /\ top \in Nat /\ cur \in Nat
    BY <1>1, Types DEF Inv, BlocksInside
  <2>5. NotAfter(objs[g].page, End(objs[g]), j, b.start)
    BY <1>3, <2>2, <2>3, <2>4 DEF NotAfter
  <2>6. End(objs[g]) <= pages[objs[g].page].size
    <3>1. CASE objs[g].page = cur
      BY <2>2, <2>3, <2>4, <3>1
    <3>2. CASE objs[g].page # cur
      BY <2>3, <3>2
    <3> QED
      BY <3>1, <3>2
  <2> QED
    BY <2>1, <2>2, <2>3, <2>4, <2>5, <2>6
<1>6. BlocksInside'
  <2>1. cur' \in 1 .. Len(pages') /\ top' \in PageHeaderSize .. pages'[cur'].size
    <3>0. j \in cur .. Len(pages') /\ cur \in 1 .. Len(pages)
      BY DEF PlacedIn, Inv, BlocksInside
    <3>1. Len(pages') \in Nat /\ pages'[j].size \in Nat
      <4>1. pages' \in Seq(Page)
        BY DEF ChainGrows
      <4>2. Len(pages') \in Nat /\ \A i \in 1 .. Len(pages') : pages'[i] \in Page
        BY <4>1, LenProperties, ElementOfSeq
      <4>3. j \in 1 .. Len(pages')
        BY <1>3, <3>0, <4>2
      <4>4. pages'[j] \in Page
        BY <4>2, <4>3
      <4> QED
        BY <4>2, <4>4 DEF Page
    <3> QED
      BY <1>1, <1>3, <3>1, Types DEF TakeFrom, PlacedIn, Inv, BlocksInside
  <2>2. ASSUME NEW g \in Live'
        PROVE  /\ objs'[g].page \in 1 .. cur'
               /\ PageHeaderSize <= objs'[g].start
               /\ objs'[g].start + HeaderSize <= objs'[g].p
               /\ End(objs'[g]) <= IF objs'[g].page = cur' THEN top'
                                     ELSE pages'[objs'[g].page].size
    <3>1. CASE g = h
      BY <1>1, <1>3, <1>4, <2>1, <3>1, Types DEF TakeFrom
    <3>2. CASE g # h
      <4>1. g \in Live /\ objs'[g] = objs[g]
        BY <1>4, <3>2
      <4>2. /\ PageHeaderSize <= objs[g].start
            /\ objs[g].start + HeaderSize <= objs[g].p
            /\ cur <= Len(pages)
        BY <4>1 DEF Inv, BlocksInside
      <4>3. pages'[objs[g].page] = pages[objs[g].page]
        <5>1. objs[g].page \in Nat /\ objs[g].page >= 1 /\ objs[g].page <= cur
          BY <1>5, <4>1
        <5>2. cur \in Nat /\ Len(pages) \in Nat
          BY <1>1, Types
        <5>3. objs[g].page \in 1 .. Len(pages)
          BY <4>2, <5>1, <5>2
        <5> QED
          BY <5>3 DEF ChainGrows
      <4>4. cur' = j /\ top' = End(b)
        BY <1>3 DEF TakeFrom
      <4>5. cur \in Nat /\ End(objs[g]) \in Nat /\ objs[g].page \in Nat
        BY <1>1, <1>5, <4>1, Types
      <4>6. NotAfter(objs[g].page, End(objs[g]), j, b.start)
        BY <1>5, <4>1
      <4>7. objs[g].page <= cur /\ objs[g].page >= 1
            /\ End(objs[g]) <= pages[objs[g].page].size
        BY <1>5, <4>1
      <4> QED
        BY <1>3, <4>1, <4>2, <4>3, <4>4, <4>5, <4>6, <4>7 DEF NotAfter
    <3> QED
      BY <3>1, <3>2
  <2> QED
    BY <2>1, <2>2 DEF BlocksInside, End
<1>7. BlocksDisjoint'
  <2> SUFFICES ASSUME NEW f \in Live', NEW g \in Live', f # g,
                      objs'[g].page = objs'[f].page
               PROVE  \/ End(objs'[f]) <= objs'[g].start
                      \/ End(objs'[g]) <= objs'[f].start
    BY DEF BlocksDisjoint, End
  <2>1. CASE f # h /\ g # h
    BY <1>4, <2>1 DEF Inv, BlocksDisjoint
  <2>2. CASE f = h
    BY <1>3, <1>4, <1>5, <2>2 DEF NotAfter
  <2>3. CASE g = h
    BY <1>3, <1>4, <1>5, <2>3 DEF NotAfter
  <2> QED
    BY <2>1, <2>2, <2>3
<1>8. ScopesProtectOlder'
  <2>0. scopes' = scopes /\ cur' = j /\ top' = End(b)
    BY <1>3 DEF RestTyped, TakeFrom
  <2>1. ASSUME NEW k \in 1 .. Len(scopes)
        PROVE  /\ scopes[k].page \in Nat /\ scopes[k].top \in Nat
               /\ scopes[k].page \in 1 .. cur
               /\ NotAfter(scopes[k].page, scopes[k].top, j, b.start)
               /\ scopes[k].top \in PageHeaderSize .. pages'[scopes[k].page].size
    <3>1. /\ scopes[k].page \in 1 .. cur
          /\ scopes[k].top \in PageHeaderSize .. pages[scopes[k].page].size
          /\ scopes[k].page = cur => scopes[k].top <= top
          /\ cur <= Len(pages)
      BY DEF Inv, ScopesProtectOlder, BlocksInside
    <3>2. pages'[scopes[k].page] = pages[scopes[k].page]
      BY <1>1, <3>1, Types DEF ChainGrows
    <3> QED
      BY <1>1, <1>3, <3>1, <3>2, Types, SMTT(30) DEF NotAfter
  <2>2. \A g \in Live' : objs'[g].scope <= Len(scopes)
    <3>1. \A g \in Live : objs[g].scope <= Len(scopes)
      BY DEF Inv, ScopesProtectOlder
    <3>2. b.scope <= Len(scopes)
      BY <1>1, <1>3, Types
    <3> QED
      BY <1>4, <3>1, <3>2
  <2>3. ASSUME NEW k \in 1 .. Len(scopes), NEW g \in Live'
        PROVE  IF objs'[g].scope < k
                 THEN NotAfter(objs'[g].page, End(objs'[g]), scopes[k].page, scopes[k].top)
                 ELSE NotAfter(scopes[k].page, scopes[k].top, objs'[g].page, objs'[g].start)
    <3>1. CASE g = h
      BY <1>1, <1>3, <1>4, <2>1, <3>1, Types
    <3>2. CASE g # h
      BY <1>4, <3>2 DEF Inv, ScopesProtectOlder
    <3> QED
      BY <3>1, <3>2
  <2>4. ASSUME NEW k \in 1 .. Len(scopes)
        PROVE  /\ scopes[k].page \in 1 .. cur'
               /\ scopes[k].page = cur' => scopes[k].top <= top'
               /\ \A i \in 1 .. k - 1 : NotAfter(scopes[i].page, scopes[i].top,
                                                 scopes[k].page, scopes[k].top)
    <3>1. \A i \in 1 .. k - 1 : NotAfter(scopes[i].page, scopes[i].top,
                                         scopes[k].page, scopes[k].top)
      BY DEF Inv, ScopesProtectOlder
    <3> QED
      BY <1>1, <1>3, <2>0, <2>1, <3>1, Types DEF NotAfter
  <2> QED
    BY <2>0, <2>1, <2>2, <2>3, <2>4 DEF ScopesProtectOlder, End, NotAfter
<1> QED
  BY <1>2, <1>6, <1>7, <1>8 DEF Inv, ChainGrows

(* Allocate puts a block in the chain, on a page it had or on a new one    *)
(* that is big enough.                                                     *)
LEMMA AllocatePlaces ==
  ASSUME Inv, NEW h \in Handles, NEW size \in Nat \ {0}, NEW a \in Nat \ {0},
         Allocate(h, size, a)
  PROVE  /\ ChainGrows
         /\ \E j, b : PlacedIn(j, b) /\ TakeFrom(h, b)
         /\ used' \in Int /\ total' \in Nat /\ heap' \in Int
<1>1. TypeOK
  BY DEF Inv
<1>2. PICK j : /\ j \in cur .. Len(pages)
               /\ WalkStops(j, size, a)
               /\ (UsePage(h, size, a, j) \/ AppendPage(h, size, a, j))
  BY DEF Allocate
<1>3. /\ j \in Nat /\ pages[j] \in Page /\ pages \in Seq(Page) /\ Offset(j) \in Nat
      /\ pages[j].size \in Nat /\ j >= 1 /\ Len(pages) \in Nat
      /\ used \in Int /\ total \in Nat /\ heap \in Int
  <2>1. cur \in Nat /\ cur >= 1 /\ Len(pages) \in Nat
    BY <1>1, Types DEF Inv, BlocksInside
  <2>2. j \in Nat /\ j >= 1 /\ j \in 1 .. Len(pages)
    BY <1>2, <2>1
  <2>3. pages[j] \in Page /\ Offset(j) \in Nat
    BY <1>1, <2>2, ElementOfSeq, SizesAssumption DEF TypeOK, Offset
  <2> QED
    BY <1>1, <2>1, <2>2, <2>3 DEF TypeOK, Page
<1>4. CASE UsePage(h, size, a, j)
  <2>0. PICK b : b = BlockIn(j, size, a)
    OBVIOUS
  <2>1. /\ b \in Block /\ b.page = j /\ b.start = Offset(j) /\ b.scope = Len(scopes)
        /\ b.align = a /\ b.start + HeaderSize <= b.p /\ End(b) \in Nat
        /\ AddressAligned(pages[j], b)
    <3>1. CarvedAt(b, pages[j], j, Offset(j), size, a)
      BY <1>1, <1>3, <2>0, CarveShape DEF BlockIn
    <3> QED
      BY <3>1 DEF CarvedAt
  <2>2. End(b) <= pages[j].size /\ TakeFrom(h, b) /\ UNCHANGED <<pages, total, heap>>
        /\ used' = used + (End(b) - b.start)
    BY <1>4, <2>0 DEF UsePage, Fits
  <2>3. ChainGrows
    BY <1>3, <2>2 DEF ChainGrows, Inv, PagesLong
  <2>4. PlacedIn(j, b)
    BY <1>2, <2>1, <2>2 DEF PlacedIn
  <2>5. used' \in Int
    BY <1>3, <2>1, <2>2
  <2> QED
    BY <1>3, <2>2, <2>3, <2>4, <2>5
<1>5. CASE AppendPage(h, size, a, j)
  <2>1. j = Len(pages)
    BY <1>2, <1>5 DEF WalkStops, AppendPage
  <2>2. PICK k : k = j + 1
    OBVIOUS
  <2>3. PICK base \in Bases : \E page, b :
          /\ page = [base |-> base, size |-> NewPageSize(size, a)]
          /\ b = Carve(page, k, PageHeaderSize, size, a)
          /\ pages' = Append(SubSeq(pages, 1, j), page)
          /\ TakeFrom(h, b)
          /\ total' = total + page.size
          /\ used' = used + (pages[j].size - Offset(j)) + PageHeaderSize
                          + (End(b) - b.start)
          /\ heap' = heap + 1
    BY <1>5, <2>2 DEF AppendPage
  <2>4. PICK page, b :
          /\ page = [base |-> base, size |-> NewPageSize(size, a)]
          /\ b = Carve(page, k, PageHeaderSize, size, a)
          /\ pages' = Append(SubSeq(pages, 1, j), page)
          /\ TakeFrom(h, b)
          /\ total' = total + page.size
          /\ used' = used + (pages[j].size - Offset(j)) + PageHeaderSize
                          + (End(b) - b.start)
          /\ heap' = heap + 1
    BY <2>3
  <2>5. /\ PageHeaderSize \in Nat /\ HeaderSize \in Nat /\ DefaultPageSize \in Nat
        /\ base \in Nat
    BY SizesAssumption
  <2>6. /\ NewPageSize(size, a) \in Nat
        /\ PageHeaderSize + HeaderSize + size + a <= NewPageSize(size, a)
        /\ PageHeaderSize <= NewPageSize(size, a)
    BY <2>5 DEF NewPageSize
  <2>7. page \in Page /\ page.size = NewPageSize(size, a)
    BY <2>4, <2>5, <2>6 DEF Page
  <2>8. k \in Nat /\ k = Len(pages) + 1 /\ k # cur /\ cur <= k
    <3>1. cur \in Nat /\ cur <= j
      BY <1>1, <1>2, <1>3, Types
    <3> QED
      BY <1>3, <2>1, <2>2, <3>1
  <2>9. CarvedAt(b, page, k, PageHeaderSize, size, a)
    <3>1. CarvedAt(Carve(page, k, PageHeaderSize, size, a),
                   page, k, PageHeaderSize, size, a)
      BY <1>1, <2>5, <2>7, <2>8, CarveShape
    <3> QED
      BY <2>4, <3>1
  <2>10. /\ b \in Block /\ b.page = k /\ b.start = PageHeaderSize
         /\ b.scope = Len(scopes) /\ b.start + HeaderSize <= b.p
         /\ AddressAligned(page, b)
    BY <2>9 DEF CarvedAt
  <2>11. End(b) \in Nat /\ End(b) <= page.size
    <3>1. /\ b.p \in Nat /\ b.p < PageHeaderSize + HeaderSize + a
          /\ End(b) = b.p + size /\ End(b) \in Nat
      BY <2>9 DEF CarvedAt
    <3> QED
      BY <2>5, <2>6, <2>7, <3>1
  <2>12. pages' = Append(pages, page)
    BY <1>3, <2>1, <2>4, SubSeqFull
  <2>13. /\ pages' \in Seq(Page) /\ Len(pages') = k
         /\ \A i \in 1 .. Len(pages) : pages'[i] = pages[i]
         /\ pages'[k] = page
    BY <1>3, <2>7, <2>8, <2>12, AppendProperties
  <2>14. PagesLong'
    <3>1. ASSUME NEW i \in 1 .. Len(pages')
          PROVE  PageHeaderSize <= pages'[i].size
      <4>1. CASE i = k
        BY <2>6, <2>7, <2>13, <4>1
      <4>2. CASE i # k
        <5>1. i \in 1 .. Len(pages)
          BY <1>3, <2>8, <2>13, <4>2
        <5> QED
          BY <2>13, <5>1 DEF Inv, PagesLong
      <4> QED
        BY <4>1, <4>2
    <3> QED
      BY <3>1 DEF PagesLong
  <2>15. ChainGrows
    BY <1>3, <2>8, <2>13, <2>14 DEF ChainGrows
  <2>16. PlacedIn(k, b)
    <3>1. k \in cur .. Len(pages') /\ Offset(k) = PageHeaderSize
      <4>1. cur \in Nat
        BY <1>1, Types
      <4> QED
        BY <2>8, <2>13, <4>1 DEF Offset
    <3>2. End(b) <= pages'[k].size /\ AddressAligned(pages'[k], b)
      BY <2>10, <2>11, <2>13
    <3> QED
      BY <2>10, <3>1, <3>2 DEF PlacedIn
  <2>17. used' \in Int /\ total' \in Nat /\ heap' \in Int /\ TakeFrom(h, b)
    <3>1. heap' \in Int /\ TakeFrom(h, b)
      BY <1>3, <2>4
    <3>2. total' \in Nat
      BY <1>3, <2>4, <2>6, <2>7, SMTT(30)
    <3>3. used' \in Int
      <4>1. b.start \in Int
        BY <2>5, <2>10
      <4>2. used' = used + (pages[j].size - Offset(j)) + PageHeaderSize
                         + (End(b) - b.start)
        BY <2>4
      <4> QED
        BY IntSum, <1>3, <2>5, <2>11, <4>1, <4>2
    <3> QED
      BY <3>1, <3>2, <3>3
  <2> QED
    BY <2>15, <2>16, <2>17
<1> QED
  BY <1>2, <1>4, <1>5

(* A failed allocation keeps the invariant: the current page only moves    *)
(* on along the chain.                                                     *)
LEMMA MallocFailsKeepsInv ==
  ASSUME Inv, NEW size, NEW a, MallocFails(size, a), UNCHANGED <<scopes, closes>>,
         status' \in {"ready", "crashed", "destroyed"}
  PROVE  Inv'
<1>1. TypeOK
  BY DEF Inv
<1>2. PICK j : /\ j \in cur .. Len(pages) /\ cur' = j /\ top' = Offset(j)
               /\ UNCHANGED <<pages, used, total, objs, heap>>
  BY DEF MallocFails
<1>3. UNCHANGED <<pages, used, total, objs, heap, scopes, closes>>
  BY <1>2
<1>4. /\ cur \in Nat /\ top \in Nat /\ cur >= 1 /\ cur <= Len(pages)
      /\ PageHeaderSize <= top /\ top <= pages[cur].size
      /\ PageHeaderSize \in Nat /\ Len(pages) \in Nat
  <2>1. PageHeaderSize \in Nat /\ cur \in Nat /\ top \in Nat /\ Len(pages) \in Nat
    BY <1>1, Types
  <2>2. cur \in 1 .. Len(pages) /\ top \in PageHeaderSize .. pages[cur].size
    BY DEF Inv, BlocksInside
  <2>3. pages[cur].size \in Nat
    BY <1>1, <2>2, Types
  <2> QED
    BY <2>1, <2>2, <2>3
<1>5. /\ j \in Nat /\ j \in 1 .. Len(pages) /\ cur <= j /\ cur' = j
      /\ (j = cur => top' = top) /\ (j # cur => top' = PageHeaderSize)
  BY <1>2, <1>4 DEF Offset
<1>6. top' \in Nat /\ PageHeaderSize <= top' /\ top' <= pages[j].size
      /\ pages[j].size \in Nat
  <2>1. PageHeaderSize <= pages[j].size /\ pages[j].size \in Nat
    BY <1>1, <1>5, Types DEF Inv, PagesLong
  <2> QED
    BY <1>4, <1>5, <2>1
<1>7. TypeOK'
  BY <1>1, <1>3, <1>5, <1>6 DEF TypeOK
<1>8. PagesLong'
  BY <1>3 DEF Inv, PagesLong
<1>9. BlocksInside'
  <2>1. cur' \in 1 .. Len(pages') /\ top' \in PageHeaderSize .. pages'[cur'].size
    BY <1>3, <1>4, <1>5, <1>6
  <2>2. ASSUME NEW g \in Live
        PROVE  /\ objs[g].page \in 1 .. j
               /\ PageHeaderSize <= objs[g].start
               /\ objs[g].start + HeaderSize <= objs[g].p
               /\ End(objs[g]) <= IF objs[g].page = j THEN top'
                                    ELSE pages[objs[g].page].size
    <3>1. /\ objs[g].page \in 1 .. cur
          /\ PageHeaderSize <= objs[g].start
          /\ objs[g].start + HeaderSize <= objs[g].p
          /\ End(objs[g]) <= IF objs[g].page = cur THEN top
                               ELSE pages[objs[g].page].size
      BY DEF Inv, BlocksInside
    <3>2. objs[g].page \in Nat /\ End(objs[g]) \in Nat
      BY <1>1, LiveBlocks, BlockTypes
    <3>3. pages[cur].size \in Nat
      BY <1>1, <1>4, Types
    <3>4. objs[g].page \in 1 .. j
      BY <1>4, <1>5, <3>1, <3>2
    <3>5. CASE j = cur
      BY <1>5, <3>1, <3>4, <3>5
    <3>6. CASE j # cur
      <4>1. objs[g].page # j
        BY <1>4, <1>5, <3>1, <3>2, <3>6
      <4>2. CASE objs[g].page = cur
        BY <1>4, <3>1, <3>2, <3>3, <3>4, <4>1, <4>2
      <4>3. CASE objs[g].page # cur
        BY <3>1, <3>4, <4>1, <4>3
      <4> QED
        BY <4>2, <4>3
    <3> QED
      BY <3>5, <3>6
  <2> QED
    BY <1>3, <1>5, <2>1, <2>2 DEF BlocksInside, Live, End
<1>10. BlocksDisjoint'
  BY <1>3 DEF Inv, BlocksDisjoint, Live, End
<1>11. ScopesProtectOlder'
  <2>1. ASSUME NEW k \in 1 .. Len(scopes)
        PROVE  /\ scopes[k].page \in 1 .. j
               /\ scopes[k].page = j => scopes[k].top <= top'
    <3>1. /\ scopes[k].page \in 1 .. cur
          /\ scopes[k].page = cur => scopes[k].top <= top
      BY DEF Inv, ScopesProtectOlder
    <3>2. scopes[k].page \in Nat
      BY <1>1, Types
    <3> QED
      BY <1>4, <1>5, <3>1, <3>2
  <2> QED
    BY <1>3, <1>5, <2>1 DEF Inv, ScopesProtectOlder, NotAfter, Live, End
<1> QED
  BY <1>7, <1>8, <1>9, <1>10, <1>11 DEF Inv
-----------------------------------------------------------------------------
(* The other operations. *)

(* Nothing but the block at the top, and no snapshot, reaches beyond the   *)
(* start of that block.                                                    *)
LEMMA TopBlock ==
  ASSUME Inv, NEW h \in Live, AtTop(h), objs[h].scope = Len(scopes)
  PROVE  /\ objs[h] \in Block /\ End(objs[h]) = top /\ objs[h].page = cur
         /\ PageHeaderSize <= objs[h].start
         /\ objs[h].start + HeaderSize <= objs[h].p
         /\ objs[h].start \in Nat /\ objs[h].p \in Nat /\ HeaderSize \in Nat
         /\ objs[h].p < top /\ top \in Nat /\ pages[cur].size \in Nat
         /\ top <= pages[cur].size /\ PageHeaderSize \in Nat
         /\ \A g \in Live : g # h /\ objs[g].page = cur
              => End(objs[g]) <= objs[h].start
         /\ \A k \in 1 .. Len(scopes) : scopes[k].page = cur
              => scopes[k].top <= objs[h].start
<1>1. TypeOK
  BY DEF Inv
<1>2. objs[h] \in Block /\ End(objs[h]) = top /\ objs[h].page = cur
  BY <1>1, LiveBlocks DEF AtTop
<1>3. /\ objs[h].start \in Nat /\ objs[h].p \in Nat /\ objs[h].p < top
      /\ objs[h].page \in Nat
  BY <1>2, BlockTypes
<1>4. /\ PageHeaderSize <= objs[h].start
      /\ objs[h].start + HeaderSize <= objs[h].p
      /\ cur \in 1 .. Len(pages) /\ top \in PageHeaderSize .. pages[cur].size
  BY DEF Inv, BlocksInside
<1>5. HeaderSize \in Nat /\ PageHeaderSize \in Nat /\ top \in Nat
      /\ pages[cur].size \in Nat /\ cur \in Nat /\ Len(scopes) \in Nat
  BY <1>1, <1>4, Types
<1>6. ASSUME NEW g \in Live, g # h, objs[g].page = cur
      PROVE  End(objs[g]) <= objs[h].start
  <2>1. End(objs[g]) <= objs[h].start \/ End(objs[h]) <= objs[g].start
    BY <1>2, <1>6 DEF Inv, BlocksDisjoint
  <2>2. End(objs[g]) <= top /\ objs[g].start + HeaderSize <= objs[g].p
    BY <1>6 DEF Inv, BlocksInside
  <2>3. objs[g].start \in Nat /\ objs[g].p \in Nat /\ objs[g].p < End(objs[g])
        /\ End(objs[g]) \in Nat
    BY <1>1, LiveBlocks, BlockTypes
  <2> QED
    BY <1>2, <1>3, <1>5, <2>1, <2>2, <2>3
<1>7. ASSUME NEW k \in 1 .. Len(scopes), scopes[k].page = cur
      PROVE  scopes[k].top <= objs[h].start
  <2>1. ~(objs[h].scope < k)
    BY <1>5
  <2>2. NotAfter(scopes[k].page, scopes[k].top, objs[h].page, objs[h].start)
    BY <2>1 DEF Inv, ScopesProtectOlder
  <2> QED
    BY <1>2, <1>5, <1>7, <2>2 DEF NotAfter
<1> QED
  BY <1>2, <1>3, <1>4, <1>5, <1>6, <1>7

(* The block at the top may be resized or freed: m_top stays at or above   *)
(* the start of the block and below the end of the page.                   *)
LEMMA TopMovesKeepsInv ==
  ASSUME Inv, TypeOK', NEW h \in Live, AtTop(h), objs[h].scope = Len(scopes),
         UNCHANGED <<pages, cur, scopes>>,
         objs[h].start <= top', top' <= pages[cur].size,
         \A g \in Live' : g # h => g \in Live /\ objs'[g] = objs[g],
         h \in Live' => /\ objs'[h].page = cur /\ objs'[h].start = objs[h].start
                        /\ objs'[h].p = objs[h].p /\ objs'[h].scope = objs[h].scope
                        /\ End(objs'[h]) = top'
  PROVE  Inv'
<1>1. TypeOK /\ top' \in Nat /\ cur \in Nat
  BY Types DEF Inv, TypeOK
<1>2. PagesLong'
  BY DEF Inv, PagesLong
<1>3. /\ PageHeaderSize \in Nat /\ objs[h].start \in Nat
      /\ PageHeaderSize <= objs[h].start
      /\ objs[h].start + HeaderSize <= objs[h].p
      /\ pages[cur].size \in Nat
  BY TopBlock
<1>4. ASSUME NEW g \in Live', g # h
      PROVE  /\ g \in Live /\ objs'[g] = objs[g] /\ End(objs[g]) \in Nat
             /\ objs[g].page = cur =>
                  End(objs[g]) <= objs[h].start /\ End(objs[g]) <= top'
  <2>1. g \in Live /\ objs'[g] = objs[g]
    BY <1>4
  <2>2. End(objs[g]) \in Nat
    BY <1>1, <2>1, LiveBlocks, BlockTypes
  <2>3. objs[g].page = cur => End(objs[g]) <= objs[h].start
    BY <1>4, <2>1, TopBlock
  <2> QED
    BY <1>1, <1>3, <2>1, <2>2, <2>3
<1>5. BlocksInside'
  <2>1. cur' \in 1 .. Len(pages') /\ top' \in PageHeaderSize .. pages'[cur'].size
    BY <1>1, <1>3 DEF Inv, BlocksInside
  <2>2. ASSUME NEW g \in Live'
        PROVE  /\ objs'[g].page \in 1 .. cur
               /\ PageHeaderSize <= objs'[g].start
               /\ objs'[g].start + HeaderSize <= objs'[g].p
               /\ End(objs'[g]) <= IF objs'[g].page = cur THEN top'
                                     ELSE pages[objs'[g].page].size
    <3>1. CASE g = h
      <4>1. cur \in 1 .. cur
        BY <1>1 DEF Inv, BlocksInside
      <4> QED
        BY <1>1, <1>3, <3>1, <4>1
    <3>2. CASE g # h
      BY <1>4, <3>2 DEF Inv, BlocksInside
    <3> QED
      BY <3>1, <3>2
  <2> QED
    BY <2>1, <2>2 DEF BlocksInside, End
<1>6. BlocksDisjoint'
  <2> SUFFICES ASSUME NEW f \in Live', NEW g \in Live', f # g,
                      objs'[g].page = objs'[f].page
               PROVE  \/ End(objs'[f]) <= objs'[g].start
                      \/ End(objs'[g]) <= objs'[f].start
    BY DEF BlocksDisjoint, End
  <2>1. CASE f # h /\ g # h
    BY <1>4, <2>1 DEF Inv, BlocksDisjoint
  <2>2. CASE f = h
    BY <1>4, <2>2
  <2>3. CASE g = h
    BY <1>4, <2>3
  <2> QED
    BY <2>1, <2>2, <2>3
<1>7. ScopesProtectOlder'
  <2>1. ASSUME NEW k \in 1 .. Len(scopes), scopes[k].page = cur
        PROVE  scopes[k].top <= top'
    <3>1. scopes[k].top <= objs[h].start /\ scopes[k].top \in Nat
      BY <1>1, <2>1, TopBlock, Types
    <3> QED
      BY <1>1, <1>3, <3>1
  <2>2. ASSUME NEW g \in Live'
        PROVE  /\ objs'[g].scope <= Len(scopes)
               /\ \A k \in 1 .. Len(scopes) :
                    IF objs'[g].scope < k
                      THEN NotAfter(objs'[g].page, End(objs'[g]),
                                    scopes[k].page, scopes[k].top)
                      ELSE NotAfter(scopes[k].page, scopes[k].top,
                                    objs'[g].page, objs'[g].start)
    <3>1. CASE g = h
      <4>1. \A k \in 1 .. Len(scopes) : ~(Len(scopes) < k)
        BY <1>1, Types
      <4>2. /\ objs'[g].page = objs[h].page /\ objs'[g].start = objs[h].start
            /\ objs'[g].scope = Len(scopes)
        BY <3>1, TopBlock
      <4>3. /\ objs[h].scope <= Len(scopes)
            /\ \A k \in 1 .. Len(scopes) :
                 ~(objs[h].scope < k)
                   => NotAfter(scopes[k].page, scopes[k].top,
                               objs[h].page, objs[h].start)
        BY DEF Inv, ScopesProtectOlder
      <4> QED
        BY <4>1, <4>2, <4>3
    <3>2. CASE g # h
      BY <1>4, <3>2 DEF Inv, ScopesProtectOlder
    <3> QED
      BY <3>1, <3>2
  <2> QED
    BY <2>1, <2>2 DEF Inv, ScopesProtectOlder, NotAfter, End
<1> QED
  BY <1>2, <1>5, <1>6, <1>7 DEF Inv

(* Forgetting blocks keeps the invariant. *)
LEMMA FewerBlocksKeepsInv ==
  ASSUME Inv, TypeOK', UNCHANGED <<pages, cur, top, scopes>>,
         \A g \in Live' : g \in Live /\ objs'[g] = objs[g]
  PROVE  Inv'
<1>1. PagesLong'
  BY DEF Inv, PagesLong
<1>2. BlocksInside'
  BY DEF Inv, BlocksInside, End
<1>3. BlocksDisjoint'
  BY DEF Inv, BlocksDisjoint, End
<1>4. ScopesProtectOlder'
  BY DEF Inv, ScopesProtectOlder, End, NotAfter
<1> QED
  BY <1>1, <1>2, <1>3, <1>4 DEF Inv

(* Everything is before the snapshot a new scope takes. *)
LEMMA OpenScopeKeepsInv ==
  ASSUME Inv, OpenScope
  PROVE  Inv'
<1>1. TypeOK /\ cur \in Nat /\ top \in Nat /\ scopes \in Seq(Snapshot)
      /\ UNCHANGED <<pages, cur, top, used, total, objs, heap, closes, status>>
  BY DEF Inv, TypeOK, OpenScope
<1>2. PICK s : s = [page |-> cur, top |-> top]
  OBVIOUS
<1>3. s \in Snapshot /\ s.page = cur /\ s.top = top /\ scopes' = Append(scopes, s)
  BY <1>1, <1>2 DEF Snapshot, OpenScope
<1>4. PICK n : n = Len(scopes)
  OBVIOUS
<1>5. /\ n \in Nat /\ Len(scopes') = n + 1 /\ scopes' \in Seq(Snapshot)
      /\ \A k \in 1 .. n : scopes'[k] = scopes[k]
      /\ scopes'[n + 1] = s
  BY <1>1, <1>3, <1>4, LenProperties, AppendProperties
<1>6. TypeOK'
  BY <1>1, <1>5 DEF TypeOK
<1>7. PagesLong'
  BY <1>1 DEF Inv, PagesLong
<1>8. BlocksInside'
  BY <1>1 DEF Inv, BlocksInside, Live, End
<1>9. BlocksDisjoint'
  BY <1>1 DEF Inv, BlocksDisjoint, Live, End
<1>10. ScopesProtectOlder'
  <2>1. /\ cur \in 1 .. cur /\ top \in PageHeaderSize .. pages[cur].size
        /\ cur >= 1
    BY <1>1 DEF Inv, BlocksInside
  <2>2. ASSUME NEW g \in Live
        PROVE  /\ objs[g].scope \in Nat /\ objs[g].scope <= n
               /\ NotAfter(objs[g].page, End(objs[g]), cur, top)
    <3>1. objs[g].scope \in Nat /\ objs[g].page \in Nat /\ End(objs[g]) \in Nat
      BY <1>1, LiveBlocks, BlockTypes
    <3>2. objs[g].scope <= n
      BY <1>4 DEF Inv, ScopesProtectOlder
    <3>3. objs[g].page \in 1 .. cur /\ (objs[g].page = cur => End(objs[g]) <= top)
      BY DEF Inv, BlocksInside
    <3> QED
      BY <1>1, <3>1, <3>2, <3>3 DEF NotAfter
  <2>3. ASSUME NEW k \in 1 .. n
        PROVE  /\ scopes[k].page \in 1 .. cur
               /\ NotAfter(scopes[k].page, scopes[k].top, cur, top)
    <3>1. /\ scopes[k].page \in 1 .. cur
          /\ scopes[k].page = cur => scopes[k].top <= top
      BY <1>4 DEF Inv, ScopesProtectOlder
    <3>2. scopes[k].page \in Nat /\ scopes[k].top \in Nat
      BY <1>1, <1>4, Types
    <3> QED
      BY <1>1, <3>1, <3>2 DEF NotAfter
  <2>4. ASSUME NEW g \in Live PROVE objs[g].scope <= n + 1
    BY <1>5, <2>2
  <2>5. ASSUME NEW k \in 1 .. n + 1
        PROVE  /\ scopes'[k].page \in 1 .. cur
               /\ scopes'[k].top \in PageHeaderSize .. pages[scopes'[k].page].size
               /\ scopes'[k].page = cur => scopes'[k].top <= top
               /\ \A i \in 1 .. k - 1 :
                    NotAfter(scopes'[i].page, scopes'[i].top,
                             scopes'[k].page, scopes'[k].top)
               /\ \A g \in Live :
                    IF objs[g].scope < k
                      THEN NotAfter(objs[g].page, End(objs[g]),
                                    scopes'[k].page, scopes'[k].top)
                      ELSE NotAfter(scopes'[k].page, scopes'[k].top,
                                    objs[g].page, objs[g].start)
    <3>1. CASE k = n + 1
      <4>1. scopes'[k].page = cur /\ scopes'[k].top = top
        BY <1>3, <1>5, <3>1
      <4>2. \A i \in 1 .. k - 1 : i \in 1 .. n /\ scopes'[i] = scopes[i]
        BY <1>5, <3>1
      <4>3. \A g \in Live : objs[g].scope < k
        BY <1>5, <2>2, <3>1
      <4> QED
        BY <1>1, <2>1, <2>2, <2>3, <4>1, <4>2, <4>3
    <3>2. CASE k # n + 1
      <4>1. k \in 1 .. n /\ k \in Nat
        BY <1>5, <3>2
      <4>2. scopes'[k] = scopes[k] /\ \A i \in 1 .. k - 1 : scopes'[i] = scopes[i]
        BY <1>5, <4>1
      <4> QED
        BY <1>4, <4>1, <4>2 DEF Inv, ScopesProtectOlder
    <3> QED
      BY <3>1, <3>2
  <2> QED
    BY <1>1, <1>5, <2>4, <2>5 DEF ScopesProtectOlder, Live, End, NotAfter
<1> QED
  BY <1>6, <1>7, <1>8, <1>9, <1>10 DEF Inv
(* Cutting back to the innermost snapshot leaves the older blocks, all of  *)
(* them below it, and the outer snapshots, none of them beyond it.         *)
LEMMA CloseScopeKeepsInv ==
  ASSUME Inv, CloseScope
  PROVE  Inv'
<1>1. TypeOK /\ cur \in Nat /\ top \in Nat /\ scopes \in Seq(Snapshot)
      /\ UNCHANGED <<pages, used, total, heap, status>> /\ closes' = TRUE
  BY DEF Inv, TypeOK, CloseScope
<1>2. PICK n : n = Len(scopes)
  OBVIOUS
<1>3. n \in Nat /\ n > 0 /\ n \in 1 .. n
  BY <1>1, <1>2, Types DEF CloseScope
<1>4. PICK s : s = scopes[n]
  OBVIOUS
<1>5. /\ cur' = s.page /\ top' = s.top /\ scopes' = SubSeq(scopes, 1, n - 1)
      /\ objs' = [h \in Handles |-> IF h \in Live /\ objs[h].scope = n
                                       THEN NoBlock ELSE objs[h]]
  BY <1>2, <1>4 DEF CloseScope
<1>6. /\ s.page \in Nat /\ s.top \in Nat /\ s.page \in 1 .. cur
      /\ s.top \in PageHeaderSize .. pages[s.page].size
      /\ s.page = cur => s.top <= top
  BY <1>1, <1>2, <1>3, <1>4, Types DEF Inv, ScopesProtectOlder
<1>7. /\ scopes' \in Seq(Snapshot) /\ Len(scopes') = n - 1
      /\ \A k \in 1 .. n - 1 : scopes'[k] = scopes[k]
  <2>1. \A i \in 1 .. n - 1 : scopes[i] \in Snapshot
    BY <1>1, <1>2, <1>3, ElementOfSeq
  <2> QED
    BY <1>1, <1>2, <1>3, <1>5, <2>1, SubSeqProperties
<1>8. ASSUME NEW g \in Live'
      PROVE  /\ g \in Live /\ objs'[g] = objs[g] /\ objs[g].scope <= n - 1
             /\ objs[g].page \in Nat /\ End(objs[g]) \in Nat
             /\ objs[g].scope \in Nat
             /\ NotAfter(objs[g].page, End(objs[g]), s.page, s.top)
  <2>1. g \in Live /\ objs'[g] = objs[g] /\ objs[g].scope # n
    BY <1>5 DEF Live
  <2>2. objs[g].scope \in Nat /\ objs[g].page \in Nat /\ End(objs[g]) \in Nat
    BY <1>1, <2>1, LiveBlocks, BlockTypes
  <2>3. objs[g].scope <= n
    BY <1>2, <2>1 DEF Inv, ScopesProtectOlder
  <2>4. objs[g].scope < n /\ objs[g].scope <= n - 1
    BY <1>3, <2>1, <2>2, <2>3
  <2>5. NotAfter(objs[g].page, End(objs[g]), s.page, s.top)
    BY <1>2, <1>3, <1>4, <2>1, <2>4 DEF Inv, ScopesProtectOlder
  <2> QED
    BY <2>1, <2>2, <2>4, <2>5
<1>9. TypeOK'
  BY <1>1, <1>5, <1>6, <1>7 DEF TypeOK
<1>10. PagesLong'
  BY <1>1 DEF Inv, PagesLong
<1>11. cur <= Len(pages) /\ cur \in 1 .. Len(pages) /\ Len(pages) \in Nat
  BY <1>1, Types DEF Inv, BlocksInside
<1>12. BlocksInside'
  <2>1. cur' \in 1 .. Len(pages') /\ top' \in PageHeaderSize .. pages'[cur'].size
    BY <1>1, <1>5, <1>6, <1>11
  <2>2. ASSUME NEW g \in Live'
        PROVE  /\ objs'[g].page \in 1 .. s.page
               /\ PageHeaderSize <= objs'[g].start
               /\ objs'[g].start + HeaderSize <= objs'[g].p
               /\ End(objs'[g]) <= IF objs'[g].page = s.page THEN s.top
                                     ELSE pages[objs'[g].page].size
    <3>1. /\ objs[g].page \in 1 .. cur
          /\ PageHeaderSize <= objs[g].start
          /\ objs[g].start + HeaderSize <= objs[g].p
          /\ objs[g].page # cur => End(objs[g]) <= pages[objs[g].page].size
      BY <1>8 DEF Inv, BlocksInside
    <3>2. NotAfter(objs[g].page, End(objs[g]), s.page, s.top) /\ objs'[g] = objs[g]
          /\ objs[g].page \in Nat /\ End(objs[g]) \in Nat
      BY <1>8
    <3> QED
      BY <1>1, <1>6, <3>1, <3>2 DEF NotAfter
  <2>3. pages' = pages /\ cur' = s.page /\ top' = s.top
    BY <1>1, <1>5
  <2> QED
    BY <2>1, <2>2, <2>3 DEF BlocksInside, End
<1>13. BlocksDisjoint'
  BY <1>8 DEF Inv, BlocksDisjoint, End
<1>14. ScopesProtectOlder'
  <2>1. ASSUME NEW k \in 1 .. n - 1
        PROVE  /\ scopes'[k] = scopes[k] /\ k \in 1 .. Len(scopes) /\ k \in 1 .. n - 1
               /\ \A i \in 1 .. k - 1 : scopes'[i] = scopes[i]
    BY <1>2, <1>3, <1>7
  <2>2. ASSUME NEW k \in 1 .. n - 1
        PROVE  /\ scopes[k].page \in 1 .. s.page
               /\ scopes[k].page = s.page => scopes[k].top <= s.top
    <3>1. NotAfter(scopes[k].page, scopes[k].top, s.page, s.top)
      BY <1>2, <1>3, <1>4 DEF Inv, ScopesProtectOlder
    <3>2. scopes[k].page \in Nat /\ scopes[k].top \in Nat /\ scopes[k].page >= 1
      BY <1>1, <2>1, Types DEF Inv, ScopesProtectOlder
    <3> QED
      BY <1>6, <3>1, <3>2 DEF NotAfter
  <2>3. ASSUME NEW k \in 1 .. n - 1
        PROVE  /\ scopes'[k].page \in 1 .. s.page
               /\ scopes'[k].top \in PageHeaderSize .. pages[scopes'[k].page].size
               /\ scopes'[k].page = s.page => scopes'[k].top <= s.top
               /\ \A i \in 1 .. k - 1 :
                    NotAfter(scopes'[i].page, scopes'[i].top,
                             scopes'[k].page, scopes'[k].top)
               /\ \A g \in Live' :
                    IF objs'[g].scope < k
                      THEN NotAfter(objs'[g].page, End(objs'[g]),
                                    scopes'[k].page, scopes'[k].top)
                      ELSE NotAfter(scopes'[k].page, scopes'[k].top,
                                    objs'[g].page, objs'[g].start)
    <3>1. /\ scopes[k].top \in PageHeaderSize .. pages[scopes[k].page].size
          /\ \A i \in 1 .. k - 1 : NotAfter(scopes[i].page, scopes[i].top,
                                             scopes[k].page, scopes[k].top)
          /\ \A g \in Live :
               IF objs[g].scope < k
                 THEN NotAfter(objs[g].page, End(objs[g]), scopes[k].page, scopes[k].top)
                 ELSE NotAfter(scopes[k].page, scopes[k].top, objs[g].page, objs[g].start)
      BY <2>1 DEF Inv, ScopesProtectOlder
    <3> QED
      BY <1>8, <2>1, <2>2, <3>1
  <2> QED
    BY <1>1, <1>5, <1>7, <1>8, <2>3 DEF ScopesProtectOlder, End, NotAfter
<1> QED
  BY <1>9, <1>10, <1>12, <1>13, <1>14 DEF Inv

(* Resizing the block at the top.                                          *)
LEMMA ReallocInPlaceKeepsInv ==
  ASSUME Inv, NEW h \in Handles, NEW size \in Nat \ {0}, ReallocInPlace(h, size)
  PROVE  Inv'
<1>1. /\ h \in Live /\ objs[h].scope = Len(scopes) /\ AtTop(h)
      /\ size <= pages[cur].size - top
      /\ UNCHANGED <<pages, cur, total, heap, scopes, closes, status>>
      /\ used' = used + size - objs[h].size /\ top' = objs[h].p + size
      /\ objs' = [objs EXCEPT ![h].size = size]
  <2>1. ~(size > pages[cur].size - top)
    BY DEF ReallocInPlace, MustMove
  <2>2. pages[cur].size \in Nat /\ top \in Nat
    BY TopBlock DEF ReallocInPlace, Reachable
  <2> QED
    BY <2>1, <2>2 DEF ReallocInPlace, Reachable, book
<1>2. TypeOK /\ objs \in [Handles -> Block \cup {NoBlock}]
  BY DEF Inv, TypeOK
<1>3. PICK b : b = [objs[h] EXCEPT !.size = size]
  OBVIOUS
<1>4. objs[h] \in Block
  BY <1>1, <1>2, LiveBlocks
<1>5. /\ b \in Block /\ b.page = objs[h].page /\ b.start = objs[h].start
      /\ b.p = objs[h].p /\ b.scope = objs[h].scope /\ b.size = size
  BY <1>3, <1>4 DEF Block
<1>6. objs' = [objs EXCEPT ![h] = b]
  BY <1>1, <1>2, <1>3
<1>7. /\ objs[h].start \in Nat /\ objs[h].p \in Nat /\ HeaderSize \in Nat
      /\ objs[h].start + HeaderSize <= objs[h].p
      /\ objs[h].p < top /\ top \in Nat /\ pages[cur].size \in Nat
      /\ objs[h].page = cur
  BY <1>1, TopBlock
<1>8. End(b) = top' /\ top' \in Nat /\ objs[h].start <= top'
      /\ top' <= pages[cur].size
  <2>1. End(b) = objs[h].p + size
    BY <1>5 DEF End
  <2>2. top' = objs[h].p + size /\ size <= pages[cur].size - top
    BY <1>1
  <2> QED
    BY <1>7, <2>1, <2>2
<1>9. used' \in Int
  <2>1. used \in Int /\ objs[h].size \in Int
    BY <1>2, <1>4, BlockTypes DEF TypeOK
  <2> QED
    BY <1>1, <2>1
<1>10. TypeOK'
  <2>1. objs' \in [Handles -> Block \cup {NoBlock}]
    BY <1>2, <1>5, <1>6
  <2> QED
    BY <1>1, <1>2, <1>8, <1>9, <2>1 DEF TypeOK
<1>11. \A g \in Live' : g # h => g \in Live /\ objs'[g] = objs[g]
  BY <1>2, <1>6 DEF Live
<1>12. objs'[h] = b
  BY <1>2, <1>6
<1> QED
  BY <1>1, <1>5, <1>7, <1>8, <1>10, <1>11, <1>12, TopMovesKeepsInv

(* Freeing the block at the top. *)
LEMMA FreeTopKeepsInv ==
  ASSUME Inv, NEW h \in Handles, FreeTop(h)
  PROVE  Inv'
<1>1. /\ h \in Live /\ objs[h].scope = Len(scopes) /\ AtTop(h)
      /\ UNCHANGED <<pages, cur, total, heap, scopes, closes, status>>
      /\ used' = used - (objs[h].size + (objs[h].p - objs[h].start))
      /\ top' = objs[h].start
      /\ objs' = [objs EXCEPT ![h] = NoBlock]
  BY DEF FreeTop, Reachable, book
<1>2. TypeOK /\ objs \in [Handles -> Block \cup {NoBlock}]
  BY DEF Inv, TypeOK
<1>3. /\ objs[h].start \in Nat /\ objs[h].p \in Nat /\ HeaderSize \in Nat
      /\ objs[h].start + HeaderSize <= objs[h].p
      /\ objs[h].p < top /\ top \in Nat /\ pages[cur].size \in Nat
      /\ top <= pages[cur].size /\ objs[h] \in Block
  BY <1>1, TopBlock
<1>4. top' \in Nat /\ objs[h].start <= top' /\ top' <= pages[cur].size
  BY <1>1, <1>3
<1>5. used' \in Int
  <2>1. used \in Int /\ objs[h].size \in Int
    BY <1>2, <1>3, BlockTypes DEF TypeOK
  <2> QED
    BY <1>1, <1>3, <2>1
<1>6. TypeOK'
  <2>1. objs' \in [Handles -> Block \cup {NoBlock}]
    BY <1>1, <1>2
  <2> QED
    BY <1>1, <1>2, <1>4, <1>5, <2>1 DEF TypeOK
<1>7. \A g \in Live' : g # h => g \in Live /\ objs'[g] = objs[g]
  BY <1>1, <1>2 DEF Live
<1>8. h \notin Live'
  BY <1>1, <1>2 DEF Live
<1> QED
  BY <1>1, <1>4, <1>6, <1>7, <1>8, TopMovesKeepsInv

-----------------------------------------------------------------------------
(* A new allocator has one empty page and no block, which satisfies it. *)
LEMMA InitInv == Init => Inv
<1> SUFFICES ASSUME Init PROVE Inv
  OBVIOUS
<1>1. PICK base \in Bases : pages = <<[base |-> base, size |-> FirstPageSize]>>
  BY DEF Init
<1>2. /\ FirstPageSize \in Nat /\ PageHeaderSize \in Nat /\ base \in Nat
      /\ PageHeaderSize <= FirstPageSize
  BY SizesAssumption
<1>3. PICK page : page = [base |-> base, size |-> FirstPageSize]
  OBVIOUS
<1>4. page \in Page /\ page.size = FirstPageSize /\ pages = <<page>>
  BY <1>1, <1>2, <1>3 DEF Page
<1>5. pages \in Seq(Page) /\ Len(pages) = 1 /\ pages[1] = page
  BY <1>4
<1>6. Live = {} /\ scopes = <<>>
  BY DEF Init, Live
<1>7. TypeOK
  <2>1. scopes \in Seq(Snapshot)
    BY <1>6, EmptySeq
  <2>2. objs \in [Handles -> Block \cup {NoBlock}]
    BY DEF Init
  <2>3. /\ cur \in Nat /\ top \in Nat /\ used \in Int /\ total \in Nat
        /\ heap \in Int /\ status \in {"ready", "crashed", "destroyed"}
    BY <1>2 DEF Init
  <2>4. closes \in BOOLEAN
    BY DEF Init
  <2> QED
    BY <1>5, <2>1, <2>2, <2>3, <2>4 DEF TypeOK
<1>8. PagesLong
  BY <1>2, <1>4, <1>5 DEF PagesLong
<1>9. BlocksInside
  BY <1>2, <1>4, <1>5, <1>6 DEF Init, BlocksInside
<1>10. BlocksDisjoint
  BY <1>6 DEF BlocksDisjoint
<1>11. ScopesProtectOlder
  BY <1>6 DEF ScopesProtectOlder
<1> QED
  BY <1>7, <1>8, <1>9, <1>10, <1>11 DEF Inv
(* Every step keeps the invariant. *)
LEMMA NextInv == Inv /\ [Next]_vars => Inv'
<1> SUFFICES ASSUME Inv, [Next]_vars PROVE Inv'
  OBVIOUS
<1> USE SizesAssumption
<1>1. TypeOK
  BY DEF Inv
<1>2. ASSUME NEW h \in Handles, NEW size \in Nat \ {0}, NEW a \in Nat \ {0},
             Allocate(h, size, a), UNCHANGED book
      PROVE  Inv'
  <2>1. /\ ChainGrows
        /\ used' \in Int /\ total' \in Nat /\ heap' \in Int
    BY <1>2, AllocatePlaces
  <2>2. PICK j, b : PlacedIn(j, b) /\ TakeFrom(h, b)
    BY <1>2, AllocatePlaces
  <2>3. RestTyped
    BY <1>1, <1>2, <2>1 DEF RestTyped, book, TypeOK
  <2> QED
    BY <2>1, <2>2, <2>3, NewBlockKeepsInv
<1>3. ASSUME NEW h \in Handles, NEW size \in Sizes, NEW a \in Alignments,
             AlignedAlloc(h, size, a)
      PROVE  Inv'
  BY <1>2, <1>3 DEF AlignedAlloc
<1>4. ASSUME NEW size \in Sizes, NEW a \in Alignments, AlignedAllocFails(size, a)
      PROVE  Inv'
  BY <1>1, <1>4, MallocFailsKeepsInv DEF AlignedAllocFails, book, TypeOK
<1>5. ASSUME NEW h \in Handles, NEW size \in Sizes, ReallocMoves(h, size)
      PROVE  Inv'
  <2>1. objs[h].align \in Nat \ {0}
    BY <1>1, <1>5, LiveBlocks DEF ReallocMoves, Reachable, Block
  <2> QED
    BY <1>2, <1>5, <2>1 DEF ReallocMoves
<1>6. ASSUME NEW h \in Handles, NEW size \in Sizes, ReallocCrashes(h, size)
      PROVE  Inv'
  BY <1>6, MallocFailsKeepsInv DEF ReallocCrashes
<1>7. ASSUME NEW h \in Handles, NEW size \in Sizes, ReallocInPlace(h, size)
      PROVE  Inv'
  BY <1>7, ReallocInPlaceKeepsInv
<1>8. ASSUME UNCHANGED <<pages, cur, top, objs, scopes, closes, status>>,
             used' \in Int, total' \in Nat, heap' \in Int
      PROVE  Inv'
  <2>1. TypeOK'
    BY <1>1, <1>8 DEF TypeOK
  <2> QED
    BY <1>8, <2>1, FewerBlocksKeepsInv DEF Live
<1>9. ASSUME NEW h \in Handles, NEW size \in Sizes, ReallocIgnored(h, size)
      PROVE  Inv'
  BY <1>1, <1>8, <1>9 DEF ReallocIgnored, book, TypeOK
<1>10. ASSUME NEW h \in Handles, FreeTop(h)
       PROVE  Inv'
  BY <1>10, FreeTopKeepsInv
<1>11. ASSUME NEW h \in Handles, FreeIgnored(h)
       PROVE  Inv'
  <2>1. /\ UNCHANGED <<pages, cur, top, used, total, heap, scopes, closes, status>>
        /\ objs' = [objs EXCEPT ![h] = NoBlock]
    BY <1>11 DEF FreeIgnored, book
  <2>2. TypeOK'
    BY <1>1, <2>1 DEF TypeOK
  <2>3. \A g \in Live' : g \in Live /\ objs'[g] = objs[g]
    BY <1>1, <2>1 DEF Live, TypeOK
  <2> QED
    BY <2>1, <2>2, <2>3, FewerBlocksKeepsInv
<1>12. CASE OpenScope
  BY <1>12, OpenScopeKeepsInv
<1>13. CASE CloseScope
  BY <1>13, CloseScopeKeepsInv
<1>14. CASE Destroy
  <2>1. /\ UNCHANGED <<pages, cur, top, used, total, scopes, closes>>
        /\ heap' = heap - (Len(pages) - 1) /\ status' = "destroyed"
        /\ objs' = [h \in Handles |-> NoBlock]
    BY <1>14 DEF Destroy
  <2>2. heap' \in Int
    BY <1>1, <2>1, Types DEF TypeOK
  <2>3. TypeOK'
    BY <1>1, <2>1, <2>2 DEF TypeOK
  <2>4. Live' = {}
    BY <2>1 DEF Live
  <2> QED
    BY <2>1, <2>3, <2>4, FewerBlocksKeepsInv
<1>15. CASE UNCHANGED vars
  BY <1>1, <1>8, <1>15 DEF vars, TypeOK
<1> QED
  BY <1>3, <1>4, <1>5, <1>6, <1>7, <1>9, <1>10, <1>11, <1>12, <1>13, <1>14, <1>15
     DEF Next

(* The inductive invariant holds in every reachable state. *)
THEOREM Invariance == Spec => []Inv
<1> QED
  BY InitInv, NextInv, PTL DEF Spec

(* The allocator's fields keep their types. *)
THEOREM TypeCorrect == Spec => []TypeOK
<1>1. Inv => TypeOK
  BY DEF Inv
<1> QED
  BY <1>1, Invariance, PTL

(* m_top stays in the current page and every block a caller holds in its   *)
(* own page, below m_top.                                                  *)
THEOREM BlocksStayInside == Spec => []BlocksInside
<1>1. Inv => BlocksInside
  BY DEF Inv
<1> QED
  BY <1>1, Invariance, PTL

(* Two blocks held at the same time never share a byte. *)
THEOREM BlocksStayDisjoint == Spec => []BlocksDisjoint
<1>1. Inv => BlocksDisjoint
  BY DEF Inv
<1> QED
  BY <1>1, Invariance, PTL

(* Closing a scope can never take a block that is older than the scope. *)
THEOREM ScopesAreSafe == Spec => []ScopesProtectOlder
<1>1. Inv => ScopesProtectOlder
  BY DEF Inv
<1> QED
  BY <1>1, Invariance, PTL
-----------------------------------------------------------------------------
(* Alignment. *)

(* Blocks that survive a step keep their page and their pointer, so only   *)
(* new blocks matter, and those are carved aligned.                        *)
LEMMA NextAligned == Inv /\ PointersAligned /\ [Next]_vars => PointersAligned'
<1> SUFFICES ASSUME Inv, PointersAligned, [Next]_vars PROVE PointersAligned'
  OBVIOUS
<1> USE SizesAssumption
<1>1. /\ TypeOK /\ objs \in [Handles -> Block \cup {NoBlock}]
      /\ \A g \in Live : objs[g].page \in 1 .. Len(pages)
  <2>1. TypeOK /\ cur \in Nat /\ Len(pages) \in Nat
    BY Types DEF Inv
  <2>2. ASSUME NEW g \in Live PROVE objs[g].page \in 1 .. Len(pages)
    <3>1. objs[g].page \in 1 .. cur /\ cur \in 1 .. Len(pages)
      BY DEF Inv, BlocksInside
    <3> QED
      BY <2>1, <3>1
  <2> QED
    BY <2>1, <2>2 DEF TypeOK
<1>2. ASSUME NEW h \in Handles, NEW size \in Nat \ {0}, NEW a \in Nat \ {0},
             Allocate(h, size, a)
      PROVE  PointersAligned'
  <2>1. ChainGrows
    BY <1>2, AllocatePlaces
  <2>2. PICK j, b : PlacedIn(j, b) /\ TakeFrom(h, b)
    BY <1>2, AllocatePlaces
  <2>3. /\ AddressAligned(pages'[j], b) /\ b.page = j /\ b \in Block
        /\ objs' = [objs EXCEPT ![h] = b]
    BY <2>2 DEF PlacedIn, TakeFrom
  <2>4. ASSUME NEW g \in Live'
        PROVE  AddressAligned(pages'[objs'[g].page], objs'[g])
    <3>1. CASE g = h
      BY <1>1, <2>3, <3>1
    <3>2. CASE g # h
      <4>1. g \in Live /\ objs'[g] = objs[g]
        BY <1>1, <2>3, <3>2 DEF Live
      <4>2. pages'[objs[g].page] = pages[objs[g].page]
        BY <1>1, <2>1, <4>1 DEF ChainGrows
      <4> QED
        BY <4>1, <4>2 DEF PointersAligned
    <3> QED
      BY <3>1, <3>2
  <2> QED
    BY <2>4 DEF PointersAligned, AddressAligned
<1>3. ASSUME UNCHANGED pages,
             \A g \in Live' : /\ g \in Live
                              /\ objs'[g].page = objs[g].page
                              /\ objs'[g].p = objs[g].p
                              /\ objs'[g].align = objs[g].align
      PROVE  PointersAligned'
  BY <1>3 DEF PointersAligned, AddressAligned
<1>4. ASSUME NEW h \in Handles, NEW size \in Sizes, NEW a \in Alignments,
             AlignedAlloc(h, size, a)
      PROVE  PointersAligned'
  BY <1>2, <1>4 DEF AlignedAlloc
<1>5. ASSUME NEW h \in Handles, NEW size \in Sizes, ReallocMoves(h, size)
      PROVE  PointersAligned'
  <2>1. objs[h].align \in Nat \ {0}
    BY <1>1, <1>5, LiveBlocks DEF ReallocMoves, Reachable, Block
  <2> QED
    BY <1>2, <1>5, <2>1 DEF ReallocMoves
<1>6. ASSUME NEW size, NEW a, MallocFails(size, a)
      PROVE  PointersAligned'
  BY <1>3, <1>6 DEF MallocFails, Live
<1>7. ASSUME NEW h \in Handles, NEW size \in Sizes, ReallocInPlace(h, size)
      PROVE  PointersAligned'
  <2>1. UNCHANGED pages /\ objs' = [objs EXCEPT ![h].size = size] /\ h \in Live
    BY <1>7 DEF ReallocInPlace, Reachable
  <2>2. objs[h] \in Block
    BY <1>1, <2>1, LiveBlocks
  <2>3. ASSUME NEW g \in Live'
        PROVE  /\ g \in Live
               /\ objs'[g].page = objs[g].page
               /\ objs'[g].p = objs[g].p
               /\ objs'[g].align = objs[g].align
    <3>1. CASE g = h
      BY <1>1, <2>1, <2>2, <3>1 DEF Block
    <3>2. CASE g # h
      BY <1>1, <2>1, <3>2 DEF Live
    <3> QED
      BY <3>1, <3>2
  <2> QED
    BY <1>3, <2>1, <2>3
<1>8. ASSUME NEW h \in Handles, FreeTop(h) \/ FreeIgnored(h)
      PROVE  PointersAligned'
  <2>1. UNCHANGED pages /\ objs' = [objs EXCEPT ![h] = NoBlock]
    BY <1>8 DEF FreeTop, FreeIgnored
  <2> QED
    BY <1>1, <1>3, <2>1 DEF Live
<1>9. CASE CloseScope
  BY <1>3, <1>9 DEF CloseScope, Live
<1>10. CASE Destroy
  BY <1>3, <1>10 DEF Destroy, Live
<1>11. CASE UNCHANGED <<pages, objs>>
  BY <1>3, <1>11 DEF Live
<1>12. CASE Next
  BY <1>4, <1>5, <1>6, <1>7, <1>8, <1>9, <1>10, <1>11, <1>12
     DEF Next, AlignedAllocFails, ReallocCrashes, ReallocIgnored, OpenScope
<1>13. CASE UNCHANGED vars
  BY <1>11, <1>13 DEF vars
<1> QED
  BY <1>12, <1>13

(* Every pointer handed out is a multiple of its alignment, whatever the   *)
(* addresses malloc returns.                                               *)
THEOREM PointersStayAligned == Spec => []PointersAligned
<1>1. Init => PointersAligned
  BY DEF Init, PointersAligned, Live
<1> QED
  BY <1>1, Invariance, NextAligned, PTL DEF Spec

(* Between two calls what the allocator hands out is a caller's own, inside *)
(* a page, and aligned.                                                    *)
THEOREM StaysWellFormed == Spec => []WellFormed
<1>1. TypeOK /\ BlocksInside /\ BlocksDisjoint /\ PointersAligned => WellFormed
  BY DEF WellFormed
<1> QED
  BY <1>1, TypeCorrect, BlocksStayInside, BlocksStayDisjoint, PointersStayAligned, PTL

-----------------------------------------------------------------------------
(* Accounting. *)

(* An allocation links as many pages as it takes from malloc, and without  *)
(* closed scopes it charges exactly what it occupies.                      *)
LEMMA AllocateAccounts ==
  ASSUME Inv, NEW h \in Handles, NEW size \in Nat \ {0}, NEW a \in Nat \ {0},
         Allocate(h, size, a)
  PROVE  /\ heap = Len(pages) - 1 => heap' = Len(pages') - 1
         /\ cur = Len(pages) /\ used = total - (pages[cur].size - top)
              => cur' = Len(pages') /\ used' = total' - (pages'[cur'].size - top')
<1>1. /\ TypeOK /\ pages \in Seq(Page) /\ used \in Int /\ total \in Int
      /\ heap \in Int /\ cur \in Nat /\ top \in Nat /\ Len(pages) \in Nat
      /\ cur \in 1 .. Len(pages) /\ pages[cur].size \in Nat
      /\ PageHeaderSize \in Nat
  BY Types DEF Inv, BlocksInside, TypeOK
<1>2. PICK j : /\ j \in cur .. Len(pages)
               /\ WalkStops(j, size, a)
               /\ (UsePage(h, size, a, j) \/ AppendPage(h, size, a, j))
  BY DEF Allocate
<1>3. CASE UsePage(h, size, a, j)
  <2>1. PICK b : b = BlockIn(j, size, a)
    OBVIOUS
  <2>2. /\ TakeFrom(h, b) /\ UNCHANGED <<pages, total, heap>>
        /\ used' = used + (End(b) - b.start)
    BY <1>3, <2>1 DEF UsePage
  <2>3. ASSUME cur = Len(pages)
        PROVE  /\ cur' = Len(pages') /\ cur' = cur
               /\ b.start = top /\ End(b) \in Nat /\ top' = End(b)
    <3>1. j = cur /\ pages[j] \in Page /\ Offset(j) = top
      BY <1>1, <1>2, <2>3, ElementOfSeq DEF Offset
    <3>2. CarvedAt(b, pages[j], j, Offset(j), size, a)
      BY <1>1, <2>1, <3>1, CarveShape DEF BlockIn
    <3> QED
      BY <2>2, <2>3, <3>1, <3>2 DEF CarvedAt, TakeFrom
  <2>4. ASSUME cur = Len(pages), used = total - (pages[cur].size - top)
        PROVE  cur' = Len(pages') /\ used' = total' - (pages'[cur'].size - top')
    BY <1>1, <2>2, <2>3, <2>4
  <2> QED
    BY <2>2, <2>4
<1>4. CASE AppendPage(h, size, a, j)
  <2>1. j = Len(pages)
    BY <1>2, <1>4 DEF WalkStops, AppendPage
  <2>2. PICK k : k = j + 1
    OBVIOUS
  <2>3. PICK base \in Bases : \E page, b :
          /\ page = [base |-> base, size |-> NewPageSize(size, a)]
          /\ b = Carve(page, k, PageHeaderSize, size, a)
          /\ pages' = Append(SubSeq(pages, 1, j), page)
          /\ TakeFrom(h, b)
          /\ total' = total + page.size
          /\ used' = used + (pages[j].size - Offset(j)) + PageHeaderSize
                          + (End(b) - b.start)
          /\ heap' = heap + 1
    BY <1>4, <2>2 DEF AppendPage
  <2>4. PICK page, b :
          /\ page = [base |-> base, size |-> NewPageSize(size, a)]
          /\ b = Carve(page, k, PageHeaderSize, size, a)
          /\ pages' = Append(SubSeq(pages, 1, j), page)
          /\ TakeFrom(h, b)
          /\ total' = total + page.size
          /\ used' = used + (pages[j].size - Offset(j)) + PageHeaderSize
                          + (End(b) - b.start)
          /\ heap' = heap + 1
    BY <2>3
  <2>5. page.size \in Nat /\ page \in Page
    <3>1. NewPageSize(size, a) \in Nat /\ base \in Nat
      BY SizesAssumption DEF NewPageSize
    <3> QED
      BY <2>4, <3>1 DEF Page
  <2>6. k \in Nat /\ k = Len(pages) + 1
    BY <1>1, <2>1, <2>2
  <2>7. CarvedAt(b, page, k, PageHeaderSize, size, a)
    <3>1. CarvedAt(Carve(page, k, PageHeaderSize, size, a),
                   page, k, PageHeaderSize, size, a)
      BY <1>1, <2>5, <2>6, CarveShape
    <3> QED
      BY <2>4, <3>1
  <2>8. /\ b.page = k /\ b.start = PageHeaderSize /\ End(b) \in Nat
        /\ cur' = k /\ top' = End(b)
    BY <2>4, <2>7 DEF CarvedAt, TakeFrom
  <2>9. pages' = Append(pages, page)
    BY <1>1, <2>1, <2>4, SubSeqFull
  <2>10. Len(pages') = k /\ pages'[k] = page
    BY <1>1, <2>5, <2>6, <2>9, AppendProperties
  <2>11. heap = Len(pages) - 1 => heap' = Len(pages') - 1
    <3>1. heap' = heap + 1
      BY <2>4
    <3> QED
      BY <1>1, <2>6, <2>10, <3>1
  <2>12. ASSUME cur = Len(pages), used = total - (pages[cur].size - top)
         PROVE  cur' = Len(pages') /\ used' = total' - (pages'[cur'].size - top')
    <3>1. j = cur /\ Offset(j) = top
      BY <2>1, <2>12 DEF Offset
    <3>2. /\ total' = total + page.size
          /\ used' = used + (pages[cur].size - top) + PageHeaderSize
                          + (End(b) - PageHeaderSize)
      BY <2>4, <2>8, <3>1
    <3>3. used' = total + End(b)
      BY <1>1, <2>8, <2>12, <3>2, SMTT(30)
    <3>4. total' - (page.size - End(b)) = total + End(b)
      <4>1. PICK q : q = page.size
        OBVIOUS
      <4>2. q \in Nat /\ total' = total + q
        BY <2>5, <3>2, <4>1
      <4>3. total' - (q - End(b)) = total + End(b)
        BY <1>1, <2>8, <4>2
      <4> QED
        BY <4>1, <4>3
    <3> QED
      BY <2>8, <2>10, <3>3, <3>4
  <2> QED
    BY <2>11, <2>12
<1> QED
  BY <1>2, <1>3, <1>4
(* The other steps leave the chain alone.                                  *)
LEMMA NextKeepsPages ==
  Inv /\ NoPageLeak /\ [Next]_vars => NoPageLeak'
<1> SUFFICES ASSUME Inv, NoPageLeak, [Next]_vars PROVE NoPageLeak'
  OBVIOUS
<1> USE SizesAssumption
<1>1. TypeOK /\ heap \in Int /\ Len(pages) \in Nat
  BY Types DEF Inv, TypeOK
<1>2. ASSUME UNCHANGED <<pages, heap>>,
             status' = status \/ (status = "ready" /\ status' = "crashed")
      PROVE  NoPageLeak'
  BY <1>2 DEF NoPageLeak
<1>3. ASSUME NEW h \in Handles, NEW size \in Nat \ {0}, NEW a \in Nat \ {0},
             Allocate(h, size, a), status = "ready", status' = status
      PROVE  NoPageLeak'
  <2>1. heap = Len(pages) - 1
    BY <1>3 DEF NoPageLeak
  <2>2. heap' = Len(pages') - 1
    BY <1>3, <2>1, AllocateAccounts
  <2> QED
    BY <1>3, <2>2 DEF NoPageLeak
<1>4. ASSUME NEW h \in Handles, NEW size \in Sizes, NEW a \in Alignments,
             AlignedAlloc(h, size, a)
      PROVE  NoPageLeak'
  BY <1>3, <1>4 DEF AlignedAlloc, book
<1>5. ASSUME NEW h \in Handles, NEW size \in Sizes, ReallocMoves(h, size)
      PROVE  NoPageLeak'
  <2>1. objs[h].align \in Nat \ {0}
    BY <1>1, <1>5, LiveBlocks DEF ReallocMoves, Reachable, Block
  <2> QED
    BY <1>3, <1>5, <2>1 DEF ReallocMoves, Reachable, book
<1>6. ASSUME NEW size \in Sizes, NEW a \in Alignments, AlignedAllocFails(size, a)
      PROVE  NoPageLeak'
  BY <1>2, <1>6 DEF AlignedAllocFails, MallocFails, book
<1>7. ASSUME NEW h \in Handles, NEW size \in Sizes, ReallocCrashes(h, size)
      PROVE  NoPageLeak'
  BY <1>2, <1>7 DEF ReallocCrashes, MallocFails, Reachable
<1>8. ASSUME NEW h \in Handles, NEW size \in Sizes,
             ReallocInPlace(h, size) \/ ReallocIgnored(h, size)
      PROVE  NoPageLeak'
  BY <1>2, <1>8 DEF ReallocInPlace, ReallocIgnored, book
<1>9. ASSUME NEW h \in Handles, FreeTop(h) \/ FreeIgnored(h)
      PROVE  NoPageLeak'
  BY <1>2, <1>9 DEF FreeTop, FreeIgnored, book
<1>10. CASE OpenScope \/ CloseScope
  BY <1>2, <1>10 DEF OpenScope, CloseScope
<1>11. CASE Destroy
  <2>1. heap = Len(pages) - 1 /\ heap' = heap - (Len(pages) - 1)
        /\ status' = "destroyed"
    BY <1>11 DEF Destroy, NoPageLeak
  <2> QED
    BY <1>1, <2>1 DEF NoPageLeak
<1>12. CASE UNCHANGED vars
  BY <1>2, <1>12 DEF vars
<1> QED
  BY <1>4, <1>5, <1>6, <1>7, <1>8, <1>9, <1>10, <1>11, <1>12 DEF Next

(* No page from malloc is ever lost from the chain, and destroy returns    *)
(* them all.                                                               *)
THEOREM PagesAreNotLeaked == Spec => []NoPageLeak
<1>1. Init => NoPageLeak
  BY DEF Init, NoPageLeak
<1> QED
  BY <1>1, Invariance, NextKeepsPages, PTL DEF Spec

(* A failed allocation changes nothing when the current page is the last. *)
LEMMA MallocFailsAtEnd ==
  ASSUME TypeOK, cur = Len(pages), NEW size, NEW a, MallocFails(size, a)
  PROVE  UNCHANGED <<pages, cur, top, used, total>>
<1>1. PICK j : j \in cur .. Len(pages) /\ cur' = j /\ top' = Offset(j)
                 /\ UNCHANGED <<pages, used, total>>
  BY DEF MallocFails
<1>2. j = cur
  BY <1>1, Types
<1> QED
  BY <1>1, <1>2 DEF Offset

(* Every step keeps m_used_size exact as long as no scope is closed. *)
LEMMA NextKeepsUsed ==
  Inv /\ UsedExactWithoutScopes /\ [Next]_vars => UsedExactWithoutScopes'
<1> SUFFICES ASSUME Inv, UsedExactWithoutScopes, [Next]_vars, ~closes'
             PROVE  cur' = Len(pages') /\ used' = total' - (pages'[cur'].size - top')
  BY DEF UsedExactWithoutScopes
<1> USE SizesAssumption
<1>1. /\ TypeOK /\ used \in Int /\ total \in Int /\ top \in Int /\ cur \in Nat
      /\ pages[cur].size \in Nat
  BY Types DEF Inv, TypeOK, BlocksInside
<1>2. ~closes /\ cur = Len(pages) /\ used = total - (pages[cur].size - top)
  <2>1. closes' = closes \/ closes' = TRUE
    BY DEF Next, vars, book, AlignedAlloc, AlignedAllocFails, ReallocMoves,
           ReallocCrashes, ReallocInPlace, ReallocIgnored, FreeTop, FreeIgnored,
           OpenScope, CloseScope, Destroy
  <2> QED
    BY <2>1 DEF UsedExactWithoutScopes
<1>3. ASSUME UNCHANGED <<pages, cur, top, used, total>>
      PROVE  cur' = Len(pages') /\ used' = total' - (pages'[cur'].size - top')
  BY <1>2, <1>3
<1>4. ASSUME NEW h \in Handles, NEW size \in Sizes, NEW a \in Alignments,
             AlignedAlloc(h, size, a)
      PROVE  cur' = Len(pages') /\ used' = total' - (pages'[cur'].size - top')
  BY <1>2, <1>4, AllocateAccounts DEF AlignedAlloc
<1>5. ASSUME NEW h \in Handles, NEW size \in Sizes, ReallocMoves(h, size)
      PROVE  cur' = Len(pages') /\ used' = total' - (pages'[cur'].size - top')
  <2>1. objs[h].align \in Nat \ {0}
    BY <1>1, <1>5, LiveBlocks DEF ReallocMoves, Reachable, Block
  <2> QED
    BY <1>2, <1>5, <2>1, AllocateAccounts DEF ReallocMoves
<1>6. ASSUME NEW size, NEW a, MallocFails(size, a)
      PROVE  cur' = Len(pages') /\ used' = total' - (pages'[cur'].size - top')
  BY <1>1, <1>2, <1>3, <1>6, MallocFailsAtEnd
<1>7. ASSUME NEW h \in Handles, NEW size \in Sizes, ReallocInPlace(h, size)
      PROVE  cur' = Len(pages') /\ used' = total' - (pages'[cur'].size - top')
  <2>1. /\ h \in Live /\ AtTop(h) /\ UNCHANGED <<pages, cur, total>>
        /\ used' = used + size - objs[h].size /\ top' = objs[h].p + size
    BY <1>7 DEF ReallocInPlace, Reachable
  <2>2. objs[h] \in Block /\ End(objs[h]) = top
    BY <1>1, <2>1, LiveBlocks DEF AtTop
  <2>3. objs[h].p \in Int /\ objs[h].size \in Int /\ top = objs[h].p + objs[h].size
    BY <2>2, BlockTypes DEF End
  <2>4. /\ cur' = Len(pages') /\ pages'[cur'].size = pages[cur].size
        /\ total' = total
    BY <1>2, <2>1
  <2>5. PICK room : room = pages[cur].size
    OBVIOUS
  <2>6. room \in Int /\ used = total - (room - top) /\ size \in Int
    BY <1>1, <1>2, <2>5
  <2>7. used' = used + size - objs[h].size /\ top' = objs[h].p + size
    BY <2>1
  <2>8. used' = total - (room - top')
    BY <1>1, <2>3, <2>6, <2>7
  <2> QED
    BY <2>4, <2>5, <2>8
<1>8. ASSUME NEW h \in Handles, FreeTop(h)
      PROVE  cur' = Len(pages') /\ used' = total' - (pages'[cur'].size - top')
  <2>1. /\ h \in Live /\ AtTop(h) /\ UNCHANGED <<pages, cur, total>>
        /\ used' = used - (objs[h].size + (objs[h].p - objs[h].start))
        /\ top' = objs[h].start
    BY <1>8 DEF FreeTop, Reachable
  <2>2. objs[h] \in Block /\ End(objs[h]) = top
    BY <1>1, <2>1, LiveBlocks DEF AtTop
  <2>3. /\ objs[h].p \in Int /\ objs[h].size \in Int /\ objs[h].start \in Int
        /\ top = objs[h].p + objs[h].size
    BY <2>2, BlockTypes DEF End
  <2>4. /\ cur' = Len(pages') /\ pages'[cur'].size = pages[cur].size
        /\ total' = total
    BY <1>2, <2>1
  <2>5. PICK room : room = pages[cur].size
    OBVIOUS
  <2>6. room \in Int /\ used = total - (room - top)
    BY <1>1, <1>2, <2>5
  <2>7. /\ used' = used - (objs[h].size + (objs[h].p - objs[h].start))
        /\ top' = objs[h].start
    BY <2>1
  <2>8. used' = total - (room - top')
    BY <1>1, <2>3, <2>6, <2>7
  <2> QED
    BY <2>4, <2>5, <2>8
<1>9. ASSUME NEW h \in Handles, NEW size \in Sizes, ReallocIgnored(h, size)
      PROVE  cur' = Len(pages') /\ used' = total' - (pages'[cur'].size - top')
  BY <1>3, <1>9 DEF ReallocIgnored
<1>10. ASSUME NEW h \in Handles, FreeIgnored(h)
       PROVE  cur' = Len(pages') /\ used' = total' - (pages'[cur'].size - top')
  BY <1>3, <1>10 DEF FreeIgnored
<1>11. CASE OpenScope \/ Destroy
  BY <1>3, <1>11 DEF OpenScope, Destroy
<1>12. CASE UNCHANGED vars
  BY <1>3, <1>12 DEF vars
<1>13. CASE CloseScope
  BY <1>13 DEF CloseScope
<1> QED
  BY <1>4, <1>5, <1>6, <1>7, <1>8, <1>9, <1>10, <1>11, <1>12, <1>13
     DEF Next, AlignedAllocFails, ReallocCrashes

(* m_used_size stays exact as long as no scope is closed. *)
THEOREM UsedStaysExact == Spec => []UsedExactWithoutScopes
<1>1. Init => UsedExactWithoutScopes
  <2> SUFFICES ASSUME Init PROVE cur = Len(pages) /\ used = total - (pages[cur].size - top)
    BY DEF UsedExactWithoutScopes
  <2>1. PICK base : pages = <<[base |-> base, size |-> FirstPageSize]>>
    BY DEF Init
  <2>2. Len(pages) = 1 /\ pages[1].size = FirstPageSize
    BY <2>1
  <2>3. FirstPageSize \in Nat /\ PageHeaderSize \in Nat
    BY SizesAssumption
  <2> QED
    BY <2>2, <2>3 DEF Init
<1> QED
  BY <1>1, Invariance, NextKeepsUsed, PTL DEF Spec
=============================================================================
