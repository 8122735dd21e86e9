-------------------------- MODULE LinearAllocator --------------------------
(***************************************************************************)
(* Linear_allocator_t and Scope_allocator_t (core/linear_allocator.h and   *)
(* .inl): a chain of pages with one bump pointer, m_top, in the current    *)
(* page.  The first page is an array inside the allocator, the others come *)
(* from malloc.  A scope remembers the current page and m_top when it is   *)
(* constructed and puts both back when it is destroyed; the pages added in *)
(* between stay in the chain and are walked again by later allocations.    *)
(*                                                                         *)
(* A place is a page number and an offset from the start of that page.     *)
(* Only the residue of a page's address matters (it decides the padding),  *)
(* so a page is the record of that residue and its size in bytes.  The     *)
(* Alloc_header_t_ in front of a block is the record kept for its handle.  *)
(*                                                                         *)
(* Obligation of the callers: while a scope is open, only blocks that were *)
(* allocated under it are reallocated or freed.  Every user of a scope in  *)
(* the repository (eins.cpp, png_sample.cpp, dae.cpp) keeps it.            *)
(***************************************************************************)
EXTENDS Integers, Sequences, FiniteSets

CONSTANTS
  Handles,          \* the pointers callers may hold at the same time
  Sizes,            \* sizes callers ask for
  Alignments,       \* alignments callers ask for (powers of two)
  HeaderSize,       \* sizeof(Alloc_header_t_)
  PageHeaderSize,   \* sizeof(Linear_allocator_page_t_)
  FirstPageSize,    \* T_initial_size
  DefaultPageSize,  \* sc_default_page_size
  Bases,            \* residues of the addresses malloc and the loader give pages
  MaxPages,         \* bound: malloc refuses more pages than this
  MaxUsed,          \* bound: no allocation once m_used_size has reached this
  MaxScopes,        \* bound: scopes open at the same time
  NoBlock           \* the value of a handle that points to nothing

ASSUME SizesAssumption ==
  /\ Sizes \subseteq Nat \ {0}
  /\ Alignments \subseteq Nat \ {0}
  /\ Bases \subseteq Nat
  /\ HeaderSize \in Nat /\ PageHeaderSize \in Nat
  /\ FirstPageSize \in Nat /\ PageHeaderSize <= FirstPageSize
  /\ DefaultPageSize \in Nat
  /\ MaxPages \in Nat /\ MaxUsed \in Nat /\ MaxScopes \in Nat

Block == [page : Nat, start : Nat, p : Nat, size : Nat \ {0}, align : Nat \ {0},
          scope : Nat]

Page == [base : Nat, size : Nat]

Snapshot == [page : Nat, top : Nat]

ASSUME NoBlockAssumption == NoBlock \notin Block

VARIABLES
  pages,    \* the chain from m_first_page, in the order of the next pointers
  cur,      \* m_current_page, as an index of pages
  top,      \* m_top, as an offset in that page
  used,     \* m_used_size
  total,    \* m_total_size
  objs,     \* the block each handle points to
  scopes,   \* snapshots of the open scopes, the innermost last
  heap,     \* pages malloc has given and not got back
  closes,   \* whether a scope was ever closed
  status    \* "ready", "crashed" (memcpy to NULL) or "destroyed"

vars == <<pages, cur, top, used, total, objs, scopes, heap, closes, status>>
book == <<scopes, closes, status>>

Live == {h \in Handles : objs[h] # NoBlock}
End(b) == b.p + b.size

(* The order of places in the chain. *)
NotAfter(page1, offset1, page2, offset2) ==
  page1 < page2 \/ (page1 = page2 /\ offset1 <= offset2)

(* align_forward_ on the address of an offset of a page. *)
AlignUp(x, a) == ((x + a - 1) \div a) * a

AlignForward(page, offset, a) == AlignUp(page.base + offset, a) - page.base

(* Where allocation starts in page j: m_top, or the first byte after the   *)
(* page's header once the loop has moved on to j.                          *)
Offset(j) == IF j = cur THEN top ELSE PageHeaderSize

(* The block carved from offset s of a page: header, then aligned bytes.   *)
Carve(page, j, s, size, a) ==
  [page |-> j, start |-> s, p |-> AlignForward(page, s + HeaderSize, a),
   size |-> size, align |-> a, scope |-> Len(scopes)]

BlockIn(j, size, a) == Carve(pages[j], j, Offset(j), size, a)

(* get_current_page_remaning_size_() >= real_size, with j the current page *)
Fits(j, size, a) == End(BlockIn(j, size, a)) <= pages[j].size

(* Mutant: a full page is left for a new one without walking the chain. *)
StopsAtCurrent(j, size, a) == j = cur

(* The loop of aligned_alloc leaves j as the current page: every page      *)
(* before it was too full, and j has room or is the last of the chain.     *)
WalkStops(j, size, a) ==
  /\ \A i \in cur .. j - 1 : ~Fits(i, size, a)
  /\ Fits(j, size, a) \/ j = Len(pages)

NewPageSize(size, a) ==
  LET least == PageHeaderSize + HeaderSize + size + a
  IN  IF least < DefaultPageSize THEN DefaultPageSize ELSE least

TakeFrom(h, b) ==
  /\ cur' = b.page
  /\ top' = End(b)
  /\ objs' = [objs EXCEPT ![h] = b]

(* Room in the chain: page j serves the request. *)
UsePage(h, size, a, j) ==
  LET b == BlockIn(j, size, a) IN
  /\ Fits(j, size, a)
  /\ TakeFrom(h, b)
  /\ used' = used + (End(b) - b.start)
  /\ UNCHANGED <<pages, total, heap>>

(* No room: a page from malloc is linked behind j, the page reached, and   *)
(* the rest of j counts as used.                                           *)
AppendPage(h, size, a, j) ==
  /\ ~Fits(j, size, a)
  /\ heap < MaxPages
  /\ \E base \in Bases :
       LET page == [base |-> base, size |-> NewPageSize(size, a)]
           b == Carve(page, j + 1, PageHeaderSize, size, a)
       IN  /\ pages' = Append(SubSeq(pages, 1, j), page)
           /\ TakeFrom(h, b)
           /\ total' = total + page.size
           /\ used' = used + (pages[j].size - Offset(j)) + PageHeaderSize
                           + (End(b) - b.start)
           /\ heap' = heap + 1

Allocate(h, size, a) ==
  \E j \in cur .. Len(pages) :
    /\ WalkStops(j, size, a)
    /\ UsePage(h, size, a, j) \/ AppendPage(h, size, a, j)

(* malloc returned NULL: the current page has moved to the end all the     *)
(* same.                                                                   *)
MallocFails(size, a) ==
  \E j \in cur .. Len(pages) :
    /\ WalkStops(j, size, a)
    /\ ~Fits(j, size, a)
    /\ cur' = j
    /\ top' = Offset(j)
    /\ UNCHANGED <<pages, used, total, objs, heap>>

Init ==
  /\ \E base \in Bases : pages = <<[base |-> base, size |-> FirstPageSize]>>
  /\ cur = 1
  /\ top = PageHeaderSize
  /\ used = PageHeaderSize
  /\ total = FirstPageSize
  /\ objs = [h \in Handles |-> NoBlock]
  /\ scopes = <<>>
  /\ heap = 0
  /\ closes = FALSE
  /\ status = "ready"

AlignedAlloc(h, size, a) ==
  /\ status = "ready"
  /\ objs[h] = NoBlock
  /\ used < MaxUsed
  /\ Allocate(h, size, a)
  /\ UNCHANGED book

AlignedAllocFails(size, a) ==
  /\ status = "ready"
  /\ MallocFails(size, a)
  /\ UNCHANGED book

(* A caller may touch a block of the innermost scope. *)
Reachable(h) == status = "ready" /\ h \in Live /\ objs[h].scope = Len(scopes)

(* Mutant: the place of the end is compared without its page. *)
AtTopOfAnyPage(h) == End(objs[h]) = top

(* The block ends at m_top, so it is the last one allocated. *)
AtTop(h) == objs[h].page = cur /\ End(objs[h]) = top

(* realloc has to move: a bigger (or equal) block that is not at the top,  *)
(* or a size that the current page has no room for as it stands.           *)
MustMove(h, size) ==
  IF AtTop(h) THEN size > pages[cur].size - top ELSE size >= objs[h].size

ReallocMoves(h, size) ==
  /\ Reachable(h)
  /\ MustMove(h, size)
  /\ used < MaxUsed
  /\ Allocate(h, size, objs[h].align)
  /\ UNCHANGED book

ReallocCrashes(h, size) ==
  /\ Reachable(h)
  /\ MustMove(h, size)
  /\ MallocFails(size, objs[h].align)
  /\ status' = "crashed"
  /\ UNCHANGED <<scopes, closes>>

ReallocInPlace(h, size) ==
  /\ Reachable(h)
  /\ AtTop(h)
  /\ ~MustMove(h, size)
  /\ used' = used + size - objs[h].size
  /\ objs' = [objs EXCEPT ![h].size = size]
  /\ top' = objs[h].p + size
  /\ UNCHANGED <<pages, cur, total, heap, book>>

(* A smaller size for a block that is not at the top: p is returned as is. *)
ReallocIgnored(h, size) ==
  /\ Reachable(h)
  /\ ~AtTop(h)
  /\ ~MustMove(h, size)
  /\ UNCHANGED <<pages, cur, top, used, total, objs, heap, book>>

(* Mutant: the padding and the header stay counted as used. *)
FreeTopSizeOnly(h) ==
  /\ Reachable(h)
  /\ AtTop(h)
  /\ top' = objs[h].start
  /\ used' = used - objs[h].size
  /\ objs' = [objs EXCEPT ![h] = NoBlock]
  /\ UNCHANGED <<pages, cur, total, heap, book>>

FreeTop(h) ==
  /\ Reachable(h)
  /\ AtTop(h)
  /\ top' = objs[h].start
  /\ used' = used - (objs[h].size + (objs[h].p - objs[h].start))
  /\ objs' = [objs EXCEPT ![h] = NoBlock]
  /\ UNCHANGED <<pages, cur, total, heap, book>>

(* Linear_allocator_t::free below the top and Scope_allocator_t::free: the *)
(* caller forgets the pointer, the allocator does nothing.                 *)
FreeIgnored(h) ==
  /\ Reachable(h)
  /\ ~AtTop(h) \/ scopes # <<>>
  /\ objs' = [objs EXCEPT ![h] = NoBlock]
  /\ UNCHANGED <<pages, cur, top, used, total, heap, book>>

(* Mutant: the snapshot remembers the first page. *)
OpenScopeOnFirstPage ==
  /\ status = "ready"
  /\ Len(scopes) < MaxScopes
  /\ scopes' = Append(scopes, [page |-> 1, top |-> top])
  /\ UNCHANGED <<pages, cur, top, used, total, objs, heap, closes, status>>

OpenScope ==
  /\ status = "ready"
  /\ Len(scopes) < MaxScopes
  /\ scopes' = Append(scopes, [page |-> cur, top |-> top])
  /\ UNCHANGED <<pages, cur, top, used, total, objs, heap, closes, status>>

(* Scope_allocator_t::destroy: what was allocated under the scope is dead. *)
CloseScope ==
  LET depth == Len(scopes) IN
  /\ status = "ready"
  /\ depth > 0
  /\ cur' = scopes[depth].page
  /\ top' = scopes[depth].top
  /\ scopes' = SubSeq(scopes, 1, depth - 1)
  /\ objs' = [h \in Handles |-> IF h \in Live /\ objs[h].scope = depth
                                  THEN NoBlock ELSE objs[h]]
  /\ closes' = TRUE
  /\ UNCHANGED <<pages, used, total, heap, status>>

(* destroy: every page behind the first goes back to malloc. *)
Destroy ==
  /\ status = "ready"
  /\ scopes = <<>>
  /\ heap' = heap - (Len(pages) - 1)
  /\ objs' = [h \in Handles |-> NoBlock]
  /\ status' = "destroyed"
  /\ UNCHANGED <<pages, cur, top, used, total, scopes, closes>>

Next ==
  \/ \E h \in Handles, size \in Sizes, a \in Alignments : AlignedAlloc(h, size, a)
  \/ \E size \in Sizes, a \in Alignments : AlignedAllocFails(size, a)
  \/ \E h \in Handles, size \in Sizes : ReallocMoves(h, size)
  \/ \E h \in Handles, size \in Sizes : ReallocCrashes(h, size)
  \/ \E h \in Handles, size \in Sizes : ReallocInPlace(h, size)
  \/ \E h \in Handles, size \in Sizes : ReallocIgnored(h, size)
  \/ \E h \in Handles : FreeTop(h)
  \/ \E h \in Handles : FreeIgnored(h)
  \/ OpenScope
  \/ CloseScope
  \/ Destroy

Spec == Init /\ [][Next]_vars

-----------------------------------------------------------------------------
(***************************************************************************)
(* Properties                                                              *)
(***************************************************************************)

(* Type correctness of the allocator's fields and of the callers' blocks.  *)
TypeOK ==
  /\ pages \in Seq(Page)
  /\ cur \in Nat /\ top \in Nat
  /\ used \in Int /\ total \in Nat
  /\ objs \in [Handles -> Block \cup {NoBlock}]
  /\ scopes \in Seq(Snapshot)
  /\ heap \in Int
  /\ closes \in BOOLEAN
  /\ status \in {"ready", "crashed", "destroyed"}

(* m_top is inside the current page, and every block a caller holds lies,  *)
(* header and all, inside its page, behind the page's header and below     *)
(* m_top: nothing handed out later (aligned_alloc, realloc, a page walked  *)
(* again after a scope) can start inside it.                               *)
BlocksInside ==
  /\ cur \in 1 .. Len(pages)
  /\ top \in PageHeaderSize .. pages[cur].size
  /\ \A h \in Live :
       /\ objs[h].page \in 1 .. cur
       /\ PageHeaderSize <= objs[h].start
       /\ objs[h].start + HeaderSize <= objs[h].p
       /\ End(objs[h]) <= IF objs[h].page = cur THEN top ELSE pages[objs[h].page].size

(* Two blocks held at the same time share no byte, their headers included, *)
(* whatever was reallocated, freed out of order or allocated in scopes.    *)
BlocksDisjoint ==
  \A g, h \in Live :
    g # h /\ objs[g].page = objs[h].page =>
      End(objs[g]) <= objs[h].start \/ End(objs[h]) <= objs[g].start

(* The pointer of a block is a multiple of the alignment it was asked for, *)
(* also after realloc moved it (realloc takes the alignment from the       *)
(* header) and on pages whose address has another residue.                 *)
AddressAligned(page, b) == (page.base + b.p) % b.align = 0

PointersAligned == \A h \in Live : AddressAligned(pages[objs[h].page], objs[h])

(* The allocator between two calls: what it hands out is a caller's own,   *)
(* inside a page, and aligned.                                             *)
WellFormed == TypeOK /\ BlocksInside /\ BlocksDisjoint /\ PointersAligned

(* An open scope can cut back to its snapshot at any time: the snapshot is *)
(* a place of the chain not beyond m_top, snapshots nest, every block older *)
(* than the scope lies below its snapshot and every younger one above.     *)
ScopesProtectOlder ==
  /\ \A h \in Live : objs[h].scope <= Len(scopes)
  /\ \A k \in 1 .. Len(scopes) :
       LET s == scopes[k] IN
       /\ s.page \in 1 .. cur
       /\ s.top \in PageHeaderSize .. pages[s.page].size
       /\ s.page = cur => s.top <= top
       /\ \A i \in 1 .. k - 1 : NotAfter(scopes[i].page, scopes[i].top, s.page, s.top)
       /\ \A h \in Live :
            IF objs[h].scope < k
              THEN NotAfter(objs[h].page, End(objs[h]), s.page, s.top)
              ELSE NotAfter(s.page, s.top, objs[h].page, objs[h].start)

(* Every page taken from malloc is in the chain until destroy gives it     *)
(* back: linking a new page never cuts off pages kept from an older scope. *)
NoPageLeak == heap = IF status = "destroyed" THEN 0 ELSE Len(pages) - 1

(* m_used_size is exact through every sequence of alloc, realloc and free  *)
(* as long as no scope was closed: all the memory of the chain but what is *)
(* left of the current page, which is then the last one.                   *)
UsedExactWithoutScopes ==
  ~closes => cur = Len(pages) /\ used = total - (pages[cur].size - top)

=============================================================================
