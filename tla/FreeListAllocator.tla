------------------------- MODULE FreeListAllocator -------------------------
(***************************************************************************)
(* Free_list_allocator_t (core/free_list_allocator.cpp): one region of     *)
(* memory with a sorted list of free blocks in it.  The words of that      *)
(* memory are modelled, because headers, free blocks and the callers' data *)
(* share them: an Alloc_header_t_ is the three words start, size and       *)
(* alignment before the pointer, a Free_block_t_ the two words size and    *)
(* next.  Sizes and alignments are in words; callers fill the words they   *)
(* are given with a mark of their own.                                     *)
(*                                                                         *)
(* Three paths of the code store a size or a next that is not one: a block *)
(* taken whole (GarbageSize), a growth by one word (ReallocExtends) and a  *)
(* free behind the last free block (Free).  What follows is undefined:     *)
(* broken is set and the model stops.  In the first two the code reads     *)
(* through a pointer of one type what it has just written through one of   *)
(* another; a compiler may read first, and then nothing is wrong.          *)
(***************************************************************************)
EXTENDS Integers, FiniteSets, FiniteSetsExt

CONSTANTS
  Base,        \* m_start, in words
  Words,       \* m_total_size, in words
  Sizes,       \* sizes callers ask for
  Alignments,  \* alignments callers ask for
  Handles,     \* the callers' marks, taken in order; bound: the blocks held
  NoBlock

(* The region is not at NULL and has room for a Free_block_t_. *)
ASSUME FreeListAssumption ==
  /\ Base \in Nat \ {0} /\ Words \in Nat \ {0, 1}
  /\ Sizes \subseteq Nat \ {0}
  /\ Alignments \subseteq Nat \ {0}
  /\ Handles \subseteq {n \in Int : n < 0}

Heap == Base .. Base + Words - 1

ASSUME NoBlockAssumption == NoBlock \notin [p : Heap, size : Sizes]

Null == 0
HeaderSize == 3

VARIABLES
  mem,     \* the words from m_start on
  first,   \* m_first_block
  used,    \* m_used_size
  objs,    \* what callers hold: a pointer and the size they asked for
  broken   \* whether the code has stored garbage

vars == <<mem, first, used, objs, broken>>

(* The allocator's own state, for the helpers the operations are made of. *)
Allocator == [mem |-> mem, first |-> first, used |-> used]

SizeOf(s, b) == s.mem[b]
NextOf(s, b) == s.mem[b + 1]
SetFree(s, b, size, next) == [s EXCEPT !.mem[b] = size, !.mem[b + 1] = next]
SetNext(s, b, next) == [s EXCEPT !.mem[b + 1] = next]

Start(s, p) == s.mem[p - 3]
Held(s, p) == s.mem[p - 2]
Alignment(s, p) == s.mem[p - 1]
SetHeader(s, p, start, size, a) ==
  [s EXCEPT !.mem[p - 3] = start, !.mem[p - 2] = size, !.mem[p - 1] = a]

(* The n-th free block of the list, Null behind its end.  Between two free *)
(* blocks there is at least a block that was allocated once.               *)
MaxFree == Words \div (HeaderSize + 1) + 1

FreeAt(s) ==
  LET at[n \in 0 .. MaxFree] ==
        IF n = 0 THEN s.first
        ELSE LET b == at[n - 1] IN IF b = Null THEN Null ELSE NextOf(s, b)
  IN  at

FreeBlocks(s) == LET at == FreeAt(s) IN {at[n] : n \in 0 .. MaxFree} \ {Null}

(* get_adjacent_blocks_: the list is sorted. *)
Prior(s, p) == LET before == {b \in FreeBlocks(s) : b < p}
               IN  IF before = {} THEN Null ELSE Max(before)
Following(s, p) == LET behind == {b \in FreeBlocks(s) : b >= p}
                   IN  IF behind = {} THEN Null ELSE Min(behind)

(* align_forward_(block + sizeof(Alloc_header_t_), alignment). *)
PointerIn(b, a) == ((b + HeaderSize + a - 1) \div a) * a

(* find_best_fit_free_block_: the smallest that fits, the first of these. *)
Fitting(s, size, a) == {b \in FreeBlocks(s) : SizeOf(s, b) >= PointerIn(b, a) - b + size}
BestFit(s, fitting) ==
  CHOOSE b \in fitting : \A c \in fitting :
    SizeOf(s, b) < SizeOf(s, c) \/ (SizeOf(s, b) = SizeOf(s, c) /\ b <= c)

EnoughForHeader(size) == size > HeaderSize

(* link_separated_blocks_ *)
Link(s, prior, b) == IF prior = Null THEN [s EXCEPT !.first = b] ELSE SetNext(s, prior, b)

(* link_and_merge_free_blocks_: the state, and what *second becomes. *)
Touch(s, b, c) == b # Null /\ b + SizeOf(s, b) = c
LinkAndMerge(s, b, c) ==
  IF Touch(s, b, c) THEN SetFree(s, b, SizeOf(s, b) + SizeOf(s, c), NextOf(s, c))
  ELSE Link(s, b, c)
Merged(s, b, c) == IF Touch(s, b, c) THEN b ELSE c

(* Mutant: puts every block at the head of the list. *)
AddFirst(s, b) == Link(SetNext(s, b, s.first), Null, b)

(* add_and_merge_free_block_ *)
AddAndMerge(s, b) ==
  LET prior == Prior(s, b)
      next == Following(s, b)
      linked == LinkAndMerge(s, prior, b)
  IN  IF next = Null THEN linked ELSE LinkAndMerge(linked, Merged(s, prior, b), next)

(* Mutant: takes a header off what is left, which size has already. *)
ShrunkTwice(s, b, prior, size) ==
  LET rest == SizeOf(s, b) - size IN
  IF EnoughForHeader(rest)
  THEN Link(SetFree([s EXCEPT !.used = @ + size], b + size, rest - HeaderSize, NextOf(s, b)),
            prior, b + size)
  ELSE Link([s EXCEPT !.used = @ + SizeOf(s, b)], prior, NextOf(s, b))

(* shrink_free_block_ *)
Shrunk(s, b, prior, size) ==
  LET rest == SizeOf(s, b) - size IN
  IF EnoughForHeader(rest)
  THEN Link(SetFree([s EXCEPT !.used = @ + size], b + size, rest, NextOf(s, b)), prior, b + size)
  ELSE Link([s EXCEPT !.used = @ + SizeOf(s, b)], prior, NextOf(s, b))

(* The end of aligned_alloc, and of realloc_bigger_ when it moves: shrink  *)
(* the block, write the header.  The header's start is written first, over *)
(* the block's size when there is no padding, and the size is read then.   *)
TakesAll(s, b, n) == ~EnoughForHeader(SizeOf(s, b) - n)
Place(s, b, p, size, a) ==
  LET shrunk == Shrunk(s, b, Prior(s, b), p - b + size)
  IN  SetHeader(shrunk, p, b, IF TakesAll(s, b, p - b + size) THEN SizeOf(s, b) - (p - b)
                              ELSE size, a)
GarbageSize(s, b, p, size) == TakesAll(s, b, p - b + size) /\ p - HeaderSize = b

(* The caller fills the words it did not have yet. *)
Fill(s, p, old, size, h) ==
  [s EXCEPT !.mem = [w \in Heap |-> IF w \in p + old .. p + size - 1 THEN h ELSE @[w]]]

-----------------------------------------------------------------------------

(* The call ends in state s, with o in the hands of the caller. *)
Ends(s, h, o) ==
  /\ mem' = s.mem /\ first' = s.first /\ used' = s.used
  /\ objs' = [objs EXCEPT ![h] = o]
  /\ UNCHANGED broken

Breaks ==
  /\ broken' = TRUE
  /\ UNCHANGED <<mem, first, used, objs>>

Init ==
  /\ mem = [w \in Heap |-> IF w = Base THEN Words ELSE 0]
  /\ first = Base
  /\ used = 0
  /\ objs = [h \in Handles |-> NoBlock]
  /\ broken = FALSE

AlignedAlloc(h, size, a) ==
  LET s == Allocator
      fitting == Fitting(s, size, a)
      b == BestFit(s, fitting)
      p == PointerIn(b, a)
  IN
  /\ ~broken /\ objs[h] = NoBlock
  /\ \A g \in Handles : objs[g] = NoBlock => g <= h
  /\ fitting # {}
  /\ \/ GarbageSize(s, b, p, size) /\ Breaks
     \/ Ends(Fill(Place(s, b, p, size, a), p, 0, size, h), h, [p |-> p, size |-> size])

(* free sets the size of the new block twice, the second time to NULL, and *)
(* never its next: that is whatever the word held.  It is overwritten when *)
(* there is a free block behind the new one.                               *)
Free(h) ==
  LET s == Allocator
      p == objs[h].p
      b == Start(s, p)
      freed == Held(s, p) + p - b
      new == SetFree([s EXCEPT !.used = @ - freed], b, 0, NextOf(s, b))
  IN
  /\ ~broken /\ objs[h] # NoBlock
  /\ IF Following(s, b) = Null /\ NextOf(new, b) # Null THEN Breaks
     ELSE Ends(AddAndMerge(new, b), h, NoBlock)

(* realloc to the size the block has, or to one that makes no difference. *)
CanRealloc(h, size) ==
  /\ ~broken /\ objs[h] # NoBlock
  /\ size <= Held(Allocator, objs[h].p) + Words - used

AdjacentFree(s, p) == Following(s, p) # Null /\ p + Held(s, p) = Following(s, p)

ReallocSmaller(h, size) ==
  LET s == Allocator
      p == objs[h].p
      less == Held(s, p) - size
      next == Following(s, p)
      smaller == [SetHeader(s, p, Start(s, p), size, Alignment(s, p)) EXCEPT !.used = @ - less]
      o == [p |-> p, size |-> size]
  IN
  /\ CanRealloc(h, size)
  /\ less >= 0
  /\ LET after ==
           IF less > 0 /\ AdjacentFree(s, p)
           THEN LinkAndMerge(SetFree(smaller, p + size, SizeOf(s, next) + less, NextOf(s, next)),
                             Prior(s, p), p + size)
           ELSE IF EnoughForHeader(less)
           THEN Link(SetFree(smaller, p + size, less, next), Prior(s, p), p + size)
           ELSE s
     IN  Ends(Fill(after, p, objs[h].size, size, h), h, o)

(* realloc_bigger_ in place.  The size of the new free block is written    *)
(* before the next of the old one is read, one word behind it.             *)
ReallocExtends(h, size) ==
  LET s == Allocator
      p == objs[h].p
      next == Following(s, p)
      more == size - Held(s, p)
      rest == SizeOf(s, next) - more
      bigger(n) == [SetHeader(s, p, Start(s, p), Held(s, p) + n, Alignment(s, p))
                      EXCEPT !.used = @ + n]
      o == [p |-> p, size |-> size]
  IN
  /\ CanRealloc(h, size)
  /\ more > 0 /\ AdjacentFree(s, p) /\ rest >= 0
  /\ IF ~EnoughForHeader(rest)
     THEN Ends(Fill(Link(bigger(SizeOf(s, next)), Prior(s, p), NextOf(s, next)), p, objs[h].size, size, h), h, o)
     ELSE \/ more = 1 /\ Breaks
          \/ Ends(Fill(LinkAndMerge(SetFree(bigger(more), p + size, rest, NextOf(s, next)),
                                    Prior(s, p), p + size), p, objs[h].size, size, h), h, o)

(* Mutant: frees the old place and moves nothing. *)
MovedNot(s, p, q, size) == s

(* realloc_bigger_, otherwise: the block is freed and allocated anew, and  *)
(* memmove takes the new size from the old place; when nothing fits, the   *)
(* neighbours, the head of the list and the header are restored.           *)
Moved(s, p, q, size) ==
  [s EXCEPT !.mem = [w \in Heap |-> IF w \in q .. q + size - 1 /\ w - q + p \in Heap
                                     THEN @[w - q + p] ELSE @[w]]]

(* Mutant: restores the links and not the size of the block before. *)
RestoredLinks(s, freed, p) ==
  LET words == {Prior(s, p) + 1, Following(s, p), Following(s, p) + 1}
               \cup p - HeaderSize .. p - 1
  IN  [s EXCEPT !.mem = [w \in Heap |-> IF w \in words THEN @[w] ELSE freed.mem[w]]]

Restored(s, freed, p) ==
  LET words == {Prior(s, p), Prior(s, p) + 1, Following(s, p), Following(s, p) + 1}
               \cup p - HeaderSize .. p - 1
  IN  [s EXCEPT !.mem = [w \in Heap |-> IF w \in words THEN @[w] ELSE freed.mem[w]]]

ReallocMoves(h, size) ==
  LET s == Allocator
      p == objs[h].p
      b == Start(s, p)
      a == Alignment(s, p)
      extent == Held(s, p) + p - b
      freed == AddAndMerge(SetFree(s, b, extent, Null), b)
      fitting == Fitting(freed, size, a)
      fit == BestFit(freed, fitting)
      q == PointerIn(fit, a)
      moved == Moved([freed EXCEPT !.used = @ - extent], p, q, size)
  IN
  /\ CanRealloc(h, size)
  /\ size > Held(s, p)
  /\ ~(AdjacentFree(s, p) /\ Held(s, p) + SizeOf(s, Following(s, p)) >= size)
  /\ IF fitting = {}
     THEN Ends(Restored(s, freed, p), h, objs[h])
     ELSE \/ GarbageSize(moved, fit, q, size) /\ Breaks
          \/ Ends(Fill(Place(moved, fit, q, size, a), q, objs[h].size, size, h), h,
                  [p |-> q, size |-> size])

Next ==
  \E h \in Handles :
    \/ \E size \in Sizes, a \in Alignments : AlignedAlloc(h, size, a)
    \/ Free(h)
    \/ \E size \in Sizes :
         ReallocSmaller(h, size) \/ ReallocExtends(h, size) \/ ReallocMoves(h, size)

Spec == Init /\ [][Next]_vars

-----------------------------------------------------------------------------
(***************************************************************************)
(* Properties                                                              *)
(***************************************************************************)

Live == {h \in Handles : objs[h] # NoBlock}
Extent(h) == Start(Allocator, objs[h].p) .. objs[h].p + Held(Allocator, objs[h].p) - 1
FreeExtent(b) == b .. b + SizeOf(Allocator, b) - 1
Listed == UNION {FreeExtent(b) : b \in FreeBlocks(Allocator)}

TypeOK ==
  /\ mem \in [Heap -> Int]
  /\ first \in Heap \cup {Null}
  /\ used \in 0 .. Words
  /\ \A h \in Live : objs[h].p \in Heap /\ objs[h].size \in Sizes
  /\ broken \in BOOLEAN

(* The list is what get_adjacent_blocks_ takes it for: it ends, its blocks *)
(* are inside the memory and sorted, and the two words of a free block are *)
(* in nobody else's hands.                                                 *)
ListSorted ==
  ~broken =>
    LET at == FreeAt(Allocator) IN
    /\ at[MaxFree] = Null
    /\ \A n \in 1 .. MaxFree : at[n] # Null => at[n - 1] < at[n]
    /\ \A b \in FreeBlocks(Allocator) :
         /\ FreeExtent(b) \cup {b, b + 1} \subseteq Heap
         /\ \A h \in Live : (FreeExtent(b) \cup {b, b + 1}) \cap Extent(h) = {}

(* No word is in two blocks, and none is free twice. *)
BlocksDisjoint ==
  ~broken =>
    /\ \A g, h \in Live : g # h => Extent(g) \cap Extent(h) = {}
    /\ \A b, c \in FreeBlocks(Allocator) : b # c => FreeExtent(b) \cap FreeExtent(c) = {}

(* What a caller wrote into its block stays there, however the allocator   *)
(* splits, merges, moves and restores around it, and realloc takes it      *)
(* along.                                                                  *)
ContentsKept ==
  ~broken => \A h \in Live : \A w \in objs[h].p .. objs[h].p + objs[h].size - 1 : mem[w] = h

(* m_used_size is exactly what the blocks take, headers and padding        *)
(* included.                                                               *)
UsedExact == ~broken => used = Cardinality(UNION {Extent(h) : h \in Live})

(* The memory between two calls: the list is what the code takes it for,  *)
(* no word is in two places, and m_used_size counts what callers hold.     *)
(* It does not say that every other word is on the list: what was freed is *)
(* not (OnlyFreeLoses).                                                    *)
WellFormed == TypeOK /\ ListSorted /\ BlocksDisjoint /\ UsedExact

(* The words that are neither on the list nor held: no later call gets     *)
(* them back, since a block of size 0 fits nothing and touches nothing.    *)
Lost == Heap \ (Listed \cup UNION {Extent(h) : h \in Live})

(* free_list_allocator.h promises that freeing creates a block.  free sets *)
(* the size of that block to 0 (free_list_allocator.cpp:103), and so loses *)
(* exactly the words of the block, header and padding included.  Nothing   *)
(* else loses a word: not splitting, merging, shrinking, extending, moving *)
(* to a place that overlaps the old one, or undoing a move.                *)
OnlyFreeLoses ==
  [][~broken' =>
       Lost' = Lost \cup UNION {Extent(h) : h \in {g \in Live : objs'[g] = NoBlock}}]_vars

(* A realloc that fails has undone its freeing of the block completely.    *)
FailuresUndone ==
  [][objs' = objs /\ used' = used => UNCHANGED <<Listed, first>>]_vars

=============================================================================
