------------------------------ MODULE ElMalloc ------------------------------
(***************************************************************************)
(* The allocator that kernel/heap.c and libc/malloc.c both carry: blocks   *)
(* with a header and a footer that hold their size, one list of available  *)
(* and one of used blocks, first fit, split, and coalescing.               *)
(*                                                                         *)
(* A heap is a record; an address counts abstract units of memory.  `head' *)
(* and `foot' hold the tags the code has written and not given up, by      *)
(* their addresses: a tag swallowed by a merge leaves them, so that a read *)
(* of a stale tag is an error and not a value.  The available list is  *)
(* the sequence of its blocks and the used list the set, as its order is   *)
(* read by the debug print alone; `bytes' has the counter of each.         *)
(***************************************************************************)
EXTENDS Naturals, Sequences, FiniteSets, FiniteSetsExt, Functions

CONSTANTS
  HeadLen,   \* sizeof(el_blockhead_t)
  FootLen    \* sizeof(el_blockfoot_t)

ASSUME TagsAssumption == HeadLen \in Nat \ {0} /\ FootLen \in Nat \ {0}

NULL == 0
EL_BLOCK_OVERHEAD == HeadLen + FootLen

-----------------------------------------------------------------------------
(* Boundary tags.                                                          *)

Footer(h, b) == b + HeadLen + h.head[b].size

BlockAbove(h, b) ==
  LET higher == b + h.head[b].size + EL_BLOCK_OVERHEAD
  IN IF higher >= h.end THEN NULL ELSE higher

BlockBelow(h, b) ==
  IF b <= h.start THEN NULL
  ELSE b - FootLen - HeadLen - h.foot[b - FootLen]

\* The partial function f with the value v at one more place, or another value there.
Written(f, at, v) == [x \in DOMAIN f \cup {at} |-> IF x = at THEN v ELSE f[x]]

SetHead(h, b, size, st) == [h EXCEPT !.head = Written(@, b, [size |-> size, state |-> st])]
SetFoot(h, f, size) == [h EXCEPT !.foot = Written(@, f, size)]
SetState(h, b, st) == [h EXCEPT !.head[b].state = st]

\* The header b and the footer f are inside a larger block from now on.
DropTags(h, b, f) == [h EXCEPT !.head = Restrict(@, DOMAIN @ \ {b}),
                               !.foot = Restrict(@, DOMAIN @ \ {f})]

-----------------------------------------------------------------------------
(* The two lists.                                                          *)

\* el_add_block_front and el_remove_block, on either list.
BlockLen(h, b) == h.head[b].size + EL_BLOCK_OVERHEAD

AddBlockFront(h, list, b) ==
  IF list = "used" THEN [h EXCEPT !.used = @ \cup {b}, !.bytes.used = @ + BlockLen(h, b)]
  ELSE [h EXCEPT !.avail = <<b>> \o @, !.bytes.avail = @ + BlockLen(h, b)]

Unlinked(list, b) ==
  LET i == CHOOSE j \in DOMAIN list : list[j] = b
  IN SubSeq(list, 1, i - 1) \o SubSeq(list, i + 1, Len(list))

RemoveBlock(h, list, b) ==
  IF list = "used" THEN [h EXCEPT !.used = @ \ {b}, !.bytes.used = @ - BlockLen(h, b)]
  ELSE [h EXCEPT !.avail = Unlinked(@, b), !.bytes.avail = @ - BlockLen(h, b)]

-----------------------------------------------------------------------------
(* Allocation.                                                             *)

\* A mutant: the tags are counted as room for the caller.
FindFirstAvailLoose(h, n) ==
  LET fits == {i \in DOMAIN h.avail : h.head[h.avail[i]].size + FootLen >= n}
  IN IF fits = {} THEN NULL ELSE h.avail[Min(fits)]

FindFirstAvail(h, n) ==
  LET fits == {i \in DOMAIN h.avail : h.head[h.avail[i]].size >= n}
  IN IF fits = {} THEN NULL ELSE h.avail[Min(fits)]

\* The block that is left above a block cut down to n, if there is room for one.
Left(b, n) == b + n + EL_BLOCK_OVERHEAD
Splits(h, b, n) == h.head[b].size >= n + EL_BLOCK_OVERHEAD

\* A mutant: the old footer keeps the size of the whole block.
SplitBlockStaleFooter(h, b, n) ==
  LET left == h.head[b].size - n - EL_BLOCK_OVERHEAD
  IN IF ~ Splits(h, b, n) THEN h
     ELSE SetHead(SetFoot(SetHead(h, b, n, h.head[b].state), b + HeadLen + n, n),
                  Left(b, n), left, "available")

SplitBlock(h, b, n) ==
  LET left == h.head[b].size - n - EL_BLOCK_OVERHEAD
      shrunk == SetFoot(SetHead(h, b, n, h.head[b].state), b + HeadLen + n, n)
  IN IF ~ Splits(h, b, n) THEN h
     ELSE SetHead(SetFoot(shrunk, Footer(h, b), left), Left(b, n), left, "available")

\* el_malloc: the heap after it, and the pointer it returns.
Malloc(h, n) ==
  LET b == FindFirstAvail(h, n)
      cut == SplitBlock(RemoveBlock(h, "avail", b), b, n)
      taken == AddBlockFront(SetState(cut, b, "used"), "used", b)
  IN IF b = NULL THEN [heap |-> h, ptr |-> NULL]
     ELSE [heap |-> IF Splits(h, b, n) THEN AddBlockFront(taken, "avail", Left(b, n)) ELSE taken,
           ptr |-> b + HeadLen]

-----------------------------------------------------------------------------
(* Freeing.                                                                *)

Available(h, b) == b # NULL /\ h.head[b].state = "available"

MergeBlockWithAbove(h, lower) ==
  LET up == BlockAbove(h, lower)
      apart == RemoveBlock(RemoveBlock(h, "avail", lower), "avail", up)
      size == h.head[lower].size + EL_BLOCK_OVERHEAD + h.head[up].size
      joined == DropTags(apart, up, Footer(h, lower))
  IN IF ~ (Available(h, lower) /\ Available(h, up)) THEN h
     ELSE AddBlockFront(SetFoot(SetHead(joined, lower, size, "available"), Footer(h, up), size),
                        "avail", lower)

\* el_free of a pointer that el_malloc returned.
Free(h, ptr) ==
  LET b == ptr - HeadLen
      freed == AddBlockFront(SetState(RemoveBlock(h, "used", b), b, "available"), "avail", b)
      up == MergeBlockWithAbove(freed, b)
  IN MergeBlockWithAbove(up, BlockBelow(up, b))

-----------------------------------------------------------------------------
(* Slabs.                                                                  *)

\* el_init on a slab: one available block.
FirstSlab(start, len) ==
  [start |-> start, end |-> start + len,
   head |-> [b \in {start} |-> [size |-> len - EL_BLOCK_OVERHEAD, state |-> "available"]],
   foot |-> [f \in {start + len - FootLen} |-> len - EL_BLOCK_OVERHEAD],
   avail |-> <<start>>, used |-> {},
   bytes |-> [avail |-> len, used |-> 0]]

\* The rest of el_append_pages_to_heap once the new slab is known to be adjacent.
AppendSlab(h, len) ==
  LET b == h.end
      size == len - EL_BLOCK_OVERHEAD
      tagged == [SetFoot(SetHead(h, b, size, "available"), b + HeadLen + size, size)
                   EXCEPT !.end = b + len]
      added == AddBlockFront(tagged, "avail", b)
  IN MergeBlockWithAbove(added, BlockBelow(added, b))

-----------------------------------------------------------------------------
(* Properties of a heap.                                                   *)

Blocks(h) == DOMAIN h.head
Span(h, b) == b .. b + h.head[b].size + EL_BLOCK_OVERHEAD - 1
InState(h, st) == {b \in Blocks(h) : h.head[b].state = st}
Covered(h, bs) == UNION {Span(h, b) : b \in bs}

\* The blocks tile the slab: el_block_above and el_block_below walk from one to the next and
\* nowhere else, because every footer says what its header says; and the lists hold each
\* block once, under its state, with counters that are exact though sizes change on the way.
Tiled(h) ==
  /\ h.start \in Blocks(h)
  /\ \A b \in Blocks(h) :
       /\ Footer(h, b) \in DOMAIN h.foot /\ h.foot[Footer(h, b)] = h.head[b].size
       /\ BlockAbove(h, b) \in Blocks(h) \cup {NULL}
       /\ Footer(h, b) + FootLen <= h.end
       /\ \A c \in Blocks(h) \ {b} : Span(h, b) \cap Span(h, c) = {}
  /\ DOMAIN h.foot = {Footer(h, b) : b \in Blocks(h)}
  /\ Range(h.avail) = InState(h, "available") /\ IsInjective(h.avail)
  /\ h.used = InState(h, "used")
  /\ h.bytes.avail = Cardinality(Covered(h, InState(h, "available")))
  /\ h.bytes.used = Cardinality(Covered(h, InState(h, "used")))

\* No two neighbours are both available.
Merged(h) ==
  \A b \in InState(h, "available") : BlockAbove(h, b) \notin InState(h, "available")
=============================================================================
