------------------------------ MODULE UserHeap ------------------------------
(***************************************************************************)
(* malloc, free and calloc of libc/malloc.c: the algorithm of ElMalloc on  *)
(* slabs that SYS_MMAP maps, in a program that also maps regions of its    *)
(* own.  A program has one thread, so that a call is one step; a handler   *)
(* must not call malloc, as the source says, and does not here.            *)
(*                                                                         *)
(* A frame for a mapping may be lacking, which depends on other tasks: the *)
(* argument `frames' says for each SYS_MMAP of a call whether there is one *)
(* for every page.                                                         *)
(***************************************************************************)
EXTENDS ElMalloc, Regions, Integers

CONSTANTS
  PageLen,       \* USER_PAGE_SIZE
  SlotBase,      \* USER_HEAP_BASE
  SlotLen,       \* USER_HEAP_LIMIT - USER_HEAP_BASE
  MaxRegions,    \* MAX_REGIONS
  InitialPages,  \* HEAP_INITIAL_PAGES
  GrowPages,     \* HEAP_GROW_PAGES
  Align,         \* what malloc rounds a request up to
  Word,          \* the values of size_t
  IntValues,     \* the values of int
  Requests,      \* sizes the program asks malloc for
  Products,      \* pairs it passes to calloc
  OwnLens,       \* lengths of the regions it maps itself
  MaxLive        \* bound: blocks the program holds

ASSUME UserHeapAssumption ==
  /\ {PageLen, SlotBase, SlotLen, MaxRegions, InitialPages, GrowPages, Align} \subseteq Nat \ {0}
  /\ {Word, IntValues} \subseteq Nat \ {0}
  /\ HeadLen % Align = 0 /\ FootLen % Align = 0 /\ PageLen % Align = 0
  /\ SlotBase % PageLen = 0 /\ SlotLen % PageLen = 0
  /\ Word % PageLen = 0 /\ SlotBase + SlotLen < Word
  /\ EL_BLOCK_OVERHEAD <= PageLen
  /\ 2 * (SlotLen \div PageLen) < IntValues
  /\ Requests \subseteq 0 .. Word - 1
  /\ Products \subseteq (0 .. Word - 1) \X (0 .. Word - 1)
  /\ OwnLens \subseteq Nat

VARIABLES
  initialised,  \* the flag of that name
  heap,         \* el_ctl and the blocks; of no meaning before the first slab
  regions,      \* task_t.regions, in the kernel
  own,          \* bases of the regions that the program has mapped itself
  live,         \* pointers the program holds, with the size it asked for
  last          \* the call of malloc that has just returned, if it was the last step

heapVars == <<initialised, heap, regions, own, live, last>>

FAILED == NULL   \* MMAP_FAILED; no region begins at 0
NoHeap == FirstSlab(SlotBase, PageLen)

-----------------------------------------------------------------------------
(* The two system calls.                                                   *)

\* The table after SYS_MMAP, and the base that it returns.
SysMmap(table, len, frames) ==
  LET length == RoundUpTo(PageLen, len)
      next == Above(table, SlotBase)
  IN IF len = 0 \/ len > SlotLen \/ ~ HasRoom(table, SlotBase, SlotLen, length) \/ ~ frames
     THEN [regions |-> table, base |-> FAILED]
     ELSE [regions |-> Enter(table, next, length), base |-> next]

SysMunmap(table, base, len) ==
  LET held == PlacesOf(table, base, RoundUpTo(PageLen, len))
  IN IF held = {} THEN table ELSE Leave(table, Min(held))

-----------------------------------------------------------------------------
(* The allocator, on a value u: the flag, the heap and the table.          *)

SizeT(n) == n % Word
ToInt(n) == LET low == n % IntValues IN IF 2 * low < IntValues THEN low ELSE low - IntValues

\* The first call builds the heap; the flag stays clear if it cannot.
ElInit(u, frames) ==
  LET m == SysMmap(u.regions, InitialPages * PageLen, frames)
  IN IF u.initialised \/ m.base = FAILED THEN u
     ELSE [initialised |-> TRUE, regions |-> m.regions,
           heap |-> FirstSlab(m.base, InitialPages * PageLen)]

\* A mutant: the new slab is taken for the continuation of the heap wherever it lies.
AppendPagesAnywhere(u, npages, frames) ==
  LET m == SysMmap(u.regions, SizeT(npages * PageLen), frames)
  IN IF m.base = FAILED THEN u
     ELSE [u EXCEPT !.regions = m.regions, !.heap = AppendSlab(@, npages * PageLen)]

\* el_append_pages_to_heap: a slab that is not adjacent goes back.
AppendPages(u, npages, frames) ==
  LET len == SizeT(npages * PageLen)
      m == SysMmap(u.regions, len, frames)
  IN IF m.base = FAILED THEN u
     ELSE IF m.base # u.heap.end THEN [u EXCEPT !.regions = SysMunmap(m.regions, m.base, len)]
     ELSE [u EXCEPT !.regions = m.regions, !.heap = AppendSlab(@, len)]

\* Up to a multiple of Align, in size_t.
RoundUp(n) == LET up == SizeT(n + Align - 1) IN up - (up % Align)

\* A mutant: the block's own tags are forgotten.
PagesToGrowBare(size) ==
  Max({GrowPages, ToInt(SizeT(size + PageLen - 1) \div PageLen)})

\* Pages to grow by: size_t arithmetic, and an int.
PagesToGrow(size) ==
  Max({GrowPages, ToInt(SizeT(SizeT(size + EL_BLOCK_OVERHEAD) + PageLen - 1) \div PageLen)})

\* What el_malloc made of the heap, with the pointer that the program gets.
Got(u, result) == [u |-> [u EXCEPT !.heap = result.heap], ptr |-> result.ptr]

\* The search, and the one retry after growth.
Search(u, size, frames) ==
  IF FindFirstAvail(u.heap, size) # NULL THEN Got(u, Malloc(u.heap, size))
  ELSE LET grown == AppendPages(u, PagesToGrow(size), frames)
       IN IF grown.heap = u.heap THEN [u |-> grown, ptr |-> NULL]
          ELSE Got(grown, Malloc(grown.heap, size))

malloc(u, n, frames) ==
  LET ready == ElInit(u, frames[1])
  IN IF ready.initialised THEN Search(ready, RoundUp(n), frames[2])
     ELSE [u |-> ready, ptr |-> NULL]

\* A mutant: the product is not checked.
ProductRefusedNever(count, size) == FALSE

ProductRefused(count, size) == count # 0 /\ size > (Word - 1) \div count

-----------------------------------------------------------------------------
(* The program.                                                            *)

Program == [initialised |-> initialised, heap |-> heap, regions |-> regions]
Nothing == [n |-> 0, ptr |-> NULL, called |-> FALSE, frames |-> <<TRUE, TRUE>>]

\* The program asked for n and was given r.
Return(r, n, frames) ==
  /\ initialised' = r.u.initialised /\ heap' = r.u.heap /\ regions' = r.u.regions
  /\ live' = IF r.ptr = NULL THEN live ELSE Written(live, r.ptr, n)
  /\ last' = [n |-> n, ptr |-> r.ptr, called |-> TRUE, frames |-> frames]
  /\ UNCHANGED own

CallMalloc(n, frames) ==
  /\ Cardinality(DOMAIN live) < MaxLive
  /\ Return(malloc(Program, n, frames), n, frames)

\* calloc; what memset clears is left out with the contents of the heap.
CallCalloc(count, size, frames) ==
  /\ Cardinality(DOMAIN live) < MaxLive
  /\ IF ProductRefused(count, size) THEN UNCHANGED heapVars
     ELSE Return(malloc(Program, SizeT(count * size), frames), count * size, frames)

CallFree(ptr) ==
  /\ heap' = Free(heap, ptr)
  /\ live' = Restrict(live, DOMAIN live \ {ptr})
  /\ last' = Nothing
  /\ UNCHANGED <<initialised, regions, own>>

OwnMmap(len, frames) ==
  LET m == SysMmap(regions, len, frames)
  IN /\ regions' = m.regions
     /\ own' = own \cup ({m.base} \ {FAILED})
     /\ last' = Nothing
     /\ UNCHANGED <<initialised, heap, live>>

OwnMunmap(base, len) ==
  /\ regions' = SysMunmap(regions, base, len)
  /\ own' = own \cap {regions'[i].base : i \in HeldPlaces(regions')}
  /\ last' = Nothing
  /\ UNCHANGED <<initialised, heap, live>>

HeapInit ==
  /\ initialised = FALSE
  /\ heap = NoHeap
  /\ regions = NoRegions(MaxRegions)
  /\ own = {} /\ live = <<>> /\ last = Nothing

HeapNext ==
  \/ \E frames \in BOOLEAN \X BOOLEAN :
       \/ \E n \in Requests : CallMalloc(n, frames)
       \/ \E p \in Products : CallCalloc(p[1], p[2], frames)
  \/ \E ptr \in DOMAIN live : CallFree(ptr)
  \/ \E len \in OwnLens :
       \/ \E frames \in BOOLEAN : OwnMmap(len, frames)
       \/ \E base \in own : OwnMunmap(base, len)

HeapSpec == HeapInit /\ [][HeapNext]_heapVars

-----------------------------------------------------------------------------
(* Properties.                                                             *)

\* The one span that el_block_above and el_block_below walk is memory the program really has:
\* the regions that are not the program's own lie side by side from heap_start to heap_end, and
\* blocks tile it, merged, and with exact counters.  Growth next to a region of the program's
\* own, refused for that reason or by the kernel, leaves no region behind.
SlabsAreTheHeap ==
  LET slabs == {i \in HeldPlaces(regions) : regions[i].base \notin own}
      bytes(i) == regions[i].base .. regions[i].base + regions[i].length - 1
  IN IF initialised
     THEN /\ UNION {bytes(i) : i \in slabs} = heap.start .. heap.end - 1
          /\ \A i, j \in HeldPlaces(regions) : i # j => bytes(i) \cap bytes(j) = {}
          /\ Tiled(heap) /\ Merged(heap)
     ELSE slabs = {} /\ live = <<>>

\* A pointer the program holds is aligned and has a used block of its own, with room for what
\* was asked for, the product of calloc included.  A request in the last Align bytes of size_t
\* is left out: rounding takes it to 0 (see the README).
PointersServe ==
  initialised =>
    /\ {p - HeadLen : p \in DOMAIN live} = InState(heap, "used")
    /\ \A p \in DOMAIN live :
         /\ p % Align = 0
         /\ live[p] \notin Word - Align + 1 .. Word - 1 => heap.head[p - HeadLen].size >= live[p]

\* malloc fails for a reason only: nothing that is free has room, and the pages that the
\* request really takes, tags included, are not to be had from the kernel above the heap,
\* because frames, the table of regions or the slot have run out, or because a region of the
\* program's own lies there.
FailsForCause ==
  LET size == last.n + (Align - 1) - ((last.n + Align - 1) % Align)
      pages == Max({GrowPages, (size + EL_BLOCK_OVERHEAD + PageLen - 1) \div PageLen})
      full(n) == ~ HasRoom(regions, SlotBase, SlotLen, n * PageLen)
  IN last.called /\ last.ptr = NULL =>
       IF initialised
       THEN /\ \A b \in InState(heap, "available") : heap.head[b].size < last.n
            /\ ~ last.frames[2] \/ full(pages) \/ \E base \in own : base >= heap.end
       ELSE ~ last.frames[1] \/ full(InitialPages)
=============================================================================
