----------------------------- MODULE KernelHeap -----------------------------
(***************************************************************************)
(* kmalloc and kfree over the frame allocator.  Both run with interrupts   *)
(* off, and a call that allocates several times runs inside one handler,   *)
(* so they are operators here and steps of UserMemory.                     *)
(***************************************************************************)
EXTENDS Frames, ElMalloc

CONSTANTS
  PageLen,        \* EL_PAGE_BYTES
  InitialPages,   \* HEAP_INITIAL_PAGES
  GrowPages,      \* HEAP_GROW_PAGES
  Sizes           \* what callers ask for

VARIABLES
  marked,   \* frame_bitmap
  heap,     \* el_ctl and the blocks
  live      \* pointers callers hold, with the size they asked for

\* MEMORY_START is one page up: address 0 is no frame's.
Address(f) == (f + 1) * PageLen

SlabFits == AllocFramesContiguous(Reserved, InitialPages) # NoFrame
ASSUME HeapAssumption ==
  /\ PageLen \in Nat /\ PageLen > EL_BLOCK_OVERHEAD
  /\ InitialPages \in Nat \ {0} /\ GrowPages \in Nat \ {0} /\ Sizes \subseteq Nat
  /\ SlabFits

\* A mutant: the block's own tags are forgotten.
PagesForBare(n) == Max({GrowPages, (n + PageLen - 1) \div PageLen})

PagesFor(n) == Max({GrowPages, (n + EL_BLOCK_OVERHEAD + PageLen - 1) \div PageLen})

\* el_append_pages_to_heap: the lowest run of frames, given back if it is not adjacent.
AppendPages(k, npages) ==
  LET base == AllocFramesContiguous(k.marked, npages)
      taken == k.marked \cup Run(base, npages)
  IN IF base = NoFrame THEN k
     ELSE IF Address(base) # k.heap.end THEN [k EXCEPT !.marked = taken \ Run(base, npages)]
     ELSE [k EXCEPT !.marked = taken, !.heap = AppendSlab(@, npages * PageLen)]

\* The kernel's memory as one value k, which a call that allocates several times threads
\* through its steps; k.ptr is what the last allocation returned.
Kernel == [marked |-> marked, heap |-> heap, live |-> live, ptr |-> NULL]

\* What el_malloc made of the heap, and the pointer that the caller gets.
Serve(k, got, n) ==
  [k EXCEPT !.heap = got.heap, !.ptr = got.ptr,
            !.live = IF got.ptr = NULL THEN @ ELSE Written(@, got.ptr, n)]

Retry(k, grown, n) ==
  IF grown.heap = k.heap THEN [grown EXCEPT !.ptr = NULL]
  ELSE Serve(grown, Malloc(grown.heap, n), n)

\* kmalloc: grow once and search once more when the first search fails.
Kmalloc(k, n) ==
  IF FindFirstAvail(k.heap, n) # NULL THEN Serve(k, Malloc(k.heap, n), n)
  ELSE Retry(k, AppendPages(k, PagesFor(n)), n)

Kfree(k, ptr) ==
  [k EXCEPT !.heap = Free(@, ptr), !.live = Restrict(@, DOMAIN @ \ {ptr})]

\* After memory_init and heap_init.
HeapInit ==
  LET base == AllocFramesContiguous(Reserved, InitialPages)
  IN /\ marked = Reserved \cup Run(base, InitialPages)
     /\ heap = FirstSlab(Address(base), InitialPages * PageLen)
     /\ live = <<>>

Slab == {f \in Frame : Address(f) >= heap.start /\ Address(f) < heap.end}

-----------------------------------------------------------------------------
(* Properties.                                                             *)

\* The walk over the heap that kfree and heap_used_bytes trust visits every block once, and
\* the lists and their byte counters agree with it; kfree and growth leave no two available
\* neighbours, so that memory does not fragment for good.
HeapTiled == Tiled(heap) /\ Merged(heap)

\* What a caller holds is a used block of at least the size asked for, and nobody else's.
PayloadsKept ==
  /\ {p - HeadLen : p \in DOMAIN live} = InState(heap, "used")
  /\ \A p \in DOMAIN live : heap.head[p - HeadLen].size >= live[p]
=============================================================================
