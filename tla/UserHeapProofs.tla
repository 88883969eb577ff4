---------------------------- MODULE UserHeapProofs ----------------------------
(***************************************************************************)
(* malloc, free and calloc of libc/malloc.c, for every size of pages,      *)
(* slot, table and word: the slabs are the heap, pointers serve what was   *)
(* asked for, and malloc fails for a reason only.                          *)
(*                                                                         *)
(* What el_malloc, el_free and growth do to a heap is in ElMallocProofs,   *)
(* the table of regions and the arithmetic in UserHeapLemmas; here is the  *)
(* invariant that ties the table to the heap.                              *)
(***************************************************************************)
EXTENDS UserHeapLemmas, ElMallocProofs

-----------------------------------------------------------------------------
(* Aligned heaps.                                                          *)

HeapOk(h) ==
  /\ Sound(h) /\ NoPairBut(h, {})
  /\ h.end % Align = 0 /\ \A b \in Blocks(h) : b % Align = 0

\* Every block of an aligned heap has room for a multiple of Align.
LEMMA SizesAligned ==
  ASSUME NEW h, HeapOk(h), NEW b \in Blocks(h)
  PROVE  h.head[b].size \in Nat /\ h.head[b].size % Align = 0
<1> DEFINE e == Ends(h)[b]
<1>0. Align \in Nat \ {0} /\ EL_BLOCK_OVERHEAD \in Nat
  BY ConstantFacts
<1>1. Sound(h)
  BY DEF HeapOk
<1>2. b \in Nat /\ e \in Nat /\ h.head[b].size = e - b - EL_BLOCK_OVERHEAD /\ h.head[b].size \in Nat
  BY <1>1, SoundFacts
<1>3. e = h.end \/ e \in Blocks(h)
  BY <1>1, Neighbours
<1>4. e % Align = 0 /\ b % Align = 0
  BY <1>3 DEF HeapOk
<1> HIDE DEF e
<1>5. (e - b) % Align = 0 /\ e - b \in Int
  <2>1. e \in Int /\ b \in Int /\ e - b \in Int
    BY <1>2
  <2> QED BY <1>0, <1>4, <2>1, Multiples, Zenon
<1>6. ((e - b) - EL_BLOCK_OVERHEAD) % Align = 0
  <2>1. EL_BLOCK_OVERHEAD \in Int /\ EL_BLOCK_OVERHEAD % Align = 0
    BY <1>0, Alignments
  <2> QED BY <1>0, <1>5, <2>1, Multiples, Zenon
<1> QED BY <1>2, <1>6

\* el_malloc on an aligned heap.
LEMMA MallocOk ==
  ASSUME NEW h, HeapOk(h), NEW n \in Nat, n % Align = 0, NEW r, r = Malloc(h, n)
  PROVE  IF FindFirstAvail(h, n) = NULL
         THEN /\ r.heap = h /\ r.ptr = NULL
              /\ \A b \in InState(h, "available") : h.head[b].size < n
         ELSE \E b \in InState(h, "available") :
                /\ HeapOk(r.heap) /\ Serves(h, r.heap, b, n) /\ b \in Nat
                /\ r.ptr = b + HeadLen /\ r.ptr % Align = 0 /\ r.ptr # NULL
<1>0. /\ Align \in Nat \ {0} /\ HeadLen \in Nat /\ HeadLen % Align = 0
      /\ EL_BLOCK_OVERHEAD \in Nat /\ EL_BLOCK_OVERHEAD % Align = 0
  BY ConstantFacts, Alignments
<1>1. Sound(h) /\ NoPairBut(h, {}) /\ h.end % Align = 0 /\ \A b \in Blocks(h) : b % Align = 0
  BY DEF HeapOk
<1>2. CASE FindFirstAvail(h, n) = NULL
  <2>1. /\ r = [heap |-> h, ptr |-> NULL]
        /\ \A b \in InState(h, "available") : h.head[b].size < n
    BY <1>1, <1>2, MallocSound
  <2> QED BY <1>2, <2>1
<1>3. CASE FindFirstAvail(h, n) # NULL
  <2>1. PICK b \in InState(h, "available") :
          /\ Sound(r.heap) /\ NoPairBut(r.heap, {}) /\ Serves(h, r.heap, b, n)
          /\ r.ptr = b + HeadLen
    BY <1>1, <1>3, MallocSound
  <2>2. b \in Blocks(h)
    BY DEF InState
  <2>3. b \in Nat /\ b # NULL /\ b % Align = 0
    BY <1>1, <2>2, SoundFacts
  <2>4. (b + HeadLen) % Align = 0
    <3>1. b \in Int /\ HeadLen \in Int
      BY <1>0, <2>3
    <3> QED BY <1>0, <2>3, <3>1, Multiples, Zenon
  <2>5. Left(b, n) % Align = 0
    <3>0. b \in Int /\ n \in Int /\ b + n \in Int /\ EL_BLOCK_OVERHEAD \in Int
      BY <1>0, <2>3
    <3>1. (b + n) % Align = 0
      BY <1>0, <2>3, <3>0, Multiples, Zenon
    <3>2. ((b + n) + EL_BLOCK_OVERHEAD) % Align = 0
      BY <1>0, <3>0, <3>1, Multiples, Zenon
    <3> QED BY <3>2 DEF Left
  <2>6. r.heap.end = h.end /\ Blocks(r.heap) \subseteq Blocks(h) \cup {Left(b, n)}
    BY <2>1 DEF Serves
  <2>7. HeapOk(r.heap)
    BY <1>1, <2>1, <2>5, <2>6 DEF HeapOk
  <2>8. r.ptr # NULL
    BY <1>0, <2>1, <2>3 DEF NULL
  <2> QED BY <1>3, <2>1, <2>3, <2>4, <2>7, <2>8
<1> QED BY <1>2, <1>3

\* el_free on an aligned heap.
LEMMA FreeOk ==
  ASSUME NEW h, HeapOk(h), NEW ptr, ptr - HeadLen \in InState(h, "used"),
         NEW r, r = Free(h, ptr)
  PROVE  HeapOk(r) /\ Frees(h, r, ptr - HeadLen)
<1>1. Sound(h) /\ NoPairBut(h, {}) /\ h.end % Align = 0 /\ \A b \in Blocks(h) : b % Align = 0
  BY DEF HeapOk
<1>2. Sound(r) /\ NoPairBut(r, {}) /\ Frees(h, r, ptr - HeadLen)
  BY <1>1, FreeSound
<1>3. r.end = h.end /\ Blocks(r) \subseteq Blocks(h)
  BY <1>2 DEF Frees
<1> QED BY <1>1, <1>2, <1>3 DEF HeapOk

\* Growth of an aligned heap by whole pages.
LEMMA AppendOk ==
  ASSUME NEW h, HeapOk(h), NEW len \in Nat, EL_BLOCK_OVERHEAD <= len, len % Align = 0,
         NEW r, r = AppendSlab(h, len)
  PROVE  HeapOk(r) /\ Grows(h, r, len)
<1>0. Align \in Nat \ {0}
  BY ConstantFacts
<1>1. Sound(h) /\ NoPairBut(h, {}) /\ h.end % Align = 0 /\ \A b \in Blocks(h) : b % Align = 0
  BY DEF HeapOk
<1>2. Sound(r) /\ NoPairBut(r, {}) /\ Grows(h, r, len)
  BY <1>1, AppendSound
<1>3. r.end = h.end + len /\ Blocks(r) \subseteq Blocks(h) \cup {h.end}
  BY <1>2 DEF Grows
<1>4. h.end \in Nat
  BY <1>1, SoundFacts
<1>5. (h.end + len) % Align = 0
  <2>1. h.end \in Int /\ len \in Int
    BY <1>4
  <2> QED BY <1>0, <1>1, <2>1, Multiples, Zenon
<1> QED BY <1>1, <1>2, <1>3, <1>5 DEF HeapOk

\* The first slab.
LEMMA FirstOk ==
  ASSUME NEW start \in Nat \ {0}, start % Align = 0,
         NEW len \in Nat, EL_BLOCK_OVERHEAD <= len, len % Align = 0,
         NEW r, r = FirstSlab(start, len)
  PROVE  /\ HeapOk(r) /\ r.start = start /\ r.end = start + len /\ InState(r, "used") = {}
<1>0. Align \in Nat \ {0}
  BY ConstantFacts
<1>1. /\ Sound(r) /\ NoPairBut(r, {}) /\ r.start = start /\ r.end = start + len
      /\ Blocks(r) = {start} /\ InState(r, "used") = {}
  BY FirstSlabSound
<1>2. (start + len) % Align = 0
  <2>1. start \in Int /\ len \in Int
    OBVIOUS
  <2> QED BY <1>0, <2>1, Multiples, Zenon
<1> QED BY <1>1, <1>2 DEF HeapOk

-----------------------------------------------------------------------------
(* The flag, the heap and the table together.                              *)

\* The regions that are not the program's own are the span that the heap takes for its own.
Good(u, mine) ==
  /\ ProgramRecord(u) /\ u.initialised \in BOOLEAN
  /\ TableOk(u.regions) /\ OwnOk(mine, u.regions)
  /\ IF u.initialised
     THEN HeapOk(u.heap) /\ SlabBytes(u.regions, mine) = u.heap.start .. u.heap.end - 1
     ELSE Slabs(u.regions, mine) = {}

\* The first call: the heap is made of one slab, or stays unmade for a reason.
LEMMA InitGood ==
  ASSUME NEW u, NEW mine, Good(u, mine), NEW frames \in BOOLEAN, NEW r, r = ElInit(u, frames)
  PROVE  /\ Good(r, mine)
         /\ u.initialised => r = u
         /\ ~ u.initialised /\ r.initialised => InState(r.heap, "used") = {}
         /\ ~ r.initialised => r = u /\ (~ frames \/ Full(u.regions, InitialPages))
<1> DEFINE len == InitialPages * PageLen
           m == SysMmap(u.regions, len, frames)
<1>0. /\ PageLen \in Nat \ {0} /\ InitialPages \in Nat \ {0} /\ EL_BLOCK_OVERHEAD \in Nat
      /\ EL_BLOCK_OVERHEAD <= PageLen /\ Align \in Nat \ {0}
  BY ConstantFacts
<1>1. len \in Nat /\ EL_BLOCK_OVERHEAD <= len /\ len # 0 /\ len % PageLen = 0
  <2>1. 1 * PageLen <= InitialPages * PageLen /\ InitialPages * PageLen \in Nat
    BY <1>0, ProductGrows
  <2>2. len % PageLen = 0
    BY <1>0, Multiples
  <2> QED BY <1>0, <2>1, <2>2
<1>2. RoundUpTo(PageLen, len) = len /\ len % Align = 0
  <2> HIDE DEF len
  <2> QED BY <1>1, RoundUpToIs
<1>3. TableOk(u.regions) /\ OwnOk(mine, u.regions) /\ u.initialised \in BOOLEAN
  BY DEF Good
<1> HIDE DEF len
<1>4. IF m.base = FAILED
      THEN m.regions = u.regions /\ Refusal(u.regions, len, frames)
      ELSE /\ m.base = Above(u.regions, SlotBase) /\ TableOk(m.regions)
           /\ \E p \in 1 .. MaxRegions : Entered(u.regions, m.regions, p, m.base, len)
  <2>1. m = SysMmap(u.regions, len, frames)
    OBVIOUS
  <2> HIDE DEF m
  <2> QED BY <1>1, <1>2, <1>3, <2>1, MmapIs
<1> HIDE DEF m
<1>5. CASE u.initialised \/ m.base = FAILED
  <2>1. r = u
    BY <1>5 DEF ElInit, m, len
  <2>2. ASSUME ~ u.initialised PROVE ~ frames \/ Full(u.regions, InitialPages)
    <3>1. Refusal(u.regions, InitialPages * PageLen, frames)
      BY <1>4, <1>5, <2>2 DEF len
    <3> QED BY <1>0, <1>3, <3>1, RefusedPages
  <2> QED BY <2>1, <2>2
<1>6. CASE ~ u.initialised /\ m.base # FAILED
  <2>1. r = [initialised |-> TRUE, regions |-> m.regions, heap |-> FirstSlab(m.base, len)]
    BY <1>6 DEF ElInit, m, len
  <2> DEFINE base == m.base
             h == FirstSlab(base, len)
  <2>2. base \in Nat \ {0} /\ base % Align = 0
    BY <1>3, <1>4, <1>6, AboveIs, ConstantFacts
  <2>3. HeapOk(h) /\ h.start = base /\ h.end = base + len /\ InState(h, "used") = {}
    <3> HIDE DEF base
    <3> QED BY <1>1, <1>2, <2>2, FirstOk
  <2> HIDE DEF h
  <2>4. PICK p \in 1 .. MaxRegions : Entered(u.regions, m.regions, p, m.base, len)
    BY <1>4, <1>6
  <2>5. Accounted(u.regions, m.regions, mine, base, len)
    BY <1>3, <1>4, <1>6, <2>4, OwnEnters
  <2>6. SlabBytes(u.regions, mine) = {}
    BY <1>6 DEF Good, SlabBytes
  <2>7. r.initialised = TRUE /\ r.heap = h /\ r.regions = m.regions /\ ProgramRecord(r)
    BY <2>1 DEF h, ProgramRecord, ProgramOf
  <2>8. Good(r, mine)
    <3>1. SlabBytes(r.regions, mine) = base .. base + len - 1 /\ OwnOk(mine, r.regions)
      BY <2>5, <2>6, <2>7 DEF Accounted
    <3>2. r.heap.start = base /\ r.heap.end - 1 = base + len - 1
      BY <1>1, <2>2, <2>3, <2>7
    <3>3. TableOk(r.regions)
      BY <1>4, <1>6, <2>7
    <3> QED BY <2>3, <2>7, <3>1, <3>2, <3>3, Zenon DEF Good
  <2> QED BY <1>6, <2>3, <2>7, <2>8
<1> QED BY <1>3, <1>5, <1>6

\* A slab that is not adjacent lies above a region of the program's own.
LEMMA OwnAbove ==
  ASSUME NEW u, NEW mine, Good(u, mine), u.initialised,
         Above(u.regions, SlotBase) # u.heap.end
  PROVE  \E base \in mine : base >= u.heap.end
<1> DEFINE T == u.regions
           h == u.heap
           top == Above(T, SlotBase)
<1>1. TableOk(T) /\ HeapOk(h) /\ SlabBytes(T, mine) = h.start .. h.end - 1
  BY DEF Good
<1>2. h.start \in Nat /\ h.end \in Nat /\ h.start < h.end
  <2>1. Sound(h)
    BY <1>1 DEF HeapOk
  <2>2. Chained(Blocks(h), Ends(h), h.start, h.end)
    BY <2>1, SoundFacts
  <2>3. h.start \in Blocks(h) /\ h.start \in Nat /\ h.end \in Nat
    BY <2>2 DEF Chained
  <2>4. h.start < Ends(h)[h.start] /\ Ends(h)[h.start] <= h.end /\ Ends(h)[h.start] \in Nat
    BY <2>2, <2>3, ChainFacts
  <2> QED BY <2>3, <2>4
<1>3. /\ top \in Nat /\ SlotBase <= top /\ \A i \in HeldPlaces(T) : End(T[i]) <= top
      /\ top = SlotBase \/ \E i \in HeldPlaces(T) : top = End(T[i])
  BY <1>1, AboveIs
<1>4. /\ \A i \in HeldPlaces(T) : /\ T[i].base \in Nat /\ T[i].length \in Nat
                                  /\ End(T[i]) = T[i].base + T[i].length
                                  /\ T[i].base < End(T[i]) /\ End(T[i]) \in Nat
  BY <1>1, TableFacts DEF End
<1>5. /\ \A i \in HeldPlaces(T) : SlotBase <= T[i].base
      /\ \A i, j \in HeldPlaces(T) : i # j => End(T[i]) <= T[j].base \/ End(T[j]) <= T[i].base
  BY <1>1 DEF TableOk
<1>6. \A i \in HeldPlaces(T) : T[i].base \notin mine => End(T[i]) <= h.end
  <2> SUFFICES ASSUME NEW i \in HeldPlaces(T), T[i].base \notin mine PROVE End(T[i]) <= h.end
    OBVIOUS
  <2>1. End(T[i]) - 1 \in Bytes(T[i])
    BY <1>4 DEF Bytes
  <2>2. i \in Slabs(T, mine)
    BY DEF Slabs
  <2>3. End(T[i]) - 1 \in SlabBytes(T, mine)
    BY <2>1, <2>2 DEF SlabBytes
  <2> QED BY <1>1, <1>2, <1>4, <2>3
<1>7. PICK i \in HeldPlaces(T) : T[i].base \notin mine /\ h.end - 1 \in Bytes(T[i])
  <2>1. h.end - 1 \in SlabBytes(T, mine)
    BY <1>1, <1>2
  <2> QED BY <2>1 DEF SlabBytes, Slabs
<1>8. End(T[i]) = h.end /\ T[i].base < h.end
  <2>1. T[i].base <= h.end - 1 /\ h.end - 1 <= T[i].base + T[i].length - 1
    BY <1>2, <1>4, <1>7 DEF Bytes
  <2>2. End(T[i]) <= h.end
    BY <1>6, <1>7
  <2> QED BY <1>2, <1>4, <2>1, <2>2
<1> HIDE DEF top
<1>9. h.end < top
  <2>1. top # h.end
    BY DEF top
  <2> QED BY <1>2, <1>3, <1>8, <2>1
<1>10. top # SlotBase
  BY <1>2, <1>3, <1>4, <1>5, <1>8, <1>9
<1>11. PICK j \in HeldPlaces(T) : top = End(T[j])
  BY <1>3, <1>10
<1>12. T[j].base \in mine
  BY <1>2, <1>3, <1>6, <1>9, <1>11
<1>13. i # j
  BY <1>2, <1>3, <1>8, <1>9, <1>11
<1>14. End(T[i]) <= T[j].base \/ End(T[j]) <= T[i].base
  BY <1>5, <1>13
<1>15. T[j].base >= h.end
  BY <1>2, <1>3, <1>4, <1>8, <1>9, <1>11, <1>14
<1> QED BY <1>12, <1>15

Obstacle(u, mine, len, frames) ==
  Refusal(u.regions, len, frames) \/ \E base \in mine : base >= u.heap.end

\* el_append_pages_to_heap: nothing has changed, for a reason, or the heap has grown.
LEMMA AppendGood ==
  ASSUME NEW u, NEW mine, Good(u, mine), u.initialised, NEW n \in Nat \ {0},
         NEW frames \in BOOLEAN, NEW len, len = SizeT(n * PageLen),
         NEW r, r = AppendPages(u, n, frames)
  PROVE  /\ Good(r, mine) /\ r.initialised
         /\ \/ r = u /\ r.heap = u.heap /\ Obstacle(u, mine, len, frames)
            \/ Grows(u.heap, r.heap, len) /\ r.heap # u.heap
<1> DEFINE m == SysMmap(u.regions, len, frames)
<1>0. PageLen \in Nat \ {0} /\ EL_BLOCK_OVERHEAD \in Nat /\ EL_BLOCK_OVERHEAD <= PageLen
  BY ConstantFacts
<1>1. len \in Nat /\ len % PageLen = 0
  <2>1. n * PageLen \in Nat
    BY <1>0
  <2>2. (n * PageLen) % PageLen = 0
    BY <1>0, Multiples
  <2> QED BY <2>1, <2>2, SizeTIs
<1>2. RoundUpTo(PageLen, len) = len /\ len % Align = 0
  BY <1>1, RoundUpToIs
<1>3. TableOk(u.regions) /\ OwnOk(mine, u.regions) /\ ProgramRecord(u) /\ HeapOk(u.heap)
      /\ SlabBytes(u.regions, mine) = u.heap.start .. u.heap.end - 1 /\ u.initialised = TRUE
  BY DEF Good
<1>4. IF m.base = FAILED
      THEN m.regions = u.regions /\ Refusal(u.regions, len, frames)
      ELSE /\ len # 0 /\ m.base = Above(u.regions, SlotBase) /\ TableOk(m.regions)
           /\ \E p \in 1 .. MaxRegions : Entered(u.regions, m.regions, p, m.base, len)
  <2>1. m = SysMmap(u.regions, len, frames)
    OBVIOUS
  <2> HIDE DEF m
  <2> QED BY <1>1, <1>2, <1>3, <2>1, MmapIs
<1>5. r = IF m.base = FAILED THEN u
          ELSE IF m.base # u.heap.end
          THEN [u EXCEPT !.regions = SysMunmap(m.regions, m.base, len)]
          ELSE [u EXCEPT !.regions = m.regions, !.heap = AppendSlab(@, len)]
  BY DEF AppendPages
<1> HIDE DEF m
<1>6. CASE m.base = FAILED
  <2>1. r = u
    BY <1>5, <1>6
  <2> QED BY <1>4, <1>6, <2>1 DEF Obstacle
<1>7. CASE m.base # FAILED /\ m.base # u.heap.end
  <2>1. PICK p \in 1 .. MaxRegions : Entered(u.regions, m.regions, p, m.base, len)
    BY <1>4, <1>7
  <2>2. SysMunmap(m.regions, m.base, len) = u.regions
    <3>1. len \in Nat \ {0} /\ m.base = Above(u.regions, SlotBase)
          /\ Entered(u.regions, m.regions, p, m.base, RoundUpTo(PageLen, len))
      BY <1>1, <1>2, <1>4, <1>7, <2>1
    <3> QED BY <1>3, <3>1, UndoIs
  <2>3. r = [u EXCEPT !.regions = u.regions]
    BY <1>5, <1>7, <2>2
  <2>4. r = u
    <3> PICK i, h, g : u = [initialised |-> i, heap |-> h, regions |-> g]
      BY <1>3 DEF ProgramRecord, ProgramOf
    <3> QED BY <2>3, Zenon
  <2>5. \E base \in mine : base >= u.heap.end
    BY <1>4, <1>7, OwnAbove
  <2> QED BY <2>4, <2>5 DEF Obstacle
<1>8. CASE m.base # FAILED /\ m.base = u.heap.end
  <2> DEFINE h == AppendSlab(u.heap, len)
             base == u.heap.end
  <2>1. r = [u EXCEPT !.regions = m.regions, !.heap = h]
    <3>1. r = [u EXCEPT !.regions = m.regions, !.heap = AppendSlab(@, len)]
      BY <1>5, <1>8
    <3> QED BY <3>1
  <2>2. len # 0 /\ m.base = Above(u.regions, SlotBase) /\ TableOk(m.regions)
    BY <1>4, <1>8
  <2>3. PICK p \in 1 .. MaxRegions : Entered(u.regions, m.regions, p, m.base, len)
    BY <1>4, <1>8
  <2>4. EL_BLOCK_OVERHEAD <= len
    <3>1. 0 % PageLen = 0 /\ 0 \in Int /\ len \in Int /\ 0 < len
      BY <1>0, <1>1, <2>2
    <3>2. 0 + PageLen <= len
      BY <1>0, <1>1, <3>1, NextMultiple
    <3> QED BY <1>0, <1>1, <3>2
  <2>5. HeapOk(h) /\ Grows(u.heap, h, len)
    BY <1>1, <1>2, <1>3, <2>4, AppendOk
  <2> HIDE DEF h
  <2>6. r.initialised = TRUE /\ r.heap = h /\ r.regions = m.regions /\ ProgramRecord(r)
    <3>1. [u EXCEPT !.regions = m.regions, !.heap = h] = ProgramOf(u.initialised, h, m.regions)
      BY <1>3, BothSet, Zenon
    <3>2. r = ProgramOf(TRUE, h, m.regions)
      BY <1>3, <2>1, <3>1
    <3> QED BY <3>2 DEF ProgramRecord, ProgramOf
  <2>7. Accounted(u.regions, m.regions, mine, base, len)
    BY <1>3, <1>8, <2>2, <2>3, OwnEnters
  <2>8. h.start = u.heap.start /\ h.end = u.heap.end + len
    BY <2>5 DEF Grows
  <2>9. u.heap.start \in Nat /\ u.heap.end \in Nat /\ u.heap.start <= u.heap.end
    <3>1. Sound(u.heap)
      BY <1>3 DEF HeapOk
    <3>2. Chained(Blocks(u.heap), Ends(u.heap), u.heap.start, u.heap.end)
      BY <3>1, SoundFacts
    <3>3. u.heap.start \in Blocks(u.heap) /\ u.heap.start \in Nat /\ u.heap.end \in Nat
      BY <3>2 DEF Chained
    <3>4. u.heap.start < Ends(u.heap)[u.heap.start] /\ Ends(u.heap)[u.heap.start] <= u.heap.end
          /\ Ends(u.heap)[u.heap.start] \in Nat
      BY <3>2, <3>3, ChainFacts
    <3> QED BY <3>3, <3>4
  <2>10. SlabBytes(m.regions, mine) = h.start .. h.end - 1 /\ OwnOk(mine, m.regions)
    <3>1. /\ SlabBytes(m.regions, mine) = (u.heap.start .. base - 1) \cup (base .. base + len - 1)
          /\ OwnOk(mine, m.regions)
      BY <1>3, <2>7 DEF Accounted
    <3>2. (u.heap.start .. base - 1) \cup (base .. base + len - 1) = h.start .. h.end - 1
      BY <1>1, <2>8, <2>9
    <3> QED BY <3>1, <3>2
  <2>11. Good(r, mine)
    BY <2>2, <2>5, <2>6, <2>10, Zenon DEF Good
  <2>12. h # u.heap
    BY <1>1, <2>2, <2>8, <2>9
  <2> QED BY <2>5, <2>6, <2>11, <2>12
<1> QED BY <1>6, <1>7, <1>8

-----------------------------------------------------------------------------
(* malloc.                                                                 *)

\* Nothing in use has changed.
Keeps(h, r) ==
  /\ InState(r, "used") = InState(h, "used")
  /\ \A c \in InState(h, "used") : r.head[c] = h.head[c]

\* One more block b is in use, with room for n.
Gives(h, r, b, n) ==
  /\ b \in Nat /\ b \notin InState(h, "used")
  /\ InState(r, "used") = InState(h, "used") \cup {b}
  /\ \A c \in InState(h, "used") : r.head[c] = h.head[c]
  /\ r.head[b].size >= n

NoneFits(h, n) == \A b \in InState(h, "available") : h.head[b].size < n

\* Why the heap could not grow for a block of `size'.
NoGrowth(u, mine, size, frames) ==
  ~ frames \/ Full(u.regions, TruePages(size)) \/ \E base \in mine : base >= u.heap.end

\* Got, field by field.
LEMMA GotIs ==
  ASSUME NEW u, ProgramRecord(u), NEW h, NEW ptr, NEW res, res.heap = h, res.ptr = ptr,
         NEW r, r = Got(u, res)
  PROVE  /\ r.u = ProgramOf(u.initialised, h, u.regions) /\ r.ptr = ptr
<1>1. [u EXCEPT !.heap = h] = ProgramOf(u.initialised, h, u.regions)
  BY HeapSetIn
<1>2. r.u = [u EXCEPT !.heap = res.heap] /\ r.ptr = res.ptr
  BY DEF Got
<1> QED BY <1>1, <1>2

\* A search that succeeds.
LEMMA GotGood ==
  ASSUME NEW u, NEW mine, Good(u, mine), u.initialised, NEW n \in Nat, n % Align = 0,
         FindFirstAvail(u.heap, n) # NULL, NEW r, r = Got(u, Malloc(u.heap, n))
  PROVE  /\ Good(r.u, mine) /\ r.u.initialised /\ r.ptr # NULL /\ r.ptr % Align = 0
         /\ r.ptr \in Nat /\ Gives(u.heap, r.u.heap, r.ptr - HeadLen, n)
<1> DEFINE res == Malloc(u.heap, n)
           h == u.heap
           g == res.heap
<1>1. HeapOk(h) /\ ProgramRecord(u) /\ u.initialised = TRUE
      /\ TableOk(u.regions) /\ OwnOk(mine, u.regions)
      /\ SlabBytes(u.regions, mine) = h.start .. h.end - 1
  BY SMTT(30) DEF Good
<1>2. PICK b \in InState(h, "available") :
        /\ HeapOk(g) /\ Serves(h, g, b, n) /\ b \in Nat
        /\ res.ptr = b + HeadLen /\ res.ptr % Align = 0 /\ res.ptr # NULL
  BY <1>1, MallocOk
<1>3. r.u = ProgramOf(u.initialised, g, u.regions) /\ r.ptr = res.ptr
  <2>1. r = Got(u, res)
    OBVIOUS
  <2>2. ProgramRecord(u)
    BY <1>1
  <2> HIDE DEF res
  <2>3. r.u = [u EXCEPT !.heap = g] /\ r.ptr = res.ptr
    BY <2>1 DEF Got
  <2>4. [u EXCEPT !.heap = g] = ProgramOf(u.initialised, g, u.regions)
    BY <2>2, HeapSetIn, Zenon
  <2> QED BY <2>3, <2>4
<1> HIDE DEF res, g
<1>4. r.u.initialised = TRUE /\ r.u.heap = g /\ r.u.regions = u.regions /\ ProgramRecord(r.u)
  BY <1>1, <1>3 DEF ProgramOf, ProgramRecord
<1>5. /\ g.start = h.start /\ g.end = h.end
      /\ InState(g, "used") = InState(h, "used") \cup {b}
      /\ \A c \in InState(h, "used") : g.head[c] = h.head[c]
      /\ g.head[b].size >= n
  BY <1>2 DEF Serves
<1>6. Good(r.u, mine)
  BY <1>1, <1>2, <1>4, <1>5, Zenon DEF Good
<1>7. HeadLen \in Nat
  BY ConstantFacts
<1>8. r.ptr - HeadLen = b /\ r.ptr \in Nat
  BY <1>2, <1>3, <1>7
<1>9. b \notin InState(h, "used")
  BY DEF InState
<1>10. Gives(u.heap, r.u.heap, b, n)
  BY <1>2, <1>4, <1>5, <1>9 DEF Gives
<1> QED BY <1>2, <1>3, <1>4, <1>6, <1>8, <1>10, Zenon

\* The search and its one retry.
LEMMA SearchGood ==
  ASSUME NEW u, NEW mine, Good(u, mine), u.initialised, NEW n \in Nat, n % Align = 0,
         NEW frames \in BOOLEAN, NEW r, r = Search(u, n, frames)
  PROVE  /\ Good(r.u, mine) /\ r.u.initialised
         /\ IF r.ptr = NULL
            THEN /\ Keeps(u.heap, r.u.heap) /\ NoneFits(r.u.heap, n)
                 /\ NoGrowth(r.u, mine, n, frames)
            ELSE /\ r.ptr \in Nat /\ r.ptr % Align = 0
                 /\ Gives(u.heap, r.u.heap, r.ptr - HeadLen, n)
<1> DEFINE p == PagesToGrow(n)
           t == TruePages(n)
           len == SizeT(p * PageLen)
           g == AppendPages(u, p, frames)
<1>0. EL_BLOCK_OVERHEAD \in Nat /\ SlotLen \in Nat
  BY ConstantFacts, SMTT(30)
<1>1. CASE FindFirstAvail(u.heap, n) # NULL
  <2>1. r = Got(u, Malloc(u.heap, n))
    BY <1>1 DEF Search
  <2> QED BY <1>1, <2>1, GotGood
<1>2. CASE FindFirstAvail(u.heap, n) = NULL
  <2>1. r = IF g.heap = u.heap THEN [u |-> g, ptr |-> NULL] ELSE Got(g, Malloc(g.heap, n))
    BY <1>2 DEF Search
  <2>2. /\ p \in Nat \ {0} /\ t \in Nat \ {0} /\ t * PageLen \in Nat
        /\ PagesExact(n) \/ SlotLen < t * PageLen
    BY PagesIs
  <2>3. /\ Good(g, mine) /\ g.initialised
        /\ \/ g = u /\ g.heap = u.heap /\ Obstacle(u, mine, len, frames)
           \/ Grows(u.heap, g.heap, len) /\ g.heap # u.heap
    <3>1. len = SizeT(p * PageLen) /\ g = AppendPages(u, p, frames)
      OBVIOUS
    <3> HIDE DEF p, len, g
    <3> QED BY <2>2, <3>1, AppendGood
  <2>4. HeapOk(u.heap) /\ TableOk(u.regions) /\ HeapOk(g.heap) /\ TableOk(g.regions)
    BY <2>3, Zenon DEF Good
  <2>5. PagesExact(n) => p = t /\ len = t * PageLen /\ n + EL_BLOCK_OVERHEAD <= t * PageLen
    BY DEF PagesExact
  <2> HIDE DEF p, t, len, g
  <2>6. CASE g.heap = u.heap
    <3>1. g = u /\ Obstacle(u, mine, len, frames)
      BY <2>3, <2>6
    <3>2. r.u = u /\ r.ptr = NULL
      BY <2>1, <2>6, <3>1
    <3>3. NoneFits(u.heap, n)
      BY <1>2, <2>4, MallocOk DEF NoneFits
    <3>4. Keeps(u.heap, u.heap)
      BY DEF Keeps
    <3>5. NoGrowth(u, mine, n, frames)
      <4>1. CASE \E base \in mine : base >= u.heap.end
        BY <4>1 DEF NoGrowth
      <4>2. CASE SlotLen < t * PageLen
        BY <2>2, <2>4, <4>2, TooLong DEF NoGrowth, t
      <4>3. CASE PagesExact(n) /\ Refusal(u.regions, len, frames)
        <5>1. Refusal(u.regions, t * PageLen, frames)
          BY <2>5, <4>3
        <5> QED BY <2>2, <2>4, <5>1, RefusedPages DEF NoGrowth, t
      <4> QED BY <2>2, <3>1, <4>1, <4>2, <4>3 DEF Obstacle
    <3> QED BY <3>2, <3>3, <3>4, <3>5
  <2>7. CASE g.heap # u.heap
    <3>1. r = Got(g, Malloc(g.heap, n)) /\ Grows(u.heap, g.heap, len)
      BY <2>1, <2>3, <2>7
    <3>2. /\ InState(g.heap, "used") = InState(u.heap, "used")
          /\ \A c \in InState(u.heap, "used") : g.heap.head[c] = u.heap.head[c]
          /\ \E c \in InState(g.heap, "available") :
               g.heap.head[c].size >= len - EL_BLOCK_OVERHEAD
      BY <3>1 DEF Grows
    <3>3. CASE FindFirstAvail(g.heap, n) # NULL
      <4>1. /\ Good(r.u, mine) /\ r.u.initialised /\ r.ptr # NULL /\ r.ptr % Align = 0
            /\ r.ptr \in Nat /\ Gives(g.heap, r.u.heap, r.ptr - HeadLen, n)
        BY <2>3, <3>1, <3>3, GotGood, Zenon
      <4>2. Gives(u.heap, r.u.heap, r.ptr - HeadLen, n)
        BY <3>2, <4>1, Zenon DEF Gives
      <4> QED BY <4>1, <4>2
    <3>4. CASE FindFirstAvail(g.heap, n) = NULL
      <4> DEFINE res == Malloc(g.heap, n)
      <4>1. res.heap = g.heap /\ res.ptr = NULL /\ NoneFits(g.heap, n)
        BY <2>4, <3>4, MallocOk DEF NoneFits
      <4>2. ProgramRecord(g)
        BY <2>3 DEF Good
      <4>3. r.u = ProgramOf(g.initialised, g.heap, g.regions) /\ r.ptr = NULL
        <5>1. r = Got(g, res)
          BY <3>1
        <5> HIDE DEF res
        <5> QED BY <4>1, <4>2, <5>1, GotIs
      <4>4. r.u = g
        BY <4>2, <4>3 DEF ProgramRecord
      <4>5. Keeps(u.heap, g.heap)
        BY <3>2 DEF Keeps
      <4>6. ~ PagesExact(n)
        <5> SUFFICES ASSUME PagesExact(n) PROVE FALSE
          OBVIOUS
        <5>1. len = t * PageLen /\ n + EL_BLOCK_OVERHEAD <= t * PageLen
          BY <2>5
        <5>2. PICK c \in InState(g.heap, "available") :
                g.heap.head[c].size >= len - EL_BLOCK_OVERHEAD
          BY <3>2
        <5>3. g.heap.head[c].size < n
          BY <4>1 DEF NoneFits
        <5>4. g.heap.head[c].size \in Nat
          BY <2>4, SizesAligned DEF InState
        <5> QED BY <1>0, <2>2, <5>1, <5>2, <5>3, <5>4
      <4>7. NoGrowth(g, mine, n, frames)
        BY <2>2, <2>4, <4>6, TooLong DEF NoGrowth, t
      <4> QED BY <2>3, <4>1, <4>3, <4>4, <4>5, <4>7, Zenon
    <3> QED BY <3>3, <3>4, Zenon
  <2> QED BY <2>6, <2>7
<1> QED BY <1>1, <1>2

\* What was in use before the call.
InUse(u) == IF u.initialised THEN InState(u.heap, "used") ELSE {}

Returned(u, r, n) ==
  /\ r.ptr \in Nat /\ r.ptr % Align = 0 /\ r.u.initialised
  /\ r.ptr - HeadLen \notin InUse(u)
  /\ InState(r.u.heap, "used") = InUse(u) \cup {r.ptr - HeadLen}
  /\ \A c \in InUse(u) : r.u.heap.head[c] = u.heap.head[c]
  /\ r.u.heap.head[r.ptr - HeadLen].size >= RoundUp(n)

FailedFor(u, r, mine, n, frames) ==
  IF r.u.initialised
  THEN /\ InState(r.u.heap, "used") = InUse(u)
       /\ \A c \in InUse(u) : r.u.heap.head[c] = u.heap.head[c]
       /\ NoneFits(r.u.heap, RoundUp(n)) /\ NoGrowth(r.u, mine, RoundUp(n), frames[2])
  ELSE ~ u.initialised /\ r.u = u /\ (~ frames[1] \/ Full(u.regions, InitialPages))

\* malloc of n.
LEMMA MallocGood ==
  ASSUME NEW u, NEW mine, Good(u, mine), NEW n \in 0 .. Word - 1,
         NEW frames \in BOOLEAN \X BOOLEAN, NEW r, r = malloc(u, n, frames)
  PROVE  /\ Good(r.u, mine)
         /\ IF r.ptr = NULL THEN FailedFor(u, r, mine, n, frames) ELSE Returned(u, r, n)
<1> DEFINE v == ElInit(u, frames[1])
           size == RoundUp(n)
<1>0. frames[1] \in BOOLEAN /\ frames[2] \in BOOLEAN
  OBVIOUS
<1>1. /\ Good(v, mine)
      /\ u.initialised => v = u
      /\ ~ u.initialised /\ v.initialised => InState(v.heap, "used") = {}
      /\ ~ v.initialised => v = u /\ (~ frames[1] \/ Full(u.regions, InitialPages))
  <2>1. v = ElInit(u, frames[1])
    OBVIOUS
  <2> HIDE DEF v
  <2> QED BY <1>0, <2>1, InitGood
<1>2. size \in Nat /\ size % Align = 0
  BY RoundUpIs
<1>3. r = IF v.initialised THEN Search(v, size, frames[2]) ELSE [u |-> v, ptr |-> NULL]
  BY DEF malloc
<1>4. v.initialised \in BOOLEAN /\ u.initialised \in BOOLEAN
  BY <1>1, Zenon DEF Good
<1> HIDE DEF v, size
<1>5. CASE ~ v.initialised
  <2>1. r.u = v /\ r.ptr = NULL /\ v = u
    BY <1>1, <1>3, <1>5, SMTT(30)
  <2> QED BY <1>1, <1>5, <2>1 DEF FailedFor
<1>6. CASE v.initialised
  <2>1. r = Search(v, size, frames[2])
    BY <1>3, <1>6, SMTT(30)
  <2>2. /\ Good(r.u, mine) /\ r.u.initialised
        /\ IF r.ptr = NULL
           THEN /\ Keeps(v.heap, r.u.heap) /\ NoneFits(r.u.heap, size)
                /\ NoGrowth(r.u, mine, size, frames[2])
           ELSE /\ r.ptr \in Nat /\ r.ptr % Align = 0
                /\ Gives(v.heap, r.u.heap, r.ptr - HeadLen, size)
    BY <1>0, <1>1, <1>2, <1>6, <2>1, SearchGood
  <2>3. InState(v.heap, "used") = InUse(u)
    BY <1>1, <1>6 DEF InUse
  <2>4. \A c \in InUse(u) : v.heap.head[c] = u.heap.head[c]
    BY <1>1 DEF InUse
  <2>5. CASE r.ptr = NULL
    <3>1. Keeps(v.heap, r.u.heap)
      BY <2>2, <2>5
    <3>2. /\ InState(r.u.heap, "used") = InUse(u)
          /\ \A c \in InUse(u) : r.u.heap.head[c] = u.heap.head[c]
      BY <2>3, <2>4, <3>1 DEF Keeps
    <3> QED BY <2>2, <2>5, <3>2, Zenon DEF FailedFor, size
  <2>6. CASE r.ptr # NULL
    <3>1. Gives(v.heap, r.u.heap, r.ptr - HeadLen, size)
      BY <2>2, <2>6
    <3>2. /\ r.ptr - HeadLen \notin InUse(u)
          /\ InState(r.u.heap, "used") = InUse(u) \cup {r.ptr - HeadLen}
          /\ \A c \in InUse(u) : r.u.heap.head[c] = u.heap.head[c]
          /\ r.u.heap.head[r.ptr - HeadLen].size >= size
      BY <2>3, <2>4, <3>1, Zenon DEF Gives
    <3> QED BY <2>2, <2>6, <3>2, Zenon DEF Returned, size
  <2> QED BY <2>2, <2>5, <2>6
<1> QED BY <1>5, <1>6

-----------------------------------------------------------------------------
(* The program's pointers, and the reason for a failure.                   *)

LiveServed(lv, h) ==
  /\ DOMAIN lv \subseteq Nat
  /\ {p - HeadLen : p \in DOMAIN lv} = InState(h, "used")
  /\ \A p \in DOMAIN lv :
       /\ p % Align = 0 /\ lv[p] \in 0 .. Word - 1
       /\ lv[p] \notin Word - Align + 1 .. Word - 1 => h.head[p - HeadLen].size >= lv[p]

Serving(u, lv) == IF u.initialised THEN LiveServed(lv, u.heap) ELSE lv = <<>>

Reason(u, mine, n, frames) ==
  IF u.initialised
  THEN /\ \A b \in InState(u.heap, "available") : u.heap.head[b].size < n
       /\ \/ ~ frames[2] \/ Full(u.regions, TruePages(TrueUp(n)))
          \/ \E base \in mine : base >= u.heap.end
  ELSE ~ frames[1] \/ Full(u.regions, InitialPages)

\* What is in use before a call is what the program holds.
LEMMA ServingFacts ==
  ASSUME NEW u, NEW lv, Serving(u, lv)
  PROVE  /\ DOMAIN lv \subseteq Nat
         /\ {p - HeadLen : p \in DOMAIN lv} = InUse(u)
         /\ \A p \in DOMAIN lv :
              /\ p - HeadLen \in InUse(u)
              /\ p % Align = 0 /\ lv[p] \in 0 .. Word - 1
              /\ lv[p] \notin Word - Align + 1 .. Word - 1
                   => u.heap.head[p - HeadLen].size >= lv[p]
<1>1. CASE u.initialised
  BY <1>1 DEF Serving, LiveServed, InUse
<1>2. CASE ~ u.initialised
  <2>1. lv = <<>>
    BY <1>2 DEF Serving
  <2>2. DOMAIN lv = {}
    BY <2>1
  <2>3. InUse(u) = {}
    BY <1>2 DEF InUse
  <2> HIDE <2>1
  <2> QED BY <2>2, <2>3
<1> QED BY <1>1, <1>2

\* A block that is too small for the rounded request is too small for the request.
LEMMA TooSmall ==
  ASSUME NEW h, HeapOk(h), NEW n \in 0 .. Word - 1, NoneFits(h, RoundUp(n))
  PROVE  \A b \in InState(h, "available") : h.head[b].size < n
<1> TAKE b \in InState(h, "available")
<1> DEFINE s == h.head[b].size
           r == RoundUp(n)
<1>0. Align \in Nat \ {0} /\ n \in Int
  BY ConstantFacts
<1>1. s \in Nat /\ s % Align = 0
  BY SizesAligned DEF InState
<1>2. r \in Nat /\ r % Align = 0 /\ r < n + Align
  BY RoundUpIs
<1>3. s < r
  BY DEF NoneFits
<1> HIDE DEF s, r
<1>4. s + Align <= r
  <2>1. s \in Int /\ r \in Int
    BY <1>1, <1>2
  <2> QED BY <1>0, <1>1, <1>2, <1>3, <2>1, NextMultiple, Zenon
<1>5. s < n
  BY <1>0, <1>1, <1>2, <1>4
<1> QED BY <1>5 DEF s

LEMMA ReasonIs ==
  ASSUME NEW u, NEW mine, Good(u, mine), u.initialised, NEW n \in 0 .. Word - 1, NEW frames,
         NoneFits(u.heap, RoundUp(n)), NoGrowth(u, mine, RoundUp(n), frames[2])
  PROVE  Reason(u, mine, n, frames)
<1>1. HeapOk(u.heap) /\ TableOk(u.regions)
  BY SMTT(30) DEF Good
<1>2. \A b \in InState(u.heap, "available") : u.heap.head[b].size < n
  BY <1>1, TooSmall
<1>3. \/ ~ frames[2] \/ Full(u.regions, TruePages(TrueUp(n)))
      \/ \E base \in mine : base >= u.heap.end
  <2>1. CASE n <= Word - Align
    <3>1. RoundUp(n) = TrueUp(n)
      BY <2>1, RoundUpIs
    <3> QED BY <3>1 DEF NoGrowth
  <2>2. CASE ~ (n <= Word - Align)
    <3>1. TrueUp(n) = Word
      BY <2>2, RoundUpIs
    <3>2. Word \in Nat /\ Word <= Word
      BY ConstantFacts
    <3>3. TruePages(Word) * PageLen \in Nat /\ SlotLen < TruePages(Word) * PageLen
      BY <3>2, PagesIs
    <3>4. Full(u.regions, TruePages(Word))
      BY <1>1, <3>3, TooLong, SMTT(30)
    <3> QED BY <3>1, <3>4
  <2> QED BY <2>1, <2>2
<1> QED BY <1>2, <1>3, Zenon DEF Reason

Given(lv, r, n) == IF r.ptr = NULL THEN lv ELSE Written(lv, r.ptr, n)

\* A call of malloc keeps every pointer served, and serves the new one.
LEMMA ReturnServes ==
  ASSUME NEW u, NEW mine, Good(u, mine), NEW lv, Serving(u, lv), NEW n \in 0 .. Word - 1,
         NEW frames \in BOOLEAN \X BOOLEAN, NEW r, r = malloc(u, n, frames),
         NEW lv2, lv2 = Given(lv, r, n)
  PROVE  /\ Good(r.u, mine) /\ Serving(r.u, lv2)
         /\ r.ptr = NULL => Reason(r.u, mine, n, frames)
<1>1. /\ Good(r.u, mine)
      /\ IF r.ptr = NULL THEN FailedFor(u, r, mine, n, frames) ELSE Returned(u, r, n)
  BY MallocGood
<1>2. /\ DOMAIN lv \subseteq Nat
      /\ {p - HeadLen : p \in DOMAIN lv} = InUse(u)
      /\ \A p \in DOMAIN lv :
           /\ p - HeadLen \in InUse(u)
           /\ p % Align = 0 /\ lv[p] \in 0 .. Word - 1
           /\ lv[p] \notin Word - Align + 1 .. Word - 1
                => u.heap.head[p - HeadLen].size >= lv[p]
  BY ServingFacts
<1>3. r.u.initialised \in BOOLEAN /\ Word \in Nat /\ Align \in Nat \ {0} /\ HeadLen \in Nat
  BY <1>1, ConstantFacts, Zenon DEF Good
<1>4. CASE r.ptr = NULL /\ ~ r.u.initialised
  <2>1. ~ u.initialised /\ r.u = u /\ (~ frames[1] \/ Full(u.regions, InitialPages))
    BY <1>1, <1>4 DEF FailedFor
  <2>2. lv2 = lv
    BY <1>4 DEF Given
  <2>3. Reason(r.u, mine, n, frames)
    BY <1>4, <2>1 DEF Reason
  <2>4. Serving(r.u, lv2)
    BY <2>1, <2>2, SMTT(30)
  <2> QED BY <1>1, <2>3, <2>4
<1>5. CASE r.ptr = NULL /\ r.u.initialised
  <2>1. /\ InState(r.u.heap, "used") = InUse(u)
        /\ \A c \in InUse(u) : r.u.heap.head[c] = u.heap.head[c]
        /\ NoneFits(r.u.heap, RoundUp(n)) /\ NoGrowth(r.u, mine, RoundUp(n), frames[2])
    BY <1>1, <1>5 DEF FailedFor
  <2>2. lv2 = lv
    BY <1>5 DEF Given
  <2>3. Reason(r.u, mine, n, frames)
    BY <1>1, <1>5, <2>1, ReasonIs
  <2>4. \A p \in DOMAIN lv : r.u.heap.head[p - HeadLen] = u.heap.head[p - HeadLen]
    BY <1>2, <2>1, Zenon
  <2>5. LiveServed(lv, r.u.heap)
    BY <1>2, <2>1, <2>4, Zenon DEF LiveServed
  <2> QED BY <1>1, <1>5, <2>2, <2>3, <2>5 DEF Serving
<1>6. CASE r.ptr # NULL
  <2> DEFINE q == r.ptr
             b == q - HeadLen
             g == r.u.heap
  <2>1. /\ q \in Nat /\ q % Align = 0 /\ r.u.initialised /\ b \notin InUse(u)
        /\ InState(g, "used") = InUse(u) \cup {b}
        /\ \A c \in InUse(u) : g.head[c] = u.heap.head[c]
        /\ g.head[b].size >= RoundUp(n)
    BY <1>1, <1>6, Zenon DEF Returned
  <2>2. lv2 = Written(lv, q, n)
    BY <1>6 DEF Given
  <2> HIDE DEF q, b, g
  <2>3. DOMAIN lv2 = DOMAIN lv \cup {q} /\ lv2[q] = n /\ \A p \in DOMAIN lv \ {q} : lv2[p] = lv[p]
    BY <2>2, SMTT(30) DEF Written
  <2>4. q \notin DOMAIN lv
    BY <1>2, <2>1 DEF b
  <2>5. {p - HeadLen : p \in DOMAIN lv2} = InState(g, "used")
    <3>1. {p - HeadLen : p \in DOMAIN lv2} = {p - HeadLen : p \in DOMAIN lv} \cup {b}
      BY <2>3, SMTT(30) DEF b
    <3> QED BY <1>2, <2>1, <3>1, Zenon
  <2>6. ASSUME NEW p \in DOMAIN lv
        PROVE  /\ p % Align = 0 /\ lv2[p] \in 0 .. Word - 1
               /\ lv2[p] \notin Word - Align + 1 .. Word - 1 => g.head[p - HeadLen].size >= lv2[p]
    <3>1. lv2[p] = lv[p]
      BY <2>3, <2>4
    <3>2. g.head[p - HeadLen] = u.heap.head[p - HeadLen]
      BY <1>2, <2>1
    <3> QED BY <1>2, <3>1, <3>2
  <2>7. n \notin Word - Align + 1 .. Word - 1 => g.head[b].size >= n
    <3> SUFFICES ASSUME n \notin Word - Align + 1 .. Word - 1 PROVE g.head[b].size >= n
      OBVIOUS
    <3>1. n <= Word - Align
      BY <1>3
    <3>2. RoundUp(n) >= n /\ RoundUp(n) \in Nat
      BY <3>1, RoundUpIs
    <3>3. g.head[b].size \in Nat
      <4>1. HeapOk(g) /\ b \in Blocks(g)
        BY <1>1, <2>1, Zenon DEF Good, InState, g
      <4> QED BY <4>1, SizesAligned
    <3> QED BY <2>1, <3>2, <3>3
  <2>8. LiveServed(lv2, g)
    <3>1. DOMAIN lv2 \subseteq Nat
      BY <1>2, <2>1, <2>3
    <3>2. ASSUME NEW p \in DOMAIN lv2
          PROVE  /\ p % Align = 0 /\ lv2[p] \in 0 .. Word - 1
                 /\ lv2[p] \notin Word - Align + 1 .. Word - 1
                      => g.head[p - HeadLen].size >= lv2[p]
      <4>1. CASE p = q
        BY <2>1, <2>3, <2>7, <4>1 DEF b
      <4>2. CASE p # q
        BY <2>3, <2>6, <4>2
      <4> QED BY <4>1, <4>2, SMTT(30)
    <3> QED BY <2>5, <3>1, <3>2, SMTT(30) DEF LiveServed
  <2> QED BY <1>1, <1>6, <2>1, <2>8, Zenon DEF Serving, g
<1> QED BY <1>3, <1>4, <1>5, <1>6

\* free of a pointer that the program holds.
LEMMA FreeServes ==
  ASSUME NEW u, NEW mine, Good(u, mine), NEW lv, Serving(u, lv), NEW ptr \in DOMAIN lv,
         NEW h, h = Free(u.heap, ptr), NEW lv2, lv2 = Restrict(lv, DOMAIN lv \ {ptr})
  PROVE  LET v == ProgramOf(u.initialised, h, u.regions)
         IN Good(v, mine) /\ Serving(v, lv2)
<1> DEFINE v == ProgramOf(u.initialised, h, u.regions)
           b == ptr - HeadLen
<1>0. HeadLen \in Nat
  BY ConstantFacts
<1>1. u.initialised
  <2> SUFFICES ASSUME ~ u.initialised PROVE FALSE
    OBVIOUS
  <2>1. lv = <<>>
    BY DEF Serving
  <2>2. DOMAIN lv = {}
    BY <2>1
  <2> HIDE <2>1
  <2> QED BY <2>2
<1>2. LiveServed(lv, u.heap)
  BY <1>1 DEF Serving
<1>3. /\ DOMAIN lv \subseteq Nat /\ {p - HeadLen : p \in DOMAIN lv} = InState(u.heap, "used")
      /\ \A p \in DOMAIN lv :
           /\ p % Align = 0 /\ lv[p] \in 0 .. Word - 1
           /\ lv[p] \notin Word - Align + 1 .. Word - 1
                => u.heap.head[p - HeadLen].size >= lv[p]
  BY <1>2 DEF LiveServed
<1>4. b \in InState(u.heap, "used")
  BY <1>3
<1>5. HeapOk(u.heap)
  BY <1>1 DEF Good
<1>6. HeapOk(h) /\ Frees(u.heap, h, b)
  BY <1>4, <1>5, FreeOk, SMTT(30)
<1>7. /\ h.start = u.heap.start /\ h.end = u.heap.end
      /\ InState(h, "used") = InState(u.heap, "used") \ {b}
      /\ \A c \in InState(u.heap, "used") \ {b} : h.head[c] = u.heap.head[c]
  BY <1>6 DEF Frees
<1>8. v.initialised = u.initialised /\ v.heap = h /\ v.regions = u.regions /\ ProgramRecord(v)
  BY DEF ProgramOf, ProgramRecord
<1> HIDE DEF v
<1>9. Good(v, mine)
  BY <1>1, <1>6, <1>7, <1>8, Zenon DEF Good
<1>10. DOMAIN lv2 = DOMAIN lv \ {ptr} /\ \A p \in DOMAIN lv \ {ptr} : lv2[p] = lv[p]
  BY SMTT(30) DEF Restrict
<1>11. \A p \in DOMAIN lv \ {ptr} : p - HeadLen # b /\ p - HeadLen \in InState(u.heap, "used")
  BY <1>0, <1>3
<1>12. {p - HeadLen : p \in DOMAIN lv2} = InState(h, "used")
  <2>1. {p - HeadLen : p \in DOMAIN lv2} = {p - HeadLen : p \in DOMAIN lv} \ {b}
    BY <1>10, <1>11, SMTT(30)
  <2> QED BY <1>3, <1>7, <2>1, Zenon
<1>13. ASSUME NEW p \in DOMAIN lv2
       PROVE  /\ p % Align = 0 /\ lv2[p] \in 0 .. Word - 1
              /\ lv2[p] \notin Word - Align + 1 .. Word - 1 => h.head[p - HeadLen].size >= lv2[p]
  <2>1. p \in DOMAIN lv \ {ptr} /\ lv2[p] = lv[p]
    BY <1>10
  <2>2. h.head[p - HeadLen] = u.heap.head[p - HeadLen]
    BY <1>7, <1>11, <2>1
  <2> QED BY <1>3, <2>1, <2>2
<1>14. LiveServed(lv2, h)
  <2>1. DOMAIN lv2 \subseteq Nat
    BY <1>3, <1>10
  <2> QED BY <1>12, <1>13, <2>1, Zenon DEF LiveServed
<1>15. Serving(v, lv2)
  BY <1>1, <1>8, <1>14 DEF Serving
<1> QED BY <1>9, <1>15 DEF v

-----------------------------------------------------------------------------
(* The invariant, and the steps.                                           *)

HeapInv ==
  /\ Good(Program, own) /\ Serving(Program, live)
  /\ last.called /\ last.ptr = NULL => Reason(Program, own, last.n, last.frames)

\* The program maps a region of its own.
LEMMA OwnMapped ==
  ASSUME NEW u, NEW mine, Good(u, mine), NEW len \in Nat, NEW frames \in BOOLEAN,
         NEW m, m = SysMmap(u.regions, len, frames)
  PROVE  Good(ProgramOf(u.initialised, u.heap, m.regions), mine \cup ({m.base} \ {FAILED}))
<1> DEFINE T == u.regions
           v == ProgramOf(u.initialised, u.heap, m.regions)
           all == mine \cup ({m.base} \ {FAILED})
<1>1. TableOk(T) /\ OwnOk(mine, T)
  BY DEF Good
<1>2. v.initialised = u.initialised /\ v.heap = u.heap /\ v.regions = m.regions /\ ProgramRecord(v)
  BY DEF ProgramOf, ProgramRecord
<1>3. CASE m.base = FAILED
  <2>1. m.regions = T
    BY <1>1, <1>3, MmapIs
  <2>2. all = mine
    BY <1>3
  <2> HIDE DEF v, all
  <2>3. Good(v, all)
    BY <1>2, <2>1, <2>2 DEF Good
  <2> QED BY <2>3 DEF v, all
<1>4. CASE m.base # FAILED
  <2>1. /\ m.base = Above(T, SlotBase) /\ TableOk(m.regions)
        /\ \E p \in 1 .. MaxRegions :
             Entered(T, m.regions, p, m.base, RoundUpTo(PageLen, len))
    BY <1>1, <1>4, MmapIs
  <2>2. Accounted(T, m.regions, mine, m.base, RoundUpTo(PageLen, len))
    BY <1>1, <2>1, OwnEnters, Zenon
  <2>3. all = mine \cup {m.base}
    BY <1>4
  <2>4. /\ OwnOk(all, m.regions) /\ Slabs(m.regions, all) = Slabs(T, mine)
        /\ SlabBytes(m.regions, all) = SlabBytes(T, mine)
    BY <2>2, <2>3, Zenon DEF Accounted
  <2> HIDE DEF v, all
  <2>5. Good(v, all)
    BY <1>2, <2>1, <2>4, Zenon DEF Good
  <2> QED BY <2>5 DEF v, all
<1> QED BY <1>3, <1>4

\* The program unmaps a region of its own, or asks for one that is not there.
LEMMA OwnUnmapped ==
  ASSUME NEW u, NEW mine, Good(u, mine), NEW base \in mine, NEW len,
         NEW R, R = SysMunmap(u.regions, base, len)
  PROVE  Good(ProgramOf(u.initialised, u.heap, R), mine \cap Bases(R))
<1> DEFINE T == u.regions
           v == ProgramOf(u.initialised, u.heap, R)
           all == mine \cap Bases(R)
<1>1. TableOk(T) /\ OwnOk(mine, T)
  BY Zenon DEF Good
<1>2. v.initialised = u.initialised /\ v.heap = u.heap /\ v.regions = R /\ ProgramRecord(v)
  BY DEF ProgramOf, ProgramRecord
<1>3. R = T \/ \E p \in HeldPlaces(T) : T[p].base = base /\ R = Leave(T, p)
  BY <1>1, MunmapIs
<1>4. OwnOk(all, R)
  BY DEF OwnOk
<1>5. /\ TableOk(R) /\ Slabs(R, all) = Slabs(T, mine) /\ SlabBytes(R, all) = SlabBytes(T, mine)
  <2>1. CASE R = T
    <3>1. all = mine
      BY <1>1, <2>1 DEF OwnOk
    <3> QED BY <1>1, <2>1, <3>1
  <2>2. CASE \E p \in HeldPlaces(T) : T[p].base = base /\ R = Leave(T, p)
    <3> PICK p \in HeldPlaces(T) : T[p].base = base /\ R = Leave(T, p)
      BY <2>2
    <3>1. TableOk(R)
      BY <1>1, LeaveOk
    <3>2. T[p].base \in mine
      OBVIOUS
    <3>3. Slabs(R, all) = Slabs(T, mine) /\ SlabBytes(R, all) = SlabBytes(T, mine)
      BY <1>1, <3>2, OwnLeaves
    <3> QED BY <3>1, <3>3
  <2> QED BY <1>3, <2>1, <2>2
<1> HIDE DEF v, all
<1>6. Good(v, all)
  BY <1>2, <1>4, <1>5, Zenon DEF Good
<1> QED BY <1>6 DEF v, all

\* What Return leaves is what malloc returned.
LEMMA ReturnStep ==
  ASSUME HeapInv, NEW n \in 0 .. Word - 1, NEW frames \in BOOLEAN \X BOOLEAN,
         Return(malloc(Program, n, frames), n, frames)
  PROVE  HeapInv'
<1> DEFINE u == Program
           r == malloc(u, n, frames)
           lv2 == Given(live, r, n)
<1>1. Good(u, own) /\ Serving(u, live)
  BY DEF HeapInv
<1>2. r = malloc(u, n, frames) /\ lv2 = Given(live, r, n)
  OBVIOUS
<1>3. /\ initialised' = r.u.initialised /\ heap' = r.u.heap /\ regions' = r.u.regions
      /\ live' = lv2 /\ own' = own
      /\ last' = [n |-> n, ptr |-> r.ptr, called |-> TRUE, frames |-> frames]
  BY DEF Return, Given
<1> HIDE DEF u, r, lv2
<1>4. /\ Good(r.u, own) /\ Serving(r.u, lv2)
      /\ r.ptr = NULL => Reason(r.u, own, n, frames)
  BY <1>1, <1>2, ReturnServes, SMTT(30)
<1>5. r.u = [initialised |-> r.u.initialised, heap |-> r.u.heap, regions |-> r.u.regions]
  BY <1>4 DEF Good, ProgramRecord, ProgramOf
<1>6. Program' = r.u
  BY <1>3, <1>5 DEF Program
<1>7. last'.n = n /\ last'.ptr = r.ptr /\ last'.frames = frames
  BY <1>3
<1> QED BY <1>3, <1>4, <1>6, <1>7, Zenon DEF HeapInv

\* A product that calloc does not refuse is a size_t.
LEMMA ProductFits ==
  ASSUME NEW count \in 0 .. Word - 1, NEW size \in 0 .. Word - 1, ~ ProductRefused(count, size)
  PROVE  count * size \in 0 .. Word - 1 /\ SizeT(count * size) = count * size
<1>0. Word \in Nat \ {0} /\ count \in Nat /\ size \in Nat
  BY ConstantFacts
<1>1. count * size \in Nat /\ count * size < Word
  <2>1. CASE count = 0
    BY <1>0, <2>1
  <2>2. CASE count # 0
    <3> DEFINE q == (Word - 1) \div count
               x == Word - 1
    <3>1. size <= q
      BY <2>2, <1>0 DEF ProductRefused
    <3>2. count \in Nat \ {0} /\ x \in Int
      BY <1>0, <2>2
    <3>3. x = q * count + (x % count) /\ x % count \in 0 .. count - 1 /\ q \in Int
      BY <3>2, DivMod, Zenon
    <3> HIDE DEF q
    <3>4. size * count <= q * count
      BY <1>0, <3>1, <3>3, ProductGrows
    <3>5. size * count = count * size /\ count * size \in Nat /\ q * count \in Int
      BY <1>0, <3>3
    <3> DEFINE a == count * size
               b == q * count
    <3>6. a <= b /\ a \in Nat /\ b \in Int /\ x = b + (x % count)
      BY <3>3, <3>4, <3>5
    <3> HIDE DEF a, b
    <3>7. a < Word
      BY <1>0, <3>2, <3>3, <3>6
    <3> QED BY <3>5, <3>7 DEF a
  <2> QED BY <2>1, <2>2
<1>2. SizeT(count * size) = count * size
  BY <1>1, SizeTIs
<1> QED BY <1>0, <1>1, <1>2

LEMMA HeapInvInit ==
  ASSUME HeapInit
  PROVE  HeapInv
<1> DEFINE T == NoRegions(MaxRegions)
<1>1. /\ initialised = FALSE /\ heap = NoHeap /\ regions = T
      /\ own = {} /\ live = <<>> /\ last = Nothing
  BY DEF HeapInit
<1>2. TableOk(T) /\ HeldPlaces(T) = {}
  <2>1. T \in [1 .. MaxRegions -> Region] /\ \A i \in 1 .. MaxRegions : T[i] = NoRegion
    BY DEF NoRegions, NoRegion, Region
  <2>2. NoRegion.length = 0
    BY DEF NoRegion
  <2>3. DOMAIN T = 1 .. MaxRegions
    BY <2>1
  <2>4. HeldPlaces(T) = {}
    BY <2>1, <2>2, <2>3 DEF HeldPlaces, FreePlaces
  <2> QED BY <2>1, <2>4 DEF TableOk
<1> HIDE DEF T
<1>3. OwnOk(own, T) /\ Slabs(T, own) = {}
  BY <1>1, <1>2 DEF OwnOk, Slabs
<1>4. ~ last.called
  BY <1>1 DEF Nothing
<1>5. Program.initialised = FALSE /\ Program.regions = T /\ ProgramRecord(Program)
  BY <1>1 DEF Program, ProgramRecord, ProgramOf
<1>6. Good(Program, own)
  BY <1>2, <1>3, <1>5, Zenon DEF Good
<1>7. Serving(Program, live)
  BY <1>1, <1>5 DEF Serving
<1> QED BY <1>4, <1>6, <1>7 DEF HeapInv

LEMMA HeapInvStep ==
  ASSUME HeapInv, [HeapNext]_heapVars
  PROVE  HeapInv'
<1>0. Good(Program, own) /\ Serving(Program, live)
  BY SMTT(30) DEF HeapInv
<1>1. Program.initialised = initialised /\ Program.heap = heap /\ Program.regions = regions
  BY DEF Program
<1>2. ASSUME NEW n \in Requests, NEW frames \in BOOLEAN \X BOOLEAN, CallMalloc(n, frames)
      PROVE  HeapInv'
  <2>1. n \in 0 .. Word - 1
    BY UserHeapAssumption
  <2> QED BY <1>2, <2>1, ReturnStep DEF CallMalloc
<1>3. ASSUME NEW p \in Products, NEW frames \in BOOLEAN \X BOOLEAN, CallCalloc(p[1], p[2], frames)
      PROVE  HeapInv'
  <2>1. p[1] \in 0 .. Word - 1 /\ p[2] \in 0 .. Word - 1
    BY UserHeapAssumption
  <2>2. CASE ProductRefused(p[1], p[2])
    <3>1. UNCHANGED heapVars
      BY <1>3, <2>2 DEF CallCalloc
    <3> QED BY <3>1 DEF HeapInv, Program, heapVars
  <2>3. CASE ~ ProductRefused(p[1], p[2])
    <3> DEFINE k == p[1] * p[2]
    <3>1. k \in 0 .. Word - 1 /\ SizeT(k) = k
      BY <2>1, <2>3, ProductFits
    <3>2. Return(malloc(Program, SizeT(k), frames), k, frames)
      BY <1>3, <2>3 DEF CallCalloc
    <3> HIDE DEF k
    <3>3. Return(malloc(Program, k, frames), k, frames)
      BY <3>1, <3>2
    <3> QED BY <3>1, <3>3, ReturnStep
  <2> QED BY <2>2, <2>3
<1>4. ASSUME NEW ptr \in DOMAIN live, CallFree(ptr)
      PROVE  HeapInv'
  <2> DEFINE h == Free(heap, ptr)
             lv2 == Restrict(live, DOMAIN live \ {ptr})
             v == ProgramOf(initialised, h, regions)
  <2>1. /\ heap' = h /\ live' = lv2 /\ last' = Nothing
        /\ initialised' = initialised /\ regions' = regions /\ own' = own
    BY <1>4 DEF CallFree
  <2>2. Good(v, own) /\ Serving(v, lv2)
    BY <1>0, <1>1, FreeServes
  <2>3. Program' = v
    BY <2>1 DEF Program, ProgramOf
  <2>4. ~ last'.called
    BY <2>1, SMTT(30) DEF Nothing
  <2> HIDE DEF v, lv2
  <2> QED BY <2>1, <2>2, <2>3, <2>4 DEF HeapInv
<1>5. ASSUME NEW len \in OwnLens, NEW frames \in BOOLEAN, OwnMmap(len, frames)
      PROVE  HeapInv'
  <2> DEFINE m == SysMmap(regions, len, frames)
             v == ProgramOf(initialised, heap, m.regions)
             all == own \cup ({m.base} \ {FAILED})
  <2>1. /\ regions' = m.regions /\ own' = all /\ last' = Nothing
        /\ initialised' = initialised /\ heap' = heap /\ live' = live
    BY <1>5 DEF OwnMmap
  <2>2. len \in Nat
    BY UserHeapAssumption
  <2>3. Good(v, all)
    BY <1>0, <1>1, <2>2, OwnMapped
  <2>4. Program' = v /\ v.initialised = initialised /\ v.heap = heap
    BY <2>1 DEF Program, ProgramOf
  <2>5. ~ last'.called
    BY <2>1 DEF Nothing
  <2> HIDE DEF v, all
  <2>6. Serving(v, live)
    BY <1>0, <1>1, <2>4, SMTT(30) DEF Serving
  <2> QED BY <2>1, <2>3, <2>4, <2>5, <2>6 DEF HeapInv
<1>6. ASSUME NEW len \in OwnLens, NEW base \in own, OwnMunmap(base, len)
      PROVE  HeapInv'
  <2> DEFINE R == SysMunmap(regions, base, len)
             v == ProgramOf(initialised, heap, R)
             all == own \cap Bases(R)
  <2>1. /\ regions' = R /\ own' = all /\ last' = Nothing
        /\ initialised' = initialised /\ heap' = heap /\ live' = live
    BY <1>6 DEF OwnMunmap, Bases
  <2>2. Good(v, all)
    BY <1>0, <1>1, OwnUnmapped
  <2>3. Program' = v /\ v.initialised = initialised /\ v.heap = heap
    BY <2>1 DEF Program, ProgramOf
  <2>4. ~ last'.called
    BY <2>1 DEF Nothing
  <2> HIDE DEF v, all
  <2>5. Serving(v, live)
    BY <1>0, <1>1, <2>3 DEF Serving
  <2> QED BY <2>1, <2>2, <2>3, <2>4, <2>5 DEF HeapInv
<1>7. CASE UNCHANGED heapVars
  BY <1>7 DEF HeapInv, Program, heapVars
<1> QED BY <1>2, <1>3, <1>4, <1>5, <1>6, <1>7 DEF HeapNext

\* The invariant of libc/malloc.c.
THEOREM HeapInvHolds == HeapSpec => []HeapInv
<1>1. HeapInit => HeapInv
  BY HeapInvInit
<1>2. HeapInv /\ [HeapNext]_heapVars => HeapInv'
  BY HeapInvStep
<1> QED BY <1>1, <1>2, PTL DEF HeapSpec

\* What el_block_above and el_block_below walk is memory that the program has: the slabs are the
\* heap, apart from the program's own regions, and blocks tile them (libc/malloc.c).
THEOREM SlabsAlwaysTheHeap == HeapSpec => []SlabsAreTheHeap
<1>1. ASSUME HeapInv PROVE SlabsAreTheHeap
  <2>0. Good(Program, own) /\ Serving(Program, live)
    BY <1>1 DEF HeapInv
  <2>1. Program.initialised = initialised /\ Program.heap = heap /\ Program.regions = regions
    BY DEF Program
  <2>2. /\ initialised \in BOOLEAN /\ TableOk(regions)
        /\ IF initialised
           THEN HeapOk(heap) /\ SlabBytes(regions, own) = heap.start .. heap.end - 1
           ELSE Slabs(regions, own) = {}
    BY <2>0, <2>1, Zenon DEF Good
  <2>3. CASE ~ initialised
    <3>1. live = <<>>
      BY <2>0, <2>1, <2>3 DEF Serving
    <3> QED BY <2>2, <2>3, <3>1 DEF SlabsAreTheHeap, Slabs
  <2>4. CASE initialised
    <3>1. Tiled(heap) /\ Merged(heap)
      BY <2>2, <2>4, SoundIsTiled, NoPairIsMerged DEF HeapOk
    <3>2. \A i, j \in HeldPlaces(regions) :
             i # j => (regions[i].base .. regions[i].base + regions[i].length - 1)
                        \cap (regions[j].base .. regions[j].base + regions[j].length - 1) = {}
      <4> SUFFICES ASSUME NEW i \in HeldPlaces(regions), NEW j \in HeldPlaces(regions), i # j
                   PROVE  (regions[i].base .. regions[i].base + regions[i].length - 1)
                            \cap (regions[j].base .. regions[j].base + regions[j].length - 1) = {}
        BY SMTT(30)
      <4>1. /\ regions[i].base \in Nat /\ regions[i].length \in Nat
            /\ regions[j].base \in Nat /\ regions[j].length \in Nat
        BY <2>2, TableFacts
      <4>2. \/ regions[i].base + regions[i].length <= regions[j].base
            \/ regions[j].base + regions[j].length <= regions[i].base
        BY <2>2 DEF TableOk, End
      <4> QED BY <4>1, <4>2
    <3>3. UNION {regions[i].base .. regions[i].base + regions[i].length - 1 :
                   i \in {k \in HeldPlaces(regions) : regions[k].base \notin own}}
            = heap.start .. heap.end - 1
      BY <2>2, <2>4, Zenon DEF SlabBytes, Slabs, Bytes
    <3> QED BY <2>4, <3>1, <3>2, <3>3, Zenon DEF SlabsAreTheHeap
  <2> QED BY <2>2, <2>3, <2>4
<1> QED BY <1>1, HeapInvHolds, PTL

\* A pointer that malloc or calloc returned is aligned and has a block of its own with room for
\* what was asked for, until it is freed (libc/malloc.c).
THEOREM PointersAlwaysServe == HeapSpec => []PointersServe
<1>1. ASSUME HeapInv PROVE PointersServe
  <2>1. Serving(Program, live) /\ Program.initialised = initialised /\ Program.heap = heap
    BY <1>1 DEF HeapInv, Program
  <2>2. initialised => LiveServed(live, heap)
    BY <2>1 DEF Serving
  <2> QED BY <2>2 DEF PointersServe, LiveServed
<1> QED BY <1>1, HeapInvHolds, PTL

\* malloc returns NULL only when nothing free has room and the slot, the table or the frames
\* have run out or a region of the program's own lies above the heap (libc/malloc.c).
THEOREM AlwaysFailsForCause == HeapSpec => []FailsForCause
<1>1. ASSUME HeapInv PROVE FailsForCause
  <2>1. last.called /\ last.ptr = NULL => Reason(Program, own, last.n, last.frames)
    BY <1>1 DEF HeapInv
  <2>2. Program.initialised = initialised /\ Program.heap = heap /\ Program.regions = regions
    BY DEF Program
  <2> QED BY <2>1, <2>2, Zenon DEF FailsForCause, Reason, Full, TruePages, TrueUp
<1> QED BY <1>1, HeapInvHolds, PTL
=============================================================================
