--------------------------- MODULE ElMallocProofs ---------------------------
(***************************************************************************)
(* The allocator of ElMalloc keeps a heap sound: each of el_init,          *)
(* el_malloc, el_free and el_append_pages_to_heap leaves blocks that tile  *)
(* the slab, boundary tags that agree, lists and counters that are exact,  *)
(* and no two available neighbours.                                        *)
(***************************************************************************)
EXTENDS ElMallocLemmas

LEMMA SoundFacts ==
  ASSUME NEW h, Sound(h)
  PROVE  /\ HeapRecord(h) /\ h.start \in Nat /\ h.end \in Nat /\ h.start # NULL
         /\ HeadsTyped(h) /\ Chained(Blocks(h), Ends(h), h.start, h.end)
         /\ Footed(Ends(h), h.foot)
         /\ DOMAIN Ends(h) = Blocks(h)
         /\ \A b \in Blocks(h) : /\ b \in Nat /\ b # NULL
                                 /\ h.head[b] \in [size : Nat, state : {"available", "used"}]
                                 /\ h.head[b].size \in Nat
                                 /\ Ends(h)[b] \in Nat
                                 /\ Ends(h)[b] = b + BlockLen(h, b)
                                 /\ h.head[b].size = Ends(h)[b] - b - EL_BLOCK_OVERHEAD
                                 /\ BlockLen(h, b) = Ends(h)[b] - b
         /\ InState(h, "available") \cup InState(h, "used") = Blocks(h)
         /\ InState(h, "available") \cap InState(h, "used") = {}
<1>1. /\ HeapRecord(h) /\ h.start # NULL /\ HeadsTyped(h) /\ Footed(Ends(h), h.foot)
      /\ Chained(Blocks(h), Ends(h), h.start, h.end)
  BY DEF Sound
<1>2. h.start \in Nat /\ h.end \in Nat /\ \A b \in Blocks(h) : h.start <= b
  BY <1>1 DEF Chained
<1>3. DOMAIN Ends(h) = Blocks(h)
  BY DEF Ends
<1>4. \A b \in Blocks(h) : /\ b \in Nat
                           /\ h.head[b] \in [size : Nat, state : {"available", "used"}]
  BY <1>1 DEF HeadsTyped
<1>5. \A b \in Blocks(h) : b # NULL
  BY <1>1, <1>2, <1>4 DEF NULL
<1>6. ASSUME NEW b \in Blocks(h)
      PROVE  /\ h.head[b].size \in Nat /\ Ends(h)[b] \in Nat
             /\ Ends(h)[b] = b + BlockLen(h, b)
             /\ h.head[b].size = Ends(h)[b] - b - EL_BLOCK_OVERHEAD
             /\ BlockLen(h, b) = Ends(h)[b] - b
  <2>1. h.head[b].size \in Nat /\ b \in Nat
    BY <1>4
  <2>2. Ends(h)[b] = b + BlockLen(h, b) /\ BlockLen(h, b) = h.head[b].size + EL_BLOCK_OVERHEAD
    BY DEF Ends, BlockLen
  <2> QED BY <2>1, <2>2, Overhead
<1>7. /\ InState(h, "available") \cup InState(h, "used") = Blocks(h)
      /\ InState(h, "available") \cap InState(h, "used") = {}
  BY <1>4 DEF InState
<1> QED BY <1>1, <1>2, <1>3, <1>4, <1>5, <1>6, <1>7

\* Writing the state of a block moves it from one list to the other and nothing else.
Restated(h, r, b, st) ==
  /\ r.head = [h.head EXCEPT ![b].state = st]
  /\ r.start = h.start /\ r.end = h.end /\ r.foot = h.foot

Moved(h, r, b, st) ==
  /\ Blocks(r) = Blocks(h) /\ Ends(r) = Ends(h) /\ HeadsTyped(r)
  /\ r.head[b] = [size |-> h.head[b].size, state |-> st]
  /\ \A c \in Blocks(h) \ {b} : r.head[c] = h.head[c]
  /\ InState(r, "available") = IF st = "available" THEN InState(h, "available") \cup {b}
                               ELSE InState(h, "available") \ {b}
  /\ InState(r, "used") = IF st = "used" THEN InState(h, "used") \cup {b}
                          ELSE InState(h, "used") \ {b}

LEMMA StateChange ==
  ASSUME NEW h, Sound(h), NEW b \in Blocks(h), NEW st \in {"available", "used"},
         NEW r, Restated(h, r, b, st)
  PROVE  Moved(h, r, b, st)
<1> USE DEF Restated
<1>1. \A c \in Blocks(h) : /\ c \in Nat
                           /\ h.head[c] \in [size : Nat, state : {"available", "used"}]
  BY SoundFacts
<1>2. Blocks(r) = Blocks(h)
  BY DEF Blocks
<1>3. \A c \in Blocks(h) \ {b} : r.head[c] = h.head[c]
  BY DEF Blocks
<1>4. r.head[b] = [size |-> h.head[b].size, state |-> st]
  BY <1>1 DEF Blocks
<1>5. HeadsTyped(r)
  <2> SUFFICES ASSUME NEW c \in Blocks(h)
               PROVE  r.head[c] \in [size : Nat, state : {"available", "used"}]
    BY <1>1, <1>2 DEF HeadsTyped
  <2> QED BY <1>1, <1>3, <1>4
<1>6. \A c \in Blocks(h) : BlockLen(r, c) = BlockLen(h, c)
  <2> SUFFICES ASSUME NEW c \in Blocks(h) PROVE r.head[c].size = h.head[c].size
    BY DEF BlockLen
  <2> QED BY <1>3, <1>4
<1>7. Ends(r) = Ends(h)
  BY <1>2, <1>6 DEF Ends
<1>8. r.head[b].state = st
  BY <1>4
<1>9. /\ InState(r, "available") = IF st = "available" THEN InState(h, "available") \cup {b}
                                   ELSE InState(h, "available") \ {b}
      /\ InState(r, "used") = IF st = "used" THEN InState(h, "used") \cup {b}
                              ELSE InState(h, "used") \ {b}
  BY <1>2, <1>3, <1>8 DEF InState
<1> QED BY <1>2, <1>3, <1>4, <1>5, <1>7, <1>9 DEF Moved

\* The two neighbours that merging joins, and what becomes of the chain.
JoinedTags(h, r, lower, up, size) ==
  /\ size = h.head[lower].size + EL_BLOCK_OVERHEAD + h.head[up].size
  /\ r.start = h.start /\ r.end = h.end
  /\ r.head = Written(Restrict(h.head, DOMAIN h.head \ {up}), lower,
                      [size |-> size, state |-> "available"])
  /\ r.foot = Written(Restrict(h.foot, DOMAIN h.foot \ {Footer(h, lower)}), Footer(h, up), size)

JoinedChain(h, r, lower, up, size) ==
  /\ lower # up /\ Blocks(r) = Blocks(h) \ {up} /\ HeadsTyped(r)
  /\ \A c \in Blocks(r) \ {lower} : r.head[c] = h.head[c] /\ Ends(r)[c] = Ends(h)[c]
  /\ r.head[lower] = [size |-> size, state |-> "available"]
  /\ Ends(r)[lower] = Ends(h)[up]
  /\ size = Ends(h)[up] - lower - EL_BLOCK_OVERHEAD /\ size \in Nat
  /\ Chained(Blocks(r), Ends(r), r.start, r.end)
  /\ Footed(Ends(r), r.foot)

LEMMA MergeChain ==
  ASSUME NEW h, Sound(h), NEW lower \in Blocks(h), NEW up \in Blocks(h), up = Ends(h)[lower],
         NEW size, NEW r, JoinedTags(h, r, lower, up, size)
  PROVE  JoinedChain(h, r, lower, up, size)
<1> USE DEF JoinedTags
<1> DEFINE D == Blocks(h)
           N == Ends(h)
<1>0. FootLen \in Nat /\ EL_BLOCK_OVERHEAD \in Nat /\ EL_BLOCK_OVERHEAD > 0
  BY Overhead
<1>1. Chained(D, N, h.start, h.end) /\ Footed(N, h.foot)
  BY SoundFacts
<1>2. \A c \in D : /\ c \in Nat /\ N[c] \in Nat /\ N[c] = c + BlockLen(h, c)
                   /\ h.head[c] \in [size : Nat, state : {"available", "used"}]
                   /\ h.head[c].size = N[c] - c - EL_BLOCK_OVERHEAD
  BY SoundFacts
<1>3. lower < up /\ lower # up
  BY <1>1, <1>2, ChainFacts
<1>4. size = N[up] - lower - EL_BLOCK_OVERHEAD
  <2>1. /\ lower \in Nat /\ up \in Nat /\ N[up] \in Nat
        /\ h.head[lower].size = up - lower - EL_BLOCK_OVERHEAD
        /\ h.head[up].size = N[up] - up - EL_BLOCK_OVERHEAD
    BY <1>2
  <2> QED BY <1>0, <2>1
<1>5. size \in Nat
  <2>1. h.head[lower].size \in Nat /\ h.head[up].size \in Nat
    BY <1>2
  <2> QED BY <1>0, <2>1
<1>6. Blocks(r) = D \ {up}
  BY <1>3 DEF Blocks, Written, Restrict
<1>7. r.head[lower] = [size |-> size, state |-> "available"]
  BY DEF Written
<1>8. \A c \in Blocks(r) \ {lower} : r.head[c] = h.head[c]
  BY <1>6 DEF Written, Restrict, Blocks
<1>9. HeadsTyped(r)
  <2> SUFFICES ASSUME NEW c \in Blocks(r)
               PROVE  r.head[c] \in [size : Nat, state : {"available", "used"}]
    BY <1>2, <1>6, Zenon DEF HeadsTyped
  <2>1. CASE c = lower
    <3>1. [size |-> size, state |-> "available"] \in [size : Nat, state : {"available", "used"}]
      BY <1>5
    <3> QED BY <1>7, <2>1, <3>1
  <2>2. CASE c # lower
    BY <1>2, <1>6, <1>8, <2>2, Zenon
  <2> QED BY <2>1, <2>2
<1>10. \A c \in Blocks(r) \ {lower} : Ends(r)[c] = N[c]
  BY <1>6, <1>8, Zenon DEF Ends, BlockLen
<1>11. Ends(r)[lower] = N[up]
  <2>1. Ends(r)[lower] = lower + (size + EL_BLOCK_OVERHEAD)
    <3>1. lower \in Blocks(r) /\ r.head[lower].size = size
      BY <1>3, <1>6, <1>7
    <3> QED BY <3>1, Zenon DEF Ends, BlockLen
  <2> QED BY <1>0, <1>2, <1>4, <2>1
<1>12. Ends(r) \in [D \ {up} -> Nat]
  <2>1. \A c \in D \ {up} : Ends(r)[c] \in Nat
    BY <1>2, <1>6, <1>10, <1>11
  <2>2. Ends(r) = [c \in D \ {up} |-> Ends(r)[c]]
    BY <1>6 DEF Ends
  <2> QED BY <2>1, <2>2, Zenon
<1>13. Footer(h, lower) = up - FootLen /\ Footer(h, up) = N[up] - FootLen
  BY Neighbours
<1>14. r.foot = Written(Restrict(h.foot, DOMAIN h.foot \ {N[lower] - FootLen}),
                        N[N[lower]] - FootLen, N[N[lower]] - lower - EL_BLOCK_OVERHEAD)
  BY <1>4, <1>13
<1> DEFINE M == Ends(r)
<1>15. M \in [D \ {N[lower]} -> Nat] /\ M[lower] = N[N[lower]] /\ N[lower] \in D
       /\ \A c \in D \ {lower, N[lower]} : M[c] = N[c]
  BY <1>6, <1>10, <1>11, <1>12
<1> HIDE DEF D, N, M
<1>16. Chained(D \ {N[lower]}, M, h.start, h.end)
  BY <1>1, <1>15, ChainMerge DEF D
<1>17. Footed(M, r.foot)
  BY <1>1, <1>14, <1>15, FootMerge DEF D
<1>18. Chained(Blocks(r), M, r.start, r.end)
  BY <1>6, <1>16 DEF N
<1> QED BY <1>3, <1>4, <1>5, <1>6, <1>7, <1>8, <1>9, <1>10, <1>11, <1>17, <1>18, Zenon
        DEF D, N, M, JoinedChain

\* What merging never does: it moves no limit of the heap, makes no block, touches none in use,
\* and leaves room wherever there was room.
Joins(h, r) ==
  /\ r.start = h.start /\ r.end = h.end /\ Blocks(r) \subseteq Blocks(h)
  /\ InState(r, "used") = InState(h, "used")
  /\ \A b \in InState(h, "used") : r.head[b] = h.head[b]
  /\ \A b \in InState(h, "available") :
       \E c \in InState(r, "available") : r.head[c].size >= h.head[b].size

\* Merging two available neighbours keeps a heap sound.
LEMMA MergeSound ==
  ASSUME NEW h, Sound(h), NEW lower \in InState(h, "available"),
         NEW up \in InState(h, "available"), up = Ends(h)[lower],
         NEW r, r = MergeBlockWithAbove(h, lower)
  PROVE  /\ Sound(r) /\ Joins(h, r) /\ lower # up
         /\ InState(r, "available") = InState(h, "available") \ {up}
         /\ Blocks(r) = Blocks(h) \ {up}
         /\ Ends(r)[lower] = Ends(h)[up]
         /\ \A c \in Blocks(r) \ {lower} : Ends(r)[c] = Ends(h)[c]
<1> DEFINE D == Blocks(h)
           N == Ends(h)
           M == Ends(r)
           A == InState(h, "available")
           U == InState(h, "used")
           size == h.head[lower].size + EL_BLOCK_OVERHEAD + h.head[up].size
<1>0. EL_BLOCK_OVERHEAD \in Nat
  BY Overhead
<1>1. /\ lower \in D /\ up \in D /\ A \in SUBSET D /\ U \in SUBSET D
      /\ Available(h, lower) /\ Available(h, up)
  BY SoundFacts DEF InState, Available
<1>2. up = BlockAbove(h, lower)
  <2>1. h.end \notin D
    BY SoundFacts, ChainFacts
  <2> QED BY <1>1, <2>1, Neighbours
<1>3. Holds(r, h.start, h.end,
            Written(Restrict(h.head, DOMAIN h.head \ {up}), lower,
                    [size |-> size, state |-> "available"]),
            Written(Restrict(h.foot, DOMAIN h.foot \ {Footer(h, lower)}), Footer(h, up), size),
            <<lower>> \o Unlinked(Unlinked(h.avail, lower), up), h.used,
            h.bytes.avail - BlockLen(h, lower) - BlockLen(h, up) + (size + EL_BLOCK_OVERHEAD),
            h.bytes.used)
  BY <1>1, <1>2, SoundFacts, MergeRecord, Zenon
<1> HIDE DEF size
<1>4. /\ HeapRecord(r) /\ r.start = h.start /\ r.end = h.end
      /\ r.avail = <<lower>> \o Unlinked(Unlinked(h.avail, lower), up) /\ r.used = h.used
      /\ r.bytes.avail =
           h.bytes.avail - BlockLen(h, lower) - BlockLen(h, up) + (size + EL_BLOCK_OVERHEAD)
      /\ r.bytes.used = h.bytes.used
  BY <1>3 DEF Holds
<1>5. /\ lower # up /\ Blocks(r) = D \ {up} /\ HeadsTyped(r)
      /\ \A c \in Blocks(r) \ {lower} : r.head[c] = h.head[c] /\ M[c] = N[c]
      /\ r.head[lower] = [size |-> size, state |-> "available"]
      /\ M[lower] = N[up]
      /\ size = N[up] - lower - EL_BLOCK_OVERHEAD /\ size \in Nat
      /\ Chained(Blocks(r), M, r.start, r.end)
      /\ Footed(M, r.foot)
  <2>1. JoinedTags(h, r, lower, up, size)
    BY <1>3 DEF Holds, JoinedTags, size
  <2>2. JoinedChain(h, r, lower, up, size)
    BY <1>1, <2>1, MergeChain
  <2> QED BY <2>2 DEF JoinedChain
<1>6. /\ \A c \in D : /\ c \in Nat /\ N[c] \in Nat /\ BlockLen(h, c) = N[c] - c
                      /\ h.head[c].size \in Nat
      /\ Chained(D, N, h.start, h.end) /\ h.start # NULL
  BY SoundFacts
<1>7. InState(r, "available") = A \ {up} /\ InState(r, "used") = U
  <2>1. r.head[lower].state = "available" /\ h.head[up].state = "available"
        /\ h.head[lower].state = "available"
    BY <1>5 DEF InState
  <2>2. \A c \in D \ {up} : r.head[c].state = h.head[c].state
    BY <1>5, <2>1
  <2>3. Blocks(r) = D \ {up}
    BY <1>5
  <2>4. up \notin U
    BY <2>1 DEF InState
  <2>5. \A st : InState(r, st) = InState(h, st) \ {up}
    BY <2>2, <2>3 DEF InState
  <2> QED BY <2>4, <2>5
<1>8. ListsExact(r)
  <2>1. h.avail \in Seq(Nat) /\ IsInjective(h.avail) /\ Range(h.avail) = A /\ h.used = U
    BY DEF Sound, ListsExact
  <2> DEFINE s1 == Unlinked(h.avail, lower)
             s2 == Unlinked(s1, up)
  <2>2. s1 \in Seq(Nat) /\ IsInjective(s1) /\ Range(s1) = A \ {lower}
    BY <2>1, UnlinkedList
  <2> HIDE DEF s1
  <2>3. s2 \in Seq(Nat) /\ IsInjective(s2) /\ Range(s2) = (A \ {lower}) \ {up}
    BY <1>5, <2>2, UnlinkedList
  <2> HIDE DEF s2
  <2>4. lower \in Nat /\ lower \notin Range(s2)
    BY <1>1, <1>6, <2>3
  <2>5. /\ <<lower>> \o s2 \in Seq(Nat) /\ IsInjective(<<lower>> \o s2)
        /\ Range(<<lower>> \o s2) = Range(s2) \cup {lower}
    BY <2>3, <2>4, FrontedList
  <2>6. Range(s2) \cup {lower} = A \ {up}
    BY <1>5, <2>3
  <2>7. r.avail = <<lower>> \o s2
    BY <1>4 DEF s1, s2
  <2> QED BY <1>4, <1>7, <2>1, <2>5, <2>6, <2>7, Zenon DEF ListsExact
<1>9. BytesExact(r)
  <2> DEFINE B == A \ {up}
             C == B \ {lower}
  <2>1. h.bytes.avail = Cardinality(Area(N, A)) /\ h.bytes.used = Cardinality(Area(N, U))
    BY DEF Sound, BytesExact
  <2>2. Cardinality(Area(N, A)) = Cardinality(Area(N, B)) + (N[up] - up)
    BY <1>1, <1>6, AreaCount
  <2>3. /\ Cardinality(Area(N, C)) \in Nat
        /\ Cardinality(Area(N, B)) = Cardinality(Area(N, C)) + (N[lower] - lower)
    <3>1. B \in SUBSET D /\ lower \in B
      BY <1>1, <1>5
    <3>2. Chained(D, N, h.start, h.end)
      BY <1>6
    <3>3. C = B \ {lower}
      OBVIOUS
    <3> HIDE DEF B, C, D, N
    <3> QED BY <3>1, <3>2, <3>3, AreaCount
  <2>4. Cardinality(Area(M, B)) = Cardinality(Area(M, C)) + (M[lower] - lower)
    <3>1. B \in SUBSET Blocks(r) /\ lower \in B
      BY <1>1, <1>5
    <3>2. Chained(Blocks(r), M, r.start, r.end)
      BY <1>5
    <3>3. C = B \ {lower}
      OBVIOUS
    <3> HIDE DEF B, C, M
    <3> QED BY <3>1, <3>2, <3>3, AreaCount
  <2>5. Area(M, C) = Area(N, C)
    <3>1. \A c \in C : M[c] = N[c]
      BY <1>1, <1>5
    <3> HIDE DEF C
    <3> QED BY <3>1, AreaSame
  <2>6. Area(M, U) = Area(N, U)
    <3>1. \A c \in U : M[c] = N[c]
      <4>1. \A c \in U : c \in D /\ c # lower /\ c # up
        BY <1>1, SoundFacts
      <4> QED BY <1>5, <4>1
    <3> HIDE DEF U
    <3> QED BY <3>1, AreaSame
  <2>7. r.bytes.avail = Cardinality(Area(M, B))
    <3> HIDE DEF N, M, B, C
    <3>1. /\ BlockLen(h, lower) = up - lower /\ BlockLen(h, up) = N[up] - up
          /\ lower \in Nat /\ up \in Nat /\ N[up] \in Nat /\ N[lower] = up
      BY <1>1, <1>6 DEF N
    <3>2. Cardinality(Area(M, B)) = Cardinality(Area(N, C)) + (N[up] - lower)
      BY <1>5, <2>4, <2>5 DEF M, N
    <3>3. h.bytes.avail = Cardinality(Area(N, C)) + (up - lower) + (N[up] - up)
      BY <2>1, <2>2, <2>3, <3>1
    <3>4. size + EL_BLOCK_OVERHEAD = N[up] - lower
      BY <1>0, <1>5, <3>1 DEF N
    <3>5. r.bytes.avail = h.bytes.avail - (up - lower) - (N[up] - up) + (N[up] - lower)
      BY <1>4, <3>1, <3>4
    <3> QED BY <2>3, <3>1, <3>2, <3>3, <3>5
  <2>8. r.bytes.used = Cardinality(Area(M, U))
    BY <1>4, <2>1, <2>6
  <2> QED BY <1>7, <2>7, <2>8 DEF BytesExact
<1>10. Sound(r)
  BY <1>4, <1>5, <1>6, <1>8, <1>9 DEF Sound
<1>11. Joins(h, r)
  <2>1. \A b \in U : r.head[b] = h.head[b]
    <3>1. lower \notin U /\ up \notin U
      BY SoundFacts
    <3> QED BY <1>1, <1>5, <3>1
  <2>2. \A b \in A : \E c \in A \ {up} : r.head[c].size >= h.head[b].size
    <3> SUFFICES ASSUME NEW b \in A PROVE \E c \in A \ {up} : r.head[c].size >= h.head[b].size
      OBVIOUS
    <3>1. CASE b \in {lower, up}
      <4>1. r.head[lower].size = size
        BY <1>5
      <4>2. size >= h.head[lower].size /\ size >= h.head[up].size
        BY <1>0, <1>1, <1>6 DEF size
      <4> QED BY <1>5, <3>1, <4>1, <4>2
    <3>2. CASE b \notin {lower, up}
      <4>1. r.head[b] = h.head[b] /\ h.head[b].size \in Nat /\ b \in A \ {up}
        BY <1>1, <1>5, <1>6, <3>2
      <4>2. r.head[b].size >= h.head[b].size
        BY <4>1
      <4> QED BY <4>1, <4>2
    <3> QED BY <3>1, <3>2
  <2> QED BY <1>4, <1>5, <1>7, <2>1, <2>2 DEF Joins
<1> QED BY <1>5, <1>7, <1>10, <1>11

\* el_merge_block_with_above on any block, or on none: a sound heap stays sound, and one more
\* block has no available neighbour above it.
LEMMA MergeStep ==
  ASSUME NEW h, Sound(h), NEW lower \in Blocks(h) \cup {NULL}, NEW E, NoPairBut(h, E),
         lower \in Blocks(h) => Ends(h)[lower] \notin E,
         NEW r, r = MergeBlockWithAbove(h, lower)
  PROVE  /\ Sound(r) /\ Joins(h, r) /\ NoPairBut(r, E \ {lower})
         /\ lower \in Blocks(h) => lower \in Blocks(r)
         /\ \A c \in Blocks(h) : Ends(h)[c] = lower => c \in Blocks(r) /\ Ends(r)[c] = lower
<1> DEFINE A == InState(h, "available")
           up == BlockAbove(h, lower)
<1>1. CASE ~ (Available(h, lower) /\ Available(h, up))
  <2>1. r = h
    BY <1>1 DEF MergeBlockWithAbove
  <2>2. Joins(h, h)
    <3>1. \A b \in A : h.head[b].size >= h.head[b].size
      BY SoundFacts DEF InState
    <3> QED BY <3>1 DEF Joins
  <2>3. \A c \in Blocks(h) : Ends(h)[c] = lower => c \in Blocks(r) /\ Ends(r)[c] = lower
    BY <2>1
  <2>4. NoPairBut(h, E \ {lower})
    <3> SUFFICES ASSUME NEW b \in A \ (E \ {lower}), Ends(h)[b] \in A PROVE FALSE
      BY DEF NoPairBut
    <3>1. b = lower
      BY DEF NoPairBut
    <3>2. lower \in Blocks(h) /\ Available(h, lower) /\ Ends(h)[lower] \in Blocks(h)
      BY <3>1, SoundFacts DEF InState, Available
    <3>3. h.end \notin Blocks(h)
      BY SoundFacts, ChainFacts
    <3>4. up = Ends(h)[lower]
      BY <3>2, <3>3, Neighbours
    <3>5. Available(h, up)
      BY <3>1, <3>2, <3>4, SoundFacts DEF InState, Available
    <3> QED BY <1>1, <3>2, <3>5
  <2> QED BY <2>1, <2>2, <2>3, <2>4
<1>2. CASE Available(h, lower) /\ Available(h, up)
  <2>1. lower \in Blocks(h)
    BY <1>2 DEF Available
  <2>2. up = Ends(h)[lower] /\ up \in Blocks(h)
    BY <1>2, <2>1, Neighbours DEF Available
  <2>3. lower \in A /\ up \in A
    BY <1>2, <2>1, <2>2 DEF InState, Available
  <2> HIDE DEF up
  <2>4. /\ Sound(r) /\ Joins(h, r) /\ lower # up
        /\ InState(r, "available") = A \ {up}
        /\ Blocks(r) = Blocks(h) \ {up}
        /\ Ends(r)[lower] = Ends(h)[up]
        /\ \A c \in Blocks(r) \ {lower} : Ends(r)[c] = Ends(h)[c]
    BY <2>2, <2>3, MergeSound
  <2>5. \A b, c \in Blocks(h) : Ends(h)[b] = Ends(h)[c] => b = c
    BY SoundFacts, ChainFacts
  <2>6. \A b \in Blocks(h) : b \in Nat /\ Ends(h)[b] \in Nat /\ b < Ends(h)[b]
    BY SoundFacts, ChainFacts
  <2>7. NoPairBut(r, E \ {lower})
    <3> SUFFICES ASSUME NEW b \in (A \ {up}) \ (E \ {lower}) PROVE Ends(r)[b] \notin A \ {up}
      BY <2>4 DEF NoPairBut
    <3>1. CASE b = lower
      <4>1. Ends(h)[up] \notin A
        BY <2>2, <2>3, <2>1 DEF NoPairBut
      <4> QED BY <2>4, <3>1, <4>1
    <3>2. CASE b # lower
      <4>1. b \in A \ E /\ b \in Blocks(r)
        BY <2>4, <3>2 DEF InState
      <4> QED BY <2>4, <3>2, <4>1 DEF NoPairBut
    <3> QED BY <3>1, <3>2
  <2>8. \A c \in Blocks(h) : Ends(h)[c] = lower => c \in Blocks(r) /\ Ends(r)[c] = lower
    <3> SUFFICES ASSUME NEW c \in Blocks(h), Ends(h)[c] = lower
                 PROVE  c \in Blocks(r) /\ Ends(r)[c] = lower
      OBVIOUS
    <3>1. c < lower /\ lower < up /\ c \in Nat /\ up \in Nat
      BY <2>1, <2>2, <2>6
    <3>2. c # lower /\ c # up
      BY <3>1, <2>1, <2>6
    <3> QED BY <2>4, <3>2
  <2> QED BY <2>1, <2>4, <2>7, <2>8
<1> QED BY <1>1, <1>2

\* What el_malloc does with the block b for a request of n units.
Serves(h, r, b, n) ==
  /\ b \in InState(h, "available")
  /\ r.start = h.start /\ r.end = h.end /\ Blocks(r) \subseteq Blocks(h) \cup {Left(b, n)}
  /\ InState(r, "used") = InState(h, "used") \cup {b}
  /\ \A c \in InState(h, "used") : r.head[c] = h.head[c]
  /\ r.head[b].size >= n

LEMMA WholeSound ==
  ASSUME NEW h, Sound(h), NoPairBut(h, {}), NEW n \in Nat,
         NEW b \in InState(h, "available"), b = FindFirstAvail(h, n), h.head[b].size >= n,
         ~ Splits(h, b, n), NEW r, r = Malloc(h, n).heap
  PROVE  Sound(r) /\ NoPairBut(r, {}) /\ Serves(h, r, b, n) /\ Malloc(h, n).ptr = b + HeadLen
<1> DEFINE D == Blocks(h)
           N == Ends(h)
           A == InState(h, "available")
           U == InState(h, "used")
<1>1. b \in D /\ A \in SUBSET D /\ U \in SUBSET D
  BY DEF InState
<1>2. /\ HeapRecord(h) /\ Chained(D, N, h.start, h.end) /\ Footed(N, h.foot) /\ h.start # NULL
      /\ b \in Nat /\ b # NULL /\ h.head[b] \in [size : Nat, state : {"available", "used"}]
      /\ BlockLen(h, b) = N[b] - b /\ N[b] \in Nat /\ A \cap U = {}
  BY <1>1, SoundFacts
<1>3. /\ Holds(r, h.start, h.end, [h.head EXCEPT ![b].state = "used"], h.foot,
               Unlinked(h.avail, b), h.used \cup {b},
               h.bytes.avail - BlockLen(h, b), h.bytes.used + BlockLen(h, b))
      /\ Malloc(h, n).ptr = b + HeadLen
  BY <1>1, <1>2, WholeRecord, Zenon DEF Blocks
<1>4. /\ HeapRecord(r) /\ r.start = h.start /\ r.end = h.end /\ r.foot = h.foot
      /\ r.head = [h.head EXCEPT ![b].state = "used"]
  BY <1>3 DEF Holds
<1>5. /\ r.avail = Unlinked(h.avail, b) /\ r.used = h.used \cup {b}
      /\ r.bytes.avail = h.bytes.avail - BlockLen(h, b)
      /\ r.bytes.used = h.bytes.used + BlockLen(h, b)
  BY <1>3 DEF Holds
<1>6. /\ Blocks(r) = D /\ Ends(r) = N /\ HeadsTyped(r)
      /\ r.head[b] = [size |-> h.head[b].size, state |-> "used"]
      /\ \A c \in D \ {b} : r.head[c] = h.head[c]
      /\ InState(r, "used") = U \cup {b}
      /\ InState(r, "available") = A \ {b}
  <2>1. Restated(h, r, b, "used")
    BY <1>4 DEF Restated
  <2>2. Moved(h, r, b, "used")
    BY <1>1, <2>1, StateChange
  <2> QED BY <2>2 DEF Moved
<1>7. ListsExact(r)
  <2>1. h.avail \in Seq(Nat) /\ IsInjective(h.avail) /\ Range(h.avail) = A /\ h.used = U
    BY DEF Sound, ListsExact
  <2>2. /\ Unlinked(h.avail, b) \in Seq(Nat) /\ IsInjective(Unlinked(h.avail, b))
        /\ Range(Unlinked(h.avail, b)) = A \ {b}
    BY <2>1, UnlinkedList
  <2> QED BY <1>5, <1>6, <2>1, <2>2 DEF ListsExact
<1>8. BytesExact(r)
  <2> DEFINE B == A \ {b}
             V == U \cup {b}
  <2>1. h.bytes.avail = Cardinality(Area(N, A)) /\ h.bytes.used = Cardinality(Area(N, U))
    BY DEF Sound, BytesExact
  <2>2. Cardinality(Area(N, B)) \in Nat
        /\ Cardinality(Area(N, A)) = Cardinality(Area(N, B)) + (N[b] - b)
    <3>1. B = A \ {b} /\ b \in A
      OBVIOUS
    <3>2. Chained(D, N, h.start, h.end) /\ A \in SUBSET D
      BY <1>1, <1>2
    <3> HIDE DEF A, B, D, N
    <3> QED BY <3>1, <3>2, AreaCount
  <2>3. Cardinality(Area(N, V)) = Cardinality(Area(N, U)) + (N[b] - b)
    <3>1. U = V \ {b} /\ b \in V /\ V \in SUBSET D
      BY <1>1, <1>2
    <3>2. Chained(D, N, h.start, h.end)
      BY <1>2
    <3> HIDE DEF U, V, D, N
    <3> QED BY <3>1, <3>2, AreaCount
  <2> HIDE DEF A, B, U, V, N
  <2>4. r.bytes.avail = Cardinality(Area(N, B))
    BY <1>2, <1>5, <2>1, <2>2
  <2>5. r.bytes.used = Cardinality(Area(N, V))
    BY <1>2, <1>5, <2>1, <2>3
  <2> QED BY <1>6, <2>4, <2>5, Zenon DEF BytesExact, N, A, B, U, V
<1>9. Sound(r)
  BY <1>2, <1>4, <1>6, <1>7, <1>8 DEF Sound
<1>10. NoPairBut(r, {})
  BY <1>6 DEF NoPairBut
<1>11. r.head[b].size >= n
  BY <1>6
<1>12. \A c \in U : r.head[c] = h.head[c]
  BY <1>1, <1>2, <1>6
<1>13. Serves(h, r, b, n)
  BY <1>4, <1>6, <1>11, <1>12 DEF Serves
<1> QED BY <1>3, <1>9, <1>10, <1>13

\* Cutting a block in two, and what becomes of the chain.
CutTags(h, r, b, n, m, left) ==
  /\ m = b + n + EL_BLOCK_OVERHEAD /\ left = h.head[b].size - n - EL_BLOCK_OVERHEAD
  /\ r.start = h.start /\ r.end = h.end
  /\ r.head = Written(Written(h.head, b, [size |-> n, state |-> "used"]), m,
                      [size |-> left, state |-> "available"])
  /\ r.foot = Written(Written(h.foot, b + HeadLen + n, n), Footer(h, b), left)

CutChain(h, r, b, n, m, left) ==
  /\ m \in Nat /\ left \in Nat /\ b < m /\ m < Ends(h)[b] /\ m \notin Blocks(h)
  /\ Blocks(r) = Blocks(h) \cup {m} /\ HeadsTyped(r)
  /\ \A c \in Blocks(h) \ {b} : r.head[c] = h.head[c] /\ Ends(r)[c] = Ends(h)[c]
  /\ r.head[b] = [size |-> n, state |-> "used"]
  /\ r.head[m] = [size |-> left, state |-> "available"]
  /\ Ends(r)[b] = m /\ Ends(r)[m] = Ends(h)[b]
  /\ n + EL_BLOCK_OVERHEAD = m - b /\ left + EL_BLOCK_OVERHEAD = Ends(h)[b] - m
  /\ Chained(Blocks(r), Ends(r), r.start, r.end)
  /\ Footed(Ends(r), r.foot)

LEMMA SplitChain ==
  ASSUME NEW h, Sound(h), NEW b \in Blocks(h), NEW n \in Nat, Splits(h, b, n),
         NEW m, NEW left, NEW r, CutTags(h, r, b, n, m, left)
  PROVE  CutChain(h, r, b, n, m, left)
<1> DEFINE D == Blocks(h)
           N == Ends(h)
           M == Ends(r)
<1>0. /\ FootLen \in Nat /\ HeadLen \in Nat /\ EL_BLOCK_OVERHEAD \in Nat /\ EL_BLOCK_OVERHEAD > 0
      /\ EL_BLOCK_OVERHEAD = HeadLen + FootLen
  BY Overhead
<1>1. Chained(D, N, h.start, h.end) /\ Footed(N, h.foot)
  BY SoundFacts
<1>2. \A c \in D : /\ c \in Nat /\ N[c] \in Nat /\ h.head[c].size \in Nat
                   /\ h.head[c] \in [size : Nat, state : {"available", "used"}]
                   /\ h.head[c].size = N[c] - c - EL_BLOCK_OVERHEAD
  BY SoundFacts
<1>3. /\ m \in Nat /\ b \in Nat /\ N[b] \in Nat /\ b + EL_BLOCK_OVERHEAD <= m
      /\ m + EL_BLOCK_OVERHEAD <= N[b] /\ left \in Nat /\ left = N[b] - m - EL_BLOCK_OVERHEAD
      /\ b < m /\ m < N[b] /\ n + EL_BLOCK_OVERHEAD = m - b
      /\ left + EL_BLOCK_OVERHEAD = N[b] - m
  <2>1. h.head[b].size >= n + EL_BLOCK_OVERHEAD
    BY DEF Splits
  <2>2. b \in Nat /\ N[b] \in Nat /\ h.head[b].size = N[b] - b - EL_BLOCK_OVERHEAD
    BY <1>2
  <2>3. m = b + n + EL_BLOCK_OVERHEAD /\ left = h.head[b].size - n - EL_BLOCK_OVERHEAD
    BY DEF CutTags
  <2> HIDE DEF N
  <2> QED BY <1>0, <2>1, <2>2, <2>3
<1>4. Blocks(r) = D \cup {m}
  BY DEF Blocks, Written, CutTags
<1>5. m # b
  BY <1>3
<1>6. /\ r.head[b] = [size |-> n, state |-> "used"]
      /\ r.head[m] = [size |-> left, state |-> "available"]
  BY <1>5 DEF Written, CutTags
<1>7. m \notin D
  <2> SUFFICES ASSUME m \in D PROVE FALSE
    OBVIOUS
  <2>1. b <= m
    BY <1>3
  <2> QED BY <1>1, <1>3, <1>5, <2>1, ChainFacts
<1>8. \A c \in D \ {b} : r.head[c] = h.head[c]
  BY <1>7 DEF Written, CutTags, Blocks
<1>9. HeadsTyped(r)
  <2> SUFFICES ASSUME NEW c \in Blocks(r)
               PROVE  c \in Nat /\ r.head[c] \in [size : Nat, state : {"available", "used"}]
    BY DEF HeadsTyped
  <2>1. CASE c = b
    <3>1. [size |-> n, state |-> "used"] \in [size : Nat, state : {"available", "used"}]
      OBVIOUS
    <3> QED BY <1>3, <1>6, <2>1, <3>1
  <2>2. CASE c = m
    <3>1. [size |-> left, state |-> "available"] \in [size : Nat, state : {"available", "used"}]
      BY <1>3
    <3> QED BY <1>3, <1>6, <2>2, <3>1
  <2>3. CASE c \in D \ {b}
    BY <1>2, <1>8, <2>3
  <2> QED BY <1>4, <2>1, <2>2, <2>3
<1>10. \A c \in D \ {b} : M[c] = N[c]
  BY <1>4, <1>8 DEF Ends, BlockLen
<1>11. M[b] = m
  <2>1. b \in Blocks(r) /\ r.head[b].size = n
    BY <1>4, <1>6
  <2>2. M[b] = b + (n + EL_BLOCK_OVERHEAD)
    BY <2>1 DEF Ends, BlockLen
  <2> QED BY <1>0, <1>3, <2>2
<1>12. M[m] = N[b]
  <2>1. m \in Blocks(r) /\ r.head[m].size = left
    BY <1>4, <1>6
  <2>2. M[m] = m + (left + EL_BLOCK_OVERHEAD)
    BY <2>1 DEF Ends, BlockLen
  <2> HIDE DEF M, N
  <2> QED BY <1>0, <1>3, <2>2
<1>13. M \in [D \cup {m} -> Nat]
  <2>1. \A c \in D \cup {m} : M[c] \in Nat
    BY <1>2, <1>3, <1>10, <1>11, <1>12, Zenon
  <2>2. M = [c \in D \cup {m} |-> M[c]]
    BY <1>4 DEF Ends
  <2> QED BY <2>1, <2>2
<1>14. Footer(h, b) = N[b] - FootLen
  BY Neighbours
<1>15. b + HeadLen + n = m - FootLen /\ n = m - b - EL_BLOCK_OVERHEAD
  BY <1>0, <1>3
<1>16. r.foot = Written(Written(h.foot, m - FootLen, m - b - EL_BLOCK_OVERHEAD),
                        N[b] - FootLen, N[b] - m - EL_BLOCK_OVERHEAD)
  <2>1. r.foot = Written(Written(h.foot, b + HeadLen + n, n), Footer(h, b), left)
    BY DEF CutTags
  <2>2. left = N[b] - m - EL_BLOCK_OVERHEAD
    BY <1>3
  <2> QED BY <1>14, <1>15, <2>1, <2>2
<1>20. r.start = h.start /\ r.end = h.end
  BY DEF CutTags
<1>21. b \in D
  OBVIOUS
<1> HIDE DEF D, N, M
<1>22. CutAt(D, N, M, b, m)
  BY <1>10, <1>11, <1>12, <1>13 DEF CutAt
<1>23. m \in Nat /\ b + EL_BLOCK_OVERHEAD <= m /\ m + EL_BLOCK_OVERHEAD <= N[b]
       /\ b < m /\ m < N[b]
  BY <1>3
<1>17. Chained(D \cup {m}, M, h.start, h.end)
  BY <1>1, <1>21, <1>22, <1>23, ChainSplit
<1>18. Footed(M, r.foot)
  BY <1>1, <1>16, <1>21, <1>22, <1>23, FootSplit
<1>19. Chained(Blocks(r), M, r.start, r.end)
  BY <1>4, <1>17, <1>20
<1> QED BY <1>3, <1>4, <1>6, <1>7, <1>8, <1>9, <1>10, <1>11, <1>12, <1>18, <1>19, Zenon
        DEF D, N, M, CutChain

LEMMA SplitSound ==
  ASSUME NEW h, Sound(h), NoPairBut(h, {}), NEW n \in Nat,
         NEW b \in InState(h, "available"), b = FindFirstAvail(h, n),
         Splits(h, b, n), NEW r, r = Malloc(h, n).heap
  PROVE  Sound(r) /\ NoPairBut(r, {}) /\ Serves(h, r, b, n) /\ Malloc(h, n).ptr = b + HeadLen
<1> DEFINE D == Blocks(h)
           N == Ends(h)
           M == Ends(r)
           A == InState(h, "available")
           U == InState(h, "used")
           m == Left(b, n)
           left == h.head[b].size - n - EL_BLOCK_OVERHEAD
<1>1. b \in D /\ A \in SUBSET D /\ U \in SUBSET D
  BY DEF InState
<1>2. /\ HeapRecord(h) /\ Chained(D, N, h.start, h.end) /\ h.start # NULL
      /\ b \in Nat /\ b # NULL /\ A \cap U = {}
  BY <1>1, SoundFacts
<1>20. BlockLen(h, b) = N[b] - b /\ N[b] \in Nat
  BY <1>1, SoundFacts
<1>3. /\ Holds(r, h.start, h.end,
               Written(Written(h.head, b, [size |-> n, state |-> "used"]), m,
                       [size |-> left, state |-> "available"]),
               Written(Written(h.foot, b + HeadLen + n, n), Footer(h, b), left),
               <<m>> \o Unlinked(h.avail, b), h.used \cup {b},
               h.bytes.avail - BlockLen(h, b) + (left + EL_BLOCK_OVERHEAD),
               h.bytes.used + (n + EL_BLOCK_OVERHEAD))
      /\ Malloc(h, n).ptr = b + HeadLen
  BY <1>1, <1>2, SplitRecord, Zenon DEF Blocks
<1>4. HeapRecord(r) /\ CutTags(h, r, b, n, m, left)
  BY <1>3 DEF Holds, CutTags, Left
<1>5. /\ r.avail = <<m>> \o Unlinked(h.avail, b) /\ r.used = h.used \cup {b}
      /\ r.bytes.avail = h.bytes.avail - BlockLen(h, b) + (left + EL_BLOCK_OVERHEAD)
      /\ r.bytes.used = h.bytes.used + (n + EL_BLOCK_OVERHEAD)
  BY <1>3 DEF Holds
<1> HIDE DEF m, left
<1>6. CutChain(h, r, b, n, m, left)
  BY <1>1, <1>4, SplitChain
<1>7. /\ m \in Nat /\ left \in Nat /\ b < m /\ m < N[b] /\ m \notin D
      /\ Blocks(r) = D \cup {m} /\ HeadsTyped(r)
      /\ \A c \in D \ {b} : r.head[c] = h.head[c] /\ M[c] = N[c]
      /\ M[b] = m /\ M[m] = N[b]
      /\ n + EL_BLOCK_OVERHEAD = m - b /\ left + EL_BLOCK_OVERHEAD = N[b] - m
      /\ Chained(Blocks(r), M, r.start, r.end)
      /\ Footed(M, r.foot)
  BY <1>6, Zenon DEF CutChain
<1>8. r.head[b].size = n /\ r.head[b].state = "used" /\ r.head[m].state = "available"
  BY <1>6 DEF CutChain
<1>21. r.start = h.start /\ r.end = h.end
  BY <1>4 DEF CutTags
<1>9. /\ InState(r, "available") = (A \ {b}) \cup {m}
      /\ InState(r, "used") = U \cup {b}
  <2>1. \A c \in D \ {b} : r.head[c].state = h.head[c].state
    BY <1>7
  <2>2. b # m /\ b \in D /\ m \notin D
    BY <1>1, <1>2, <1>7
  <2>3. Blocks(r) = D \cup {m}
    BY <1>7
  <2>4. \A c : c \in InState(r, "available") <=> c \in (A \ {b}) \cup {m}
    BY <1>8, <2>1, <2>2, <2>3 DEF InState
  <2>5. \A c : c \in InState(r, "used") <=> c \in U \cup {b}
    BY <1>8, <2>1, <2>2, <2>3 DEF InState
  <2> QED BY <2>4, <2>5
<1>10. ListsExact(r)
  <2>1. h.avail \in Seq(Nat) /\ IsInjective(h.avail) /\ Range(h.avail) = A /\ h.used = U
    BY Zenon DEF Sound, ListsExact
  <2> DEFINE s == Unlinked(h.avail, b)
  <2>2. s \in Seq(Nat) /\ IsInjective(s) /\ Range(s) = A \ {b}
    BY <2>1, UnlinkedList
  <2> HIDE DEF s
  <2>3. m \in Nat /\ m \notin Range(s)
    BY <1>1, <1>7, <2>2
  <2>4. /\ <<m>> \o s \in Seq(Nat) /\ IsInjective(<<m>> \o s)
        /\ Range(<<m>> \o s) = (A \ {b}) \cup {m}
    BY <2>2, <2>3, FrontedList
  <2>5. r.avail = <<m>> \o s
    BY <1>5 DEF s
  <2> QED BY <1>5, <1>9, <2>1, <2>4, <2>5, Zenon DEF ListsExact
<1>11. BytesExact(r)
  <2> DEFINE B == A \ {b}
             C == B \cup {m}
             V == U \cup {b}
  <2>1. h.bytes.avail = Cardinality(Area(N, A)) /\ h.bytes.used = Cardinality(Area(N, U))
    BY Zenon DEF Sound, BytesExact
  <2>2. Cardinality(Area(N, B)) \in Nat
        /\ Cardinality(Area(N, A)) = Cardinality(Area(N, B)) + (N[b] - b)
    <3>1. B = A \ {b} /\ b \in A
      OBVIOUS
    <3>2. Chained(D, N, h.start, h.end) /\ A \in SUBSET D
      BY <1>1, <1>2
    <3> HIDE DEF A, B, D, N
    <3> QED BY <3>1, <3>2, AreaCount
  <2>3. Cardinality(Area(M, C)) = Cardinality(Area(M, B)) + (M[m] - m)
    <3>1. B = C \ {m} /\ m \in C /\ C \in SUBSET Blocks(r)
      BY <1>1, <1>7, Zenon
    <3>2. Chained(Blocks(r), M, r.start, r.end)
      BY <1>7
    <3> HIDE DEF B, C, M
    <3> QED BY <3>1, <3>2, AreaCount
  <2>4. Cardinality(Area(M, U)) \in Nat
        /\ Cardinality(Area(M, V)) = Cardinality(Area(M, U)) + (M[b] - b)
    <3>1. U = V \ {b} /\ b \in V /\ V \in SUBSET Blocks(r)
      BY <1>1, <1>2, <1>7, Zenon
    <3>2. Chained(Blocks(r), M, r.start, r.end)
      BY <1>7
    <3> DEFINE E == Blocks(r)
    <3>3. Chained(E, M, r.start, r.end) /\ V \in SUBSET E
      BY <3>1, <3>2
    <3>4. U = V \ {b} /\ b \in V
      BY <3>1
    <3> HIDE DEF U, V, M, E
    <3> QED BY <3>3, <3>4, AreaCount
  <2>5. Area(M, B) = Area(N, B)
    <3>1. \A c \in B : M[c] = N[c]
      BY <1>1, <1>7
    <3> HIDE DEF B
    <3> QED BY <3>1, AreaSame
  <2>6. Area(M, U) = Area(N, U)
    <3>1. \A c \in U : c \in D \ {b}
      BY <1>1, <1>2
    <3>2. \A c \in U : M[c] = N[c]
      BY <1>7, <3>1
    <3> HIDE DEF U
    <3> QED BY <3>2, AreaSame
  <2>7. M[m] = N[b] /\ M[b] = m /\ m \in Nat
        /\ n + EL_BLOCK_OVERHEAD = m - b /\ left + EL_BLOCK_OVERHEAD = N[b] - m
    BY <1>7
  <2> HIDE DEF A, B, C, U, V, N, M
  <2>8. r.bytes.avail = Cardinality(Area(M, C))
    <3>1. r.bytes.avail = h.bytes.avail - (N[b] - b) + (N[b] - m)
      <4>1. r.bytes.avail = h.bytes.avail - BlockLen(h, b) + (left + EL_BLOCK_OVERHEAD)
        BY <1>5
      <4>2. BlockLen(h, b) = N[b] - b
        BY <1>20
      <4>3. left + EL_BLOCK_OVERHEAD = N[b] - m
        BY <2>7
      <4> QED BY <4>1, <4>2, <4>3
    <3>3. h.bytes.avail = Cardinality(Area(N, B)) + (N[b] - b)
      BY <2>1, <2>2
    <3>2. Cardinality(Area(M, C)) = Cardinality(Area(N, B)) + (N[b] - m)
      BY <2>3, <2>5, <2>7
    <3> QED BY <1>2, <1>20, <2>2, <2>7, <3>1, <3>2, <3>3
  <2>9. r.bytes.used = Cardinality(Area(M, V))
    BY <1>5, <2>1, <2>4, <2>6, <2>7
  <2> QED BY <1>9, <2>8, <2>9 DEF BytesExact, M, A, B, C, U, V
<1>12. Sound(r)
  BY <1>2, <1>4, <1>7, <1>10, <1>11, <1>21, Zenon DEF Sound
<1>13. NoPairBut(r, {})
  <2>1. \A c \in A : N[c] \notin A
    BY DEF NoPairBut
  <2>2. \A c \in D : N[c] # m
    <3>1. \A c \in D : N[c] = h.end \/ N[c] \in D
      BY <1>2 DEF Chained
    <3>2. m # h.end
      <4>1. N[b] <= h.end /\ h.end \in Nat
        BY <1>1, <1>2 DEF Chained
      <4> QED BY <1>7, <1>20, <4>1
    <3> QED BY <1>7, <3>1, <3>2, Zenon
  <2> SUFFICES ASSUME NEW c \in (A \ {b}) \cup {m} PROVE M[c] \notin (A \ {b}) \cup {m}
    BY <1>9 DEF NoPairBut
  <2>3. CASE c = m
    BY <1>1, <1>7, <2>1, <2>2, <2>3, Zenon
  <2>4. CASE c \in A \ {b}
    BY <1>1, <1>7, <2>1, <2>2, <2>4, Zenon
  <2> QED BY <2>3, <2>4
<1>14. \A c \in U : r.head[c] = h.head[c]
  <2>1. \A c \in U : c \in D \ {b}
    BY <1>1, <1>2
  <2> QED BY <1>7, <2>1
<1>15. Serves(h, r, b, n)
  BY <1>7, <1>8, <1>9, <1>14, <1>21 DEF Serves, m
<1> QED BY <1>3, <1>12, <1>13, <1>15

\* el_malloc: it finds a block if and only if one that is available is large enough, and
\* then it keeps the heap sound and without available neighbours.
THEOREM MallocSound ==
  ASSUME NEW h, Sound(h), NoPairBut(h, {}), NEW n \in Nat, NEW r, r = Malloc(h, n)
  PROVE  IF FindFirstAvail(h, n) = NULL
         THEN r = [heap |-> h, ptr |-> NULL]
              /\ \A b \in InState(h, "available") : h.head[b].size < n
         ELSE \E b \in InState(h, "available") :
                /\ Sound(r.heap) /\ NoPairBut(r.heap, {}) /\ Serves(h, r.heap, b, n)
                /\ r.ptr = b + HeadLen
<1> DEFINE b == FindFirstAvail(h, n)
           A == InState(h, "available")
<1>1. h.avail \in Seq(Nat) /\ Range(h.avail) = A
  BY DEF Sound, ListsExact
<1>2. \A c \in A : h.head[c].size \in Nat /\ c # NULL
  BY SoundFacts, Zenon DEF InState
<1>3. \/ b = NULL /\ \A c \in A : ~ (h.head[c].size >= n)
      \/ b \in A /\ h.head[b].size >= n
  BY <1>1, FirstAvail
<1>4. CASE b = NULL
  <2>1. r = [heap |-> h, ptr |-> NULL]
    BY <1>4 DEF Malloc
  <2>2. \A c \in A : h.head[c].size < n
    BY <1>2, <1>3, <1>4
  <2> QED BY <1>4, <2>1, <2>2
<1>5. CASE b # NULL
  <2>1. b \in A /\ h.head[b].size >= n
    BY <1>3, <1>5
  <2>2. /\ Sound(r.heap) /\ NoPairBut(r.heap, {}) /\ Serves(h, r.heap, b, n)
        /\ r.ptr = b + HeadLen
    <3>1. CASE Splits(h, b, n)
      BY <2>1, <3>1, SplitSound
    <3>2. CASE ~ Splits(h, b, n)
      BY <2>1, <3>2, WholeSound
    <3> QED BY <3>1, <3>2
  <2> QED BY <1>5, <2>1, <2>2
<1> QED BY <1>4, <1>5

\* The second merge of el_free, and the one of el_append_pages_to_heap: with the block below b.
LEMMA MergeDown ==
  ASSUME NEW h, Sound(h), NEW b \in Blocks(h), NEW E, NoPairBut(h, E),
         \A c \in E : c \in Blocks(h) /\ Ends(h)[c] = b,
         NEW r, r = MergeBlockWithAbove(h, BlockBelow(h, b))
  PROVE  Sound(r) /\ Joins(h, r) /\ NoPairBut(r, {})
<1> DEFINE low == BlockBelow(h, b)
<1>1. /\ \A c \in Blocks(h) : c \in Nat /\ Ends(h)[c] \in Nat /\ c < Ends(h)[c] /\ h.start <= c
      /\ \A c, d \in Blocks(h) : Ends(h)[c] = Ends(h)[d] => c = d
      /\ NULL \notin Blocks(h) /\ h.start \in Nat
  BY SoundFacts, ChainFacts
<1>2. IF b = h.start THEN low = NULL ELSE low \in Blocks(h) /\ Ends(h)[low] = b
  BY Neighbours, Zenon
<1> HIDE DEF low
<1>3. b \notin E
  BY <1>1
<1>4. low \in Blocks(h) \cup {NULL} /\ (low \in Blocks(h) => Ends(h)[low] \notin E)
  BY <1>1, <1>2, <1>3
<1>5. E \ {low} = {}
  BY <1>1, <1>2
<1>6. Sound(r) /\ Joins(h, r) /\ NoPairBut(r, E \ {low})
  BY <1>4, MergeStep DEF low
<1> QED BY <1>5, <1>6

\* Merging twice.
LEMMA JoinsTwice ==
  ASSUME NEW h, NEW g, NEW r, Sound(h), Sound(g), Sound(r), Joins(h, g), Joins(g, r)
  PROVE  Joins(h, r)
<1>1. /\ \A b \in InState(h, "available") : h.head[b].size \in Nat
      /\ \A b \in InState(g, "available") : g.head[b].size \in Nat
      /\ \A b \in InState(r, "available") : r.head[b].size \in Nat
  BY SoundFacts, Zenon DEF InState
<1>2. \A b \in InState(h, "available") :
        \E c \in InState(r, "available") : r.head[c].size >= h.head[b].size
  <2> TAKE b \in InState(h, "available")
  <2>1. PICK c \in InState(g, "available") : g.head[c].size >= h.head[b].size
    BY DEF Joins
  <2>2. PICK d \in InState(r, "available") : r.head[d].size >= g.head[c].size
    BY DEF Joins
  <2>3. h.head[b].size \in Nat /\ g.head[c].size \in Nat /\ r.head[d].size \in Nat
    BY <1>1
  <2>4. r.head[d].size >= h.head[b].size
    BY <2>1, <2>2, <2>3
  <2> QED BY <2>4
<1>3. /\ r.start = h.start /\ r.end = h.end /\ Blocks(r) \subseteq Blocks(h)
      /\ InState(r, "used") = InState(h, "used")
  BY DEF Joins
<1>4. \A b \in InState(h, "used") : r.head[b] = h.head[b]
  BY DEF Joins
<1> QED BY <1>2, <1>3, <1>4 DEF Joins

\* The first half of el_free: the block b moves to the available list.
Freed(h, b) == AddBlockFront(SetState(RemoveBlock(h, "used", b), b, "available"), "avail", b)

LEMMA FreedSound ==
  ASSUME NEW h, Sound(h), NoPairBut(h, {}), NEW b \in InState(h, "used"),
         NEW r, r = Freed(h, b),
         NEW E, E = {c \in Blocks(h) : Ends(h)[c] = b}
  PROVE  /\ Sound(r) /\ Moved(h, r, b, "available")
         /\ r.start = h.start /\ r.end = h.end
         /\ NoPairBut(r, E \cup {b})
<1> DEFINE D == Blocks(h)
           N == Ends(h)
           A == InState(h, "available")
           U == InState(h, "used")
<1>1. b \in D /\ A \in SUBSET D /\ U \in SUBSET D
  BY DEF InState
<1>2. /\ HeapRecord(h) /\ h.start # NULL /\ Chained(D, N, h.start, h.end) /\ A \cap U = {}
      /\ Footed(N, h.foot)
  BY SoundFacts, Zenon
<1>3. /\ b \in Nat /\ h.head[b] \in [size : Nat, state : {"available", "used"}]
      /\ BlockLen(h, b) = N[b] - b /\ N[b] \in Nat
  BY <1>1, SoundFacts, Zenon
<1>4. Holds(r, h.start, h.end, [h.head EXCEPT ![b].state = "available"], h.foot,
            <<b>> \o h.avail, h.used \ {b},
            h.bytes.avail + BlockLen(h, b), h.bytes.used - BlockLen(h, b))
  BY <1>1, <1>2, <1>3, FreedRecord, Zenon DEF Blocks, Freed
<1>5. Restated(h, r, b, "available") /\ HeapRecord(r)
  BY <1>4 DEF Holds, Restated
<1>6. /\ r.avail = <<b>> \o h.avail /\ r.used = h.used \ {b}
      /\ r.bytes.avail = h.bytes.avail + BlockLen(h, b)
      /\ r.bytes.used = h.bytes.used - BlockLen(h, b)
      /\ r.start = h.start /\ r.end = h.end /\ r.foot = h.foot
  BY <1>4 DEF Holds
<1>7. Moved(h, r, b, "available")
  BY <1>1, <1>5, StateChange
<1>8. /\ Blocks(r) = D /\ Ends(r) = N /\ HeadsTyped(r)
      /\ InState(r, "available") = A \cup {b} /\ InState(r, "used") = U \ {b}
  BY <1>7 DEF Moved
<1>9. b \notin A
  BY <1>2
<1>10. ListsExact(r)
  <2>1. h.avail \in Seq(Nat) /\ IsInjective(h.avail) /\ Range(h.avail) = A /\ h.used = U
    BY DEF Sound, ListsExact
  <2>2. /\ <<b>> \o h.avail \in Seq(Nat) /\ IsInjective(<<b>> \o h.avail)
        /\ Range(<<b>> \o h.avail) = A \cup {b}
    BY <1>3, <1>9, <2>1, FrontedList
  <2> QED BY <1>6, <1>8, <2>1, <2>2, Zenon DEF ListsExact
<1>11. BytesExact(r)
  <2> DEFINE B == A \cup {b}
             V == U \ {b}
  <2>1. h.bytes.avail = Cardinality(Area(N, A)) /\ h.bytes.used = Cardinality(Area(N, U))
    BY DEF Sound, BytesExact
  <2>2. /\ Cardinality(Area(N, A)) \in Nat
        /\ Cardinality(Area(N, B)) = Cardinality(Area(N, A)) + (N[b] - b)
    <3>1. A = B \ {b} /\ b \in B
      BY <1>9
    <3>2. Chained(D, N, h.start, h.end) /\ B \in SUBSET D
      BY <1>1, <1>2
    <3> HIDE DEF A, B, D, N
    <3> QED BY <3>1, <3>2, AreaCount
  <2>3. /\ Cardinality(Area(N, V)) \in Nat
        /\ Cardinality(Area(N, U)) = Cardinality(Area(N, V)) + (N[b] - b)
    <3>1. V = U \ {b} /\ b \in U
      OBVIOUS
    <3>2. Chained(D, N, h.start, h.end) /\ U \in SUBSET D
      BY <1>1, <1>2
    <3> HIDE DEF U, V, D, N
    <3> QED BY <3>1, <3>2, AreaCount
  <2> HIDE DEF A, B, U, V, N, D
  <2>4. r.bytes.avail = Cardinality(Area(N, B))
    BY <1>3, <1>6, <2>1, <2>2
  <2>5. r.bytes.used = Cardinality(Area(N, V))
    BY <1>3, <1>6, <2>1, <2>3
  <2> QED BY <1>8, <2>4, <2>5 DEF BytesExact, B, V
<1>12. Sound(r)
  BY <1>2, <1>5, <1>6, <1>8, <1>10, <1>11, Zenon DEF Sound
<1>13. NoPairBut(r, E \cup {b})
  <2>1. \A c \in A : N[c] \notin A
    BY DEF NoPairBut
  <2> SUFFICES ASSUME NEW c \in (A \cup {b}) \ (E \cup {b}) PROVE N[c] \notin A \cup {b}
    BY <1>8 DEF NoPairBut
  <2>2. c \in A /\ c \in D /\ c \notin E
    BY <1>1
  <2>3. N[c] # b
    BY <2>2
  <2> QED BY <2>1, <2>2, <2>3
<1> QED BY <1>6, <1>7, <1>12, <1>13

\* What el_free does with the block b.
Frees(h, r, b) ==
  /\ r.start = h.start /\ r.end = h.end /\ Blocks(r) \subseteq Blocks(h)
  /\ InState(r, "used") = InState(h, "used") \ {b}
  /\ \A c \in InState(h, "used") \ {b} : r.head[c] = h.head[c]

\* el_free of a block in use keeps the heap sound and leaves no two available neighbours.
THEOREM FreeSound ==
  ASSUME NEW h, Sound(h), NoPairBut(h, {}), NEW ptr, ptr - HeadLen \in InState(h, "used"),
         NEW r, r = Free(h, ptr)
  PROVE  Sound(r) /\ NoPairBut(r, {}) /\ Frees(h, r, ptr - HeadLen)
<1> DEFINE b == ptr - HeadLen
           f == Freed(h, b)
           E == {c \in Blocks(h) : Ends(h)[c] = b}
           up == MergeBlockWithAbove(f, b)
<1>1. b \in InState(h, "used") /\ b \in Blocks(h)
  BY DEF InState
<1>2. r = MergeBlockWithAbove(up, BlockBelow(up, b))
  BY DEF Free, Freed
<1> HIDE DEF b
<1>3. /\ Sound(f) /\ Moved(h, f, b, "available") /\ f.start = h.start /\ f.end = h.end
      /\ NoPairBut(f, E \cup {b})
  <2> HIDE DEF f, E
  <2>1. f = Freed(h, b) /\ E = {c \in Blocks(h) : Ends(h)[c] = b}
    BY DEF f, E
  <2> QED BY <1>1, <2>1, FreedSound
<1>4. /\ Blocks(f) = Blocks(h) /\ Ends(f) = Ends(h)
      /\ InState(f, "used") = InState(h, "used") \ {b}
      /\ \A c \in Blocks(h) \ {b} : f.head[c] = h.head[c]
  BY <1>3, Zenon DEF Moved
<1> HIDE DEF f
<1>5. \A c \in Blocks(f) : c \in Nat /\ Ends(f)[c] \in Nat /\ c < Ends(f)[c]
  BY <1>3, SoundFacts, ChainFacts
<1>6. Ends(f)[b] \notin E \cup {b}
  BY <1>1, <1>4, <1>5
<1>7. /\ Sound(up) /\ Joins(f, up) /\ NoPairBut(up, (E \cup {b}) \ {b}) /\ b \in Blocks(up)
      /\ \A c \in Blocks(f) : Ends(f)[c] = b => c \in Blocks(up) /\ Ends(up)[c] = b
  <2>1. b \in Blocks(f)
    BY <1>1, <1>4
  <2> DEFINE EE == E \cup {b}
  <2>2. NoPairBut(f, EE) /\ Ends(f)[b] \notin EE
    BY <1>3, <1>6
  <2>4. b \in Blocks(f) \cup {NULL} /\ up = MergeBlockWithAbove(f, b)
    BY <2>1
  <2> HIDE DEF EE, up
  <2>3. /\ Sound(up) /\ Joins(f, up) /\ NoPairBut(up, EE \ {b}) /\ b \in Blocks(up)
        /\ \A c \in Blocks(f) : Ends(f)[c] = b => c \in Blocks(up) /\ Ends(up)[c] = b
    BY <1>3, <2>1, <2>2, <2>4, MergeStep
  <2> QED BY <2>3 DEF EE
<1>8. NoPairBut(up, E)
  <2>1. (E \cup {b}) \ {b} = E
    BY <1>1, <1>4, <1>5
  <2> QED BY <1>7, <2>1
<1>9. \A c \in E : c \in Blocks(up) /\ Ends(up)[c] = b
  BY <1>4, <1>7
<1> HIDE DEF up, E
<1>10. Sound(r) /\ Joins(up, r) /\ NoPairBut(r, {})
  BY <1>2, <1>7, <1>8, <1>9, MergeDown
<1>11. Joins(f, r)
  BY <1>3, <1>7, <1>10, JoinsTwice
<1>12. Frees(h, r, b)
  <2>1. /\ r.start = f.start /\ r.end = f.end /\ Blocks(r) \subseteq Blocks(f)
        /\ InState(r, "used") = InState(f, "used")
        /\ \A c \in InState(f, "used") : r.head[c] = f.head[c]
    BY <1>11 DEF Joins
  <2>2. \A c \in InState(h, "used") \ {b} : c \in Blocks(h) \ {b} /\ c \in InState(f, "used")
    BY <1>4 DEF InState
  <2>3. \A c \in InState(h, "used") \ {b} : r.head[c] = h.head[c]
    BY <1>4, <2>1, <2>2
  <2> QED BY <1>3, <1>4, <2>1, <2>3 DEF Frees
<1> QED BY <1>10, <1>12 DEF b

\* el_append_pages_to_heap before its merge: one more available block, at the old end.
Added(h, len) ==
  AddBlockFront([SetFoot(SetHead(h, h.end, len - EL_BLOCK_OVERHEAD, "available"),
                         h.end + HeadLen + (len - EL_BLOCK_OVERHEAD), len - EL_BLOCK_OVERHEAD)
                   EXCEPT !.end = h.end + len], "avail", h.end)

Extends(h, r, len) ==
  /\ Blocks(r) = Blocks(h) \cup {h.end} /\ h.end \notin Blocks(h)
  /\ r.start = h.start /\ r.end = h.end + len
  /\ r.head[h.end] = [size |-> len - EL_BLOCK_OVERHEAD, state |-> "available"]
  /\ \A c \in Blocks(h) : r.head[c] = h.head[c] /\ Ends(r)[c] = Ends(h)[c]
  /\ Ends(r)[h.end] = h.end + len

LEMMA AddedSound ==
  ASSUME NEW h, Sound(h), NoPairBut(h, {}), NEW len \in Nat, EL_BLOCK_OVERHEAD <= len,
         NEW r, r = Added(h, len),
         NEW E, E = {c \in Blocks(r) : Ends(r)[c] = h.end}
  PROVE  /\ Sound(r) /\ Extends(h, r, len) /\ NoPairBut(r, E)
         /\ InState(r, "used") = InState(h, "used")
<1> DEFINE D == Blocks(h)
           N == Ends(h)
           M == Ends(r)
           A == InState(h, "available")
           U == InState(h, "used")
           b == h.end
           size == len - EL_BLOCK_OVERHEAD
           f == b + HeadLen + size
           end == b + len
<1>0. /\ EL_BLOCK_OVERHEAD \in Nat /\ EL_BLOCK_OVERHEAD > 0 /\ HeadLen \in Nat /\ FootLen \in Nat
      /\ EL_BLOCK_OVERHEAD = HeadLen + FootLen
  BY Overhead
<1>1. A \in SUBSET D /\ U \in SUBSET D
  BY DEF InState
<1>2. /\ HeapRecord(h) /\ Chained(D, N, h.start, b) /\ h.start # NULL
      /\ b \in Nat /\ A \cap U = {} /\ A \cup U = D /\ HeadsTyped(h) /\ Footed(N, h.foot)
  BY SoundFacts, Zenon
<1>3. \A c \in D : c \in Nat /\ N[c] \in Nat /\ c < N[c] /\ N[c] <= b
  BY <1>2, ChainFacts
<1>4. b \notin D
  BY <1>2, <1>3
<1>5. size \in Nat /\ size + EL_BLOCK_OVERHEAD = len /\ end \in Nat /\ b + EL_BLOCK_OVERHEAD <= end
      /\ b < end /\ f = end - FootLen /\ size = end - b - EL_BLOCK_OVERHEAD
  BY <1>0, <1>2
<1>6. Holds(r, h.start, end, Written(h.head, b, [size |-> size, state |-> "available"]),
            Written(h.foot, f, size), <<b>> \o h.avail, h.used,
            h.bytes.avail + (size + EL_BLOCK_OVERHEAD), h.bytes.used)
  BY <1>2, AppendRecord, Zenon DEF Added
<1> HIDE DEF size, f, end, b
<1>7. /\ HeapRecord(r) /\ r.start = h.start /\ r.end = end
      /\ r.head = Written(h.head, b, [size |-> size, state |-> "available"])
      /\ r.foot = Written(h.foot, f, size)
      /\ r.avail = <<b>> \o h.avail /\ r.used = h.used
      /\ r.bytes.avail = h.bytes.avail + (size + EL_BLOCK_OVERHEAD) /\ r.bytes.used = h.bytes.used
  BY <1>6, Zenon DEF Holds
<1>8. /\ Blocks(r) = D \cup {b}
      /\ r.head[b] = [size |-> size, state |-> "available"]
      /\ \A c \in D : r.head[c] = h.head[c]
  BY <1>4, <1>7, Zenon DEF Blocks, Written
<1>9. HeadsTyped(r)
  <2>1. [size |-> size, state |-> "available"] \in [size : Nat, state : {"available", "used"}]
    BY <1>5
  <2> QED BY <1>2, <1>8, <2>1 DEF HeadsTyped
<1>10. M \in [D \cup {b} -> Nat] /\ M[b] = end /\ \A c \in D : M[c] = N[c]
  <2>1. \A c \in D : M[c] = N[c]
    BY <1>8 DEF Ends, BlockLen
  <2>2. M[b] = end
    <3>1. M[b] = b + (size + EL_BLOCK_OVERHEAD)
      BY <1>8 DEF Ends, BlockLen
    <3> QED BY <1>5, <3>1 DEF end
  <2>3. M = [c \in D \cup {b} |-> M[c]]
    BY <1>8 DEF Ends
  <2>4. \A c \in D \cup {b} : M[c] \in Nat
    BY <1>3, <1>5, <2>1, <2>2
  <2> HIDE DEF M
  <2> QED BY <2>1, <2>2, <2>3, <2>4
<1>11. Chained(Blocks(r), M, r.start, r.end)
  <2>1. Chained(D \cup {b}, M, h.start, end)
    <3> HIDE DEF D, N, M
    <3> QED BY <1>2, <1>5, <1>10, ChainAppend
  <2> QED BY <1>7, <1>8, <2>1
<1>12. Footed(M, r.foot)
  <2>1. Footed(M, Written(h.foot, end - FootLen, end - b - EL_BLOCK_OVERHEAD))
    <3> HIDE DEF D, N, M
    <3> QED BY <1>2, <1>5, <1>10, FootAppend, Zenon
  <2> QED BY <1>5, <1>7, <2>1
<1>13. InState(r, "available") = A \cup {b} /\ InState(r, "used") = U
  <2>1. \A c : c \in InState(r, "available") <=> c \in A \cup {b}
    BY <1>4, <1>8 DEF InState
  <2>2. \A c : c \in InState(r, "used") <=> c \in U
    BY <1>4, <1>8 DEF InState
  <2> QED BY <2>1, <2>2, Zenon
<1>14. ListsExact(r)
  <2>1. h.avail \in Seq(Nat) /\ IsInjective(h.avail) /\ Range(h.avail) = A /\ h.used = U
    BY Zenon DEF Sound, ListsExact
  <2>2. b \in Nat /\ b \notin A
    BY <1>1, <1>2, <1>4
  <2>3. /\ <<b>> \o h.avail \in Seq(Nat) /\ IsInjective(<<b>> \o h.avail)
        /\ Range(<<b>> \o h.avail) = A \cup {b}
    BY <2>1, <2>2, FrontedList
  <2> QED BY <1>7, <1>13, <2>1, <2>3, Zenon DEF ListsExact
<1>15. BytesExact(r)
  <2> DEFINE B == A \cup {b}
             R == Blocks(r)
  <2>1. h.bytes.avail = Cardinality(Area(N, A)) /\ h.bytes.used = Cardinality(Area(N, U))
    BY Zenon DEF Sound, BytesExact
  <2>2. Area(M, A) = Area(N, A)
    <3>1. \A c \in A : M[c] = N[c]
      BY <1>1, <1>10
    <3> HIDE DEF A
    <3> QED BY <3>1, AreaSame
  <2>3. Area(M, U) = Area(N, U)
    <3>1. \A c \in U : M[c] = N[c]
      BY <1>1, <1>10
    <3> HIDE DEF U
    <3> QED BY <3>1, AreaSame
  <2>4. Cardinality(Area(M, B)) = Cardinality(Area(M, A)) + (M[b] - b)
    <3>1. A = B \ {b} /\ b \in B
      BY <1>1, <1>4
    <3>2. Chained(R, M, r.start, r.end) /\ B \in SUBSET R
      BY <1>1, <1>8, <1>11
    <3> HIDE DEF A, B, R, M
    <3> QED BY <3>1, <3>2, AreaCount
  <2>5. M[b] - b = size + EL_BLOCK_OVERHEAD
    <3>1. M[b] = end
      BY <1>10
    <3> HIDE DEF M
    <3> QED BY <1>0, <1>2, <1>5, <3>1
  <2> HIDE DEF A, B, U, N, M
  <2>6. r.bytes.avail = Cardinality(Area(M, B))
    BY <1>7, <2>1, <2>2, <2>4, <2>5, Zenon
  <2>7. r.bytes.used = Cardinality(Area(M, U))
    BY <1>7, <2>1, <2>3, Zenon
  <2> QED BY <1>13, <2>6, <2>7 DEF BytesExact, B, M
<1>16. Sound(r)
  BY <1>2, <1>7, <1>9, <1>11, <1>12, <1>14, <1>15, Zenon DEF Sound
<1>17. NoPairBut(r, E)
  <2>1. \A c \in A : N[c] \notin A
    BY DEF NoPairBut
  <2> SUFFICES ASSUME NEW c \in (A \cup {b}) \ E PROVE M[c] \notin A \cup {b}
    BY <1>13 DEF NoPairBut
  <2>2. CASE c = b
    <3>1. M[c] = end
      BY <1>10, <2>2
    <3>2. end \notin D /\ end # b
      BY <1>2, <1>3, <1>5
    <3> QED BY <1>1, <3>1, <3>2
  <2>3. CASE c # b
    <3>1. c \in A /\ c \in D /\ M[c] = N[c]
      BY <1>1, <1>10, <2>3
    <3>2. M[c] # b
      BY <1>8, <3>1 DEF b
    <3> QED BY <2>1, <3>1, <3>2
  <2> QED BY <2>2, <2>3, Zenon
<1>18. Extends(h, r, len)
  BY <1>4, <1>7, <1>8, <1>10, Zenon DEF Extends, b, end, size
<1> QED BY <1>13, <1>16, <1>17, <1>18

\* What growth by len units does to the heap.
Grows(h, r, len) ==
  /\ r.start = h.start /\ r.end = h.end + len
  /\ Blocks(r) \subseteq Blocks(h) \cup {h.end}
  /\ InState(r, "used") = InState(h, "used")
  /\ \A c \in InState(h, "used") : r.head[c] = h.head[c]
  /\ \E c \in InState(r, "available") : r.head[c].size >= len - EL_BLOCK_OVERHEAD

\* Growth of the heap by an adjacent slab keeps it sound and merged, and makes an available
\* block with room for the whole slab but its tags.
THEOREM AppendSound ==
  ASSUME NEW h, Sound(h), NoPairBut(h, {}), NEW len \in Nat, EL_BLOCK_OVERHEAD <= len,
         NEW r, r = AppendSlab(h, len)
  PROVE  Sound(r) /\ NoPairBut(r, {}) /\ Grows(h, r, len)
<1> DEFINE g == Added(h, len)
           b == h.end
           E == {c \in Blocks(g) : Ends(g)[c] = b}
<1>1. r = MergeBlockWithAbove(g, BlockBelow(g, b))
  BY DEF AppendSlab, Added
<1>2. /\ Sound(g) /\ Extends(h, g, len) /\ NoPairBut(g, E)
      /\ InState(g, "used") = InState(h, "used")
  <2>1. g = Added(h, len) /\ E = {c \in Blocks(g) : Ends(g)[c] = h.end}
    OBVIOUS
  <2> HIDE DEF g, E
  <2> QED BY <2>1, AddedSound
<1>3. \A c \in E : c \in Blocks(g) /\ Ends(g)[c] = b
  OBVIOUS
<1> HIDE DEF g, E
<1>4. /\ Blocks(g) = Blocks(h) \cup {b} /\ b \notin Blocks(h)
      /\ g.start = h.start /\ g.end = b + len
      /\ g.head[b] = [size |-> len - EL_BLOCK_OVERHEAD, state |-> "available"]
      /\ \A c \in Blocks(h) : g.head[c] = h.head[c]
  BY <1>2 DEF Extends
<1> HIDE DEF b
<1>5. b \in Blocks(g)
  BY <1>4
<1>6. Sound(r) /\ Joins(g, r) /\ NoPairBut(r, {})
  BY <1>1, <1>2, <1>3, <1>5, MergeDown
<1>7. /\ r.start = g.start /\ r.end = g.end /\ Blocks(r) \subseteq Blocks(g)
      /\ InState(r, "used") = InState(g, "used")
      /\ \A c \in InState(g, "used") : r.head[c] = g.head[c]
      /\ \A c \in InState(g, "available") :
           \E d \in InState(r, "available") : r.head[d].size >= g.head[c].size
  BY <1>6 DEF Joins
<1>8. \A c \in InState(h, "used") : r.head[c] = h.head[c]
  BY <1>2, <1>4, <1>7 DEF InState
<1>9. \E c \in InState(r, "available") : r.head[c].size >= len - EL_BLOCK_OVERHEAD
  <2>1. b \in InState(g, "available") /\ g.head[b].size = len - EL_BLOCK_OVERHEAD
    BY <1>4, <1>5 DEF InState
  <2> QED BY <1>7, <2>1
<1>10. Grows(h, r, len)
  BY <1>2, <1>4, <1>7, <1>8, <1>9 DEF Grows, b
<1> QED BY <1>6, <1>10

\* el_init makes a sound heap of a slab that has room for the tags of one block.
THEOREM FirstSlabSound ==
  ASSUME NEW start \in Nat \ {0}, NEW len \in Nat, EL_BLOCK_OVERHEAD <= len,
         NEW r, r = FirstSlab(start, len)
  PROVE  /\ Sound(r) /\ NoPairBut(r, {}) /\ r.start = start /\ r.end = start + len
         /\ Blocks(r) = {start} /\ InState(r, "used") = {}
         /\ start \in InState(r, "available") /\ r.head[start].size = len - EL_BLOCK_OVERHEAD
<1> DEFINE size == len - EL_BLOCK_OVERHEAD
           end == start + len
           M == Ends(r)
<1>0. /\ EL_BLOCK_OVERHEAD \in Nat /\ EL_BLOCK_OVERHEAD > 0 /\ HeadLen \in Nat /\ FootLen \in Nat
      /\ EL_BLOCK_OVERHEAD = HeadLen + FootLen
  BY Overhead
<1>1. /\ size \in Nat /\ size + EL_BLOCK_OVERHEAD = len /\ end \in Nat /\ start < end
      /\ start + EL_BLOCK_OVERHEAD <= end /\ size = end - start - EL_BLOCK_OVERHEAD
  BY <1>0
<1>2. r = HeapOf(start, end, [b \in {start} |-> [size |-> size, state |-> "available"]],
                 [f \in {end - FootLen} |-> size], <<start>>, {}, len, 0)
  <2>1. r = HeapOf(start, end, [b \in {start} |-> [size |-> size, state |-> "available"]],
                   [f \in {start + len - FootLen} |-> size], <<start>>, {}, len, 0)
    BY Zenon DEF FirstSlab, HeapOf, size, end
  <2>2. start + len - FootLen = end - FootLen
    BY <1>0
  <2> QED BY <2>1, <2>2, Zenon
<1> HIDE DEF size, end
<1>3. Holds(r, start, end, [b \in {start} |-> [size |-> size, state |-> "available"]],
            [f \in {end - FootLen} |-> size], <<start>>, {}, len, 0)
  BY <1>2, Fields
<1>4. /\ HeapRecord(r) /\ r.start = start /\ r.end = end
      /\ r.head = [b \in {start} |-> [size |-> size, state |-> "available"]]
      /\ r.foot = [f \in {end - FootLen} |-> size] /\ r.avail = <<start>> /\ r.used = {}
      /\ r.bytes.avail = len /\ r.bytes.used = 0
  BY <1>3 DEF Holds
<1>5. Blocks(r) = {start} /\ r.head[start] = [size |-> size, state |-> "available"]
  BY <1>4 DEF Blocks
<1>6. HeadsTyped(r)
  <2>1. [size |-> size, state |-> "available"] \in [size : Nat, state : {"available", "used"}]
    BY <1>1
  <2> QED BY <1>5, <2>1 DEF HeadsTyped
<1>7. M = [c \in {start} |-> end]
  <2>1. M[start] = start + (size + EL_BLOCK_OVERHEAD)
    BY <1>5 DEF Ends, BlockLen
  <2>2. M[start] = end
    BY <1>1, <2>1 DEF end
  <2>3. M = [c \in {start} |-> M[c]]
    BY <1>5 DEF Ends
  <2> HIDE DEF M
  <2> QED BY <2>2, <2>3
<1>8. Chained(Blocks(r), M, r.start, r.end)
  <2> HIDE DEF M
  <2> QED BY <1>0, <1>1, <1>4, <1>5, <1>7 DEF Chained
<1>9. Footed(M, r.foot)
  <2> HIDE DEF M
  <2> QED BY <1>0, <1>1, <1>4, <1>7 DEF Footed
<1>10. InState(r, "available") = {start} /\ InState(r, "used") = {}
  BY <1>5 DEF InState
<1>11. ListsExact(r)
  <2>1. <<start>> \in Seq(Nat) /\ IsInjective(<<start>>) /\ Range(<<start>>) = {start}
    BY DEF IsInjective, Range
  <2> QED BY <1>4, <1>10, <2>1, Zenon DEF ListsExact
<1>12. BytesExact(r)
  <2> DEFINE S == {start}
             T == S \ {start}
  <2>1. /\ Cardinality(Area(M, T)) \in Nat
        /\ Cardinality(Area(M, S)) = Cardinality(Area(M, T)) + (M[start] - start)
    <3>1. Chained(S, M, r.start, r.end)
      BY <1>5, <1>8
    <3>2. S \in SUBSET S /\ start \in S /\ T = S \ {start}
      OBVIOUS
    <3> HIDE DEF S, T, M
    <3> QED BY <3>1, <3>2, AreaCount
  <2>2. Cardinality(Area(M, {})) = 0
    <3>1. Area(M, {}) = {}
      BY DEF Area
    <3> QED BY <3>1, FS_EmptySet
  <2>3. T = {}
    OBVIOUS
  <2>4. M[start] = end
    BY <1>7
  <2>5. end - start = len
    BY DEF end
  <2> HIDE DEF M, S, T
  <2>6. Cardinality(Area(M, S)) = len
    BY <2>1, <2>2, <2>3, <2>4, <2>5
  <2> QED BY <1>4, <1>10, <2>2, <2>6, Zenon DEF BytesExact, M, S
<1>13. Sound(r)
  BY <1>4, <1>6, <1>8, <1>9, <1>11, <1>12, Zenon DEF Sound, NULL
<1>14. NoPairBut(r, {})
  <2>1. M[start] = end /\ end # start
    BY <1>1, <1>7
  <2> QED BY <1>10, <2>1 DEF NoPairBut
<1> QED BY <1>4, <1>5, <1>10, <1>13, <1>14 DEF size, end
=============================================================================
