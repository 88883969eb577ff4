---------------------------- MODULE UserHeapLemmas ----------------------------
(***************************************************************************)
(* What the proofs of libc/malloc.c need besides the blocks: what SYS_MMAP *)
(* and SYS_MUNMAP do to the table of regions, whose the regions are, and   *)
(* the arithmetic of sizes and pages in size_t and int.                    *)
(***************************************************************************)
EXTENDS UserHeap, Numbers

LEMMA ConstantFacts ==
  /\ PageLen \in Nat \ {0} /\ SlotBase \in Nat \ {0} /\ SlotLen \in Nat \ {0}
  /\ MaxRegions \in Nat \ {0} /\ InitialPages \in Nat \ {0} /\ GrowPages \in Nat \ {0}
  /\ Align \in Nat \ {0} /\ Word \in Nat \ {0} /\ IntValues \in Nat \ {0}
  /\ EL_BLOCK_OVERHEAD \in Nat \ {0} /\ HeadLen \in Nat \ {0} /\ FootLen \in Nat \ {0}
  /\ EL_BLOCK_OVERHEAD = HeadLen + FootLen
  /\ EL_BLOCK_OVERHEAD <= PageLen /\ SlotBase + SlotLen < Word
  /\ HeadLen % Align = 0 /\ FootLen % Align = 0 /\ PageLen % Align = 0
  /\ SlotBase % PageLen = 0 /\ SlotLen % PageLen = 0 /\ Word % PageLen = 0
BY UserHeapAssumption, TagsAssumption DEF EL_BLOCK_OVERHEAD

LEMMA Alignments ==
  /\ SlotBase % Align = 0 /\ Word % Align = 0 /\ EL_BLOCK_OVERHEAD % Align = 0
<1>0. /\ SlotBase \in Int /\ Word \in Int /\ HeadLen \in Int /\ FootLen \in Int
      /\ PageLen \in Nat \ {0} /\ Align \in Nat \ {0}
  BY ConstantFacts
<1>1. SlotBase % PageLen = 0 /\ Word % PageLen = 0 /\ PageLen % Align = 0
  BY ConstantFacts
<1>2. SlotBase % Align = 0
  BY <1>0, <1>1, MultipleOfMultiple, Zenon
<1>3. Word % Align = 0
  BY <1>0, <1>1, MultipleOfMultiple, Zenon
<1>4. EL_BLOCK_OVERHEAD = HeadLen + FootLen /\ HeadLen % Align = 0 /\ FootLen % Align = 0
  BY ConstantFacts
<1>5. EL_BLOCK_OVERHEAD % Align = 0
  BY <1>0, <1>4, Multiples, Zenon
<1> QED BY <1>2, <1>3, <1>5

-----------------------------------------------------------------------------
(* Rounding.                                                               *)

\* RoundUpTo is the next number of whole pages, and in place on one.
LEMMA RoundUpToIs ==
  ASSUME NEW n \in Nat, NEW r, r = RoundUpTo(PageLen, n)
  PROVE  /\ r \in Nat /\ r % PageLen = 0 /\ r % Align = 0
         /\ n <= r /\ r < n + PageLen /\ (n # 0 => r # 0)
         /\ n % PageLen = 0 => r = n
<1> DEFINE x == n + PageLen - 1
           q == x \div PageLen
<1>0. PageLen \in Nat \ {0} /\ Align \in Nat \ {0} /\ PageLen % Align = 0
  BY ConstantFacts
<1>1. x \in Int /\ x >= 0
  BY <1>0
<1>2. x = q * PageLen + (x % PageLen) /\ x % PageLen \in 0 .. PageLen - 1 /\ q \in Int
  BY <1>0, <1>1, DivMod, Zenon
<1>3. r = q * PageLen
  BY DEF RoundUpTo
<1>4. r \in Int /\ n <= r /\ r < n + PageLen
  BY <1>0, <1>2, <1>3
<1>5. r % PageLen = 0
  <2> HIDE DEF q
  <2> QED BY <1>0, <1>2, <1>3, Multiples, Zenon
<1>6. r % Align = 0
  BY <1>0, <1>4, <1>5, MultipleOfMultiple
<1>7. ASSUME n % PageLen = 0, n < r PROVE FALSE
  <2>1. n + PageLen <= r
    BY <1>0, <1>4, <1>5, <1>7, NextMultiple
  <2> QED BY <1>0, <1>4, <2>1
<1> QED BY <1>4, <1>5, <1>6, <1>7

-----------------------------------------------------------------------------
(* The table of regions.                                                   *)

Region == [base : Nat, length : Nat]
End(region) == region.base + region.length

\* Regions are aligned, lie in the slot and do not overlap, and a free place is empty.
TableOk(T) ==
  /\ T \in [1 .. MaxRegions -> Region]
  /\ \A i \in 1 .. MaxRegions : T[i].length = 0 => T[i] = NoRegion
  /\ \A i \in HeldPlaces(T) :
       /\ SlotBase <= T[i].base /\ End(T[i]) <= SlotBase + SlotLen
       /\ T[i].base % Align = 0 /\ T[i].length % Align = 0
  /\ \A i, j \in HeldPlaces(T) : i # j => End(T[i]) <= T[j].base \/ End(T[j]) <= T[i].base

LEMMA TableFacts ==
  ASSUME NEW T, TableOk(T)
  PROVE  /\ DOMAIN T = 1 .. MaxRegions
         /\ \A i \in 1 .. MaxRegions : T[i] \in Region /\ T[i].base \in Nat /\ T[i].length \in Nat
         /\ \A i \in 1 .. MaxRegions : i \in HeldPlaces(T) <=> T[i].length # 0
         /\ \A i \in HeldPlaces(T) : /\ i \in 1 .. MaxRegions
                                     /\ T[i].base \in Nat /\ T[i].length \in Nat \ {0}
                                     /\ T[i].base < End(T[i]) /\ End(T[i]) \in Nat
         /\ FreePlaces(T) = 1 .. MaxRegions \ HeldPlaces(T)
         /\ \A i, j \in HeldPlaces(T) : T[i].base = T[j].base => i = j
<1>1. T \in [1 .. MaxRegions -> Region]
  BY DEF TableOk
<1>2. \A i \in 1 .. MaxRegions : T[i] \in Region /\ T[i].base \in Nat /\ T[i].length \in Nat
  BY <1>1 DEF Region
<1>3. DOMAIN T = 1 .. MaxRegions
  BY <1>1
<1>4. \A i \in 1 .. MaxRegions : i \in HeldPlaces(T) <=> T[i].length # 0
  BY <1>3 DEF HeldPlaces, FreePlaces
<1>5. \A i \in HeldPlaces(T) : i \in 1 .. MaxRegions
  BY <1>3 DEF HeldPlaces
<1>6. \A i \in HeldPlaces(T) : /\ i \in 1 .. MaxRegions
                               /\ T[i].base \in Nat /\ T[i].length \in Nat \ {0}
                               /\ T[i].base < End(T[i]) /\ End(T[i]) \in Nat
  BY <1>2, <1>4, <1>5 DEF End
<1>7. FreePlaces(T) = 1 .. MaxRegions \ HeldPlaces(T)
  BY <1>3 DEF HeldPlaces, FreePlaces
<1>8. \A i, j \in HeldPlaces(T) : T[i].base = T[j].base => i = j
  <2> SUFFICES ASSUME NEW i \in HeldPlaces(T), NEW j \in HeldPlaces(T),
                      T[i].base = T[j].base, i # j
               PROVE  FALSE
    OBVIOUS
  <2>1. End(T[i]) <= T[j].base \/ End(T[j]) <= T[i].base
    BY DEF TableOk
  <2> QED BY <1>6, <2>1
<1> QED BY <1>2, <1>3, <1>4, <1>6, <1>7, <1>8

\* Where the next region goes: above every other, in the slot.
LEMMA AboveIs ==
  ASSUME NEW T, TableOk(T), NEW top, top = Above(T, SlotBase)
  PROVE  /\ top \in Nat /\ SlotBase <= top /\ top <= SlotBase + SlotLen /\ top % Align = 0
         /\ \A i \in HeldPlaces(T) : End(T[i]) <= top
         /\ top = SlotBase \/ \E i \in HeldPlaces(T) : top = End(T[i])
<1> DEFINE S == {SlotBase} \cup {T[i].base + T[i].length : i \in HeldPlaces(T)}
<1>0. SlotBase \in Nat /\ SlotLen \in Nat /\ Align \in Nat \ {0}
  BY ConstantFacts
<1>1. \A i \in HeldPlaces(T) : /\ T[i].base \in Nat /\ T[i].length \in Nat
                               /\ T[i].base + T[i].length = End(T[i])
  BY TableFacts DEF End
<1>2. \A i \in HeldPlaces(T) : /\ End(T[i]) <= SlotBase + SlotLen /\ End(T[i]) \in Nat
                               /\ End(T[i]) % Align = 0
  <2> TAKE i \in HeldPlaces(T)
  <2>1. T[i].base % Align = 0 /\ T[i].length % Align = 0 /\ End(T[i]) <= SlotBase + SlotLen
    BY DEF TableOk
  <2>2. T[i].base \in Int /\ T[i].length \in Int
    BY <1>1
  <2>3. (T[i].base + T[i].length) % Align = 0
    BY <1>0, <2>1, <2>2, Multiples
  <2> QED BY <1>1, <2>1, <2>3
<1>3. S \in SUBSET Nat /\ S # {} /\ SlotBase + SlotLen \in Nat
  BY <1>0, <1>1, <1>2
<1>4. \A x \in S : x <= SlotBase + SlotLen
  BY <1>0, <1>1, <1>2
<1>5. top = Max(S)
  BY DEF Above
<1>6. \A x \in S : x = SlotBase \/ \E i \in HeldPlaces(T) : x = End(T[i])
  BY <1>1
<1>7. SlotBase \in S /\ \A i \in HeldPlaces(T) : End(T[i]) \in S
  BY <1>1
<1> HIDE DEF S
<1>8. top \in S /\ \A y \in S : y <= top
  BY <1>3, <1>4, <1>5, NatMax, Zenon
<1>9. top % Align = 0
  BY <1>2, <1>6, <1>8, Alignments
<1> QED BY <1>3, <1>4, <1>6, <1>7, <1>8, <1>9, Zenon

\* A region entered above the others.
Entered(T, R, p, base, length) ==
  /\ p \in FreePlaces(T) /\ HeldPlaces(R) = HeldPlaces(T) \cup {p}
  /\ R = [T EXCEPT ![p] = [base |-> base, length |-> length]]
  /\ R[p] = [base |-> base, length |-> length]
  /\ \A i \in HeldPlaces(T) : R[i] = T[i]

LEMMA EnterOk ==
  ASSUME NEW T, TableOk(T), FreePlaces(T) # {}, NEW base, base = Above(T, SlotBase),
         NEW length \in Nat \ {0}, length % Align = 0, base + length <= SlotBase + SlotLen,
         NEW R, R = Enter(T, base, length)
  PROVE  TableOk(R) /\ \E p \in 1 .. MaxRegions : Entered(T, R, p, base, length)
<1> DEFINE p == Min(FreePlaces(T))
           rec == [base |-> base, length |-> length]
<1>0. /\ DOMAIN T = 1 .. MaxRegions
      /\ \A i \in HeldPlaces(T) : /\ i \in 1 .. MaxRegions
                                  /\ T[i].base \in Nat /\ T[i].length \in Nat \ {0}
                                  /\ T[i].base < End(T[i]) /\ End(T[i]) \in Nat
      /\ FreePlaces(T) = 1 .. MaxRegions \ HeldPlaces(T)
      /\ \A i \in 1 .. MaxRegions : i \in HeldPlaces(T) <=> T[i].length # 0
  BY TableFacts
<1>1. /\ base \in Nat /\ SlotBase <= base /\ base % Align = 0
      /\ \A i \in HeldPlaces(T) : End(T[i]) <= base
  BY AboveIs
<1>2. p \in FreePlaces(T)
  <2>1. FreePlaces(T) \in SUBSET Nat
    BY <1>0
  <2> QED BY <2>1, NatMin
<1>3. p \in 1 .. MaxRegions /\ p \notin HeldPlaces(T)
  BY <1>0, <1>2
<1>4. R = [T EXCEPT ![p] = rec]
  BY DEF Enter
<1> HIDE DEF p
<1>5. rec \in Region /\ rec.base = base /\ rec.length = length
  BY <1>1 DEF Region
<1>6. T \in [1 .. MaxRegions -> Region]
  BY DEF TableOk
<1> HIDE DEF rec
<1>7. R \in [1 .. MaxRegions -> Region] /\ R[p] = rec /\ \A i \in 1 .. MaxRegions \ {p} : R[i] = T[i]
  BY <1>3, <1>4, <1>5, <1>6
<1>8. DOMAIN R = 1 .. MaxRegions
  BY <1>7
<1>9. HeldPlaces(R) = HeldPlaces(T) \cup {p}
  <2>1. \A i \in 1 .. MaxRegions : i \in HeldPlaces(R) <=> R[i].length # 0
    BY <1>8 DEF HeldPlaces, FreePlaces
  <2>2. \A i \in HeldPlaces(R) : i \in 1 .. MaxRegions
    BY <1>8 DEF HeldPlaces
  <2>3. R[p].length # 0
    BY <1>5, <1>7
  <2>4. \A i : i \in HeldPlaces(R) <=> i \in HeldPlaces(T) \cup {p}
    BY <1>0, <1>3, <1>7, <2>1, <2>2, <2>3
  <2> QED BY <2>4
<1>10. \A i \in HeldPlaces(T) : R[i] = T[i]
  BY <1>0, <1>3, <1>7
<1>11. \A i \in 1 .. MaxRegions : R[i].length = 0 => R[i] = NoRegion
  <2>1. R[p].length # 0
    BY <1>5, <1>7
  <2>2. \A i \in 1 .. MaxRegions : T[i].length = 0 => T[i] = NoRegion
    BY DEF TableOk
  <2> QED BY <1>7, <2>1, <2>2
<1>12. End(rec) = base + length
  BY <1>5 DEF End
<1>13. \A i \in HeldPlaces(R) :
         /\ SlotBase <= R[i].base /\ End(R[i]) <= SlotBase + SlotLen
         /\ R[i].base % Align = 0 /\ R[i].length % Align = 0
  <2> TAKE i \in HeldPlaces(R)
  <2>1. CASE i = p
    BY <1>1, <1>5, <1>7, <1>12, <2>1
  <2>2. CASE i # p
    <3>1. i \in HeldPlaces(T) /\ R[i] = T[i]
      BY <1>9, <1>10, <2>2
    <3> QED BY <3>1 DEF TableOk
  <2> QED BY <2>1, <2>2
<1>14. \A i, j \in HeldPlaces(R) : i # j => End(R[i]) <= R[j].base \/ End(R[j]) <= R[i].base
  <2> SUFFICES ASSUME NEW i \in HeldPlaces(R), NEW j \in HeldPlaces(R), i # j
               PROVE  End(R[i]) <= R[j].base \/ End(R[j]) <= R[i].base
    OBVIOUS
  <2>1. CASE i = p
    <3>1. j \in HeldPlaces(T) /\ R[j] = T[j] /\ R[i] = rec
      BY <1>7, <1>9, <1>10, <2>1
    <3> QED BY <1>1, <1>5, <3>1
  <2>2. CASE j = p
    <3>1. i \in HeldPlaces(T) /\ R[i] = T[i] /\ R[j] = rec
      BY <1>7, <1>9, <1>10, <2>2
    <3> QED BY <1>1, <1>5, <3>1
  <2>3. CASE i # p /\ j # p
    <3>1. i \in HeldPlaces(T) /\ R[i] = T[i] /\ j \in HeldPlaces(T) /\ R[j] = T[j]
      BY <1>9, <1>10, <2>3
    <3> QED BY <3>1 DEF TableOk
  <2> QED BY <2>1, <2>2, <2>3
<1>15. TableOk(R)
  BY <1>7, <1>11, <1>13, <1>14 DEF TableOk
<1>16. Entered(T, R, p, base, length)
  BY <1>2, <1>4, <1>7, <1>9, <1>10, Zenon DEF Entered, rec
<1> QED BY <1>3, <1>15, <1>16

\* A region given up.
LEMMA LeaveOk ==
  ASSUME NEW T, TableOk(T), NEW p \in HeldPlaces(T), NEW R, R = Leave(T, p)
  PROVE  /\ TableOk(R) /\ HeldPlaces(R) = HeldPlaces(T) \ {p}
         /\ \A i \in HeldPlaces(R) : R[i] = T[i]
<1>0. /\ DOMAIN T = 1 .. MaxRegions /\ p \in 1 .. MaxRegions
      /\ \A i \in 1 .. MaxRegions : i \in HeldPlaces(T) <=> T[i].length # 0
      /\ \A i \in HeldPlaces(T) : i \in 1 .. MaxRegions
  BY TableFacts
<1>1. NoRegion \in Region /\ NoRegion.length = 0
  BY DEF NoRegion, Region
<1>2. T \in [1 .. MaxRegions -> Region] /\ R = [T EXCEPT ![p] = NoRegion]
  BY DEF TableOk, Leave
<1>3. /\ R \in [1 .. MaxRegions -> Region] /\ R[p] = NoRegion
      /\ \A i \in 1 .. MaxRegions \ {p} : R[i] = T[i]
  BY <1>0, <1>1, <1>2
<1>4. HeldPlaces(R) = HeldPlaces(T) \ {p}
  <2>1. DOMAIN R = 1 .. MaxRegions
    BY <1>3
  <2>2. \A i \in 1 .. MaxRegions : i \in HeldPlaces(R) <=> R[i].length # 0
    BY <2>1 DEF HeldPlaces, FreePlaces
  <2>3. \A i \in HeldPlaces(R) : i \in 1 .. MaxRegions
    BY <2>1 DEF HeldPlaces
  <2>4. \A i : i \in HeldPlaces(R) <=> i \in HeldPlaces(T) \ {p}
    BY <1>0, <1>1, <1>3, <2>2, <2>3
  <2> QED BY <2>4
<1>5. \A i \in HeldPlaces(R) : R[i] = T[i] /\ i \in HeldPlaces(T)
  BY <1>0, <1>3, <1>4
<1>6. \A i \in 1 .. MaxRegions : R[i].length = 0 => R[i] = NoRegion
  <2>1. \A i \in 1 .. MaxRegions : T[i].length = 0 => T[i] = NoRegion
    BY DEF TableOk
  <2> QED BY <1>3, <2>1
<1>7. /\ \A i \in HeldPlaces(R) :
           /\ SlotBase <= R[i].base /\ End(R[i]) <= SlotBase + SlotLen
           /\ R[i].base % Align = 0 /\ R[i].length % Align = 0
      /\ \A i, j \in HeldPlaces(R) : i # j => End(R[i]) <= R[j].base \/ End(R[j]) <= R[i].base
  BY <1>5 DEF TableOk
<1> QED BY <1>3, <1>4, <1>5, <1>6, <1>7 DEF TableOk

-----------------------------------------------------------------------------
(* SYS_MMAP and SYS_MUNMAP.                                                *)

Refusal(T, len, frames) ==
  \/ len = 0 \/ len > SlotLen \/ ~ frames
  \/ ~ HasRoom(T, SlotBase, SlotLen, RoundUpTo(PageLen, len))

\* Both fields of what SYS_MMAP leaves and returns, and why it fails.
LEMMA MmapIs ==
  ASSUME NEW T, TableOk(T), NEW len \in Nat, NEW frames \in BOOLEAN,
         NEW m, m = SysMmap(T, len, frames)
  PROVE  IF m.base = FAILED
         THEN m.regions = T /\ Refusal(T, len, frames)
         ELSE /\ len # 0 /\ m.base = Above(T, SlotBase) /\ TableOk(m.regions)
              /\ \E p \in 1 .. MaxRegions :
                   Entered(T, m.regions, p, m.base, RoundUpTo(PageLen, len))
<1> DEFINE length == RoundUpTo(PageLen, len)
           next == Above(T, SlotBase)
<1>0. SlotBase \in Nat \ {0} /\ SlotLen \in Nat
  BY ConstantFacts
<1>1. length \in Nat /\ (len # 0 => length # 0) /\ length % Align = 0
  BY RoundUpToIs
<1>2. next \in Nat /\ SlotBase <= next
  BY AboveIs
<1> HIDE DEF length, next
<1>3. CASE Refusal(T, len, frames)
  <2>1. m = [regions |-> T, base |-> FAILED]
    BY <1>3 DEF SysMmap, Refusal, length
  <2> QED BY <1>3, <2>1
<1>4. CASE ~ Refusal(T, len, frames)
  <2>1. m = [regions |-> Enter(T, next, length), base |-> next]
    BY <1>4 DEF SysMmap, Refusal, length, next
  <2>2. HasRoom(T, SlotBase, SlotLen, length) /\ len # 0
    BY <1>4 DEF Refusal, length
  <2>3. FreePlaces(T) # {} /\ length <= SlotBase + SlotLen - next
    BY <2>2 DEF HasRoom, next
  <2>4. next + length <= SlotBase + SlotLen /\ length \in Nat \ {0}
    BY <1>0, <1>1, <1>2, <2>2, <2>3
  <2>5. m.base = next /\ m.regions = Enter(T, next, length) /\ m.base # FAILED
    BY <1>0, <1>2, <2>1 DEF FAILED, NULL
  <2>6. TableOk(m.regions) /\ \E p \in 1 .. MaxRegions : Entered(T, m.regions, p, next, length)
    BY <1>1, <2>3, <2>4, <2>5, EnterOk DEF next
  <2> QED BY <2>2, <2>5, <2>6 DEF length, next
<1> QED BY <1>3, <1>4

\* SYS_MUNMAP gives up one region that begins at base, or nothing.
LEMMA MunmapIs ==
  ASSUME NEW T, TableOk(T), NEW base, NEW len, NEW R, R = SysMunmap(T, base, len)
  PROVE  R = T \/ \E p \in HeldPlaces(T) : T[p].base = base /\ R = Leave(T, p)
<1> DEFINE held == PlacesOf(T, base, RoundUpTo(PageLen, len))
<1>1. CASE held = {}
  BY <1>1 DEF SysMunmap
<1>2. CASE held # {}
  <2>1. held \in SUBSET HeldPlaces(T)
    BY DEF PlacesOf
  <2>2. held \in SUBSET Nat
    BY <2>1, TableFacts
  <2>3. R = Leave(T, Min(held))
    BY <1>2 DEF SysMunmap
  <2>4. \A i \in held : T[i].base = base
    BY DEF PlacesOf
  <2> HIDE DEF held
  <2>5. Min(held) \in held
    BY <1>2, <2>2, NatMin
  <2> QED BY <2>1, <2>3, <2>4, <2>5
<1> QED BY <1>1, <1>2

\* A region that goes back at once leaves the table as it was.
LEMMA UndoIs ==
  ASSUME NEW T, TableOk(T), NEW R, NEW p \in 1 .. MaxRegions, NEW len \in Nat \ {0},
         NEW base, base = Above(T, SlotBase),
         Entered(T, R, p, base, RoundUpTo(PageLen, len))
  PROVE  SysMunmap(R, base, len) = T
<1> DEFINE length == RoundUpTo(PageLen, len)
           rec == [base |-> base, length |-> length]
           held == PlacesOf(R, base, length)
<1>1. /\ p \in FreePlaces(T) /\ HeldPlaces(R) = HeldPlaces(T) \cup {p}
      /\ R = [T EXCEPT ![p] = rec] /\ R[p] = rec
      /\ \A i \in HeldPlaces(T) : R[i] = T[i]
  BY DEF Entered
<1>2. \A i \in HeldPlaces(T) : T[i].base < base
  <2>1. \A i \in HeldPlaces(T) : End(T[i]) <= base /\ base \in Nat
    BY AboveIs
  <2>2. \A i \in HeldPlaces(T) : T[i].base \in Nat /\ End(T[i]) \in Nat /\ T[i].base < End(T[i])
    BY TableFacts
  <2> QED BY <2>1, <2>2
<1>3. held = {p}
  <2>1. \A i \in HeldPlaces(T) : R[i] # rec
    <3>1. \A i \in HeldPlaces(T) : R[i].base # base
      BY <1>1, <1>2, AboveIs, TableFacts
    <3> QED BY <3>1
  <2> QED BY <1>1, <2>1 DEF PlacesOf
<1>4. Min({p}) = p
  BY DEF Min
<1>5. SysMunmap(R, base, len) = [R EXCEPT ![p] = NoRegion]
  <2>1. SysMunmap(R, base, len) = Leave(R, Min(held))
    BY <1>3 DEF SysMunmap
  <2> QED BY <1>3, <1>4, <2>1, Zenon DEF Leave
<1>6. T \in [1 .. MaxRegions -> Region] /\ T[p] = NoRegion
  <2>1. T[p].length = 0
    BY <1>1 DEF FreePlaces
  <2> QED BY <2>1 DEF TableOk
<1>7. [R EXCEPT ![p] = NoRegion] = T
  <2> HIDE DEF rec
  <2> QED BY <1>1, <1>6, Zenon
<1> QED BY <1>5, <1>7

-----------------------------------------------------------------------------
(* Whose the regions are.                                                  *)

Bases(T) == {T[i].base : i \in HeldPlaces(T)}
Slabs(T, mine) == {i \in HeldPlaces(T) : T[i].base \notin mine}
Bytes(region) == region.base .. region.base + region.length - 1
SlabBytes(T, mine) == UNION {Bytes(T[i]) : i \in Slabs(T, mine)}

OwnOk(mine, T) == mine \subseteq Bases(T)

\* A new region is a slab of the allocator, or the program's own.
Accounted(T, R, mine, base, length) ==
  /\ OwnOk(mine, R) /\ OwnOk(mine \cup {base}, R)
  /\ Slabs(R, mine \cup {base}) = Slabs(T, mine)
  /\ SlabBytes(R, mine) = SlabBytes(T, mine) \cup (base .. base + length - 1)
  /\ SlabBytes(R, mine \cup {base}) = SlabBytes(T, mine)

LEMMA OwnEnters ==
  ASSUME NEW T, TableOk(T), NEW mine, OwnOk(mine, T), NEW R, NEW p, NEW length,
         NEW base, base = Above(T, SlotBase), Entered(T, R, p, base, length)
  PROVE  Accounted(T, R, mine, base, length)
<1> DEFINE rec == [base |-> base, length |-> length]
<1>1. /\ p \in FreePlaces(T) /\ HeldPlaces(R) = HeldPlaces(T) \cup {p}
      /\ R[p] = rec /\ \A i \in HeldPlaces(T) : R[i] = T[i]
  BY DEF Entered
<1>2. rec.base = base /\ rec.length = length
  OBVIOUS
<1> HIDE DEF rec
<1>3. \A i \in HeldPlaces(T) : T[i].base # base
  <2>1. \A i \in HeldPlaces(T) : End(T[i]) <= base /\ base \in Nat
    BY AboveIs
  <2>2. \A i \in HeldPlaces(T) : T[i].base \in Nat /\ End(T[i]) \in Nat /\ T[i].base < End(T[i])
    BY TableFacts
  <2> QED BY <2>1, <2>2
<1>4. base \notin mine
  BY <1>3 DEF Bases, OwnOk
<1>5. p \notin HeldPlaces(T)
  BY <1>1 DEF HeldPlaces
<1>6. OwnOk(mine, R) /\ OwnOk(mine \cup {base}, R)
  BY <1>1, <1>2 DEF Bases, OwnOk
<1>7. Slabs(R, mine) = Slabs(T, mine) \cup {p}
  BY <1>1, <1>2, <1>4 DEF Slabs
<1>8. Slabs(R, mine \cup {base}) = Slabs(T, mine)
  BY <1>1, <1>2, <1>3 DEF Slabs
<1>9. \A i \in Slabs(T, mine) : R[i] = T[i]
  BY <1>1 DEF Slabs
<1>10. Bytes(R[p]) = base .. base + length - 1
  BY <1>1, <1>2 DEF Bytes
<1>11. SlabBytes(R, mine) = SlabBytes(T, mine) \cup (base .. base + length - 1)
  <2>1. \A x : x \in SlabBytes(R, mine) <=> \E i \in Slabs(T, mine) \cup {p} : x \in Bytes(R[i])
    BY <1>7 DEF SlabBytes
  <2>2. \A x : x \in SlabBytes(T, mine) <=> \E i \in Slabs(T, mine) : x \in Bytes(T[i])
    BY DEF SlabBytes
  <2>3. \A x : x \in SlabBytes(R, mine)
                 <=> x \in SlabBytes(T, mine) \/ x \in base .. base + length - 1
    BY <1>9, <1>10, <2>1, <2>2, Zenon
  <2> QED BY <2>3, Zenon
<1>12. SlabBytes(R, mine \cup {base}) = SlabBytes(T, mine)
  BY <1>8, <1>9, Zenon DEF SlabBytes
<1> QED BY <1>6, <1>8, <1>11, <1>12 DEF Accounted

\* A region of the program's own that goes leaves the slabs as they are.
LEMMA OwnLeaves ==
  ASSUME NEW T, TableOk(T), NEW mine, OwnOk(mine, T),
         NEW p \in HeldPlaces(T), T[p].base \in mine, NEW R, R = Leave(T, p)
  PROVE  /\ Slabs(R, mine \cap Bases(R)) = Slabs(T, mine)
         /\ SlabBytes(R, mine \cap Bases(R)) = SlabBytes(T, mine)
<1>1. HeldPlaces(R) = HeldPlaces(T) \ {p} /\ \A i \in HeldPlaces(R) : R[i] = T[i]
  BY LeaveOk
<1>2. \A i \in HeldPlaces(R) : R[i].base \in Bases(R)
  BY DEF Bases
<1>3. Slabs(R, mine \cap Bases(R)) = Slabs(T, mine)
  BY <1>1, <1>2 DEF Slabs
<1>4. \A i \in Slabs(T, mine) : R[i] = T[i]
  BY <1>1 DEF Slabs
<1> QED BY <1>3, <1>4, Zenon DEF SlabBytes

-----------------------------------------------------------------------------
(* size_t and int.                                                         *)

LEMMA ProductGrows ==
  ASSUME NEW a \in Nat, NEW k \in Int, NEW j \in Int, k <= j
  PROVE  k * a <= j * a
<1>1. (j - k) * a >= 0
  OBVIOUS
<1>2. j * a = k * a + (j - k) * a
  OBVIOUS
<1>3. k * a \in Int /\ j * a \in Int /\ (j - k) * a \in Int
  OBVIOUS
<1> QED BY <1>1, <1>2, <1>3

LEMMA SizeTIs ==
  ASSUME NEW n \in Nat
  PROVE  /\ SizeT(n) \in 0 .. Word - 1
         /\ n < Word => SizeT(n) = n
         /\ n % PageLen = 0 => SizeT(n) % PageLen = 0
<1> DEFINE k == n \div Word
<1>0. Word \in Nat \ {0} /\ PageLen \in Nat \ {0} /\ Word % PageLen = 0
  BY ConstantFacts
<1>1. n = k * Word + SizeT(n) /\ SizeT(n) \in 0 .. Word - 1 /\ k \in Int
  BY <1>0, DivMod DEF SizeT
<1>2. ASSUME n < Word PROVE SizeT(n) = n
  BY <1>0, <1>2 DEF SizeT
<1>3. ASSUME n % PageLen = 0 PROVE SizeT(n) % PageLen = 0
  <2> HIDE DEF k
  <2>1. (k * Word) % PageLen = 0
    <3>1. k * Word \in Int /\ Word \in Nat \ {0}
      BY <1>0, <1>1
    <3>2. (k * Word) % Word = 0
      BY <1>1, <3>1, Multiples, Zenon
    <3> QED BY <1>0, <3>1, <3>2, MultipleOfMultiple, Zenon
  <2>2. k * Word \in Int /\ n \in Int /\ SizeT(n) = n - k * Word
    <3>1. k * Word \in Int
      BY <1>0, <1>1
    <3> DEFINE kw == k * Word
               s == SizeT(n)
    <3>2. n = kw + s /\ s \in Int /\ kw \in Int
      BY <1>1, <3>1
    <3> HIDE DEF kw, s
    <3>3. s = n - kw
      BY <3>2
    <3> QED BY <3>1, <3>3 DEF kw, s
  <2>3. (n - k * Word) % PageLen = 0
    BY <1>0, <1>3, <2>1, <2>2, Multiples, Zenon
  <2> QED BY <2>2, <2>3, Zenon
<1> QED BY <1>1, <1>2, <1>3

\* A request, rounded up without a limit on the numbers.
TrueUp(n) == n + (Align - 1) - ((n + Align - 1) % Align)

LEMMA RoundDown ==
  ASSUME NEW x \in Nat
  PROVE  /\ x - (x % Align) \in Nat /\ (x - (x % Align)) % Align = 0
         /\ x - Align < x - (x % Align) /\ x - (x % Align) <= x
<1> DEFINE k == x \div Align
<1>0. Align \in Nat \ {0}
  BY ConstantFacts
<1>1. x = k * Align + (x % Align) /\ x % Align \in 0 .. Align - 1 /\ k \in Int
  BY <1>0, DivMod
<1> HIDE DEF k
<1>2. x - (x % Align) = k * Align /\ k * Align \in Int
  BY <1>0, <1>1
<1>3. (k * Align) % Align = 0
  BY <1>0, <1>1, Multiples, Zenon
<1>4. k >= 0
  <2> SUFFICES ASSUME k <= -1 PROVE FALSE
    BY <1>1
  <2>1. k * Align <= (-1) * Align
    <3>1. Align \in Nat /\ -1 \in Int
      BY <1>0
    <3> QED BY <1>1, <3>1, ProductGrows
  <2>2. (-1) * Align = 0 - Align
    BY <1>0
  <2> QED BY <1>0, <1>1, <2>1, <2>2
<1>5. k * Align >= 0
  BY <1>0, <1>1, <1>4
<1> QED BY <1>0, <1>1, <1>2, <1>3, <1>5

LEMMA RoundUpIs ==
  ASSUME NEW n \in 0 .. Word - 1
  PROVE  /\ RoundUp(n) \in Nat /\ RoundUp(n) % Align = 0
         /\ RoundUp(n) < n + Align
         /\ IF n <= Word - Align THEN RoundUp(n) >= n /\ RoundUp(n) = TrueUp(n)
            ELSE RoundUp(n) = 0 /\ TrueUp(n) = Word
<1> DEFINE x == n + Align - 1
<1>0. Align \in Nat \ {0} /\ Word \in Nat \ {0} /\ Word % Align = 0
  BY ConstantFacts, Alignments
<1>1. x \in Nat
  BY <1>0
<1>2. /\ x - (x % Align) \in Nat /\ (x - (x % Align)) % Align = 0
      /\ x - Align < x - (x % Align) /\ x - (x % Align) <= x
  BY <1>1, RoundDown
<1>3. x % Align \in 0 .. Align - 1
  BY <1>0, <1>1
<1>4. TrueUp(n) = x - (x % Align)
  <2> DEFINE y == x % Align
  <2>1. TrueUp(n) = n + (Align - 1) - y /\ y \in Int
    BY <1>3 DEF TrueUp
  <2> HIDE DEF y
  <2>2. n + (Align - 1) - y = x - y
    BY <1>0, <2>1
  <2> QED BY <2>1, <2>2 DEF y
<1>5. CASE n <= Word - Align
  <2>1. x < Word
    BY <1>0, <1>5
  <2>2. SizeT(x) = x
    BY <1>1, <2>1, SizeTIs
  <2>3. RoundUp(n) = x - (x % Align)
    BY <2>2 DEF RoundUp
  <2>4. RoundUp(n) >= n /\ RoundUp(n) < n + Align
    <3> HIDE DEF x
    <3>1. x = n + Align - 1
      BY DEF x
    <3> QED BY <1>0, <1>1, <1>2, <1>3, <2>3, <3>1
  <2> QED BY <1>2, <1>4, <1>5, <2>3, <2>4
<1>6. CASE ~ (n <= Word - Align)
  <2> DEFINE y == x - Word
  <2>0. Align <= Word
    <3>1. 0 % Align = 0 /\ 0 \in Int /\ Word \in Int /\ 0 < Word
      BY <1>0
    <3>2. 0 + Align <= Word
      BY <1>0, <3>1, NextMultiple
    <3> QED BY <1>0, <3>2
  <2>1. y \in 0 .. Align - 1 /\ y \in 0 .. Word - 1 /\ x = 1 * Word + y /\ y \in Nat
    BY <1>0, <1>6, <2>0
  <2>2. SizeT(x) = y
    <3>1. x \in Int /\ 1 \in Int
      BY <1>1
    <3> HIDE DEF x, y
    <3>2. x % Word = y
      BY <1>0, <2>1, <3>1, DivModAre
    <3> QED BY <3>2 DEF SizeT
  <2>3. y % Align = y
    BY <1>0, <2>1
  <2>4. RoundUp(n) = 0
    <3>1. RoundUp(n) = SizeT(x) - (SizeT(x) % Align)
      BY DEF RoundUp
    <3> HIDE DEF x, y
    <3> QED BY <2>1, <2>2, <2>3, <3>1
  <2>5. TrueUp(n) = Word
    <3>1. PICK j \in Int : Word = j * Align
      <4>1. Word \in Int
        BY <1>0
      <4>2. Word = (Word \div Align) * Align
        BY <1>0, <4>1, Multiples, Zenon
      <4>3. Word \div Align \in Int
        BY <1>0, <4>1, DivMod
      <4> QED BY <4>2, <4>3
    <3>2. x \in Int /\ x = j * Align + y
      BY <1>1, <2>1, <3>1
    <3> HIDE DEF x, y
    <3>3. x % Align = y
      BY <1>0, <2>1, <3>2, DivModAre
    <3>4. x - y = Word
      BY <1>0, <2>1
    <3> QED BY <1>4, <3>3, <3>4
  <2>6. 0 % Align = 0
    BY <1>0
  <2> QED BY <1>0, <1>6, <2>4, <2>5, <2>6
<1> QED BY <1>5, <1>6

\* The pages that a request of `size' really takes, tags included.
TruePages(size) == Max({GrowPages, (size + EL_BLOCK_OVERHEAD + PageLen - 1) \div PageLen})

\* Where the pages end up in an int and in a size_t without loss, they hold the request.
PagesExact(size) ==
  LET p == TruePages(size)
  IN /\ PagesToGrow(size) = p /\ SizeT(p * PageLen) = p * PageLen
     /\ size + EL_BLOCK_OVERHEAD <= p * PageLen

\* What the division makes of a number of bytes.
LEMMA PagesOf ==
  ASSUME NEW x \in Nat, NEW q, q = (x + PageLen - 1) \div PageLen
  PROVE  /\ q \in Nat /\ q * PageLen \in Nat /\ (q * PageLen) % PageLen = 0
         /\ x <= q * PageLen /\ q * PageLen <= x + PageLen - 1
<1> DEFINE y == x + PageLen - 1
           qp == q * PageLen
<1>0. PageLen \in Nat \ {0}
  BY ConstantFacts
<1>1. y \in Int /\ y >= 0
  BY <1>0
<1>2. y = q * PageLen + (y % PageLen) /\ y % PageLen \in 0 .. PageLen - 1 /\ q \in Int
  <2> HIDE DEF y
  <2>1. q = y \div PageLen
    BY DEF y
  <2> QED BY <1>0, <1>1, <2>1, DivMod, Zenon
<1>3. qp \in Int /\ y = qp + (y % PageLen) /\ y % PageLen \in Int
  BY <1>0, <1>2
<1>4. (q * PageLen) % PageLen = 0
  BY <1>0, <1>2, Multiples, Zenon
<1>5. x <= qp /\ qp <= x + PageLen - 1
  <2> HIDE DEF qp
  <2> QED BY <1>0, <1>2, <1>3
<1>6. q >= 0
  <2> SUFFICES ASSUME q <= -1 PROVE FALSE
    BY <1>2
  <2>1. q * PageLen <= (-1) * PageLen
    <3>1. PageLen \in Nat /\ -1 \in Int
      BY <1>0
    <3> QED BY <1>2, <3>1, ProductGrows
  <2>2. (-1) * PageLen = 0 - PageLen
    BY <1>0
  <2> HIDE DEF qp
  <2> QED BY <1>0, <1>3, <1>5, <2>1, <2>2 DEF qp
<1> QED BY <1>2, <1>3, <1>4, <1>5, <1>6

\* Otherwise they are more than the slot has.
LEMMA PagesIs ==
  ASSUME NEW size \in Nat
  PROVE  /\ PagesToGrow(size) \in Nat \ {0} /\ TruePages(size) \in Nat \ {0}
         /\ TruePages(size) * PageLen \in Nat
         /\ PagesExact(size) \/ SlotLen < TruePages(size) * PageLen
         /\ Word <= size => SlotLen < TruePages(size) * PageLen
<1> DEFINE b == size + EL_BLOCK_OVERHEAD
           q == (b + PageLen - 1) \div PageLen
           p == TruePages(size)
           i == ToInt(SizeT(SizeT(b) + PageLen - 1) \div PageLen)
<1>0. /\ PageLen \in Nat \ {0} /\ GrowPages \in Nat \ {0} /\ Word \in Nat \ {0}
      /\ IntValues \in Nat \ {0} /\ SlotLen \in Nat \ {0} /\ SlotBase \in Nat
      /\ EL_BLOCK_OVERHEAD \in Nat /\ SlotBase + SlotLen < Word
  BY ConstantFacts
<1>1. b \in Nat
  BY <1>0
<1>2. /\ q \in Nat /\ q * PageLen \in Nat /\ (q * PageLen) % PageLen = 0
      /\ b <= q * PageLen /\ q * PageLen <= b + PageLen - 1
  <2> HIDE DEF b
  <2> QED BY <1>1, PagesOf
<1>3. p = IF GrowPages <= q THEN q ELSE GrowPages
  <2>1. p = Max({GrowPages, q})
    BY <1>0 DEF TruePages
  <2> HIDE DEF q, p
  <2> QED BY <1>0, <1>2, <2>1, MaxOfTwo
<1> HIDE DEF q, p
<1>4. p \in Nat \ {0} /\ q <= p /\ GrowPages <= p
  BY <1>0, <1>2, <1>3
<1>5. q * PageLen <= p * PageLen /\ p * PageLen \in Nat
  BY <1>0, <1>2, <1>4, ProductGrows
<1>6. i \in Int
  <2> DEFINE v == SizeT(SizeT(b) + PageLen - 1) \div PageLen
  <2>1. SizeT(b) \in Nat
    BY <1>1, SizeTIs
  <2>2. SizeT(b) + PageLen - 1 \in Nat
    BY <1>0, <2>1
  <2>3. SizeT(SizeT(b) + PageLen - 1) \in Nat
    BY <2>2, SizeTIs
  <2>4. v \in Int
    BY <1>0, <2>3
  <2> HIDE DEF v
  <2>5. v % IntValues \in Int
    BY <1>0, <2>4
  <2>6. ToInt(v) \in Int
    BY <1>0, <2>5 DEF ToInt
  <2> QED BY <2>6 DEF v
<1>7. PagesToGrow(size) = IF GrowPages <= i THEN i ELSE GrowPages
  <2>1. PagesToGrow(size) = Max({GrowPages, i})
    BY DEF PagesToGrow
  <2> HIDE DEF i
  <2> QED BY <1>0, <1>6, <2>1, MaxOfTwo
<1>8. PagesToGrow(size) \in Nat \ {0}
  <2> HIDE DEF i
  <2> QED BY <1>0, <1>6, <1>7
<1>9. ASSUME Word <= b + PageLen - 1 PROVE SlotLen < p * PageLen
  <2> DEFINE w == Word - PageLen
             qp == q * PageLen
  <2>1. w \in Int /\ w % PageLen = 0
    <3>1. Word \in Int /\ PageLen \in Int /\ Word % PageLen = 0
      BY ConstantFacts
    <3>2. PageLen % PageLen = 0
      BY <1>0
    <3>3. (Word - PageLen) % PageLen = 0
      BY <1>0, <3>1, <3>2, Multiples, Zenon
    <3> QED BY <3>1, <3>3
  <2>2. qp \in Int /\ qp % PageLen = 0 /\ w < qp
    BY <1>0, <1>1, <1>2, <1>9
  <2> HIDE DEF w, qp
  <2>3. w + PageLen <= qp
    BY <1>0, <2>1, <2>2, NextMultiple, Zenon
  <2>4. Word <= qp
    BY <1>0, <2>2, <2>3 DEF w
  <2> QED BY <1>0, <1>2, <1>5, <2>2, <2>4 DEF qp
<1>10. ASSUME b + PageLen - 1 < Word, 2 * q >= IntValues PROVE SlotLen < p * PageLen
  <2> DEFINE s == SlotLen \div PageLen
  <2>1. s \in Int /\ SlotLen = s * PageLen /\ 2 * s < IntValues
    <3>1. SlotLen \in Int /\ SlotLen % PageLen = 0
      BY ConstantFacts
    <3>2. SlotLen = s * PageLen
      BY <1>0, <3>1, Multiples, Zenon
    <3>3. s \in Int
      BY <1>0, <3>1, DivMod
    <3> QED BY <3>2, <3>3, UserHeapAssumption
  <2> HIDE DEF s
  <2>2. s + 1 <= q
    BY <1>0, <1>2, <1>10, <2>1
  <2>3. (s + 1) * PageLen <= q * PageLen
    BY <1>0, <1>2, <2>1, <2>2, ProductGrows
  <2>4. (s + 1) * PageLen = s * PageLen + PageLen
    BY <1>0, <2>1
  <2>5. s * PageLen + PageLen <= q * PageLen
    BY <2>3, <2>4
  <2> QED BY <1>0, <1>2, <1>5, <2>1, <2>5
<1>11. ASSUME b + PageLen - 1 < Word, 2 * q < IntValues
       PROVE  PagesExact(size) \/ SlotLen < p * PageLen
  <2>1. SizeT(b) = b
    <3>1. b < Word
      BY <1>0, <1>1, <1>11
    <3> QED BY <1>1, <3>1, SizeTIs
  <2>2. SizeT(SizeT(b) + PageLen - 1) = b + PageLen - 1
    <3>1. b + PageLen - 1 \in Nat /\ SizeT(b) + PageLen - 1 = b + PageLen - 1
      BY <1>0, <1>1, <2>1
    <3> QED BY <1>11, <3>1, SizeTIs
  <2>3. i = ToInt(q)
    BY <2>2 DEF q
  <2>4. ToInt(q) = q
    <3>1. q % IntValues = q
      BY <1>0, <1>2, <1>11
    <3> QED BY <1>11, <3>1 DEF ToInt
  <2>5. PagesToGrow(size) = p
    <3> HIDE DEF i
    <3> QED BY <1>3, <1>7, <2>3, <2>4
  <2> DEFINE pp == p * PageLen
             qp == q * PageLen
  <2>6. pp \in Nat /\ qp \in Nat /\ qp <= pp /\ b <= qp
    BY <1>2, <1>5
  <2> HIDE DEF pp, qp
  <2>7. CASE pp < Word
    <3>1. SizeT(pp) = pp
      BY <2>6, <2>7, SizeTIs
    <3>2. b <= pp
      BY <1>1, <2>6
    <3> QED BY <2>5, <3>1, <3>2 DEF PagesExact, pp, p
  <2>8. CASE ~ (pp < Word)
    BY <1>0, <2>6, <2>8 DEF pp
  <2> QED BY <2>7, <2>8
<1>12. PagesExact(size) \/ SlotLen < p * PageLen
  <2>1. 2 * q < IntValues \/ 2 * q >= IntValues
    BY <1>0, <1>2
  <2>2. b + PageLen - 1 < Word \/ Word <= b + PageLen - 1
    BY <1>0, <1>1
  <2> QED BY <1>9, <1>10, <1>11, <2>1, <2>2
<1>13. Word <= size => Word <= b + PageLen - 1
  BY <1>0
<1> QED BY <1>4, <1>5, <1>8, <1>9, <1>12, <1>13 DEF p

-----------------------------------------------------------------------------
(* The slot is full.                                                       *)

Full(T, n) == ~ HasRoom(T, SlotBase, SlotLen, n * PageLen)

\* No table has room for more than the slot.
LEMMA TooLong ==
  ASSUME NEW T, TableOk(T), NEW n, n * PageLen \in Nat, SlotLen < n * PageLen
  PROVE  Full(T, n)
<1> DEFINE top == Above(T, SlotBase)
           len == n * PageLen
<1>0. SlotBase \in Nat /\ SlotLen \in Nat
  BY ConstantFacts
<1>1. top \in Nat /\ SlotBase <= top
  BY AboveIs
<1> HIDE DEF top, len
<1>2. ~ (len <= SlotBase + SlotLen - top)
  BY <1>0, <1>1 DEF len
<1> QED BY <1>2 DEF Full, HasRoom, top, len

\* A refusal of a whole number of pages is for want of frames or of room.
LEMMA RefusedPages ==
  ASSUME NEW T, TableOk(T), NEW n \in Nat \ {0}, NEW frames \in BOOLEAN,
         Refusal(T, n * PageLen, frames)
  PROVE  ~ frames \/ Full(T, n)
<1> DEFINE len == n * PageLen
<1>0. PageLen \in Nat \ {0} /\ SlotLen \in Nat
  BY ConstantFacts
<1>1. len \in Nat /\ len # 0
  <2>1. 1 * PageLen <= n * PageLen
    BY <1>0, ProductGrows
  <2> QED BY <1>0, <2>1
<1>2. len % PageLen = 0
  BY <1>0, Multiples
<1>3. RoundUpTo(PageLen, len) = len
  BY <1>1, <1>2, RoundUpToIs
<1>4. CASE len > SlotLen
  <2>1. SlotLen < n * PageLen /\ n * PageLen \in Nat
    BY <1>0, <1>1, <1>4
  <2> QED BY <2>1, TooLong
<1> QED BY <1>1, <1>3, <1>4 DEF Refusal, Full

-----------------------------------------------------------------------------
(* The flag, the heap and the table of a program, as one record.           *)

ProgramOf(flag, h, T) == [initialised |-> flag, heap |-> h, regions |-> T]
ProgramRecord(u) == u = ProgramOf(u.initialised, u.heap, u.regions)

LEMMA BothSet ==
  ASSUME NEW u, ProgramRecord(u), NEW T, NEW h
  PROVE  [u EXCEPT !.regions = T, !.heap = h] = ProgramOf(u.initialised, h, T)
<1> PICK i, g, t : u = ProgramOf(i, g, t)
  BY DEF ProgramRecord
<1>1. [ProgramOf(i, g, t) EXCEPT !.regions = T] = ProgramOf(i, g, T)
  BY DEF ProgramOf
<1>2. [ProgramOf(i, g, T) EXCEPT !.heap = h] = ProgramOf(i, h, T)
  BY DEF ProgramOf
<1>3. u.initialised = i
  BY DEF ProgramOf
<1> QED BY <1>1, <1>2, <1>3, Zenon

LEMMA HeapSetIn ==
  ASSUME NEW u, ProgramRecord(u), NEW h
  PROVE  [u EXCEPT !.heap = h] = ProgramOf(u.initialised, h, u.regions)
<1> PICK i, g, t : u = ProgramOf(i, g, t)
  BY DEF ProgramRecord
<1>1. [ProgramOf(i, g, t) EXCEPT !.heap = h] = ProgramOf(i, h, t)
  BY DEF ProgramOf
<1>2. u.initialised = i /\ u.regions = t
  BY DEF ProgramOf
<1> QED BY <1>1, <1>2
=============================================================================
