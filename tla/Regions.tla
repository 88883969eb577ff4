------------------------------ MODULE Regions ------------------------------
(***************************************************************************)
(* The region table of a task (task_t.regions), which SYS_MMAP and         *)
(* SYS_MUNMAP read and write: a region of length 0 is a free place.        *)
(***************************************************************************)
EXTENDS Naturals, FiniteSetsExt

NoRegion == [base |-> 0, length |-> 0]
NoRegions(n) == [i \in 1 .. n |-> NoRegion]

RoundUpTo(page, n) == ((n + page - 1) \div page) * page

FreePlaces(regions) == {i \in DOMAIN regions : regions[i].length = 0}
HeldPlaces(regions) == DOMAIN regions \ FreePlaces(regions)

\* Above every region that is held, whatever gaps there are below.
Above(regions, bottom) ==
  Max({bottom} \cup {regions[i].base + regions[i].length : i \in HeldPlaces(regions)})

TotalLength(regions) == MapThenSumSet(LAMBDA i : regions[i].length, DOMAIN regions)

\* The slot is `room' long from `bottom' on; the length is a number of whole pages.
HasRoom(regions, bottom, room, length) ==
  /\ FreePlaces(regions) # {}
  /\ length <= bottom + room - Above(regions, bottom)
  /\ TotalLength(regions) + length <= room

Enter(regions, base, length) ==
  [regions EXCEPT ![Min(FreePlaces(regions))] = [base |-> base, length |-> length]]

\* The place of a region that begins at base and is exactly that long.
PlacesOf(regions, base, length) ==
  {i \in HeldPlaces(regions) : regions[i] = [base |-> base, length |-> length]}

Leave(regions, i) == [regions EXCEPT ![i] = NoRegion]
=============================================================================
