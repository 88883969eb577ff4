------------------------------- MODULE Frames -------------------------------
(***************************************************************************)
(* The physical frame allocator of kernel/memory.c: a bitmap with one bit  *)
(* per frame, searched from the bottom.  A frame is its index; `marked' is *)
(* the set of frames whose bit is set.                                     *)
(***************************************************************************)
EXTENDS Naturals, FiniteSets, FiniteSetsExt

CONSTANTS
  NumFrames,   \* num_frames
  Reserved     \* frames memory_init keeps out of the pool

ASSUME FramesAssumption == NumFrames \in Nat \ {0} /\ Reserved \subseteq 0 .. NumFrames - 1

Frame == 0 .. NumFrames - 1
NoFrame == NumFrames   \* stands for the address 0 that a failed allocation returns

\* The lowest frame that is free.
AllocFrame(marked) == IF Frame \subseteq marked THEN NoFrame ELSE Min(Frame \ marked)

Run(start, count) == start .. start + count - 1
FreeRuns(marked, count) ==
  {f \in Frame : Run(f, count) \subseteq Frame /\ Run(f, count) \cap marked = {}}

\* Where the lowest run of `count' free frames starts.
AllocFramesContiguous(marked, count) ==
  IF count = 0 \/ FreeRuns(marked, count) = {} THEN NoFrame ELSE Min(FreeRuns(marked, count))
=============================================================================
