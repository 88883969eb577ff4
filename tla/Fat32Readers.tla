---------------------------- MODULE Fat32Readers ----------------------------
(***************************************************************************)
(* The FAT32 driver with what its readers see, and the file store that the *)
(* two together implement.                                                 *)
(***************************************************************************)
EXTENDS Fat32

VARIABLE seen   \* what fat32_read_file returns for each name

\* A file that is being deleted is gone.
Visible(f, d, o) ==
  [n \in Names |-> IF o.kind = "delete" /\ o.name = n THEN Absent ELSE ReadFile(f, d, n)]

ReadInit == Init /\ seen = [n \in Names |-> Absent]
ReadNext == Next /\ seen' = Visible(fat'[1], content', op')
ReadSpec == ReadInit /\ [][ReadNext]_<<vars, seen>>

-----------------------------------------------------------------------------
(* Properties.                                                             *)

\* Has the call in progress failed, if this step ends it?
CallFailed == op.fails \/ (faults' # faults /\ ~ Head(plan).goOn)
Returns == op.kind # "none" /\ op'.kind = "none" /\ boot' = "mounted"

\* A call that returns 0 has done its work: a reader gets the new contents, or nothing.
SuccessSticks == [][Returns /\ ~ CallFailed => seen'[op.name] = op.file]_<<vars, seen>>

\* A call that returns -1 has changed nothing a reader sees ("If it cannot be placed, reclaim
\* the new chain and fail -- nothing visible changed").
FailureChangesNothing == [][Returns /\ CallFailed => seen'[op.name] = op.was]_<<vars, seen>>

FS == INSTANCE FileStore WITH files <- seen, Contents <- {File(t, l) : t \in Tags, l \in Lens}

\* The driver implements a store in which a file changes whole and in one step: no crash and
\* no failure of a write shows a reader anything but the old or the new contents.
Stored == FS!Spec
=============================================================================
