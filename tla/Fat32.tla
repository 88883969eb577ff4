------------------------------- MODULE Fat32 -------------------------------
(***************************************************************************)
(* The FAT32 driver (fs/fat32.c) over the polled disk (drivers/disk.c).    *)
(*                                                                         *)
(* A file-system call runs with interrupts off, so calls do not interleave *)
(* with each other.  What may happen in the middle of one is a power loss, *)
(* or a disk operation that fails; both fall between two disk writes.  So  *)
(* a call is the sequence of its disk writes, worked out from the volume   *)
(* it finds, and a step of the system is one of them: it succeeds (Do),    *)
(* fails and sends the call down its error path (Fail), or never happens   *)
(* (Crash).  Reads change nothing; one that fails is a Fail of the write   *)
(* that follows it, which leads to the same error path.                    *)
(*                                                                         *)
(* Left out: the boot sector's fields (CONSTANTS here), the 8.3 form of    *)
(* names (Names are on-disk names), the reserved top bits of FAT entries,  *)
(* the bytes of a file inside a cluster.                                   *)
(***************************************************************************)
EXTENDS Integers, Sequences, FiniteSets, SequencesExt, FiniteSetsExt

CONSTANTS
  TotalClusters,     \* fs_total_clusters
  NumFats,           \* fs_num_fats
  ClusterBytes,      \* fs_bytes_per_cluster
  SlotsPerCluster,   \* directory entries in a cluster
  RootCluster,       \* fs_root_cluster
  Label,             \* the name in the volume label that fills the first slot
  Names,             \* names callers use
  Tags,              \* identities of the data callers write
  Lens,              \* lengths of the data callers write
  Ops,               \* the calls made: "write", "delete"
  CrashOps,          \* the calls during which the power may go; "none" is between calls
  MaxCrashes,        \* bound: times the power may go
  MaxFaults,         \* bound: disk operations that fail
  FaultKinds         \* "before": without effect; "after": the data reached the disk

ASSUME GeometryAssumption ==
  /\ TotalClusters \in Nat \ {0} /\ NumFats \in Nat \ {0}
  /\ ClusterBytes \in Nat \ {0} /\ SlotsPerCluster \in Nat \ {0}
  /\ RootCluster \in 2 .. TotalClusters + 1
  /\ Lens \subseteq Nat /\ MaxFaults \in Nat /\ MaxCrashes \in Nat
  /\ Ops \subseteq {"write", "delete"} /\ FaultKinds \subseteq {"before", "after"}
  /\ CrashOps \subseteq {"none", "write", "delete"}

VARIABLES
  fat,       \* the copies of the table
  content,   \* what each data cluster holds, as file data and as directory slots
  fsinfo,    \* FSInfo's cached free count: a number, or "unknown" as -1
  boot,      \* "off" before fat32_init, then fs_ready: "mounted" or "failed"
  hint,      \* fs_next_free_hint
  op,        \* the call in progress
  plan,      \* its remaining disk writes
  faults,    \* disk operations that have failed
  crashes    \* times the power has gone

diskVars == <<fat, content, fsinfo>>
vars == <<fat, content, fsinfo, boot, hint, op, plan, faults, crashes>>

-----------------------------------------------------------------------------
(* The volume.                                                             *)

FirstCluster == 2
Limit == TotalClusters + FirstCluster
Clusters == FirstCluster .. Limit - 1
Copies == 1 .. NumFats
FREE == 0
END == 268435448

InRange(c) == c \in Clusters

\* Reads use the first copy of the table.
First == fat[1]

Slot(attr, name, start, size) == [attr |-> attr, name |-> name, start |-> start, size |-> size]
NeverUsed == Slot("free", Label, 0, 0)
Deleted == Slot("deleted", Label, 0, 0)
ZeroSlots == [k \in 1 .. SlotsPerCluster |-> NeverUsed]
NoData == <<>>

Needed(bytes) == (bytes + ClusterBytes - 1) \div ClusterBytes

\* The data a caller hands over, cut into clusters; the last is filled up with zeros.
Chunk(tag, len, i) == <<tag, len, i>>
File(tag, len) == [size |-> len, chunks |-> [i \in 1 .. Needed(len) |-> Chunk(tag, len, i)]]
Absent == [size |-> -1, chunks |-> <<>>]
Unreadable == [size |-> -2, chunks |-> <<>>]

-----------------------------------------------------------------------------
(* Chains and free space.                                                  *)

\* The clusters a walk from c visits in table f, up to an end, a hole or a repetition.
Walk(f, c) ==
  LET step == [d \in Clusters |-> IF InRange(f[d]) THEN f[d] ELSE 0]
      visit[i \in 1 .. TotalClusters] ==
        IF i = 1 THEN IF InRange(c) THEN c ELSE 0
        ELSE (step @@ 0 :> 0)[visit[i - 1]]
      seen == {visit[i] : i \in 1 .. TotalClusters} \ {0}
  IN [i \in 1 .. Cardinality(seen) |-> visit[i]]

Whole(f, chain) == chain # <<>> /\ f[Last(chain)] = END

FreeClusters(f) == {c \in Clusters : f[c] = FREE}

\* fat32_free_count: a recount of the whole table.
FreeCount == Cardinality(FreeClusters(First))

HintPast(c) == IF c + 1 < Limit THEN c + 1 ELSE FirstCluster

\* Mutant: the hint is taken for a free cluster.
FindFreeTrusting(f, h) == IF InRange(h) THEN h ELSE FirstCluster

\* The scan starts at the hint and wraps once.
FindFree(f, h) ==
  LET start == IF InRange(h) THEN h ELSE FirstCluster
      ahead == {c \in FreeClusters(f) : c >= start}
  IN IF ahead # {} THEN Min(ahead) ELSE Min(FreeClusters(f))

\* alloc_chain's clusters: the table and the hint after n claims, and what was claimed
\* before the volume was full.
Claims(f, h, n) ==
  LET claims[i \in 0 .. n] ==
        IF i = 0 THEN [f |-> f, h |-> h, got |-> <<>>]
        ELSE LET p == claims[i - 1]
                 c == FindFree(p.f, p.h)
                 linked == IF p.got = <<>> THEN p.f ELSE [p.f EXCEPT ![Last(p.got)] = c]
             IN IF FreeClusters(p.f) = {} THEN p
                ELSE [f |-> [linked EXCEPT ![c] = END], h |-> HintPast(c),
                      got |-> Append(p.got, c)]
  IN claims[n]

-----------------------------------------------------------------------------
(* The root directory, for a table f and cluster contents d.               *)

\* The slots of the root directory in the order of a walk.
DirSlots(f) ==
  LET chain == Walk(f, RootCluster)
  IN [j \in 1 .. Len(chain) * SlotsPerCluster |->
        <<chain[(j - 1) \div SlotsPerCluster + 1], ((j - 1) % SlotsPerCluster) + 1>>]

Entry(d, at) == d[at[1]].slots[at[2]]

NotFound == <<0, 0>>
DirError == <<0, 1>>

\* locate_root_entry and walk_directory: the slot of a name.  A never-used slot ends the
\* directory.
Locate(f, d, n) ==
  LET slots == DirSlots(f)
      end == SelectInSeq(slots, LAMBDA at : Entry(d, at).attr = "free")
      hit == SelectInSeq(slots, LAMBDA at : Entry(d, at).attr \in {"file", "dir"}
                                            /\ Entry(d, at).name = n)
  IN IF hit # 0 /\ (end = 0 \/ hit < end) THEN slots[hit]
     ELSE IF end # 0 \/ Whole(f, Walk(f, RootCluster)) THEN NotFound
     ELSE DirError

\* Mutant: the last usable slot of the directory.
FreeSlotLast(f, d) ==
  LET slots == DirSlots(f)
      j == SelectLastInSeq(slots, LAMBDA at : Entry(d, at).attr \in {"free", "deleted"})
  IN IF j # 0 THEN slots[j]
     ELSE IF Whole(f, Walk(f, RootCluster)) THEN NotFound ELSE DirError

\* find_free_dirent: the first slot that is never used or deleted, if there is one.
FreeSlot(f, d) ==
  LET slots == DirSlots(f)
      j == SelectInSeq(slots, LAMBDA at : Entry(d, at).attr \in {"free", "deleted"})
  IN IF j # 0 THEN slots[j]
     ELSE IF Whole(f, Walk(f, RootCluster)) THEN NotFound ELSE DirError

\* fat32_read_file: what a reader gets.
ReadFile(f, d, n) ==
  LET at == Locate(f, d, n)
      e == Entry(d, at)
      chain == Walk(f, e.start)
  IN IF at = NotFound THEN Absent
     ELSE IF at = DirError \/ e.attr = "dir" THEN Unreadable
     ELSE IF e.size = 0 THEN [size |-> 0, chunks |-> <<>>]
     ELSE IF Len(chain) < Needed(e.size) THEN Unreadable
     ELSE [size |-> e.size, chunks |-> [i \in 1 .. Needed(e.size) |-> d[chain[i]].data]]

-----------------------------------------------------------------------------
(* Disk writes.  Each carries what the call does if it fails: the chains   *)
(* it frees, and whether it then still goes on to FSInfo; and what becomes *)
(* of the hint when it is issued and when it has succeeded (0: nothing).   *)

Write(to, c, k, v, undo) ==
  [to |-> to, c |-> c, k |-> k, v |-> v, undo |-> undo, goOn |-> FALSE,
   issued |-> 0, done |-> 0]

\* fat32_set_entry: every copy, in order, up to the first failure.
SetEntry(c, v, undo) == [k \in Copies |-> Write("fat", c, k, v, undo)]

\* free_chain: each cluster of the chain; at the end the hint goes to the lowest of them.
FreeChain(f, start, undo) ==
  LET chain == Walk(f, start)
      writes == FlattenSeq([i \in DOMAIN chain |-> SetEntry(chain[i], FREE, undo)])
  IN IF chain = <<>> THEN <<>>
     ELSE [writes EXCEPT ![Len(writes)].done = Min(ToSet(chain))]

\* The error paths: free the chains one after the other, whether or not that works.
Unwind(f, starts) ==
  FlattenSeq([i \in DOMAIN starts |->
                FreeChain(f, starts[i], SubSeq(starts, i + 1, Len(starts)))])

\* alloc_chain: claim each cluster as the new tail, then link the old tail to it.  A
\* failure frees the chain built so far, and then what the caller frees.
AllocChain(got, undo) ==
  LET mine == <<got[1]>> \o undo
      tail(i) == SetEntry(got[i], END, IF i = 1 THEN undo ELSE mine)
      claim(i) == [w \in DOMAIN tail(i) |-> [tail(i)[w] EXCEPT !.issued = HintPast(got[i])]]
      link(i) == IF i = 1 THEN <<>> ELSE SetEntry(got[i - 1], got[i], mine)
  IN FlattenSeq([i \in DOMAIN got |-> claim(i) \o link(i)])

\* Mutant: FSInfo keeps the count of the time before the call.
InvalidateNever == <<>>

Invalidate == <<[Write("info", 0, 0, -1, <<>>) EXCEPT !.goOn = TRUE]>>

\* Mutant: the entry is not marked.
DeletePlanUnmarked(at) == FreeChain(First, Entry(content, at).start, <<>>) \o Invalidate

\* fat32_delete: free the data, mark the entry, invalidate FSInfo.
DeletePlan(at) ==
  FreeChain(First, Entry(content, at).start, <<>>)
    \o <<Write("slot", at[1], at[2], Deleted, <<>>)>> \o Invalidate

\* A new cluster for the directory: claimed, zeroed, linked.
GrowDirectory(new, last, undo) ==
  AllocChain(<<new>>, undo)
    \o <<Write("cluster", new, 0, [data |-> NoData, slots |-> ZeroSlots], <<new>> \o undo)>>
    \o SetEntry(last, new, <<new>> \o undo)

\* Mutant: the chain of a replaced file is forgotten.
FreeOldNever(f, at) == <<>>

\* Step 7: the chain of the file that was replaced.  A failure is ignored.
FreeOld(f, at) ==
  LET writes == IF at = NotFound THEN <<>> ELSE FreeChain(f, Entry(content, at).start, <<>>)
  IN [i \in DOMAIN writes |-> [writes[i] EXCEPT !.goOn = TRUE]]

\* Mutant: the old chain is freed first.
CommitLate(publish, old) == old \o publish

\* Steps 6 and 7: the new entry goes to disk before the old chain is freed.
Commit(publish, old) == publish \o old

\* fat32_write_file from step 3 on; at is the slot of the file it replaces, if any.
WritePlan(n, tag, len, at) ==
  LET want == Needed(len)
      a == Claims(First, hint, want)
      start == IF a.got = <<>> THEN 0 ELSE a.got[1]
      mine == IF a.got = <<>> THEN <<>> ELSE <<start>>
      alloc == IF a.got = <<>> THEN <<>> ELSE AllocChain(a.got, <<>>)
      fill == [i \in 1 .. want |->
                 Write("cluster", a.got[i], 0,
                       [data |-> Chunk(tag, len, i), slots |-> ZeroSlots], mine)]
      slot == IF at # NotFound THEN at ELSE FreeSlot(First, content)
      g == Claims(a.f, a.h, 1)
      dir == Walk(First, RootCluster)
      grown == IF slot = NotFound THEN GrowDirectory(g.got[1], Last(dir), mine) ELSE <<>>
      target == IF slot = NotFound THEN <<g.got[1], 1>> ELSE slot
      publish == <<Write("slot", target[1], target[2], Slot("file", n, start, len), mine)>>
      old == FreeOld(a.f, at)
  IN IF Len(a.got) < want
     THEN [fails |-> TRUE, writes |-> alloc \o Unwind(a.f, mine)]
     ELSE IF slot = DirError \/ (slot = NotFound /\ g.got = <<>>)
     THEN [fails |-> TRUE, writes |-> alloc \o fill \o Unwind(a.f, mine)]
     ELSE [fails |-> FALSE,
           writes |-> alloc \o fill \o grown \o Commit(publish, old) \o Invalidate]

-----------------------------------------------------------------------------
(* Calls, disk operations, power.                                          *)

Idle == [kind |-> "none", name |-> Label, file |-> Absent, was |-> Absent, fails |-> FALSE]

Begin(kind, n, file, fails, writes) ==
  /\ plan' = writes
  /\ op' = IF writes = <<>> THEN Idle
           ELSE [kind |-> kind, name |-> n, file |-> file, was |-> ReadFile(First, content, n), fails |-> fails]
  /\ UNCHANGED <<diskVars, boot, hint, faults, crashes>>

\* May a call change the file of this name, given its slot?
Replaceable(at) ==
  /\ boot = "mounted"
  /\ at # DirError
  /\ at # NotFound => Entry(content, at).attr = "file"

WriteFile(n, tag, len) ==
  LET at == Locate(First, content, n)
      p == WritePlan(n, tag, len, at)
  IN /\ "write" \in Ops /\ plan = <<>> /\ Replaceable(at)
     /\ Begin("write", n, File(tag, len), p.fails, p.writes)

Delete(n) ==
  LET at == Locate(First, content, n)
  IN /\ "delete" \in Ops /\ plan = <<>> /\ Replaceable(at) /\ at # NotFound
     /\ Begin("delete", n, Absent, FALSE, DeletePlan(at))

\* What a disk write leaves on the disk.
Apply(w) ==
  /\ fat' = IF w.to = "fat" THEN [fat EXCEPT ![w.k][w.c] = w.v] ELSE fat
  /\ content' = CASE w.to = "cluster" -> [content EXCEPT ![w.c] = w.v]
                   [] w.to = "slot" -> [content EXCEPT ![w.c].slots[w.k] = w.v]
                   [] OTHER -> content
  /\ fsinfo' = IF w.to = "info" THEN w.v ELSE fsinfo

Proceed(writes, fails) ==
  /\ plan' = writes
  /\ op' = IF writes = <<>> THEN Idle ELSE [op EXCEPT !.fails = fails]

\* The next disk write of the call succeeds.
Do ==
  /\ plan # <<>>
  /\ LET w == Head(plan)
     IN /\ Apply(w)
        /\ hint' = IF w.done # 0 THEN w.done ELSE IF w.issued # 0 THEN w.issued ELSE hint
        /\ Proceed(Tail(plan), op.fails)
  /\ UNCHANGED <<boot, faults, crashes>>

\* It fails, before or after its data has reached the disk; before that, a read that leads
\* to it may have failed, and then find_free_cluster has not moved the hint.
Fail(kind) ==
  /\ plan # <<>> /\ faults < MaxFaults /\ kind \in FaultKinds
  /\ LET w == Head(plan)
         rest == IF w.goOn /\ w.to # "info" THEN Invalidate ELSE <<>>
     IN /\ IF kind = "after" THEN Apply(w) ELSE UNCHANGED diskVars
        /\ hint' \in (IF kind = "before" THEN {hint} ELSE {})
                     \cup {IF w.issued # 0 THEN w.issued ELSE hint}
        /\ Proceed(Unwind(fat'[1], w.undo) \o rest, op.fails \/ ~ w.goOn)
  /\ faults' = faults + 1
  /\ UNCHANGED <<boot, crashes>>

\* The power goes; memory is lost, the disk stays as it is.
Crash ==
  /\ op.kind \in CrashOps /\ crashes < MaxCrashes /\ boot # "off"
  /\ boot' = "off" /\ hint' = FirstCluster /\ plan' = <<>> /\ op' = Idle
  /\ crashes' = crashes + 1
  /\ UNCHANGED <<diskVars, faults>>

\* fat32_init, once at boot; if it fails every call is refused.
Mount ==
  /\ boot = "off"
  /\ \/ boot' = "mounted" /\ UNCHANGED faults
     \/ faults < MaxFaults /\ boot' = "failed" /\ faults' = faults + 1
  /\ UNCHANGED <<diskVars, hint, op, plan, crashes>>

\* A call on a name whose file cannot be changed returns -1 at once.
Refused(n) ==
  /\ plan = <<>> /\ boot # "off" /\ ~ Replaceable(Locate(First, content, n))
  /\ UNCHANGED vars

\* A fresh volume: the root directory is one cluster, which holds the volume label.
Init ==
  /\ fat = [k \in Copies |-> [c \in Clusters |-> IF c = RootCluster THEN END ELSE FREE]]
  /\ content = [c \in Clusters |->
                  [data |-> NoData,
                   slots |-> IF c = RootCluster
                             THEN [ZeroSlots EXCEPT ![1] = Slot("label", Label, 0, 0)]
                             ELSE ZeroSlots]]
  /\ fsinfo = TotalClusters - 1
  /\ boot = "off" /\ hint = FirstCluster /\ op = Idle /\ plan = <<>> /\ faults = 0
  /\ crashes = 0

Next ==
  \/ \E n \in Names, tag \in Tags, len \in Lens : WriteFile(n, tag, len)
  \/ \E n \in Names : Delete(n) \/ Refused(n)
  \/ Do
  \/ \E kind \in {"before", "after"} : Fail(kind)
  \/ Crash
  \/ Mount

Spec == Init /\ [][Next]_vars

-----------------------------------------------------------------------------
(* Properties.                                                             *)

DirChain == Walk(First, RootCluster)
Deleting(n) == op.kind = "delete" /\ op.name = n
LiveFiles == {n \in Names : Locate(First, content, n) \notin {NotFound, DirError} /\ ~ Deleting(n)}
ChainOf(n) == Walk(First, Entry(content, Locate(First, content, n)).start)

\* At every instant, a crash included, the chains of the directory and of the files it names
\* are complete, exactly as long as their sizes say, and share no cluster.
ChainsSound ==
  /\ Whole(First, DirChain)
  /\ \A n \in LiveFiles :
       /\ Len(ChainOf(n)) = Needed(Entry(content, Locate(First, content, n)).size)
       /\ ChainOf(n) # <<>> => Whole(First, ChainOf(n))
       /\ ToSet(ChainOf(n)) \cap ToSet(DirChain) = {}
       /\ \A m \in LiveFiles \ {n} : ToSet(ChainOf(n)) \cap ToSet(ChainOf(m)) = {}

\* A name has one entry, and no entry hides behind the never-used slot that ends a walk.
DirSound ==
  LET slots == DirSlots(First)
  IN \A i, j \in DOMAIN slots :
       Entry(content, slots[i]).attr = "file" /\ i # j
         => /\ Entry(content, slots[j]).attr = "file" => Entry(content, slots[i]).name # Entry(content, slots[j]).name
            /\ Entry(content, slots[j]).attr = "free" => i < j

\* Between calls, without crashes and disk errors, every cluster that is not free belongs to
\* the directory or to a file: replacing, deleting and running out of space leak nothing.
NoLeak ==
  plan = <<>> /\ crashes = 0 =>
    Clusters \ FreeClusters(First) = ToSet(DirChain) \cup UNION {ToSet(ChainOf(n)) : n \in LiveFiles}

\* Between calls, without crashes, what is on the disk twice is right twice: FSInfo's cached
\* free count is the number of free clusters, or marked unknown, and the copies of the FAT
\* are the same.
SecondCopiesHonest ==
  plan = <<>> /\ crashes = 0 =>
    /\ fsinfo # -1 => fsinfo = FreeCount
    /\ \A k \in Copies : fat[k] = First

\* A file the directory names owns the cluster it starts at ("a crash in between leaves a
\* lost chain"): no live entry points at freed clusters once a delete has been cut short.
EntryKeepsClusters ==
  plan = <<>> => \A n \in LiveFiles :
    LET start == Entry(content, Locate(First, content, n)).start IN start # 0 => First[start] # FREE
=============================================================================
