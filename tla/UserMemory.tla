----------------------------- MODULE UserMemory -----------------------------
(***************************************************************************)
(* Where a task's memory comes from and goes to: the address space, image  *)
(* and stack that task_create_from_file builds, the regions of SYS_MMAP,   *)
(* and the three steps in which a dead task gives everything back, with    *)
(* the kernel heap and the frames they all draw on.                        *)
(*                                                                         *)
(* A tree is its frames: the spine (PML4, PDPT, PD), one page table for    *)
(* each user slot in use, and the leaves by slot and page.  Descriptors    *)
(* that programs open and close in between are in Descriptors.             *)
(***************************************************************************)
EXTENDS KernelHeap, Regions, SequencesExt

CONSTANTS
  MaxTasks,     \* MAX_TASKS_LIMIT: ids are never reused, so also a bound on the run
  ImagePages,   \* pages of a program's segments
  StackPages,   \* pages of a stack
  SlotPages,    \* pages of the heap slot PD[4]
  MaxRegions,   \* MAX_REGIONS
  MapLens,      \* lengths programs map and unmap
  HandleLen,    \* sizeof(address_space_t)
  FileLen,      \* the size of a program's file
  TaskLen,      \* sizeof(task_t)
  FdLen,        \* sizeof(file_t)
  MaxOther      \* bound: blocks that the rest of the kernel holds

ASSUME UserMemoryAssumption ==
  /\ {MaxTasks, ImagePages, StackPages, SlotPages, MaxRegions} \subseteq Nat \ {0}
  /\ MapLens \subseteq Nat /\ {HandleLen, FileLen, TaskLen, FdLen} \subseteq Nat
  /\ MaxOther \in Nat

VARIABLES
  task,       \* what each task owns
  num_tasks,  \* ids handed out
  others,     \* pointers that the rest of the kernel holds
  lost        \* frames that are marked and that nothing refers to

memVars == <<marked, heap, live, task, num_tasks, others, lost>>

Tasks == 0 .. MaxTasks - 1

NoTask ==
  [stage |-> "none", handle |-> NULL, spine |-> {}, table |-> <<>>, leaf |-> <<>>,
   block |-> NULL, fds |-> <<>>, regions |-> NoRegions(MaxRegions)]

\* What the tree of t is made of.
TreeFrames(t) == t.spine \cup Range(t.table) \cup Range(t.leaf)

\* What a handler works on: the kernel's memory, the task t in question, descriptors copied
\* for it, and whether every step so far has succeeded.
Work(t) == [marked |-> marked, heap |-> heap, live |-> live, ptr |-> NULL,
            t |-> t, dups |-> <<>>, lost |-> lost, ok |-> TRUE]

Failed(w) == [w EXCEPT !.ok = FALSE]
Then(w, Step(_)) == IF w.ok THEN Step(w) ELSE w
OrElse(w, Undo(_)) == IF w.ok THEN w ELSE Undo(w)

\* kmalloc, where NULL is a failure.
KmallocOk(w, n) == LET check(k) == [k EXCEPT !.ok = @ /\ k.ptr # NULL] IN check(Kmalloc(w, n))
KfreeAll(w, ptrs) == FoldLeft(Kfree, w, ptrs)

Keep(w) ==
  /\ marked' = w.marked /\ heap' = w.heap /\ live' = w.live /\ lost' = w.lost
  /\ UNCHANGED others
Finish(t, w) == Keep(w) /\ task' = [task EXCEPT ![t] = w.t] /\ UNCHANGED num_tasks

-----------------------------------------------------------------------------
(* Trees.                                                                  *)

\* paging_create_address_space: all three tables are asked for before any is looked at.
BuildSpine(w) ==
  LET first == AllocFrame(w.marked)
      second == AllocFrame(w.marked \cup {first})
      third == AllocFrame(w.marked \cup {first, second})
      spine == {first, second, third}
  IN IF NoFrame \in spine THEN Failed(Kfree(w, w.ptr))
     ELSE [w EXCEPT !.marked = @ \cup spine, !.t.spine = spine, !.t.handle = w.ptr]

CreateSpace(w) == Then(KmallocOk(w, HandleLen), BuildSpine)

\* next_table at the page directory; the levels above exist since paging_create_address_space.
NextTable(w, slot) ==
  LET table == AllocFrame(w.marked)
  IN IF slot \in DOMAIN w.t.table THEN w
     ELSE IF table = NoFrame THEN Failed(w)
     ELSE [w EXCEPT !.marked = @ \cup {table}, !.t.table = Written(@, slot, table)]

\* paging_map_page of frame f.
MapPage(w, at, f) == Then(NextTable(w, at[1]), LAMBDA v : [v EXCEPT !.t.leaf = Written(@, at, f)])

\* A page of load_segment or map_user_stack.  When the page table cannot be had, the frame
\* in hand is in no tree, and the destruction of the tree does not find it.
LoadPage(w, at) ==
  LET f == AllocFrame(w.marked)
      w2 == MapPage([w EXCEPT !.marked = @ \cup {f}], at, f)
  IN IF ~ w.ok THEN w
     ELSE IF f = NoFrame THEN Failed(w)
     ELSE IF w2.ok THEN w2 ELSE [w2 EXCEPT !.lost = @ \cup {f}]

LoadPages(w, slot, pages) ==
  FoldLeft(LAMBDA v, p : LoadPage(v, <<slot, p>>), w, [p \in 1 .. pages |-> p])

\* A mutant: the walk leaves out the heap slot.
DestroySpaceTwoSlots(w) ==
  LET t == w.t
      kept == {t.leaf[at] : at \in {a \in DOMAIN t.leaf : a[1] = "heap"}}
      k == Kfree([w EXCEPT !.marked = @ \ (TreeFrames(t) \ kept)], t.handle)
  IN [k EXCEPT !.t.spine = {}, !.t.table = <<>>, !.t.leaf = <<>>, !.t.handle = NULL]

\* paging_destroy_address_space.
DestroySpace(w) ==
  LET k == Kfree([w EXCEPT !.marked = @ \ TreeFrames(w.t)], w.t.handle)
  IN [k EXCEPT !.t.spine = {}, !.t.table = <<>>, !.t.leaf = <<>>, !.t.handle = NULL]

-----------------------------------------------------------------------------
(* The life of a task.                                                     *)

Files == {"missing", "unreadable", "misplaced", "good"}

\* elf_load_file.  A misplaced segment is found after the ones before it are mapped.
ReadFile(w, file) == IF file = "missing" THEN Failed(w) ELSE KmallocOk(w, FileLen)
ElfLoad(w, file) ==
  [LoadPages([w EXCEPT !.ok = file # "unreadable"], "code", ImagePages)
     EXCEPT !.ok = @ /\ file # "misplaced"]
LoadFile(w, file) == Then(ReadFile(w, file), LAMBDA k : Kfree(ElfLoad(k, file), k.ptr))

\* One descriptor, file_alloc_console or file_dup.
AllocFd(w) ==
  LET take(k) == IF k.ptr = NULL THEN Failed(k) ELSE [k EXCEPT !.t.fds = Append(@, k.ptr)]
  IN take(Kmalloc(w, FdLen))

\* A mutant: the task block is kept when a descriptor cannot be had.
UnregisterKeepsBlock(w) ==
  [KfreeAll(w, w.t.fds) EXCEPT !.t.fds = <<>>, !.t.block = NULL]

Unregister(w) ==
  [Kfree(KfreeAll(w, w.t.fds), w.t.block) EXCEPT !.t.fds = <<>>, !.t.block = NULL]

\* task_register: the task block and its two console descriptors, both asked for before
\* either is looked at.
RegisterBlock(w) == OrElse(AllocFd(AllocFd([w EXCEPT !.t.block = w.ptr])), Unregister)
Register(w) ==
  IF num_tasks >= MaxTasks THEN Failed(w) ELSE Then(KmallocOk(w, TaskLen), RegisterBlock)

\* The copies of inherited descriptors are made before the task is registered, one after
\* the other, and then take the places of its consoles.
DupFds(w, inherited) ==
  LET move(v) == [v EXCEPT !.dups = v.t.fds, !.t.fds = <<>>]
  IN move(FoldLeft(LAMBDA v, i : Then(v, AllocFd), w, SetToSeq(inherited)))
CloseDups(w) == KfreeAll(w, w.dups)
InstallDup(w, i) ==
  [Kfree(w, w.t.fds[i]) EXCEPT !.t.fds[i] = Head(w.dups), !.dups = Tail(@)]
Adopt(w, inherited) ==
  Then(OrElse(Then(DupFds(w, inherited), Register), CloseDups),
       LAMBDA v : FoldLeft(InstallDup, v, SetToSortSeq(inherited, <)))

\* task_create_from_file; any failure once the tree is there destroys the whole of it.
Abandon(w) == IF w.t.handle = NULL THEN w ELSE DestroySpace(w)
Build(file, inherited) ==
  OrElse(Then(Then(Then(CreateSpace(Work(NoTask)),
                        LAMBDA w : LoadFile(w, file)),
                   LAMBDA w : LoadPages(w, "stack", StackPages)),
              LAMBDA w : Adopt(w, inherited)),
         Abandon)
Publish(w) ==
  /\ Keep(w)
  /\ IF w.ok
     THEN task' = [task EXCEPT ![num_tasks] = [w.t EXCEPT !.stage = "alive"]]
          /\ num_tasks' = num_tasks + 1
     ELSE UNCHANGED <<task, num_tasks>>
Create(file, inherited) == Publish(Build(file, inherited))

\* task_exit closes the descriptors; the tree is still in CR3.
Exit(t) ==
  LET w == Work(task[t])
      closed == Kfree(Kfree(w, w.t.fds[1]), w.t.fds[2])
  IN /\ task[t].stage = "alive"
     /\ Finish(t, [closed EXCEPT !.t.fds = <<>>, !.t.stage = "zombie"])

Zombies == {t \in Tasks : task[t].stage = "zombie"}

StripTree(w) == IF w.t.handle = NULL THEN w ELSE DestroySpace(w)
TakeTombstone(w) == [Kfree(w, w.t.block) EXCEPT !.t = NoTask]

\* reap_sweep, over the zombies in the order of their ids.  One of them may be current,
\* which is skipped; whose parents are dead is known to Scheduler and open here.
ReapSweep(swept, orphans) ==
  LET sweep(acc, t) ==
        LET stripped == StripTree([acc.w EXCEPT !.t = acc.task[t]])
            w == IF t \in orphans THEN TakeTombstone(stripped) ELSE stripped
        IN [w |-> w, task |-> [acc.task EXCEPT ![t] = w.t]]
      done == FoldLeft(sweep, [w |-> Work(NoTask), task |-> task], SetToSortSeq(swept, <))
  IN /\ Cardinality(Zombies \ swept) <= 1
     /\ Keep(done.w) /\ task' = done.task /\ UNCHANGED num_tasks

\* task_wait for a dead child: its tree if it is still there, and the tombstone.
TaskWait(t) ==
  /\ task[t].stage = "zombie"
  /\ Finish(t, TakeTombstone(StripTree(Work(task[t]))))

-----------------------------------------------------------------------------
(* SYS_MMAP and SYS_MUNMAP.                                                *)

SlotLen == SlotPages * PageLen
RoundUpToPage(n) == RoundUpTo(PageLen, n)
HeapPages(base, length) ==
  {<<"heap", p>> : p \in base \div PageLen .. (base + length) \div PageLen - 1}
Refused(len) == len = 0 \/ len > SlotLen

\* paging_unmap_user_range: pages that are not mapped are skipped.
UnmapUserRange(w, pages) ==
  LET leaf == w.t.leaf
  IN [w EXCEPT !.marked = @ \ {leaf[at] : at \in pages \cap DOMAIN leaf},
               !.t.leaf = Restrict(@, DOMAIN @ \ pages)]

\* One page of a range: a frame that could not be mapped is given back.
MapUserPage(w, p) ==
  LET f == AllocFrame(w.marked)
      mapped == MapPage([w EXCEPT !.marked = @ \cup {f}], <<"heap", p>>, f)
  IN IF f = NoFrame \/ ~ mapped.ok THEN Failed(w) ELSE mapped

MapUserPages(w, base, length) ==
  FoldLeft(LAMBDA v, i : Then(v, LAMBDA x : MapUserPage(x, base \div PageLen + i - 1)),
           w, [i \in 1 .. length \div PageLen |-> i])

\* A mutant: a run that fails half way stays mapped.
MapUserRangeNoUnwind(w, base, length) == MapUserPages(w, base, length)

\* paging_map_user_range.  A page table made on the way stays in the tree.  The code unwinds
\* up to the page that failed; nothing above that is mapped.
MapUserRange(w, base, length) ==
  OrElse(MapUserPages(w, base, length), LAMBDA v : UnmapUserRange(v, HeapPages(base, length)))

SysMmap(t, len) ==
  LET regions == task[t].regions
      length == RoundUpToPage(len)
      next == Above(regions, 0)
      w == MapUserRange(Work(task[t]), next, length)
  IN /\ task[t].stage = "alive" /\ ~ Refused(len) /\ HasRoom(regions, 0, SlotLen, length)
     /\ Finish(t, IF w.ok THEN [w EXCEPT !.t.regions = Enter(@, next, length)] ELSE w)

SysMunmap(t, base, len) ==
  LET length == RoundUpToPage(len)
      held == PlacesOf(task[t].regions, base, length)
  IN /\ task[t].stage = "alive" /\ ~ Refused(len) /\ held # {}
     /\ Finish(t, [UnmapUserRange(Work(task[t]), HeapPages(base, length))
                     EXCEPT !.t.regions = Leave(@, Min(held))])

-----------------------------------------------------------------------------
(* The rest of the kernel, which holds a few blocks for a while.           *)

OtherKmalloc(n) ==
  LET k == Kmalloc(Kernel, n)
  IN /\ Cardinality(others) < MaxOther
     /\ marked' = k.marked /\ heap' = k.heap /\ live' = k.live
     /\ others' = others \cup ({k.ptr} \ {NULL})
     /\ UNCHANGED <<task, num_tasks, lost>>

OtherKfree(ptr) ==
  LET k == Kfree(Kernel, ptr)
  IN /\ heap' = k.heap /\ live' = k.live /\ others' = others \ {ptr}
     /\ UNCHANGED <<marked, task, num_tasks, lost>>

MemInit ==
  /\ HeapInit
  /\ task = [t \in Tasks |-> NoTask] /\ num_tasks = 0 /\ others = {} /\ lost = {}

MemNext ==
  \* What is inherited matters only once the file is loaded.
  \/ \E file \in Files \ {"good"} : Create(file, {})
  \/ \E inherited \in SUBSET {1, 2} : Create("good", inherited)
  \/ \E t \in Tasks :
       \/ Exit(t) \/ TaskWait(t)
       \/ \E len \in MapLens : SysMmap(t, len)
       \/ \E len \in MapLens, i \in 1 .. MaxRegions : SysMunmap(t, task[t].regions[i].base, len)
  \/ \E swept \in SUBSET Zombies : \E orphans \in SUBSET swept : ReapSweep(swept, orphans)
  \/ \E n \in Sizes : OtherKmalloc(n)
  \/ \E ptr \in others : OtherKfree(ptr)

MemSpec == MemInit /\ [][MemNext]_memVars

-----------------------------------------------------------------------------
(* Properties.                                                             *)

\* Every frame that is marked has exactly one owner: a reservation, the kernel heap's slab,
\* one task's tree, or the frames that failed loads have lost.  Destroying a tree returns
\* all of it, the SYS_MMAP regions a program never released included.
FramesOwned ==
  /\ marked = Reserved \cup Slab \cup lost \cup UNION {TreeFrames(task[t]) : t \in Tasks}
  /\ Cardinality(marked) =
       Cardinality(Reserved) + (heap.end - heap.start) \div PageLen + Cardinality(lost)
         + FoldSet(LAMBDA t, n : n + Cardinality(task[t].spine) + Cardinality(DOMAIN task[t].table)
                                   + Cardinality(DOMAIN task[t].leaf), 0, Tasks)

\* A task's heap slot maps exactly the pages of the regions it holds, which do not overlap:
\* a SYS_MMAP that fails half way leaves no page behind, and SYS_MUNMAP takes no other's.
RegionsMapped ==
  \A t \in Tasks : task[t].stage = "alive" =>
    LET regions == task[t].regions
        pages(i) == HeapPages(regions[i].base, regions[i].length)
    IN /\ {at \in DOMAIN task[t].leaf : at[1] = "heap"} = UNION {pages(i) : i \in 1 .. MaxRegions}
       /\ \A i, j \in 1 .. MaxRegions : i # j => pages(i) \cap pages(j) = {}

TaskBlocks(t) == ({task[t].handle, task[t].block} \cup Range(task[t].fds)) \ {NULL}

\* Every block of the kernel heap in use has exactly one holder: a SYS_RUN that fails, at
\* whatever step, leaks none, and exit, sweep and SYS_WAIT together free each block once.
BlocksOwned ==
  /\ DOMAIN live = others \cup UNION {TaskBlocks(t) : t \in Tasks}
  /\ \A t \in Tasks : /\ TaskBlocks(t) \cap others = {}
                      /\ \A u \in Tasks \ {t} : TaskBlocks(t) \cap TaskBlocks(u) = {}

\* A kmalloc that returns NULL has changed nothing: a heap that grew for a request serves it.
GrowthServes ==
  [][(\E n \in Sizes : OtherKmalloc(n)) /\ live' = live => UNCHANGED <<marked, heap>>]_memVars
=============================================================================
