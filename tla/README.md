# TownOS in TLA+

A model of the TownOS kernel: TLA+ modules translated from the C sources, TLC
configurations that check them on small instances, and TLAPS proofs, for every size,
of the safety of the scheduler, signals, pipes, the keyboard, the shell's jobs and
`malloc`. `PROJECT.json` ties each definition to its source lines and each property to
the run that checks it.

## The system

TownOS is a single-CPU x86-64 kernel. Every entry into the kernel (timer,
keyboard, `int 0x50`) goes through an interrupt gate, so a handler runs with
interrupts off until it returns. Two things break this picture, and both are in
the models: `schedule` can park in `idle_until_runnable`, where interrupts are
on, and `check_signals` runs after the handler, on the way back to ring 3.

| Part | Source | Modules | State |
|---|---|---|---|
| tasks, scheduler, groups | `kernel/scheduler.c`, `kernel/timer.c` | `Scheduler`, `SchedulerProofs` | modelled, proved |
| signals | `kernel/signal.c` | `Signals`, `MCSignals`, `SchedulerProofs` | modelled, proved |
| descriptors, pipes | `kernel/file.c`, `kernel/pipe.c` | `RingBuffer`, `Descriptors`, `DescriptorsProofs` | modelled, proved |
| keyboard, console | `drivers/keyboard.c` | `Keyboard`, `Console`, `DescriptorsProofs` | modelled, proved |
| FAT32 | `fs/fat32.c` | `Fat32`, `Fat32Readers`, `FileStore` | modelled |
| disk | `drivers/disk.c` | `Fat32` | outcomes of a write only |
| system calls, interrupt dispatch | `kernel/syscall.c`, `kernel/isr.c` | as actions of the others | partly |
| kernel heap | `kernel/heap.c` | `ElMalloc`, `KernelHeap`, `ElMallocProofs` | modelled; the block algorithm proved |
| physical frames | `kernel/memory.c` | `Frames` | allocator; not the RAM detection |
| paging, `SYS_MMAP` | `kernel/paging.c`, `kernel/syscall.c` | `UserMemory`, `Regions` | modelled |
| ELF loader | `kernel/elf.c` | `UserMemory` | what it allocates and gives back; not which files it accepts |
| user allocator | `libc/malloc.c` | `ElMalloc`, `Regions`, `UserHeap`, `MCUserHeap`, `ElMallocProofs`, `UserHeapProofs` | modelled, proved |
| shell | `user/shell.c` | `Shell` over `Descriptors`, `ShellProofs` | line editor, `run` and pipelines; proved |
| printf, strings, screen | `libc/`, `drivers/screen.c` | | not modelled |
| boot, GDT, IDT, stubs | `boot/`, `kernel/gdt.c`, ... | | not modelled |

## The modules

**Scheduler** is the task table. One action is one handler: `Tick`, `KeyIRQ`,
`CtrlC`, `SysRun`, `SysExit`, `SysWait`, `SysBlock`, `SysWake`, `SysKill`,
`SysSetfg`, and `ReturnToUser` / `Killed` for `check_signals`. `phase` says where
the CPU is: in ring 3, about to call `check_signals`, or in the idle loop, entered
from a handler (`idle`) or from `check_signals` itself (`idleLast`). A NULL slot of
`tasks[]` is the state `hole`. Which sleepers a pipe wakes and whether
`check_signals` kills are left open, so what holds here holds for any such choice.

**Signals** extends it with `sig_pending`, handlers, `sig_active`, the frame that
`SYS_SIGRETURN` restores, and the re-armed system call. The frame's layout on the
user stack is abstracted to the call it holds. `cut` is a history variable. Every
behaviour of it is one of Scheduler (`SignalsImplementScheduler`).

**Descriptors** has the descriptor tables, the reference counts of pipe ends, the
rings (**RingBuffer** has their index arithmetic) and the sleepers, with
inheritance by `SYS_RUN`, close, exit and signals. **Keyboard** decodes scancodes
with modifiers; **Console** composes the two, so that one key press is one step
that decodes, pushes, wakes or signals as `keyboard_callback` does. `let_go` is a
history variable: the modifier keys that are down but that the code has forgotten,
because the key of the same kind on the other side went up.

**Shell** is `user/shell.c` between the keyboard and the programs it starts, over
Descriptors. The shell makes one system call a step, and so do the stages of its
job; Ctrl-C can come between any two. `sh` is the place in the program with the
locals of `run_pipeline`, `line` is what `read_line` has, reduced to the length of
the line and how much of it is older than the last Ctrl-C. `SYS_WAIT`, `pgid` and the
foreground are here as the shell, whose children are all the other tasks, sees them.

**Fat32** runs a call as a plan of disk writes, each one step, so that a crash or an
error can fall between any two; a write carries the undo its error path runs.
The boot sector's fields are constants, and names are values. **Fat32Readers** adds
what `fat32_read_file` returns, and shows that the driver implements **FileStore**,
in which a file changes as a whole in one step.

**ElMalloc** is the block algorithm that `kernel/heap.c` and `libc/malloc.c` share,
as operators on a heap record. **Regions** is the table of mapped regions of a task. **Frames** is the bitmap allocator, and **KernelHeap**
has `kmalloc` and `kfree` over the two. **UserMemory** is the state machine that uses
them: `Create` is `task_create_from_file` with the address space, the ELF load, the
stack, the inherited descriptors and `task_register`, each of which can run out;
`Exit`, `ReapSweep` and `TaskWait` give everything back; `SysMmap` and `SysMunmap` work on
the heap slot. A handler runs with interrupts off, so it is one step, and threads the
kernel's memory through its calls as one value. A tree is the set of frames it holds, by
level. `lost` collects the frames that the code drops. Which zombies are orphans, and
which task is current, is left open here: Scheduler has both. Callers free only what
they hold.

**UserHeap** is `libc/malloc.c`: `malloc`, `calloc` and `free` on slabs from `SYS_MMAP`, in
a program that maps and unmaps regions of its own between the calls. `size_t` has `Word`
values and `int` has `IntValues`, and the arithmetic wraps as the code's does.

A definition described as a mutant changes the definition below it the way a
plausible bug would. No specification uses it; it shows that a property can fail.

## Runs

| Run | Instance | What it shows | Distinct states |
|---|---|---|---|
| `tasks` | 3 task ids, 2 trees, SIG_INT, SIG_KILL | CR3 always holds the current task's living tree; each tree has one owner; no parent sleeps on a dead child; no exit status is lost; new groups are fresh; ready tasks run, orphans' tombstones go, SIG_KILL takes effect | 38,411 |
| `signals` | 2 tasks, one catchable signal, SIG_PIPE | a sleeper is re-armed with the call it sleeps on; a running handler's frame is kept | 380,934 |
| `fat_files` | 4 clusters, 2 FAT copies, 2 files | chains whole and disjoint at each disk write, no leak before a crash, FSInfo and the second FAT right after each success, atomic files, with power loss | 254,910 |
| `fat_faults` | 4 clusters, one failing disk operation | the error path changes nothing a reader sees | 87,392 |
| `pipes` | 3 tasks, 1 pipe of 4 | exact counts, no lost wakeup, byte order | 1,419,188 |
| `console` | 2 tasks, 6 keys, ring of 2 | the same for keys; modifiers as held | 1,435,908 |
| `memory` | 2 task ids, 22 frames, pages of 6 units | heap blocks tile the slab and merge; each frame and each block has one owner, whatever step fails; regions map exactly their pages; failed growth is free | 48,306 |
| `shell` | 4 programs, jobs of 1 to 3 stages, 2 pipes of 2 | the prompt comes back, with no pipe, child or foreground left over; Ctrl-C means the job while the shell waits; the last stage's status is collected; an abandoned line is not run | 30,183 |
| `user_heap` | a slot of 7 pages, 3 regions, `size_t` of 256 values | the heap is exactly the slabs mapped for it; each pointer has the room asked for; a request fails for want of memory only | 495,428 |

Three runs end in a counterexample, because the code does not do what a comment or a
decision record says (`findings` in `PROJECT.json`):

- `signal_asleep`: `check_signals` kills a task and switches to another, which
  enters ring 3 unchecked and can go to sleep with a signal pending.
- `fat_delete_crash`: `fat32_delete` frees before it unpublishes; a crash between
  the two leaves a live entry on free clusters.
- `pipeline_refused`: `may_use_group` needs a living member, so that a stage is refused
  when the first stage has exited before it is started.

### Bounds

Three task ids are a parent, a child and a bystander or grandchild, the least that
gives orphans, a sweep during another task's turn, and a wake of the wrong task.
Ids are never reused in the code, so a behaviour of the scheduler model is bounded
by `MaxTasks` creations, as the kernel is by 64. Two trees for three tasks make
creation fail for want of one; symmetry is not sound with the liveness properties and
not used. Four clusters, one of them the root directory, are enough for two non-empty files with a grown directory, a two-cluster
file and a volume that fills up in the middle of an allocation. A directory cluster
holds two entries, one the label, so the second file makes it grow. `MaxHeld` bounds
the keys down at once.

In `memory`, two tasks leave one of the 22 frames free and two units of the heap, so that
calls fail half way: states are reached in which a descriptor of a new task cannot be
had, a range is unwound after its page table was made, and a load loses its last frame.
`Sizes` is one large request of the rest of the kernel (`MaxOther` bounds
how many it holds): it fits an empty heap, and otherwise makes it grow, next to the slab
when no tree is there, or be refused. Two tasks with a region each do not fit; regions
of different tasks meet only in the frame allocator.

`fat_files` allows one power loss (`MaxCrashes`), between calls or during a write, not
during a delete, which is `fat_delete_crash`; `fat_faults` allows two of the same kind.
`NoLeak` and `SecondCopiesHonest` speak of the time before the first
crash: a crash leaks by design, and the driver reads only the first copy.
`fat_faults` allows one error, without effect on the disk, and its directory has three
slots so that it does not grow; both restrictions leave out real failures, listed below.

In `shell`, four programs are a pipeline of three stages and another job, so that what the
first leaves behind meets the second; a fifth is refused. `MaxBytes` lets a pipe of one byte
fill up and be filled again. `LineMax = 3` is a line of two characters, the least in which
an old and a new one meet. `TypeAhead` is off: keys come when the shell asks for them, which
keeps a difference listed below out of `StatusOfLast`.

In `user_heap`, a page is one smallest block and the first slab two. `MaxLive` bounds what the
program holds, and the slot of seven pages has room for a heap that grows and for regions of
the program's own, but not for any number of either. The requests are a smallest block, one
that fills the first slab, one that makes it grow, one beyond the slot, and the last value of
`size_t`; the products are nothing, something small, and one that wraps.

`pipes` and `console` do not check for deadlock: all tasks may exit or wait for a key.

### Fairness

In `tasks`: weak fairness of `check_signals` and of the idle loop's exit, and strong fairness
of the timer tick, which is enabled whenever interrupts are. Nothing is assumed of
programs. `OrphansReclaimed` has the premise that ring 3 is entered again and again,
because the sweep does not run while the machine idles. `KillTakesEffect` allows the
task to be blocked or in a handler: a SIG_KILL waits for a handler to return, which
`signal.c` documents, and sleeping on a signal is the finding above.

In `shell`: weak fairness of what the shell does off its prompt, which is `ReadyRuns` of the
scheduler for one task, and strong fairness of the end of each stage: programs come to an end
if they get to run again and again. A stage asleep on a pipe does not run, so that
`PromptReturns` still fails if an end is left open or a wakeup is lost. Nothing is assumed of
the person at the keyboard.

## Proofs

`SchedulerProofs` proves, for every number of tasks, every set of trees and events
and every set of exit arguments: `TypeOK`, `OnCpu`, `OneRunning`, `TreesOwned` and
`ChildWaitNotLost` are invariants, and `StatusDelivered` and `NewGroupIsFresh` hold of
every step. The assumptions are those named in `Scheduler`: at least one task, the
boot tree is a tree and `NoTree` is not, exit arguments are integers, and "none" and
"child" are no events.

The inductive invariant `Inv` adds two parts to the properties. `Slots` says which
slots of the table are in use, so that a new task cannot land on an old one.
`GroupsNamed` bounds the group ids in use by the high water mark, which is what makes a
fresh id fresh. `TreesOwned` and `OnCpu` need each other: the sweep frees trees of dead
tasks but skips `current`, and CR3 is safe only because trees are not shared. Since
`schedule` is the tail of the tick, of blocking and of exiting, what it preserves is a
lemma about the table its caller hands over (`ScheduleStep`); each action then has a
lemma, and `NextInv` combines them. `NatMin`, from `Numbers`, gives the least ready task.

The same module proves that **Signals implements Scheduler** for every number of tasks, every
set of signals and events: each step of Signals is a step of Scheduler or leaves its
variables alone, so that what is proved of Scheduler carries over (`CpuSafeWithSignals`,
`StatusesDeliveredWithSignals`). `SleepsOnItsCall` and `FrameKept` are proved from
`SigInv`, which adds the types of the signal state to the scheduler's invariant; the types are
needed because a call that was re-armed is found again in the saved registers or in the frame
of a handler.

`DescriptorsProofs` proves `CountsExact`, `SleepersJustified`, `StreamIntact` and
`KeysIntact` for every number of tasks, pipes and descriptors, every ring size of at least
two and every set of transfer lengths, with keys and signals at any time. The invariant `Inv`
adds to the four properties:

- `HoldsItsEnd`: a task asleep on a pipe still holds the end it uses. Without it, the pipe
  that a sleeper waits on could be freed, and be made again by somebody else.
- `Unborn`: a task that does not exist yet holds nothing, so that what `SYS_RUN` puts into
  its table is all that the counts gain.
- `Streams`: the rings of freed pipes are in order too, so that `SYS_PIPE` starts from one.

Counting is one lemma, `OneRow`: two tables that agree but for some slots of one task differ
in their number of ends by what those slots hold. `file_close`, the exit of a task,
`SYS_PIPE` and `SYS_RUN` each are one use of it. A close is the delicate step. Whoever it does
not wake must still have somebody on the other side, so that their pipe is not the one
that is freed (`ClosingStep`). The arithmetic of the rings comes first:
`ReadKeepsOrder` and `WriteKeepsOrder` say that moving an index by any count up to the used or
free space keeps the rest of the stream in its place, across the wrap.

All this is proved of `ConsoleSpec`, the composition with the keyboard, together with
`TypedAsHeld` for any set of keys and any number held at once. The invariant of the decoder
says of each flag that it is set exactly while a key of its kind is down that has not been let
go.

The assumptions are those named in the modules (`SizesAssumption` in Descriptors: at least one
task, two descriptors, rings of two, and the console is no pipe).

`ShellProofs` proves `PromptClean`, `InterruptReachesJob`, `StatusOfLast` and
`AbandonedNotRun` for every number of tasks, pipes, descriptors and stages, whichever call
fails and whenever Ctrl-C comes. The first three have the hypothesis `TypeAhead = FALSE` that
the run has, for the reason given under the bounds; `AbandonedNotRun` holds with type-ahead too.
`ShellInv` is the invariant of Descriptors with:

- `Table` and `Wired`: the shell's table holds its two consoles and the pipe ends that the
  locals of `run_pipeline` name, each once, and nothing else; and which of the locals are set
  at each place of the program. `PromptClean` is what this says at the prompt, together with
  `DeadHoldNothing` and the exact counts.
- `Family`: the shell's count of its children is right, those alive have the group of the
  job, and the foreground is the job's while the shell waits for one that is alive.
- `ShellAwake`: the shell sleeps at the prompt and in `SYS_WAIT` only, and there only while a
  child is alive.

`LineInv` is the invariant of `read_line`: a line that is abandoned has only old characters, and
a key that was on its way when Ctrl-C came is the one that is thrown away.

`ElMallocProofs` (with `ElMallocLemmas`) proves that `FirstSlab`, `Malloc`, `Free` and
`AppendSlab` keep a heap `Sound`, for every size of slab, tags and request, without two
available neighbours (`NoPairBut(h, {})`). `Sound` says that blocks tile the slab, that each
footer is its header's, that the two lists are the blocks in the two states, each once, and
that the byte counters are the memory those blocks take. The tiling is the hard part, because
the code walks from block to block and the prover has no induction over data. So `Chained` says
it without a walk: a block ends where another begins or at the end of the slab, a block other
than the first begins where another ends, and of two blocks the lower ends before the higher
begins. Splitting a block, merging two and adding one at the end keep this. The counters are
kept as sizes of areas (`Area`), of which blocks take disjoint parts.

`UserHeapProofs` (with `UserHeapLemmas`) uses this for `libc/malloc.c`, and proves
`SlabsAreTheHeap`, `PointersServe` and `FailsForCause` for every slot, page size, table of
regions, width of `size_t` and `int` and every sequence of calls. The invariant `HeapInv` adds
to the sound heap that the regions of the table are disjoint, aligned and inside the slot, that
each belongs to the heap or to the program, and that the slabs lie side by side from the start
of the heap to its end. `FailsForCause` rests on `SYS_MMAP` handing out the address above every
region: when the slab lands elsewhere, a region of the program lies above the heap. Of `size_t` and `int`
it needs that a sum or product that wraps is either refused or asks for more than the slot has.
`UserHeapAssumption` has what the code's constants give: lengths of tags and pages are
multiples of the alignment, the slot ends below the last value of `size_t`, and `int` can count
its pages twice.

Only model-checked:

- liveness, since the prover has no ENABLED;
- the file system, whose operators follow chains of clusters and run plans of writes: what such
  a walk finds is an induction over data;
- the kernel's memory (`UserMemory`), whose handlers fold over pages and thread the memory
  through operators that take operators. The block algorithm it uses is proved.

## Known differences that have no run

- A failed link of a new directory cluster frees it although the first FAT copy may
  already lead to it (`fat32.c:1251`).
- The FAT copies stay different after a crash inside `fat32_set_entry`; `fat32.h:20`
  says they never disagree.
- A disk error right after a cluster is claimed loses that cluster (`fat32.c:663`).
- `SYS_WAIT` for any child returns the lowest id, not the one that finished first
  (`syscall.c:520`).
- Ctrl-D wakes `SYS_READKEY`, whose retry then finds no key (`syscall.c:263`), and a
  console read can return end of file (`file.h:95`).
- One flag stands for both shift keys, so releasing one ends the shift while the other is
  down (`keyboard.c:219`). `TypedAsHeld` counts a key only until its twin goes up.
- `heap.c:367` calls the heap the only consumer of frames, and its non-adjacent branch
  untriggered. Page tables and programs take frames too, so growth is refused once they
  sit above the slab.
- When the page table for a new page cannot be had, `map_user_stack` and `load_segment`
  drop the frame in hand (`scheduler.c:57`, `elf.c:341`); the teardown does not find it,
  although `scheduler.c:43` says that a partial mapping is no leak. `lost` counts it.
- A handler's own blocking call consumes `sig_interrupted`, and the call that the signal cut
  short is issued again and sleeps (`scheduler.c:554`; `docs/decisions/0023`, lines 98-99, has it
  fail). `CutCallFails.cfg` with `MCSignals` shows it.
- A flush that times out after the transfer is reported as a failure, and the new chain is
  freed although the entry on disk names it (`fat32.c:1515`, `disk.c:152`).
  `Fat32LateFault.cfg` with `Fat32Readers` shows it.
- With keys typed ahead, a Ctrl-C at the prompt leaves `sig_interrupted` set until the next
  call that would block, which may be the `SYS_WAIT` of the next job: its status is then lost.
  With `TypeAhead = TRUE` the `shell` run violates `StatusOfLast`. The comment on that failure in
  `cmd_run` says that it cannot happen today.
- The key that `read_line` has in hand when Ctrl-C arrives survives as the first key of the
  new line (`shell.c:443`), and its echo, or the rubbing out of a backspace, lands on the new
  prompt. `AbandonedNotRun` allows that one key.
- A `malloc` of one of the last 7 values of `size_t` is rounded up to 0 and gets an empty block
  (`malloc.c:428`), the case that the comment in `calloc` warns of. `PointersServe` leaves those
  requests out.
- The number of pages to grow by is an `int`: a very large request is cut off, and the heap
  grows for a request that still fails (`malloc.c:434`).

## Not modelled

- `printf`, string functions, the screen: sequential transformations of text, whose state ends
  with the call.
- Boot, GDT, IDT, the interrupt stubs: a straight line of register writes executed once. Its
  outcome is the `Init` of Scheduler.
- CPU exceptions: `isr_handler` halts the machine.
- Which ELF files are accepted, the parsing of the boot sector, and names in 8.3 form: predicates
  and conversions over bytes, without a state that a step could leave wrong.
- The shell's other commands are single system calls, in the modules of those calls. Splitting a
  line into words is left out.
- A handler that calls `malloc`, which the source rules out.
- The test programs: the programs of the models are arbitrary.
- The ATA status polling, reduced to the three outcomes of a write.
