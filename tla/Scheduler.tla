----------------------------- MODULE Scheduler -----------------------------
(***************************************************************************)
(* The task table of kernel/scheduler.c: creation, the round-robin switch, *)
(* blocking and waking, exit, SYS_WAIT, the reap sweep, the idle loop and  *)
(* the foreground process group.                                           *)
(*                                                                         *)
(* There is one CPU and every kernel entry goes through an interrupt gate, *)
(* so a handler runs to its end with interrupts off: one action is one     *)
(* handler.  The only place that enables interrupts inside the kernel is   *)
(* the idle loop, which is why `phase' separates it from the rest:         *)
(*   "user"      ring 3 code of task `current' is running                  *)
(*   "return"    a handler is done and is about to call check_signals      *)
(*   "idle"      schedule() is parked in idle_until_runnable, and the      *)
(*               handler that called it will still call check_signals      *)
(*   "idleLast"  the same, but schedule() was called from check_signals    *)
(*               itself, so the way out is straight to ring 3              *)
(*                                                                         *)
(* What other components decide is left open here: which sleepers a pipe   *)
(* or a key wakes, on whom a signal is raised, and whether check_signals   *)
(* kills.                                                                  *)
(***************************************************************************)
EXTENDS Integers, FiniteSetsExt

CONSTANTS MaxTasks,   \* MAX_TASKS_LIMIT: task ids that can ever be handed out
          Trees,      \* the page-table trees that physical memory can hold
          BootTree,   \* the one kernel_main gets for task 0
          NoTree,     \* a NULL aspace
          ExitArgs,   \* the arguments task_exit is called with
          IrqEvents,  \* wait reasons an interrupt handler wakes: WAIT_KEY
          CallEvents  \* wait reasons a system call wakes: WAIT_PIPE_READ, WAIT_PIPE_WRITE

ASSUME MaxTasksAssumption == MaxTasks \in Nat \ {0}
ASSUME TreesAssumption == BootTree \in Trees /\ NoTree \notin Trees
ASSUME ExitArgsAssumption == ExitArgs \subseteq Int
ASSUME EventsAssumption == {"none", "child"} \cap (IrqEvents \cup CallEvents) = {}

TaskIds == 0 .. MaxTasks - 1
NoParent == -1             \* TASK_NO_PARENT, an id no task can have
Inherit == 0               \* TASK_PGID_INHERIT
NewGroup == -1             \* TASK_PGID_NEW
Error == <<-1, -1>>        \* no child id, and SYSCALL_ERROR for a status
Events == IrqEvents \cup CallEvents
States == {"hole", "ready", "running", "blocked", "zombie"}
Phases == {"user", "return", "idle", "idleLast"}

VARIABLES state,           \* task_t.state; "hole" is a NULL slot of tasks[]
          waitReason,      \* task_t.wait_reason
          parentId,        \* task_t.parent_id
          pgid,            \* task_t.pgid
          exitStatus,      \* task_t.exit_status
          aspace,          \* task_t.aspace, and with it task_t.cr3
          sigInterrupted,  \* task_t.sig_interrupted
          waited,          \* <<child, status>> that the task's last SYS_WAIT gave it
          numTasks,        \* num_tasks: the high water mark of ids
          current,         \* current: the task on the CPU
          cr3,             \* the tree loaded in the CR3 register
          trees,           \* the trees allocated and not yet destroyed
          foreground,      \* foreground_pgid
          phase            \* where the CPU is, see above

vars == <<state, waitReason, parentId, pgid, exitStatus, aspace, sigInterrupted, waited,
          numTasks, current, cr3, trees, foreground, phase>>

\* What only creation, exit, SYS_WAIT and the sweep change.
lifetimeVars == <<parentId, pgid, exitStatus, aspace, waited, numTasks, trees>>

-----------------------------------------------------------------------------
(* Views of the table.                                                     *)

\* f with d at every index in S.
Put(f, S, d) == [i \in TaskIds |-> IF i \in S THEN d ELSE f[i]]

\* Mutant: a parent that sleeps counts as gone.
ParentAliveAwake(st, p) == p \in TaskIds /\ st[p] \in {"ready", "running"}

\* parent_alive: is there somebody who could still read a zombie's status?
ParentAlive(st, p) == p \in TaskIds /\ st[p] \notin {"hole", "zombie"}

\* Mutant: the sweeper does not skip the task it stands on.
SweptCurrentToo(st) == {i \in TaskIds : st[i] = "zombie"}

\* The zombies that reap_sweep strips of their address space.
Swept(st) == {i \in TaskIds : st[i] = "zombie" /\ i # current}

\* Mutant: only tasks that never had a parent are orphans.
OrphanedAtBirth(st) == {i \in Swept(st) : parentId[i] = NoParent}

\* Those among them whose tombstone goes as well.
Orphaned(st) == {i \in Swept(st) : ~ParentAlive(st, parentId[i])}

\* Mutant: the tombstone is freed and the tree is not.
DestroyedNone(S) == {}

\* The trees that go when paging_destroy_address_space is called on the zombies S.
Destroyed(S) == {aspace[i] : i \in S} \ {NoTree}

\* any_task_ready, as the set of the ready ones.
Ready(st) == {i \in TaskIds : st[i] = "ready"}

\* Mutant: every search starts at task 0.
FindNextReadyFromZero(st) == Min(Ready(st))

\* find_next_ready: the first READY id after `current', wrapping, itself last.
FindNextReady(st) ==
  LET after == {i \in Ready(st) : i > current}
  IN IF after # {} THEN Min(after) ELSE Min(Ready(st))

\* The tasks scheduler_wake takes out of BLOCKED for the reasons in R.
Sleepers(R) == {i \in TaskIds : state[i] = "blocked" /\ waitReason[i] \in R}

\* Mutant: task_exit leaves the parent asleep.
WaitingParentForgotten == {}

\* The task_exit of `current' finds its parent asleep in SYS_WAIT.
WaitingParent == {p \in Sleepers({"child"}) : p = parentId[current]}

Children == {i \in TaskIds : state[i] # "hole" /\ parentId[i] = current}
DeadChildren == {i \in Children : state[i] = "zombie"}

\* may_use_group: one's own group, or one that a living child is in.
MayUseGroup(g) ==
  \/ pgid[current] = g
  \/ \E i \in Children \ DeadChildren : pgid[i] = g

-----------------------------------------------------------------------------
(* schedule(), task_block and task_exit: the tails that handlers share.    *)

\* Mutant: the incoming task stays TASK_READY.
SwitchStillReady(st, spaces) ==
  LET next == FindNextReady(st)
  IN /\ state' = st
     /\ current' = next
     /\ cr3' = IF next = current THEN cr3 ELSE spaces[next]

\* The end of schedule(): give the CPU to the next ready task of the table st.
Switch(st, spaces) ==
  LET next == FindNextReady(st)
  IN /\ state' = Put(st, {next}, "running")
     /\ current' = next
     /\ cr3' = IF next = current THEN cr3 ELSE spaces[next]

\* schedule() on a table whose state, wait reasons and statuses are st, rs and es; the
\* caller goes on at `ph'.  Its return for tasks[current] = NULL is left out, since
\* OnCpu says that it is dead code, and so are the nested calls of the idle loop, which
\* return at once.
Schedule(st, rs, es, ph) ==
  LET swept == Swept(st)
      gone == Orphaned(st)
      spaces == Put(aspace, swept, NoTree)
      left == [i \in TaskIds |-> IF i \in gone THEN "hole"
                                 ELSE IF i = current /\ st[i] = "running" THEN "ready"
                                 ELSE st[i]]
  IN /\ aspace' = spaces
     /\ trees' = trees \ Destroyed(swept)
     /\ waitReason' = rs
     /\ parentId' = Put(parentId, gone, NoParent)
     /\ pgid' = Put(pgid, gone, 0)
     /\ exitStatus' = Put(es, gone, 0)
     /\ sigInterrupted' = Put(sigInterrupted, gone, FALSE)
     /\ waited' = Put(waited, gone, Error)
     /\ \/ /\ Ready(left) # {}
           /\ Switch(left, spaces)
           /\ phase' = ph
        \/ /\ Ready(left) = {}
           /\ state' = left
           /\ phase' = IF ph = "return" THEN "idle" ELSE "idleLast"
           /\ UNCHANGED <<current, cr3>>
     /\ UNCHANGED <<numTasks, foreground>>

\* task_block for the tasks that have not been interrupted.
Sleep(reason) ==
  /\ ~sigInterrupted[current]
  /\ Schedule(Put(state, {current}, "blocked"), Put(waitReason, {current}, reason),
              exitStatus, "return")

\* task_block for a task whose sleep a signal has ended: consume the flag, say so.
Interrupted ==
  /\ sigInterrupted[current]
  /\ sigInterrupted' = Put(sigInterrupted, {current}, FALSE)
  /\ phase' = "return"
  /\ UNCHANGED <<state, waitReason, parentId, pgid, exitStatus, aspace, numTasks, current,
                 cr3, trees, foreground>>

\* Mutant: the status is stored as it was passed.
TaskExitUnmasked(arg, R, ph) ==
  LET woken == Sleepers(R) \cup WaitingParent
  IN Schedule(Put(Put(state, woken, "ready"), {current}, "zombie"),
              Put(waitReason, woken \cup {current}, "none"),
              Put(exitStatus, {current}, arg),
              ph)

\* task_exit(arg), where closing the descriptors wakes the sleepers on R.
TaskExit(arg, R, ph) ==
  LET woken == Sleepers(R) \cup WaitingParent
  IN Schedule(Put(Put(state, woken, "ready"), {current}, "zombie"),
              Put(waitReason, woken \cup {current}, "none"),
              Put(exitStatus, {current}, arg % 256),
              ph)

-----------------------------------------------------------------------------
(* Interrupts.  One that arrives in the idle loop returns into the loop:   *)
(* check_signals leaves at once, because the frame is a ring-0 one.        *)

AfterIRQ == phase' = IF phase = "user" THEN "return" ELSE phase
Interruptible == phase \in {"user", "idle", "idleLast"}

\* Take the tasks in S out of BLOCKED, leaving sig_interrupted as given.
Unblock(S) ==
  /\ state' = Put(state, S, "ready")
  /\ waitReason' = Put(waitReason, S, "none")
  /\ UNCHANGED <<lifetimeVars, current, cr3, foreground>>

\* The timer.
Tick ==
  /\ phase = "user"
  /\ Schedule(state, waitReason, exitStatus, "return")

\* The keyboard: a character, or end of input.
KeyIRQ(event) ==
  /\ Interruptible
  /\ Unblock(Sleepers({event}))
  /\ AfterIRQ
  /\ UNCHANGED sigInterrupted

\* signal_raise on the tasks of S, as far as the task table is concerned.
Raise(S) ==
  LET asleep == {i \in S : state[i] = "blocked"}
  IN /\ Unblock(asleep)
     /\ sigInterrupted' = Put(sigInterrupted, asleep, TRUE)

\* The keyboard: Ctrl-C, a signal to the foreground group.
CtrlC ==
  /\ Interruptible
  /\ Raise({i \in TaskIds : state[i] # "hole" /\ pgid[i] = foreground})
  /\ AfterIRQ

\* The idle loop sees a ready task; schedule() ends in the handler that called it.
IdleExit ==
  /\ phase \in {"idle", "idleLast"}
  /\ Ready(state) # {}
  /\ Switch(state, aspace)
  /\ phase' = IF phase = "idle" THEN "return" ELSE "user"
  /\ UNCHANGED <<lifetimeVars, waitReason, sigInterrupted, foreground>>

-----------------------------------------------------------------------------
(* System calls of the running task.                                       *)

\* Mutant: a reaped slot is handed out again.
NextIdReused == Min({i \in TaskIds : state[i] = "hole"})

\* The id task_register gives the next task.
NextId == numTasks

\* task_create_from_file succeeds: the request for a group is one the caller may make,
\* there is a tree to be had, and the program loads.
Create(req) ==
  LET id == NextId
  IN /\ req \in {Inherit, NewGroup} \/ MayUseGroup(req)
     /\ numTasks < MaxTasks
     /\ \E t \in Trees \ trees : /\ aspace' = Put(aspace, {id}, t)
                                 /\ trees' = trees \cup {t}
     /\ numTasks' = numTasks + 1
     /\ state' = Put(state, {id}, "ready")
     /\ parentId' = Put(parentId, {id}, current)
     /\ pgid' = Put(pgid, {id}, IF req = NewGroup THEN id
                                ELSE IF req = Inherit THEN pgid[current] ELSE req)
     /\ UNCHANGED <<waitReason, exitStatus, sigInterrupted, waited, current, cr3, foreground>>

\* SYS_RUN.  The second disjunct is every failure, each of which gives back what it took.
SysRun(req) ==
  /\ phase = "user"
  /\ phase' = "return"
  /\ \/ Create(req)
     \/ UNCHANGED <<lifetimeVars, state, waitReason, sigInterrupted, current, cr3, foreground>>

\* SYS_EXIT, and the SYS_SIGRETURN that is refused.
SysExit(arg, R) ==
  /\ phase = "user"
  /\ TaskExit(arg, R, "return")

\* SYS_WAIT with an answer: the lowest dead child, freed before its status is returned.
Collect ==
  LET child == Min(DeadChildren)
  IN /\ phase = "user"
     /\ DeadChildren # {}
     /\ waited' = Put(Put(waited, {child}, Error), {current}, <<child, exitStatus[child]>>)
     /\ state' = Put(state, {child}, "hole")
     /\ parentId' = Put(parentId, {child}, NoParent)
     /\ pgid' = Put(pgid, {child}, 0)
     /\ exitStatus' = Put(exitStatus, {child}, 0)
     /\ aspace' = Put(aspace, {child}, NoTree)
     /\ sigInterrupted' = Put(sigInterrupted, {child}, FALSE)
     /\ trees' = trees \ Destroyed({child})
     /\ phase' = "return"
     /\ UNCHANGED <<waitReason, numTasks, current, cr3, foreground>>

\* SYS_WAIT of a task without children, and one that a signal cut short.
WaitFails ==
  /\ phase = "user"
  /\ DeadChildren = {}
  /\ waited' = Put(waited, {current}, Error)
  /\ \/ /\ Children = {}
        /\ phase' = "return"
        /\ UNCHANGED <<state, waitReason, parentId, pgid, exitStatus, aspace, sigInterrupted,
                       numTasks, current, cr3, trees, foreground>>
     \/ /\ Children # {}
        /\ Interrupted

\* SYS_WAIT with living children only.
WaitSleeps ==
  /\ phase = "user"
  /\ DeadChildren = {}
  /\ Children # {}
  /\ Sleep("child")

\* A SYS_READ, SYS_WRITE or SYS_READKEY that finds nothing to do.
SysBlock(event) ==
  /\ phase = "user"
  /\ \/ Sleep(event)
     \/ Interrupted /\ UNCHANGED waited

\* A SYS_READ, SYS_WRITE or SYS_CLOSE that moves data or closes a last end.
SysWake(event) ==
  /\ phase = "user"
  /\ phase' = "return"
  /\ Unblock(Sleepers({event}))
  /\ UNCHANGED sigInterrupted

\* SYS_KILL.
SysKill(id) ==
  /\ phase = "user"
  /\ phase' = "return"
  /\ Raise({id})

\* Every other system call, and one refused for a bad argument: the table stays as it is.
SysOther ==
  /\ phase = "user"
  /\ phase' = "return"
  /\ UNCHANGED <<lifetimeVars, state, waitReason, sigInterrupted, current, cr3, foreground>>

\* SYS_SETFG.
SysSetfg(g) ==
  /\ phase = "user"
  /\ phase' = "return"
  /\ foreground' = IF MayUseGroup(g) THEN g ELSE foreground
  /\ UNCHANGED <<lifetimeVars, state, waitReason, sigInterrupted, current, cr3>>

-----------------------------------------------------------------------------
(* check_signals, the last thing a handler does.                           *)

\* Nothing pending, or a frame built for a handler: on to ring 3.
ReturnToUser ==
  /\ phase = "return"
  /\ phase' = "user"
  /\ UNCHANGED <<lifetimeVars, state, waitReason, sigInterrupted, current, cr3, foreground>>

\* A default action.
Killed(arg, R) ==
  /\ phase = "return"
  /\ TaskExit(arg, R, "user")

-----------------------------------------------------------------------------
\* scheduler_start has entered task 0, the shell.
Init ==
  /\ state = Put([i \in TaskIds |-> "hole"], {0}, "running")
  /\ waitReason = [i \in TaskIds |-> "none"]
  /\ parentId = [i \in TaskIds |-> NoParent]
  /\ pgid = [i \in TaskIds |-> 0]
  /\ exitStatus = [i \in TaskIds |-> 0]
  /\ sigInterrupted = [i \in TaskIds |-> FALSE]
  /\ waited = [i \in TaskIds |-> Error]
  /\ numTasks = 1
  /\ current = 0
  /\ cr3 = BootTree
  /\ trees = {BootTree}
  /\ aspace = Put([i \in TaskIds |-> NoTree], {0}, BootTree)
  /\ foreground = 0
  /\ phase = "user"

SysWait == Collect \/ WaitFails \/ WaitSleeps

Next ==
  \/ Tick
  \/ \E event \in IrqEvents : KeyIRQ(event)
  \/ CtrlC
  \/ IdleExit
  \/ \E req \in TaskIds \cup {NewGroup} : SysRun(req)
  \/ \E arg \in ExitArgs, R \in SUBSET CallEvents : SysExit(arg, R)
  \/ SysWait
  \/ \E event \in Events : SysBlock(event)
  \/ \E event \in CallEvents : SysWake(event)
  \/ \E id \in TaskIds : SysKill(id)
  \/ \E g \in TaskIds : SysSetfg(g)
  \/ SysOther
  \/ ReturnToUser
  \/ \E arg \in ExitArgs, R \in SUBSET CallEvents : Killed(arg, R)

Spec == Init /\ [][Next]_vars

-----------------------------------------------------------------------------
(* Properties.                                                             *)

\* Every variable has its type; ids below num_tasks have been handed out, the others not.
TypeOK ==
  /\ state \in [TaskIds -> States]
  /\ waitReason \in [TaskIds -> Events \cup {"none", "child"}]
  /\ parentId \in [TaskIds -> TaskIds \cup {NoParent}]
  /\ pgid \in [TaskIds -> TaskIds]
  /\ exitStatus \in [TaskIds -> 0 .. 255]
  /\ aspace \in [TaskIds -> Trees \cup {NoTree}]
  /\ sigInterrupted \in [TaskIds -> BOOLEAN]
  /\ waited \in [TaskIds -> (TaskIds \cup {-1}) \X (-1 .. 255)]
  /\ numTasks \in 1 .. MaxTasks
  /\ current \in TaskIds
  /\ cr3 \in Trees
  /\ trees \in SUBSET Trees
  /\ foreground \in TaskIds
  /\ phase \in Phases

\* schedule(), reap_sweep and task_wait never free the task_t or the page tables the CPU
\* stands on: `current' names a task, CR3 holds its tree, and that tree is allocated.
OnCpu ==
  /\ state[current] # "hole"
  /\ cr3 = aspace[current]
  /\ cr3 \in trees

\* A task is TASK_RUNNING if and only if it is the one on the CPU, and nobody is while
\* schedule() sits in the idle loop.
OneRunning ==
  \A i \in TaskIds :
    state[i] = "running" <=> i = current /\ phase \in {"user", "return"}

\* The sweeper, task_wait and the failure paths of SYS_RUN destroy every tree exactly once:
\* the allocated trees are those some task owns, no two tasks share one, and a task that
\* can still run has one.
TreesOwned ==
  /\ trees = {aspace[i] : i \in TaskIds} \ {NoTree}
  /\ \A i, j \in TaskIds : aspace[i] = aspace[j] /\ aspace[i] # NoTree => i = j
  /\ \A i \in TaskIds : state[i] \notin {"hole", "zombie"} => aspace[i] # NoTree

\* The wake-up in task_exit is not lost: a task asleep in SYS_WAIT has a child, and none
\* of its children is already dead.
ChildWaitNotLost ==
  \A p \in Sleepers({"child"}) :
    LET children == {i \in TaskIds : state[i] # "hole" /\ parentId[i] = p}
    IN children # {} /\ \A i \in children : state[i] # "zombie"

\* A step that frees a tombstone whose parent lives gives the parent its status, and a
\* status that SYS_WAIT reports is that of a child whose tombstone goes in this step.
StatusStep ==
  \A i \in TaskIds :
    /\ (/\ state[i] = "zombie" /\ state'[i] = "hole"
        /\ parentId[i] \in TaskIds /\ state'[parentId[i]] \notin {"hole", "zombie"})
         => waited'[parentId[i]] = <<i, exitStatus[i]>>
    /\ waited'[i] \notin {waited[i], Error}
         => \E c \in TaskIds : /\ waited'[i] = <<c, exitStatus[c]>>
                               /\ state[c] = "zombie" /\ state'[c] = "hole"
                               /\ parentId[c] = i

\* A tombstone goes away only by handing its status to the parent that calls SYS_WAIT, or
\* when there is no parent left to ask; and SYS_WAIT reports nothing else.
StatusDelivered == [][StatusStep]_vars

\* A new task that leads its own group finds the group empty and out of the foreground.
GroupStep ==
  \A i \in TaskIds :
    state[i] = "hole" /\ state'[i] = "ready" /\ pgid'[i] = i
      => /\ foreground # i
         /\ \A j \in TaskIds : state[j] # "hole" => pgid[j] # i

\* A group asked for with TASK_PGID_NEW is new: no task is in it, and the keyboard does not
\* already talk to it (task ids, and so group ids, are never reused).
NewGroupIsFresh == [][GroupStep]_vars

\* The rotation starves nobody: a task that is ready gets the CPU.
ReadyRuns ==
  \A i \in TaskIds : state[i] = "ready" ~> state[i] = "running"

\* Unless the machine goes idle for good, the sweeper gets to every zombie nobody can wait
\* for, the tombstones of a parent that died first included.
OrphansReclaimed ==
  []<>(phase = "user") =>
    \A i \in TaskIds :
      state[i] = "zombie" /\ ~ParentAlive(state, parentId[i]) ~> state[i] = "hole"

-----------------------------------------------------------------------------
(* The inductive invariant behind the safety properties.                   *)

\* Ids from num_tasks on are unused, and a hole holds no tree.
Slots ==
  \A i \in TaskIds :
    /\ numTasks <= i => state[i] = "hole"
    /\ state[i] = "hole" => aspace[i] = NoTree

\* No group, and so not the foreground either, has a name from the future.
GroupsNamed == foreground < numTasks /\ \A i \in TaskIds : pgid[i] < numTasks

Inv == TypeOK /\ OnCpu /\ OneRunning /\ TreesOwned /\ ChildWaitNotLost /\ Slots /\ GroupsNamed
=============================================================================
