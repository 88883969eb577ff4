-------------------------- MODULE SchedulerProofs --------------------------
(***************************************************************************)
(* The safety of the task table for every number of tasks, every set of    *)
(* page-table trees and every set of wait reasons.                         *)
(*                                                                         *)
(* The inductive invariant is Inv of module Scheduler.  schedule() is the  *)
(* tail of the timer, of task_block and of task_exit, so what it preserves *)
(* is a lemma of its own, about the table its caller hands to it.          *)
(*                                                                         *)
(* Then signals, for every set of them: the table with signals implements  *)
(* the one without, so that what is proved of that holds there; a sleeper  *)
(* stands on the call it sleeps in; and the frame of a handler that runs   *)
(* is not replaced.                                                        *)
(***************************************************************************)
EXTENDS Signals, Numbers

\* Put keeps the type of a table.
LEMMA PutType ==
  ASSUME NEW T, NEW f \in [TaskIds -> T], NEW S, NEW d \in T
  PROVE  Put(f, S, d) \in [TaskIds -> T]
BY DEF Put

\* find_next_ready returns a ready task whenever there is one.
LEMMA FindNextReadyFinds ==
  ASSUME NEW st \in [TaskIds -> States], Ready(st) # {}
  PROVE  FindNextReady(st) \in TaskIds /\ st[FindNextReady(st)] = "ready"
<1> DEFINE after == {i \in Ready(st) : i > current}
<1>1. Ready(st) \in SUBSET Nat /\ after \in SUBSET Nat
  BY MaxTasksAssumption DEF Ready, TaskIds
<1>2. Min(Ready(st)) \in Ready(st)
  BY <1>1, NatMin
<1>3. after # {} => Min(after) \in after
  BY <1>1, NatMin
<1>4. FindNextReady(st) \in Ready(st)
  BY <1>2, <1>3 DEF FindNextReady
<1> QED BY <1>4 DEF Ready

-----------------------------------------------------------------------------
(* schedule().                                                             *)

\* What the callers of schedule() guarantee about the table they leave: st differs from
\* `state' only in that tasks were woken and the current one went to sleep or died.
Handed(st, rs, es, ph) ==
  /\ st \in [TaskIds -> States]
  /\ rs \in [TaskIds -> Events \cup {"none", "child"}]
  /\ es \in [TaskIds -> 0 .. 255]
  /\ ph \in {"user", "return"}
  /\ \A i \in TaskIds : st[i] = "hole" <=> state[i] = "hole"
  /\ \A i \in TaskIds : state[i] = "zombie" => st[i] = "zombie"
  /\ \A i \in TaskIds : st[i] = "running" => i = current
  /\ \A p \in TaskIds : st[p] = "blocked" /\ rs[p] = "child" =>
       /\ \E i \in TaskIds : st[i] # "hole" /\ parentId[i] = p
       /\ \A i \in TaskIds : parentId[i] = p => st[i] # "zombie"

\* The table after the sweep, before the switch.
AfterSweep(st) ==
  [i \in TaskIds |-> IF i \in Orphaned(st) THEN "hole"
                     ELSE IF i = current /\ st[i] = "running" THEN "ready"
                     ELSE st[i]]

\* schedule() either gives the CPU to a ready task or parks.
LEMMA ScheduleCases ==
  ASSUME Inv, NEW st, NEW rs, NEW es, NEW ph,
         Handed(st, rs, es, ph), Schedule(st, rs, es, ph)
  PROVE  \/ \E next \in TaskIds :
              /\ AfterSweep(st)[next] = "ready"
              /\ state' = Put(AfterSweep(st), {next}, "running")
              /\ current' = next
              /\ cr3' = IF next = current THEN cr3 ELSE Put(aspace, Swept(st), NoTree)[next]
              /\ phase' = ph
         \/ /\ state' = AfterSweep(st)
            /\ \A i \in TaskIds : AfterSweep(st)[i] # "ready"
            /\ phase' \in {"idle", "idleLast"}
            /\ current' = current
            /\ cr3' = cr3
<1> DEFINE left == AfterSweep(st)
<1>1. left \in [TaskIds -> States]
  BY DEF AfterSweep, Handed, States
<1>2. CASE Ready(left) # {}
  <2>1. FindNextReady(left) \in TaskIds /\ left[FindNextReady(left)] = "ready"
    BY <1>1, <1>2, FindNextReadyFinds
  <2>2. Switch(left, Put(aspace, Swept(st), NoTree)) /\ phase' = ph
    BY <1>2 DEF Schedule, AfterSweep
  <2> QED BY <2>1, <2>2 DEF Switch
<1>3. CASE Ready(left) = {}
  <2>1. state' = left /\ phase' \in {"idle", "idleLast"} /\ current' = current /\ cr3' = cr3
    BY <1>3 DEF Schedule, AfterSweep
  <2> QED BY <1>3, <2>1 DEF Ready
<1> QED BY <1>2, <1>3

\* What both cases of schedule() share.
LEMMA ScheduleTable ==
  ASSUME Inv, NEW st, NEW rs, NEW es, NEW ph,
         Handed(st, rs, es, ph), Schedule(st, rs, es, ph)
  PROVE  /\ state' \in [TaskIds -> States]
         /\ current' \in TaskIds
         /\ \A i \in TaskIds :
              /\ state'[i] = "hole" <=> st[i] = "hole" \/ i \in Orphaned(st)
              /\ state'[i] = "zombie" <=> st[i] = "zombie" /\ i \notin Orphaned(st)
              /\ state'[i] = "blocked" <=> st[i] = "blocked"
<1>1. st \in [TaskIds -> States] /\ current \in TaskIds
  BY DEF Handed, Inv, TypeOK
<1>2. \A i \in Orphaned(st) : st[i] = "zombie"
  BY DEF Orphaned, Swept
<1>3. \A i \in TaskIds :
        /\ AfterSweep(st)[i] \in States
        /\ AfterSweep(st)[i] = "hole" <=> st[i] = "hole" \/ i \in Orphaned(st)
        /\ AfterSweep(st)[i] = "zombie" <=> st[i] = "zombie" /\ i \notin Orphaned(st)
        /\ AfterSweep(st)[i] = "blocked" <=> st[i] = "blocked"
  BY <1>1, <1>2 DEF AfterSweep, States
<1>4. AfterSweep(st) \in [TaskIds -> States]
  BY <1>3 DEF AfterSweep
<1>5. CASE \E next \in TaskIds :
             /\ AfterSweep(st)[next] = "ready"
             /\ state' = Put(AfterSweep(st), {next}, "running")
             /\ current' = next
  <2>1. PICK next \in TaskIds : /\ AfterSweep(st)[next] = "ready"
                                /\ state' = Put(AfterSweep(st), {next}, "running")
                                /\ current' = next
    BY <1>5
  <2> HIDE DEF AfterSweep
  <2> QED BY <1>3, <1>4, <2>1 DEF Put, States
<1>6. CASE state' = AfterSweep(st) /\ current' = current
  BY <1>1, <1>3, <1>4, <1>6
<1> QED BY <1>5, <1>6, ScheduleCases

\* schedule() keeps the types.
LEMMA ScheduleTypes ==
  ASSUME Inv, NEW st, NEW rs, NEW es, NEW ph,
         Handed(st, rs, es, ph), Schedule(st, rs, es, ph)
  PROVE  TypeOK' /\ cr3' = aspace'[current'] /\ OneRunning'
<1>1. state' \in [TaskIds -> States] /\ current' \in TaskIds
  BY ScheduleTable
<1>2. /\ waitReason' \in [TaskIds -> Events \cup {"none", "child"}]
      /\ parentId' \in [TaskIds -> TaskIds \cup {NoParent}]
      /\ pgid' \in [TaskIds -> TaskIds]
      /\ exitStatus' \in [TaskIds -> 0 .. 255]
      /\ aspace' \in [TaskIds -> Trees \cup {NoTree}]
      /\ sigInterrupted' \in [TaskIds -> BOOLEAN]
      /\ numTasks' \in 1 .. MaxTasks
      /\ trees' \in SUBSET Trees
      /\ foreground' \in TaskIds
  <2>1. 0 \in TaskIds /\ 0 \in 0 .. 255
    BY MaxTasksAssumption DEF TaskIds
  <2>2. /\ waitReason' = rs
        /\ parentId' = Put(parentId, Orphaned(st), NoParent)
        /\ pgid' = Put(pgid, Orphaned(st), 0)
        /\ exitStatus' = Put(es, Orphaned(st), 0)
        /\ aspace' = Put(aspace, Swept(st), NoTree)
        /\ sigInterrupted' = Put(sigInterrupted, Orphaned(st), FALSE)
        /\ trees' = trees \ Destroyed(Swept(st))
        /\ numTasks' = numTasks
        /\ foreground' = foreground
    BY DEF Schedule
  <2>3. waitReason' \in [TaskIds -> Events \cup {"none", "child"}]
    BY <2>2 DEF Handed
  <2>4. /\ parentId' \in [TaskIds -> TaskIds \cup {NoParent}]
        /\ pgid' \in [TaskIds -> TaskIds]
        /\ aspace' \in [TaskIds -> Trees \cup {NoTree}]
    BY <2>1, <2>2, PutType DEF Inv, TypeOK
  <2>5. exitStatus' \in [TaskIds -> 0 .. 255]
    BY <2>1, <2>2, PutType DEF Handed
  <2>6. sigInterrupted' \in [TaskIds -> BOOLEAN]
    BY <2>2, PutType DEF Inv, TypeOK
  <2>7. numTasks' \in 1 .. MaxTasks /\ trees' \in SUBSET Trees /\ foreground' \in TaskIds
    BY <2>2 DEF Inv, TypeOK
  <2> QED BY <2>3, <2>4, <2>5, <2>6, <2>7
<1>3. waited' \in [TaskIds -> (TaskIds \cup {-1}) \X (-1 .. 255)]
  <2>1. waited' = Put(waited, Orphaned(st), Error)
    BY DEF Schedule
  <2>2. Error \in (TaskIds \cup {-1}) \X (-1 .. 255)
    BY DEF Error
  <2> QED BY <2>1, <2>2, PutType DEF Inv, TypeOK
<1>4. aspace' = Put(aspace, Swept(st), NoTree)
  BY DEF Schedule
<1>5. cr3 = aspace[current] /\ current \in TaskIds /\ cr3 \in Trees
  BY DEF Inv, OnCpu, TypeOK
<1>6. current \notin Swept(st)
  BY DEF Swept
<1>7. ph \in {"user", "return"} /\ st \in [TaskIds -> States]
  BY DEF Handed
<1>8. \A i \in TaskIds : AfterSweep(st)[i] # "running"
  BY <1>7 DEF AfterSweep, Handed, Orphaned, Swept
<1>9. CASE \E next \in TaskIds :
             /\ AfterSweep(st)[next] = "ready"
             /\ state' = Put(AfterSweep(st), {next}, "running")
             /\ current' = next
             /\ cr3' = IF next = current THEN cr3 ELSE Put(aspace, Swept(st), NoTree)[next]
             /\ phase' = ph
  <2>1. PICK next \in TaskIds :
             /\ AfterSweep(st)[next] = "ready"
             /\ state' = Put(AfterSweep(st), {next}, "running")
             /\ current' = next
             /\ cr3' = IF next = current THEN cr3 ELSE Put(aspace, Swept(st), NoTree)[next]
             /\ phase' = ph
    BY <1>9
  <2>2. cr3' = aspace'[current']
    BY <1>4, <1>5, <1>6, <2>1 DEF Put
  <2>3. OneRunning'
    BY <1>7, <1>8, <2>1 DEF OneRunning, Put
  <2>4. next \notin Swept(st) /\ state[next] \notin {"hole", "zombie"}
    BY <2>1, <1>7 DEF AfterSweep, Swept, Orphaned, Handed
  <2>5. cr3' \in Trees
    BY <1>4, <1>5, <2>1, <2>4 DEF Put, Inv, TreesOwned, TypeOK
  <2>6. phase' \in Phases
    BY <1>7, <2>1 DEF Phases
  <2> QED BY <1>1, <1>2, <1>3, <2>2, <2>3, <2>5, <2>6 DEF TypeOK
<1>10. CASE /\ state' = AfterSweep(st)
            /\ phase' \in {"idle", "idleLast"}
            /\ current' = current
            /\ cr3' = cr3
  <2>1. cr3' = aspace'[current']
    BY <1>4, <1>5, <1>6, <1>10 DEF Put
  <2>2. OneRunning'
    BY <1>8, <1>10 DEF OneRunning
  <2>3. cr3' \in Trees /\ phase' \in Phases
    BY <1>5, <1>10 DEF Phases
  <2> QED BY <1>1, <1>2, <1>3, <2>1, <2>2, <2>3 DEF TypeOK
<1> QED BY <1>9, <1>10, ScheduleCases

\* schedule() frees the trees of the swept tasks and of no other.
LEMMA ScheduleTrees ==
  ASSUME Inv, NEW st, NEW rs, NEW es, NEW ph,
         Handed(st, rs, es, ph), Schedule(st, rs, es, ph)
  PROVE  TreesOwned' /\ Slots' /\ state'[current'] # "hole"
<1>1. /\ aspace' = Put(aspace, Swept(st), NoTree)
      /\ trees' = trees \ ({aspace[i] : i \in Swept(st)} \ {NoTree})
      /\ numTasks' = numTasks
  BY DEF Schedule, Destroyed
<1>2. \A i \in TaskIds : aspace'[i] = IF i \in Swept(st) THEN NoTree ELSE aspace[i]
  BY <1>1 DEF Put
<1>3. /\ trees = {aspace[i] : i \in TaskIds} \ {NoTree}
      /\ \A i, j \in TaskIds : aspace[i] = aspace[j] /\ aspace[i] # NoTree => i = j
      /\ \A i \in TaskIds : state[i] \notin {"hole", "zombie"} => aspace[i] # NoTree
      /\ \A i \in TaskIds : numTasks <= i => state[i] = "hole"
      /\ \A i \in TaskIds : state[i] = "hole" => aspace[i] = NoTree
  BY DEF Inv, TreesOwned, Slots
<1>4. Swept(st) \subseteq TaskIds /\ Orphaned(st) \subseteq Swept(st)
  BY DEF Swept, Orphaned
<1>5. trees' = {aspace'[i] : i \in TaskIds} \ {NoTree}
  <2>1. \A i, j \in TaskIds : i \in Swept(st) /\ j \notin Swept(st) /\ aspace[j] # NoTree
                                => aspace[i] # aspace[j]
    BY <1>3
  <2> QED BY <1>1, <1>2, <1>3, <1>4, <2>1
<1>6. \A i, j \in TaskIds : aspace'[i] = aspace'[j] /\ aspace'[i] # NoTree => i = j
  BY <1>2, <1>3
<1>7. \A i \in TaskIds :
        /\ state'[i] = "hole" <=> st[i] = "hole" \/ i \in Orphaned(st)
        /\ state'[i] = "zombie" <=> st[i] = "zombie" /\ i \notin Orphaned(st)
  BY ScheduleTable
<1>8. \A i \in TaskIds : (st[i] = "hole" <=> state[i] = "hole")
                         /\ (state[i] = "zombie" => st[i] = "zombie")
  BY DEF Handed
<1>9. \A i \in TaskIds : state'[i] \notin {"hole", "zombie"} => aspace'[i] # NoTree
  <2> SUFFICES ASSUME NEW i \in TaskIds, state'[i] \notin {"hole", "zombie"}
               PROVE  aspace'[i] # NoTree
    OBVIOUS
  <2>1. i \notin Orphaned(st) /\ st[i] # "zombie" /\ st[i] # "hole"
    BY <1>7
  <2>2. i \notin Swept(st)
    BY <2>1 DEF Swept
  <2> QED BY <1>2, <1>3, <1>8, <2>1, <2>2
<1>10. Slots'
  <2>1. \A i \in TaskIds : state'[i] = "hole" => aspace'[i] = NoTree
    BY <1>2, <1>3, <1>4, <1>7, <1>8
  <2>2. \A i \in TaskIds : numTasks' <= i => state'[i] = "hole"
    BY <1>1, <1>3, <1>7, <1>8
  <2> QED BY <2>1, <2>2 DEF Slots
<1>11. state'[current'] # "hole"
  <2>1. CASE \E next \in TaskIds : /\ AfterSweep(st)[next] = "ready"
                                   /\ state' = Put(AfterSweep(st), {next}, "running")
                                   /\ current' = next
    BY <2>1 DEF Put
  <2>2. CASE current' = current
    <3>1. current \in TaskIds /\ state[current] # "hole" /\ current \notin Swept(st)
      BY DEF Inv, TypeOK, OnCpu, Swept
    <3> QED BY <1>4, <1>7, <1>8, <2>2, <3>1
  <2> QED BY <2>1, <2>2, ScheduleCases
<1> QED BY <1>5, <1>6, <1>9, <1>10, <1>11 DEF TreesOwned

\* schedule() loses no wake-up and invents no group.
LEMMA ScheduleWaits ==
  ASSUME Inv, NEW st, NEW rs, NEW es, NEW ph,
         Handed(st, rs, es, ph), Schedule(st, rs, es, ph)
  PROVE  ChildWaitNotLost' /\ GroupsNamed'
<1>1. /\ waitReason' = rs
      /\ parentId' = Put(parentId, Orphaned(st), NoParent)
      /\ pgid' = Put(pgid, Orphaned(st), 0)
      /\ numTasks' = numTasks
      /\ foreground' = foreground
  BY DEF Schedule
<1>2. \A i \in TaskIds :
        /\ state'[i] = "hole" <=> st[i] = "hole" \/ i \in Orphaned(st)
        /\ state'[i] = "zombie" <=> st[i] = "zombie" /\ i \notin Orphaned(st)
        /\ state'[i] = "blocked" <=> st[i] = "blocked"
  BY ScheduleTable
<1>3. \A i \in TaskIds : i \in Orphaned(st) => st[i] = "zombie"
  BY DEF Orphaned, Swept
<1>4. \A p \in TaskIds : st[p] = "blocked" /\ rs[p] = "child" =>
        /\ \E i \in TaskIds : st[i] # "hole" /\ parentId[i] = p
        /\ \A i \in TaskIds : parentId[i] = p => st[i] # "zombie"
  BY DEF Handed
<1>5. \A i \in TaskIds : parentId'[i] = IF i \in Orphaned(st) THEN NoParent ELSE parentId[i]
  BY <1>1 DEF Put
<1>6. \A p \in TaskIds : p # NoParent
  BY DEF TaskIds, NoParent
<1>7. ASSUME NEW p \in TaskIds, state'[p] = "blocked", waitReason'[p] = "child"
      PROVE  /\ \E i \in TaskIds : state'[i] # "hole" /\ parentId'[i] = p
             /\ \A i \in TaskIds : parentId'[i] = p => state'[i] # "zombie"
  <2>1. PICK i \in TaskIds : st[i] # "hole" /\ parentId[i] = p /\ st[i] # "zombie"
    BY <1>1, <1>2, <1>4, <1>7
  <2>2. state'[i] # "hole" /\ parentId'[i] = p
    BY <1>2, <1>3, <1>5, <2>1
  <2>3. \A j \in TaskIds : parentId'[j] = p => state'[j] # "zombie"
    BY <1>1, <1>2, <1>4, <1>5, <1>6, <1>7
  <2> QED BY <2>2, <2>3
<1>8. ChildWaitNotLost'
  BY <1>7 DEF ChildWaitNotLost, Sleepers
<1>9. GroupsNamed'
  <2>1. 0 < numTasks /\ \A i \in TaskIds : pgid[i] < numTasks
    BY DEF Inv, TypeOK, GroupsNamed
  <2>2. \A i \in TaskIds : pgid'[i] < numTasks
    BY <1>1, <2>1 DEF Put
  <2> QED BY <1>1, <2>2 DEF GroupsNamed, Inv
<1> QED BY <1>8, <1>9

\* What a step other than a creation does: no task appears, and statuses are delivered.
Lawful ==
  /\ \A i \in TaskIds : state[i] = "hole" => state'[i] = "hole"
  /\ StatusStep

\* The sweeper frees a tombstone only if nobody can ask for its status.
LEMMA ScheduleLawful ==
  ASSUME Inv, NEW st, NEW rs, NEW es, NEW ph,
         Handed(st, rs, es, ph), Schedule(st, rs, es, ph)
  PROVE  Lawful
<1>1. \A i \in TaskIds :
        /\ state'[i] = "hole" <=> st[i] = "hole" \/ i \in Orphaned(st)
        /\ state'[i] = "zombie" <=> st[i] = "zombie" /\ i \notin Orphaned(st)
  BY ScheduleTable
<1>2. \A i \in TaskIds : (st[i] = "hole" <=> state[i] = "hole")
                         /\ (state[i] = "zombie" => st[i] = "zombie")
  BY DEF Handed
<1>3. ASSUME NEW i \in TaskIds, state[i] = "zombie", state'[i] = "hole", parentId[i] \in TaskIds
      PROVE  state'[parentId[i]] \in {"hole", "zombie"}
  <2>1. i \in Orphaned(st)
    BY <1>1, <1>2, <1>3
  <2>2. st[parentId[i]] \in {"hole", "zombie"}
    BY <1>3, <2>1 DEF Orphaned, ParentAlive
  <2> QED BY <1>1, <1>3, <2>2
<1>4. \A i \in TaskIds : waited'[i] \in {waited[i], Error}
  BY DEF Schedule, Put
<1> QED BY <1>1, <1>2, <1>3, <1>4 DEF Lawful, StatusStep

\* schedule() preserves the invariant for a caller that keeps its side.
LEMMA ScheduleStep ==
  ASSUME Inv, NEW st, NEW rs, NEW es, NEW ph,
         Handed(st, rs, es, ph), Schedule(st, rs, es, ph)
  PROVE  Inv' /\ Lawful
<1>1. TypeOK' /\ cr3' = aspace'[current'] /\ OneRunning'
  BY ScheduleTypes
<1>2. TreesOwned' /\ Slots' /\ state'[current'] # "hole"
  BY ScheduleTrees
<1>3. cr3' \in trees'
  BY <1>1, <1>2, TreesAssumption DEF TreesOwned, TypeOK
<1>4. OnCpu'
  BY <1>1, <1>2, <1>3 DEF OnCpu
<1>5. Inv'
  BY <1>1, <1>2, <1>4, ScheduleWaits DEF Inv
<1> QED BY <1>5, ScheduleLawful

-----------------------------------------------------------------------------
(* The callers of schedule().                                              *)

\* The invariant, as the callers of schedule() need it.
LEMMA TableFacts ==
  ASSUME Inv
  PROVE  /\ state \in [TaskIds -> States]
         /\ current \in TaskIds
         /\ state[current] # "hole"
         /\ phase \in {"user", "return"} => state[current] = "running"
         /\ \A i \in TaskIds : state[i] = "running" => i = current
         /\ \A p \in TaskIds : state[p] = "blocked" /\ waitReason[p] = "child" =>
              /\ \E i \in TaskIds : state[i] # "hole" /\ parentId[i] = p
              /\ \A i \in TaskIds : parentId[i] = p => state[i] # "zombie"
<1>1. \A p \in TaskIds : state[p] = "blocked" /\ waitReason[p] = "child" =>
        /\ \E i \in TaskIds : state[i] # "hole" /\ parentId[i] = p
        /\ \A i \in TaskIds : parentId[i] = p => state[i] # "zombie"
  BY DEF Inv, ChildWaitNotLost, Sleepers
<1> QED BY <1>1 DEF Inv, TypeOK, OnCpu, OneRunning

\* The timer.
LEMMA TickStep ==
  ASSUME Inv, Tick
  PROVE  Inv' /\ Lawful
<1>1. Handed(state, waitReason, exitStatus, "return")
  BY TableFacts DEF Handed, Inv, TypeOK
<1> QED BY <1>1, ScheduleStep DEF Tick

\* task_block, for a reason that its caller has checked.
LEMMA SleepStep ==
  ASSUME Inv, phase = "user", NEW reason \in Events \cup {"child"}, Sleep(reason),
         reason = "child" => Children # {} /\ DeadChildren = {}
  PROVE  Inv' /\ Lawful
<1> DEFINE st == Put(state, {current}, "blocked")
           rs == Put(waitReason, {current}, reason)
<1>1. /\ state \in [TaskIds -> States]
      /\ waitReason \in [TaskIds -> Events \cup {"none", "child"}]
      /\ exitStatus \in [TaskIds -> 0 .. 255]
      /\ current \in TaskIds
      /\ state[current] = "running"
  BY TableFacts DEF Inv, TypeOK
<1>2. st \in [TaskIds -> States] /\ rs \in [TaskIds -> Events \cup {"none", "child"}]
  BY <1>1, PutType DEF States
<1>3. \A i \in TaskIds : /\ st[i] = IF i = current THEN "blocked" ELSE state[i]
                         /\ rs[i] = IF i = current THEN reason ELSE waitReason[i]
  BY DEF Put
<1>4. ASSUME NEW p \in TaskIds, st[p] = "blocked", rs[p] = "child"
      PROVE  /\ \E i \in TaskIds : st[i] # "hole" /\ parentId[i] = p
             /\ \A i \in TaskIds : parentId[i] = p => st[i] # "zombie"
  <2>1. CASE p # current
    BY <1>3, <1>4, <2>1, TableFacts
  <2>2. CASE p = current
    <3>1. reason = "child"
      BY <1>3, <1>4, <2>2
    <3> QED BY <1>1, <1>3, <2>2, <3>1 DEF Children, DeadChildren
  <2> QED BY <2>1, <2>2
<1>5. /\ \A i \in TaskIds : st[i] = "hole" <=> state[i] = "hole"
      /\ \A i \in TaskIds : state[i] = "zombie" => st[i] = "zombie"
      /\ \A i \in TaskIds : st[i] = "running" => i = current
  <2> HIDE DEF st, rs
  <2> QED BY <1>1, <1>3, TableFacts
<1>6. Schedule(st, rs, exitStatus, "return")
  BY DEF Sleep
<1> HIDE DEF st, rs
<1>7. Handed(st, rs, exitStatus, "return")
  BY <1>1, <1>2, <1>4, <1>5 DEF Handed
<1> QED BY <1>6, <1>7, ScheduleStep

\* task_exit, from SYS_EXIT or from check_signals.
LEMMA TaskExitStep ==
  ASSUME Inv, phase \in {"user", "return"}, NEW arg \in Int, NEW R, NEW ph \in {"user", "return"},
         TaskExit(arg, R, ph)
  PROVE  Inv' /\ Lawful
<1> DEFINE woken == Sleepers(R) \cup WaitingParent
           st == Put(Put(state, woken, "ready"), {current}, "zombie")
           rs == Put(waitReason, woken \cup {current}, "none")
           es == Put(exitStatus, {current}, arg % 256)
<1>1. /\ state \in [TaskIds -> States]
      /\ waitReason \in [TaskIds -> Events \cup {"none", "child"}]
      /\ exitStatus \in [TaskIds -> 0 .. 255]
      /\ current \in TaskIds
      /\ state[current] = "running"
  BY TableFacts DEF Inv, TypeOK
<1>2. \A i \in TaskIds : i \in woken => state[i] = "blocked"
  BY DEF Sleepers, WaitingParent
<1>3. \A i \in TaskIds : /\ st[i] = IF i = current THEN "zombie"
                                    ELSE IF i \in woken THEN "ready" ELSE state[i]
                         /\ rs[i] = IF i \in woken \/ i = current THEN "none" ELSE waitReason[i]
  BY DEF Put
<1>4. st \in [TaskIds -> States]
  BY <1>1, PutType DEF States
<1>5. rs \in [TaskIds -> Events \cup {"none", "child"}]
  BY <1>1, PutType
<1>6. es \in [TaskIds -> 0 .. 255]
  <2>1. arg % 256 \in 0 .. 255
    OBVIOUS
  <2> QED BY <1>1, <2>1, PutType
<1>7. ASSUME NEW p \in TaskIds, st[p] = "blocked", rs[p] = "child"
      PROVE  /\ \E i \in TaskIds : st[i] # "hole" /\ parentId[i] = p
             /\ \A i \in TaskIds : parentId[i] = p => st[i] # "zombie"
  <2>1. p # current /\ p \notin woken /\ state[p] = "blocked" /\ waitReason[p] = "child"
    BY <1>3, <1>7
  <2>2. p # parentId[current]
    BY <2>1 DEF WaitingParent, Sleepers
  <2>3. \A i \in TaskIds : state[i] # "hole" => st[i] # "hole"
    BY <1>3
  <2>4. \A i \in TaskIds : st[i] = "zombie" /\ i # current => state[i] = "zombie"
    BY <1>3
  <2> HIDE DEF st, rs, woken
  <2> QED BY <2>1, <2>2, <2>3, <2>4, TableFacts
<1>8. /\ \A i \in TaskIds : st[i] = "hole" <=> state[i] = "hole"
      /\ \A i \in TaskIds : state[i] = "zombie" => st[i] = "zombie"
      /\ \A i \in TaskIds : st[i] = "running" => i = current
  BY <1>1, <1>2, <1>3, TableFacts
<1>9. Schedule(st, rs, es, ph)
  BY DEF TaskExit
<1> HIDE DEF st, rs, es, woken
<1>10. Handed(st, rs, es, ph)
  BY <1>4, <1>5, <1>6, <1>7, <1>8 DEF Handed
<1> QED BY <1>9, <1>10, ScheduleStep

-----------------------------------------------------------------------------
(* The handlers that do not switch.                                        *)

\* How the phase may change in a handler that leaves the CPU where it is.
SamePlace == phase' = phase \/ (phase \in {"user", "return"} /\ phase' \in {"user", "return"})

\* Everything but the phase, the foreground, SYS_WAIT's answer and the flags of task_block.
LEMMA QuietStep ==
  ASSUME Inv, SamePlace, phase' \in Phases,
         UNCHANGED <<state, waitReason, parentId, pgid, exitStatus, aspace, numTasks, current,
                     cr3, trees>>,
         sigInterrupted' \in [TaskIds -> BOOLEAN],
         waited' \in [TaskIds -> (TaskIds \cup {-1}) \X (-1 .. 255)],
         \A i \in TaskIds : waited'[i] \in {waited[i], Error},
         foreground' \in TaskIds, foreground' < numTasks
  PROVE  Inv' /\ Lawful
<1>1. TypeOK'
  BY DEF Inv, TypeOK
<1>2. OnCpu' /\ TreesOwned' /\ Slots' /\ GroupsNamed'
  BY DEF Inv, OnCpu, TreesOwned, Slots, GroupsNamed
<1>3. OneRunning'
  BY DEF Inv, OneRunning, SamePlace
<1>4. ChildWaitNotLost'
  BY DEF Inv, ChildWaitNotLost, Sleepers
<1>5. Lawful
  BY DEF Lawful, StatusStep
<1> QED BY <1>1, <1>2, <1>3, <1>4, <1>5 DEF Inv

\* Waking sleepers, for an event or for a signal.
LEMMA UnblockStep ==
  ASSUME Inv, SamePlace, phase' \in Phases,
         NEW S, \A i \in TaskIds : i \in S => state[i] = "blocked", Unblock(S),
         sigInterrupted' \in [TaskIds -> BOOLEAN]
  PROVE  Inv' /\ Lawful
<1>1. /\ state' = Put(state, S, "ready")
      /\ waitReason' = Put(waitReason, S, "none")
      /\ UNCHANGED <<parentId, pgid, exitStatus, aspace, waited, numTasks, trees, current, cr3,
                     foreground>>
  BY DEF Unblock, lifetimeVars
<1>2. \A i \in TaskIds : /\ state'[i] = IF i \in S THEN "ready" ELSE state[i]
                         /\ waitReason'[i] = IF i \in S THEN "none" ELSE waitReason[i]
  BY <1>1 DEF Put
<1>3. TypeOK'
  <2>1. state' \in [TaskIds -> States]
    BY <1>1, PutType DEF Inv, TypeOK, States
  <2>2. waitReason' \in [TaskIds -> Events \cup {"none", "child"}]
    BY <1>1, PutType DEF Inv, TypeOK
  <2> QED BY <1>1, <2>1, <2>2 DEF Inv, TypeOK
<1>4. OnCpu' /\ GroupsNamed'
  BY <1>1, <1>2, TableFacts DEF Inv, OnCpu, GroupsNamed
<1>5. TreesOwned' /\ Slots'
  BY <1>1, <1>2 DEF Inv, TreesOwned, Slots
<1>6. OneRunning'
  BY <1>1, <1>2 DEF Inv, OneRunning, SamePlace
<1>7. ASSUME NEW p \in TaskIds, state'[p] = "blocked", waitReason'[p] = "child"
      PROVE  /\ \E i \in TaskIds : state'[i] # "hole" /\ parentId'[i] = p
             /\ \A i \in TaskIds : parentId'[i] = p => state'[i] # "zombie"
  BY <1>1, <1>2, <1>7, TableFacts
<1>8. ChildWaitNotLost'
  BY <1>7 DEF ChildWaitNotLost, Sleepers
<1>9. Lawful
  BY <1>1, <1>2 DEF Lawful, StatusStep
<1> QED BY <1>3, <1>4, <1>5, <1>6, <1>8, <1>9 DEF Inv

\* signal_raise, wherever it is called.
LEMMA RaiseStep ==
  ASSUME Inv, SamePlace, phase' \in Phases, NEW S \in SUBSET TaskIds, Raise(S)
  PROVE  Inv' /\ Lawful
<1> DEFINE asleep == {i \in S : state[i] = "blocked"}
<1>1. Unblock(asleep) /\ sigInterrupted' = Put(sigInterrupted, asleep, TRUE)
  BY DEF Raise
<1>2. sigInterrupted' \in [TaskIds -> BOOLEAN]
  BY <1>1, PutType DEF Inv, TypeOK
<1> QED BY <1>1, <1>2, UnblockStep

\* The end of the idle loop.
LEMMA IdleExitStep ==
  ASSUME Inv, IdleExit
  PROVE  Inv' /\ Lawful
<1> DEFINE next == FindNextReady(state)
<1>1. next \in TaskIds /\ state[next] = "ready"
  BY TableFacts, FindNextReadyFinds DEF IdleExit
<1>2. /\ state' = Put(state, {next}, "running")
      /\ current' = next
      /\ cr3' = IF next = current THEN cr3 ELSE aspace[next]
      /\ phase \in {"idle", "idleLast"}
      /\ phase' \in {"user", "return"}
      /\ UNCHANGED <<waitReason, parentId, pgid, exitStatus, aspace, sigInterrupted, waited,
                     numTasks, trees, foreground>>
  BY DEF IdleExit, Switch, lifetimeVars
<1> HIDE DEF next
<1>3. \A i \in TaskIds : state'[i] = IF i = next THEN "running" ELSE state[i]
  BY <1>2 DEF Put
<1>4. OnCpu'
  <2>1. cr3' = aspace[next]
    BY <1>2 DEF Inv, OnCpu
  <2>2. aspace[next] \in trees
    BY <1>1 DEF Inv, TreesOwned
  <2> QED BY <1>1, <1>2, <1>3, <2>1, <2>2 DEF OnCpu
<1>5. TypeOK'
  <2>1. state' \in [TaskIds -> States]
    BY <1>2, PutType DEF Inv, TypeOK, States
  <2>2. cr3' \in Trees /\ phase' \in Phases /\ current' \in TaskIds
    BY <1>1, <1>2, <1>4 DEF OnCpu, Inv, TypeOK, Phases
  <2> QED BY <1>2, <2>1, <2>2 DEF Inv, TypeOK
<1>6. OneRunning'
  BY <1>1, <1>2, <1>3 DEF Inv, OneRunning
<1>7. TreesOwned' /\ Slots' /\ GroupsNamed'
  BY <1>1, <1>2, <1>3 DEF Inv, TreesOwned, Slots, GroupsNamed
<1>8. ASSUME NEW p \in TaskIds, state'[p] = "blocked", waitReason'[p] = "child"
      PROVE  /\ \E i \in TaskIds : state'[i] # "hole" /\ parentId'[i] = p
             /\ \A i \in TaskIds : parentId'[i] = p => state'[i] # "zombie"
  BY <1>1, <1>2, <1>3, <1>8, TableFacts
<1>9. ChildWaitNotLost'
  BY <1>8 DEF ChildWaitNotLost, Sleepers
<1>10. Lawful
  BY <1>1, <1>2, <1>3 DEF Lawful, StatusStep
<1> QED BY <1>4, <1>5, <1>6, <1>7, <1>9, <1>10 DEF Inv

-----------------------------------------------------------------------------
(* Creation and SYS_WAIT.                                                  *)

\* A successful SYS_RUN.
LEMMA CreateStep ==
  ASSUME Inv, phase = "user", phase' = "return", NEW req \in TaskIds \cup {NewGroup}, Create(req)
  PROVE  Inv'
<1> DEFINE id == numTasks
           g == IF req = NewGroup THEN id ELSE IF req = Inherit THEN pgid[current] ELSE req
<1>1. PICK t \in Trees \ trees : /\ aspace' = Put(aspace, {id}, t)
                                 /\ trees' = trees \cup {t}
  BY DEF Create, NextId
<1>2. /\ id < MaxTasks
      /\ numTasks' = id + 1
      /\ state' = Put(state, {id}, "ready")
      /\ parentId' = Put(parentId, {id}, current)
      /\ pgid' = Put(pgid, {id}, g)
      /\ UNCHANGED <<waitReason, exitStatus, sigInterrupted, waited, current, cr3, foreground>>
  BY DEF Create, NextId
<1>3. id \in TaskIds /\ id \in Nat /\ id # 0 /\ state[id] = "hole" /\ id # current
  <2>1. id \in 1 .. MaxTasks /\ MaxTasks \in Nat
    BY MaxTasksAssumption DEF Inv, TypeOK
  <2>2. id \in TaskIds /\ id \in Nat /\ id # 0
    BY <1>2, <2>1 DEF TaskIds
  <2> QED BY <2>2, TableFacts DEF Inv, Slots
<1>4. g \in TaskIds /\ g < id + 1
  <2>1. req \in TaskIds /\ req # Inherit => MayUseGroup(req)
    BY DEF Create, NewGroup, TaskIds
  <2>2. MayUseGroup(req) => req < id
    <3>1. \A i \in TaskIds : pgid[i] < id
      BY DEF Inv, GroupsNamed
    <3> QED BY <3>1, TableFacts DEF MayUseGroup, Children
  <2>3. pgid[current] \in TaskIds /\ pgid[current] < id
    BY TableFacts DEF Inv, TypeOK, GroupsNamed
  <2>4. CASE req = NewGroup
    BY <1>3, <2>4
  <2>5. CASE req # NewGroup /\ req = Inherit
    BY <1>3, <2>3, <2>5 DEF TaskIds
  <2>6. CASE req # NewGroup /\ req # Inherit
    BY <1>3, <2>1, <2>2, <2>6 DEF TaskIds
  <2> QED BY <2>4, <2>5, <2>6
<1> HIDE DEF g
<1>5. TypeOK'
  <2>1. state' \in [TaskIds -> States]
    BY <1>2, PutType DEF Inv, TypeOK, States
  <2>2. /\ parentId' \in [TaskIds -> TaskIds \cup {NoParent}]
        /\ pgid' \in [TaskIds -> TaskIds]
        /\ aspace' \in [TaskIds -> Trees \cup {NoTree}]
    BY <1>1, <1>2, <1>4, PutType DEF Inv, TypeOK
  <2>3. numTasks' \in 1 .. MaxTasks /\ trees' \in SUBSET Trees /\ phase' \in Phases
    BY <1>1, <1>2, <1>3, MaxTasksAssumption DEF Inv, TypeOK, Phases
  <2> QED BY <1>2, <2>1, <2>2, <2>3 DEF Inv, TypeOK
<1>6. \A i \in TaskIds : /\ state'[i] = IF i = id THEN "ready" ELSE state[i]
                         /\ parentId'[i] = IF i = id THEN current ELSE parentId[i]
                         /\ pgid'[i] = IF i = id THEN g ELSE pgid[i]
                         /\ aspace'[i] = IF i = id THEN t ELSE aspace[i]
  BY <1>1, <1>2 DEF Put
<1>7. OnCpu'
  BY <1>1, <1>2, <1>3, <1>6, TableFacts DEF Inv, OnCpu
<1>8. OneRunning'
  BY <1>2, <1>3, <1>6 DEF Inv, OneRunning
<1>9. TreesOwned'
  <2>1. \A i \in TaskIds : aspace[i] # t
    BY TreesAssumption DEF Inv, TreesOwned
  <2>2. aspace[id] = NoTree /\ t # NoTree
    BY <1>3, TreesAssumption DEF Inv, Slots
  <2>3. trees' = {aspace'[i] : i \in TaskIds} \ {NoTree}
    BY <1>1, <1>3, <1>6, <2>2 DEF Inv, TreesOwned
  <2>4. \A i, j \in TaskIds : aspace'[i] = aspace'[j] /\ aspace'[i] # NoTree => i = j
    BY <1>6, <2>1 DEF Inv, TreesOwned
  <2>5. \A i \in TaskIds : state'[i] \notin {"hole", "zombie"} => aspace'[i] # NoTree
    BY <1>6, <2>2 DEF Inv, TreesOwned
  <2> QED BY <2>3, <2>4, <2>5 DEF TreesOwned
<1>10. Slots'
  <2>1. \A i \in TaskIds : numTasks' <= i => numTasks <= i /\ i # id
    BY <1>2, <1>3 DEF TaskIds
  <2> QED BY <1>6, <2>1 DEF Inv, Slots
<1>11. GroupsNamed'
  <2>1. \A i \in TaskIds : pgid[i] \in TaskIds /\ pgid[i] < id
    BY DEF Inv, TypeOK, GroupsNamed
  <2>2. foreground < id /\ foreground \in TaskIds
    BY DEF Inv, TypeOK, GroupsNamed
  <2>3. \A n \in TaskIds : n < id => n < id + 1
    BY <1>3 DEF TaskIds
  <2> QED BY <1>2, <1>4, <1>6, <2>1, <2>2, <2>3 DEF GroupsNamed
<1>12. ASSUME NEW p \in TaskIds, state'[p] = "blocked", waitReason'[p] = "child"
       PROVE  /\ \E i \in TaskIds : state'[i] # "hole" /\ parentId'[i] = p
              /\ \A i \in TaskIds : parentId'[i] = p => state'[i] # "zombie"
  <2>1. p # id /\ state[p] = "blocked" /\ waitReason[p] = "child" /\ p # current
    BY <1>2, <1>3, <1>6, <1>12, TableFacts
  <2>2. PICK i \in TaskIds : state[i] # "hole" /\ parentId[i] = p
    BY <2>1, TableFacts
  <2>3. i # id
    BY <1>3, <2>2
  <2>4. \A j \in TaskIds : parentId'[j] = p => state'[j] # "zombie"
    BY <1>6, <2>1, TableFacts
  <2> QED BY <1>6, <2>2, <2>3, <2>4
<1>13. ChildWaitNotLost'
  BY <1>12 DEF ChildWaitNotLost, Sleepers
<1> QED BY <1>5, <1>7, <1>8, <1>9, <1>10, <1>11, <1>13 DEF Inv

\* SYS_WAIT finds a dead child of the caller, not the caller itself.
LEMMA CollectsDeadChild ==
  ASSUME Inv, Collect
  PROVE  /\ Min(DeadChildren) \in TaskIds
         /\ state[Min(DeadChildren)] = "zombie"
         /\ parentId[Min(DeadChildren)] = current
         /\ Min(DeadChildren) # current
<1>1. DeadChildren \in SUBSET Nat /\ DeadChildren # {}
  BY MaxTasksAssumption DEF DeadChildren, Children, TaskIds, Collect
<1>2. Min(DeadChildren) \in DeadChildren
  BY <1>1, NatMin
<1>3. state[current] = "running"
  BY TableFacts DEF Collect
<1> QED BY <1>2, <1>3 DEF DeadChildren, Children

\* SYS_WAIT with an answer.
LEMMA CollectStep ==
  ASSUME Inv, Collect
  PROVE  Inv' /\ Lawful
<1> DEFINE child == Min(DeadChildren)
<1>1. /\ child \in TaskIds /\ child # current
      /\ state[child] = "zombie"
      /\ parentId[child] = current
  BY CollectsDeadChild
<1>2. /\ phase = "user" /\ phase' = "return"
      /\ state' = Put(state, {child}, "hole")
      /\ parentId' = Put(parentId, {child}, NoParent)
      /\ pgid' = Put(pgid, {child}, 0)
      /\ exitStatus' = Put(exitStatus, {child}, 0)
      /\ aspace' = Put(aspace, {child}, NoTree)
      /\ sigInterrupted' = Put(sigInterrupted, {child}, FALSE)
      /\ waited' = Put(Put(waited, {child}, Error), {current}, <<child, exitStatus[child]>>)
      /\ trees' = trees \ ({aspace[i] : i \in {child}} \ {NoTree})
      /\ UNCHANGED <<waitReason, numTasks, current, cr3, foreground>>
  BY DEF Collect, Destroyed
<1> HIDE DEF child
<1>3. \A i \in TaskIds : /\ state'[i] = IF i = child THEN "hole" ELSE state[i]
                         /\ parentId'[i] = IF i = child THEN NoParent ELSE parentId[i]
                         /\ pgid'[i] = IF i = child THEN 0 ELSE pgid[i]
                         /\ aspace'[i] = IF i = child THEN NoTree ELSE aspace[i]
  BY <1>2 DEF Put
<1>4. TypeOK'
  <2>1. 0 \in TaskIds /\ 0 \in 0 .. 255
    BY MaxTasksAssumption DEF TaskIds
  <2>2. state' \in [TaskIds -> States]
    BY <1>2, PutType DEF Inv, TypeOK, States
  <2>3. /\ parentId' \in [TaskIds -> TaskIds \cup {NoParent}]
        /\ pgid' \in [TaskIds -> TaskIds]
        /\ exitStatus' \in [TaskIds -> 0 .. 255]
        /\ aspace' \in [TaskIds -> Trees \cup {NoTree}]
    BY <1>2, <2>1, PutType DEF Inv, TypeOK
  <2>4. sigInterrupted' \in [TaskIds -> BOOLEAN]
    BY <1>2, PutType DEF Inv, TypeOK
  <2>5. waited' \in [TaskIds -> (TaskIds \cup {-1}) \X (-1 .. 255)]
    <3> DEFINE T == (TaskIds \cup {-1}) \X (-1 .. 255)
    <3>1. exitStatus[child] \in 0 .. 255
      BY <1>1 DEF Inv, TypeOK
    <3>2. <<child, exitStatus[child]>> \in T
      BY <1>1, <3>1
    <3>3. Error \in T
      BY DEF Error
    <3>4. waited \in [TaskIds -> T]
      BY DEF Inv, TypeOK
    <3> HIDE DEF T
    <3>5. Put(waited, {child}, Error) \in [TaskIds -> T]
      BY <3>3, <3>4, PutType
    <3>6. waited' \in [TaskIds -> T]
      BY <1>2, <3>2, <3>5, PutType
    <3> QED BY <3>6 DEF T
  <2>6. phase' \in Phases /\ trees' \in SUBSET Trees
    BY <1>2 DEF Inv, TypeOK, Phases
  <2> QED BY <1>2, <2>2, <2>3, <2>4, <2>5, <2>6 DEF Inv, TypeOK
<1>5. TreesOwned'
  <2>1. /\ trees = {aspace[i] : i \in TaskIds} \ {NoTree}
        /\ \A i \in TaskIds : i # child /\ aspace[i] # NoTree => aspace[i] # aspace[child]
    BY <1>1 DEF Inv, TreesOwned
  <2>2. trees' = trees \ ({aspace[child]} \ {NoTree})
    BY <1>2
  <2>3. trees' = {aspace'[i] : i \in TaskIds} \ {NoTree}
    BY <1>1, <1>3, <2>1, <2>2
  <2> QED BY <1>1, <1>3, <2>3 DEF Inv, TreesOwned
<1>6. OnCpu'
  <2>1. current \in TaskIds /\ current # child /\ state[current] # "hole" /\ cr3 = aspace[current]
    BY <1>1 DEF Inv, OnCpu, TypeOK
  <2>2. current' = current /\ state'[current] # "hole" /\ cr3' = aspace'[current]
    BY <1>2, <1>3, <2>1
  <2>3. aspace'[current] # NoTree
    BY <1>3, <2>1, TreesAssumption DEF Inv, TypeOK
  <2>4. cr3' \in trees'
    BY <1>5, <2>1, <2>2, <2>3 DEF TreesOwned
  <2> QED BY <2>2, <2>4 DEF OnCpu
<1>7. OneRunning' /\ Slots'
  BY <1>1, <1>2, <1>3 DEF Inv, OneRunning, Slots
<1>8. GroupsNamed'
  <2>1. 0 < numTasks
    BY MaxTasksAssumption DEF Inv, TypeOK
  <2> QED BY <1>2, <1>3, <2>1 DEF Inv, GroupsNamed
<1>9. ASSUME NEW p \in TaskIds, state'[p] = "blocked", waitReason'[p] = "child"
      PROVE  /\ \E i \in TaskIds : state'[i] # "hole" /\ parentId'[i] = p
             /\ \A i \in TaskIds : parentId'[i] = p => state'[i] # "zombie"
  <2>0. p # NoParent
    BY DEF NoParent, TaskIds
  <2>1. state[p] = "blocked" /\ waitReason[p] = "child" /\ p # NoParent
    BY <1>2, <1>3, <1>9, <2>0
  <2>2. PICK i \in TaskIds : state[i] # "hole" /\ parentId[i] = p /\ state[i] # "zombie"
    BY <2>1, TableFacts
  <2>3. \A j \in TaskIds : parentId'[j] = p => state'[j] # "zombie"
    BY <1>3, <2>1, TableFacts
  <2> QED BY <1>1, <1>3, <2>2, <2>3
<1>10. ChildWaitNotLost'
  BY <1>9 DEF ChildWaitNotLost, Sleepers
<1>11. Lawful
  <2>1. \A i \in TaskIds : waited'[i] = IF i = current THEN <<child, exitStatus[child]>>
                                        ELSE IF i = child THEN Error ELSE waited[i]
    BY <1>2 DEF Put
  <2>2. \A i \in TaskIds : state[i] = "zombie" /\ state'[i] = "hole" => i = child
    BY <1>3
  <2>3. current \in TaskIds
    BY TableFacts
  <2> QED BY <1>1, <1>3, <2>1, <2>2, <2>3 DEF Lawful, StatusStep
<1> QED BY <1>4, <1>5, <1>6, <1>7, <1>8, <1>10, <1>11 DEF Inv

\* task_block's other way out, whatever its caller does to SYS_WAIT's answer.
LEMMA InterruptedStep ==
  ASSUME Inv, phase = "user", Interrupted,
         waited' \in [TaskIds -> (TaskIds \cup {-1}) \X (-1 .. 255)],
         \A i \in TaskIds : waited'[i] \in {waited[i], Error}
  PROVE  Inv' /\ Lawful
<1>1. sigInterrupted' \in [TaskIds -> BOOLEAN]
  BY PutType DEF Interrupted, Inv, TypeOK
<1>2. foreground' \in TaskIds /\ foreground' < numTasks
  BY DEF Interrupted, Inv, TypeOK, GroupsNamed
<1> QED BY <1>1, <1>2, QuietStep DEF Interrupted, SamePlace, Phases

\* SYS_WAIT that fails.
LEMMA WaitFailsStep ==
  ASSUME Inv, WaitFails
  PROVE  Inv' /\ Lawful
<1>1. waited' \in [TaskIds -> (TaskIds \cup {-1}) \X (-1 .. 255)]
  <2>1. Error \in (TaskIds \cup {-1}) \X (-1 .. 255)
    BY DEF Error
  <2> QED BY <2>1, PutType DEF WaitFails, Inv, TypeOK
<1>4. \A i \in TaskIds : waited'[i] \in {waited[i], Error}
  BY DEF WaitFails, Put
<1>2. CASE Interrupted
  BY <1>1, <1>2, <1>4, InterruptedStep DEF WaitFails
<1>3. CASE /\ phase' = "return"
           /\ UNCHANGED <<state, waitReason, parentId, pgid, exitStatus, aspace, sigInterrupted,
                          numTasks, current, cr3, trees, foreground>>
  BY <1>1, <1>3, <1>4, QuietStep DEF WaitFails, SamePlace, Phases, Inv, TypeOK, GroupsNamed
<1> QED BY <1>2, <1>3 DEF WaitFails

\* A step that leaves everything but the phase and the foreground alone.
LEMMA IdleCallStep ==
  ASSUME Inv, phase \in {"user", "return"}, phase' \in {"user", "return"},
         UNCHANGED <<lifetimeVars, state, waitReason, sigInterrupted, current, cr3>>,
         foreground' \in TaskIds, foreground' < numTasks
  PROVE  Inv' /\ Lawful
<1>1. SamePlace /\ phase' \in Phases
  BY DEF SamePlace, Phases
<1>2. UNCHANGED <<state, waitReason, parentId, pgid, exitStatus, aspace, numTasks, current,
                  cr3, trees, sigInterrupted, waited>>
  BY DEF lifetimeVars
<1> QED BY <1>1, <1>2, QuietStep DEF Inv, TypeOK

-----------------------------------------------------------------------------
(* The invariant.                                                          *)

\* scheduler_start establishes it.
LEMMA InitInv == Init => Inv
<1> SUFFICES ASSUME Init PROVE Inv
  OBVIOUS
<1>1. 0 \in TaskIds /\ \A i \in TaskIds : i \in Nat
  BY MaxTasksAssumption DEF TaskIds
<1>2. /\ \A i \in TaskIds : state[i] = IF i = 0 THEN "running" ELSE "hole"
      /\ \A i \in TaskIds : aspace[i] = IF i = 0 THEN BootTree ELSE NoTree
  BY DEF Init, Put
<1>3. TypeOK
  <2>1. state \in [TaskIds -> States] /\ aspace \in [TaskIds -> Trees \cup {NoTree}]
    BY TreesAssumption DEF Init, Put, States
  <2>2. waited \in [TaskIds -> (TaskIds \cup {-1}) \X (-1 .. 255)]
    BY DEF Init, Error
  <2>3. numTasks \in 1 .. MaxTasks
    BY MaxTasksAssumption DEF Init
  <2>4. /\ waitReason \in [TaskIds -> Events \cup {"none", "child"}]
        /\ parentId \in [TaskIds -> TaskIds \cup {NoParent}]
        /\ pgid \in [TaskIds -> TaskIds]
        /\ sigInterrupted \in [TaskIds -> BOOLEAN]
    BY <1>1 DEF Init
  <2>5. exitStatus \in [TaskIds -> 0 .. 255]
    BY DEF Init
  <2>6. current \in TaskIds /\ cr3 \in Trees /\ trees \in SUBSET Trees /\ foreground \in TaskIds
        /\ phase \in Phases
    BY <1>1, TreesAssumption DEF Init, Phases
  <2> QED BY <2>1, <2>2, <2>3, <2>4, <2>5, <2>6 DEF TypeOK
<1>4. OnCpu /\ OneRunning
  BY <1>1, <1>2 DEF Init, OnCpu, OneRunning
<1>5. TreesOwned
  BY <1>1, <1>2, TreesAssumption DEF Init, TreesOwned
<1>6. ChildWaitNotLost
  BY <1>2 DEF ChildWaitNotLost, Sleepers
<1>7. Slots /\ GroupsNamed
  BY <1>1, <1>2 DEF Init, Slots, GroupsNamed
<1> QED BY <1>3, <1>4, <1>5, <1>6, <1>7 DEF Inv

\* A creation gives out the name of a group that nobody has used.
LEMMA CreateGroups ==
  ASSUME Inv, NEW req, Create(req)
  PROVE  GroupStep /\ StatusStep
<1>1. /\ state' = Put(state, {numTasks}, "ready")
      /\ waited' = waited
  BY DEF Create, NextId
<1>2. \A i \in TaskIds : state[i] = "hole" /\ state'[i] = "ready" => i = numTasks
  BY <1>1 DEF Put
<1>3. \A i \in TaskIds : state'[i] = "hole" => state[i] = "hole"
  BY <1>1 DEF Put
<1>4. foreground # numTasks /\ \A j \in TaskIds : pgid[j] # numTasks
  BY DEF Inv, TypeOK, GroupsNamed
<1> QED BY <1>1, <1>2, <1>3, <1>4 DEF GroupStep, StatusStep

\* Every handler preserves it, delivers statuses and keeps new groups new.
LEMMA NextInv == Inv /\ [Next]_vars => Inv' /\ StatusStep /\ GroupStep
<1> SUFFICES ASSUME Inv, [Next]_vars PROVE Inv' /\ StatusStep /\ GroupStep
  OBVIOUS
<1>16. Lawful => StatusStep /\ GroupStep
  BY DEF Lawful, GroupStep
<1>0. foreground \in TaskIds /\ foreground < numTasks /\ phase \in Phases
  BY DEF Inv, TypeOK, GroupsNamed
<1>1. CASE Tick
  BY <1>1, <1>16, TickStep
<1>2. CASE \E event \in IrqEvents : KeyIRQ(event)
  <2>1. PICK event : KeyIRQ(event)
    BY <1>2
  <2>2. SamePlace /\ phase' \in Phases
    BY <1>0, <2>1 DEF KeyIRQ, AfterIRQ, SamePlace, Phases
  <2>3. \A i \in TaskIds : i \in Sleepers({event}) => state[i] = "blocked"
    BY DEF Sleepers
  <2>4. sigInterrupted' \in [TaskIds -> BOOLEAN]
    BY <2>1 DEF KeyIRQ, Inv, TypeOK
  <2> QED BY <2>1, <2>2, <2>3, <2>4, <1>16, UnblockStep DEF KeyIRQ
<1>3. CASE CtrlC
  <2> DEFINE S == {i \in TaskIds : state[i] # "hole" /\ pgid[i] = foreground}
  <2>1. SamePlace /\ phase' \in Phases
    BY <1>0, <1>3 DEF CtrlC, AfterIRQ, SamePlace, Phases
  <2>2. Raise(S) /\ S \in SUBSET TaskIds
    BY <1>3 DEF CtrlC
  <2> HIDE DEF S
  <2> QED BY <2>1, <2>2, <1>16, RaiseStep
<1>4. CASE IdleExit
  BY <1>4, <1>16, IdleExitStep
<1>5. CASE \E req \in TaskIds \cup {NewGroup} : SysRun(req)
  <2>1. PICK req \in TaskIds \cup {NewGroup} : SysRun(req)
    BY <1>5
  <2>2. CASE Create(req)
    BY <2>1, <2>2, CreateStep, CreateGroups DEF SysRun
  <2>3. CASE UNCHANGED <<lifetimeVars, state, waitReason, sigInterrupted, current, cr3, foreground>>
    BY <1>0, <2>1, <2>3, <1>16, IdleCallStep DEF SysRun
  <2> QED BY <2>1, <2>2, <2>3 DEF SysRun
<1>6. CASE \E arg \in ExitArgs, R \in SUBSET CallEvents : SysExit(arg, R)
  <2>1. PICK arg \in ExitArgs, R \in SUBSET CallEvents : SysExit(arg, R)
    BY <1>6
  <2>2. arg \in Int
    BY ExitArgsAssumption
  <2> QED BY <2>1, <2>2, <1>16, TaskExitStep DEF SysExit
<1>7. CASE SysWait
  <2>1. CASE Collect
    BY <2>1, <1>16, CollectStep
  <2>2. CASE WaitFails
    BY <2>2, <1>16, WaitFailsStep
  <2>3. CASE WaitSleeps
    BY <2>3, <1>16, SleepStep DEF WaitSleeps
  <2> QED BY <1>7, <2>1, <2>2, <2>3 DEF SysWait
<1>8. CASE \E event \in Events : SysBlock(event)
  <2>1. PICK event \in Events : SysBlock(event)
    BY <1>8
  <2>2. CASE Sleep(event)
    <3>1. event # "child"
      BY EventsAssumption DEF Events
    <3> QED BY <2>1, <2>2, <3>1, <1>16, SleepStep DEF SysBlock
  <2>3. CASE Interrupted /\ UNCHANGED waited
    BY <2>1, <2>3, <1>16, InterruptedStep DEF SysBlock, Inv, TypeOK
  <2> QED BY <2>1, <2>2, <2>3 DEF SysBlock
<1>9. CASE \E event \in CallEvents : SysWake(event)
  <2>1. PICK event : SysWake(event)
    BY <1>9
  <2>2. SamePlace /\ phase' \in Phases
    BY <2>1 DEF SysWake, SamePlace, Phases
  <2>3. \A i \in TaskIds : i \in Sleepers({event}) => state[i] = "blocked"
    BY DEF Sleepers
  <2>4. sigInterrupted' \in [TaskIds -> BOOLEAN]
    BY <2>1 DEF SysWake, Inv, TypeOK
  <2> QED BY <2>1, <2>2, <2>3, <2>4, <1>16, UnblockStep DEF SysWake
<1>10. CASE \E id \in TaskIds : SysKill(id)
  <2>1. PICK id \in TaskIds : SysKill(id)
    BY <1>10
  <2>2. SamePlace /\ phase' \in Phases /\ {id} \in SUBSET TaskIds
    BY <2>1 DEF SysKill, SamePlace, Phases
  <2> QED BY <2>1, <2>2, <1>16, RaiseStep DEF SysKill
<1>11. CASE SysOther
  BY <1>0, <1>11, <1>16, IdleCallStep DEF SysOther
<1>12. CASE \E g \in TaskIds : SysSetfg(g)
  <2>1. PICK g \in TaskIds : SysSetfg(g)
    BY <1>12
  <2>2. MayUseGroup(g) => g < numTasks
    BY TableFacts DEF MayUseGroup, Children, Inv, GroupsNamed
  <2>3. foreground' \in TaskIds /\ foreground' < numTasks
    BY <1>0, <2>1, <2>2 DEF SysSetfg
  <2> QED BY <2>1, <2>3, <1>16, IdleCallStep DEF SysSetfg
<1>13. CASE ReturnToUser
  BY <1>0, <1>13, <1>16, IdleCallStep DEF ReturnToUser
<1>14. CASE \E arg \in ExitArgs, R \in SUBSET CallEvents : Killed(arg, R)
  <2>1. PICK arg \in ExitArgs, R \in SUBSET CallEvents : Killed(arg, R)
    BY <1>14
  <2>2. arg \in Int
    BY ExitArgsAssumption
  <2> QED BY <2>1, <2>2, <1>16, TaskExitStep DEF Killed
<1>15. CASE UNCHANGED vars
  <2>1. UNCHANGED <<lifetimeVars, state, waitReason, sigInterrupted, current, cr3, foreground, phase>>
    BY <1>15 DEF vars, lifetimeVars
  <2>2. SamePlace /\ phase' \in Phases
    BY <1>0, <2>1 DEF SamePlace
  <2> QED BY <1>0, <2>1, <2>2, <1>16, QuietStep DEF lifetimeVars, Inv, TypeOK
<1> QED
  BY <1>1, <1>2, <1>3, <1>4, <1>5, <1>6, <1>7, <1>8, <1>9, <1>10, <1>11, <1>12, <1>13, <1>14, <1>15
     DEF Next

\* The inductive invariant holds of every behaviour of the task table.
THEOREM Invariance == Spec => []Inv
<1>1. Init => Inv
  BY InitInv
<1>2. Inv /\ [Next]_vars => Inv'
  BY NextInv
<1> QED BY <1>1, <1>2, PTL DEF Spec

\* The status of every task whose parent lives reaches the parent, once.
THEOREM StatusesDelivered == Spec => StatusDelivered
<1>1. Inv /\ [Next]_vars => [StatusStep]_vars
  BY NextInv
<1> QED BY <1>1, Invariance, PTL DEF Spec, StatusDelivered

\* A group that is asked for as new is new.
THEOREM NewGroupsFresh == Spec => NewGroupIsFresh
<1>1. Inv /\ [Next]_vars => [GroupStep]_vars
  BY NextInv
<1> QED BY <1>1, Invariance, PTL DEF Spec, NewGroupIsFresh

\* Type correctness of the task table.
THEOREM TypeCorrect == Spec => []TypeOK
<1>1. Inv => TypeOK
  BY DEF Inv
<1> QED BY <1>1, Invariance, PTL

\* For any number of tasks and trees: schedule(), the sweeper and SYS_WAIT never free the
\* task_t or the page tables that the CPU stands on.
THEOREM CpuSafe == Spec => []OnCpu
<1>1. Inv => OnCpu
  BY DEF Inv
<1> QED BY <1>1, Invariance, PTL

\* Exactly the task on the CPU is TASK_RUNNING.
THEOREM RunningIsCurrent == Spec => []OneRunning
<1>1. Inv => OneRunning
  BY DEF Inv
<1> QED BY <1>1, Invariance, PTL

\* No page-table tree is leaked, shared or destroyed twice by the task table.
THEOREM TreesSafe == Spec => []TreesOwned
<1>1. Inv => TreesOwned
  BY DEF Inv
<1> QED BY <1>1, Invariance, PTL

\* No task sleeps in SYS_WAIT while a child of it is dead.
THEOREM ChildWakeupSafe == Spec => []ChildWaitNotLost
<1>1. Inv => ChildWaitNotLost
  BY DEF Inv
<1> QED BY <1>1, Invariance, PTL

-----------------------------------------------------------------------------
(* Signals.                                                                *)

SigTypes ==
  /\ pending \in [TaskIds -> SUBSET Sigs]
  /\ handlers \in [TaskIds -> SUBSET Catchable]
  /\ active \in [TaskIds -> BOOLEAN]
  /\ call \in [TaskIds -> Calls]
  /\ saved \in [TaskIds -> Calls]

\* The inductive invariant: that of the task table, types, and the re-arm of task_block.
SigInv == Inv /\ SigTypes /\ SleepsOnItsCall

-----------------------------------------------------------------------------
(* How an action ends.                                                     *)

\* Settle keeps the type of a table, and what it holds of a task that stays.
LEMMA SettleKeeps ==
  ASSUME NEW T, NEW f \in [TaskIds -> T], NEW d \in T
  PROVE  /\ Settle(f, d) \in [TaskIds -> T]
         /\ \A i \in TaskIds : state'[i] \notin {"hole", "zombie"} => Settle(f, d)[i] = f[i]
         /\ \A i \in TaskIds : Settle(f, d)[i] \in {f[i], d}
BY DEF Settle, Put

\* No call, and a call with another operation, are calls.
LEMMA CallTypes ==
  /\ NoCall \in Calls
  /\ \A c \in Calls : c.cut \in BOOLEAN /\ c.op \in Events \cup {"none", "child"}
  /\ \A c \in Calls, op \in Events \cup {"none", "child"} :
       [c EXCEPT !.op = op] \in Calls /\ [c EXCEPT !.op = op].op = op
  /\ \A c \in Calls : [c EXCEPT !.cut = TRUE] \in Calls /\ [c EXCEPT !.cut = TRUE].op = c.op
BY DEF NoCall, Calls

\* An action that ends on tables of the right types keeps the types.
LEMMA SettleTypes ==
  ASSUME NEW p \in [TaskIds -> SUBSET Sigs], NEW h \in [TaskIds -> SUBSET Catchable],
         NEW a \in [TaskIds -> BOOLEAN], NEW c \in [TaskIds -> Calls],
         NEW s \in [TaskIds -> Calls],
         SettleAll(p, h, a, c, s)
  PROVE  SigTypes'
<1>1. pending' \in [TaskIds -> SUBSET Sigs]
  BY SettleKeeps DEF SettleAll
<1>2. handlers' \in [TaskIds -> SUBSET Catchable]
  BY SettleKeeps DEF SettleAll
<1>3. active' \in [TaskIds -> BOOLEAN]
  BY SettleKeeps DEF SettleAll
<1>4. call' \in [TaskIds -> Calls] /\ saved' \in [TaskIds -> Calls]
  BY SettleKeeps, CallTypes DEF SettleAll
<1> QED
  BY <1>1, <1>2, <1>3, <1>4 DEF SigTypes

\* Raising a signal keeps the types of what is pending.
LEMMA PendingTypes ==
  ASSUME SigTypes, NEW S, NEW sig \in Sigs
  PROVE  PendingAfter(S, sig) \in [TaskIds -> SUBSET Sigs]
BY DEF PendingAfter, SigTypes

-----------------------------------------------------------------------------
(* Who goes to sleep.                                                      *)

\* Nobody does: who is asleep after the step was before, on the same event.
NoNewSleeper ==
  \A i \in TaskIds :
    state'[i] = "blocked" => state[i] = "blocked" /\ waitReason'[i] = waitReason[i]

\* schedule() puts nobody to sleep who is not asleep in the table it is given.
LEMMA ScheduleSleepers ==
  ASSUME NEW st \in [TaskIds -> States], NEW rs, NEW es, NEW ph,
         Schedule(st, rs, es, ph)
  PROVE  /\ waitReason' = rs
         /\ \A i \in TaskIds : state'[i] = "blocked" => st[i] = "blocked"
BY DEF Schedule, Switch, Put

\* Nor does the timer.
LEMMA TickSleepers == Inv /\ Tick => NoNewSleeper
BY ScheduleSleepers DEF Inv, TypeOK, Tick, NoNewSleeper

\* Nor does the end of the idle loop.
LEMMA IdleExitSleepers == IdleExit => NoNewSleeper
BY DEF IdleExit, Switch, Put, NoNewSleeper

\* Waking somebody up, for an event or a signal, puts nobody to sleep.
LEMMA UnblockSleepers ==
  ASSUME NEW S, Unblock(S)
  PROVE  NoNewSleeper
BY DEF Unblock, Put, NoNewSleeper

\* task_exit wakes sleepers and switches away from a zombie.
LEMMA TaskExitSleepers ==
  ASSUME Inv, NEW arg, NEW R, NEW ph, TaskExit(arg, R, ph)
  PROVE  NoNewSleeper
<1> DEFINE woken == Sleepers(R) \cup WaitingParent
           st == Put(Put(state, woken, "ready"), {current}, "zombie")
           rs == Put(waitReason, woken \cup {current}, "none")
<1>1. st \in [TaskIds -> States]
  BY DEF Put, States, Inv, TypeOK
<1>2. Schedule(st, rs, Put(exitStatus, {current}, arg % 256), ph)
  BY DEF TaskExit
<1>3. waitReason' = rs /\ \A i \in TaskIds : state'[i] = "blocked" => st[i] = "blocked"
  <2> HIDE DEF st, rs
  <2> QED BY <1>1, <1>2, ScheduleSleepers
<1>4. \A i \in TaskIds : st[i] = "blocked" => state[i] = "blocked" /\ rs[i] = waitReason[i]
  BY DEF Put
<1> QED
  BY <1>3, <1>4 DEF NoNewSleeper

\* A new task is ready.
LEMMA SysRunSleepers ==
  ASSUME NEW req, SysRun(req)
  PROVE  NoNewSleeper
BY DEF SysRun, Create, Put, NoNewSleeper

\* The other system calls and returns leave everybody's state alone, or free a dead child.
LEMMA QuietSleepers ==
  ASSUME \/ SysOther \/ ReturnToUser \/ Interrupted \/ WaitFails \/ Collect
         \/ \E g \in TaskIds : SysSetfg(g)
  PROVE  NoNewSleeper
BY DEF SysOther, ReturnToUser, Interrupted, WaitFails, Collect, SysSetfg, Put, NoNewSleeper

\* task_block puts the current task to sleep, and nobody else.
LEMMA SleepSleepers ==
  ASSUME Inv, NEW reason, Sleep(reason)
  PROVE  \A i \in TaskIds :
           state'[i] = "blocked" =>
             \/ i = current /\ waitReason'[i] = reason
             \/ i # current /\ state[i] = "blocked" /\ waitReason'[i] = waitReason[i]
<1> DEFINE st == Put(state, {current}, "blocked")
           rs == Put(waitReason, {current}, reason)
<1>1. st \in [TaskIds -> States]
  BY DEF Put, States, Inv, TypeOK
<1>2. Schedule(st, rs, exitStatus, "return")
  BY DEF Sleep
<1>3. waitReason' = rs /\ \A i \in TaskIds : state'[i] = "blocked" => st[i] = "blocked"
  <2> HIDE DEF st, rs
  <2> QED BY <1>1, <1>2, ScheduleSleepers
<1> QED
  BY <1>3 DEF Put

-----------------------------------------------------------------------------
(* The re-arm.                                                             *)

\* What an action has to keep besides the task table.
Kept == SigTypes' /\ SleepsOnItsCall' /\ FrameStep

\* The call of a task that sleeps after the step is not dropped by Settle.
LEMMA SettledCall ==
  ASSUME NEW c \in [TaskIds -> Calls], call' = Settle(c, NoCall),
         NEW i \in TaskIds, state'[i] = "blocked"
  PROVE  call'[i] = c[i]
BY DEF Settle, Put

\* A frame is kept if the tables an action ends on keep it.
LEMMA SettledFrames ==
  ASSUME NEW a \in [TaskIds -> BOOLEAN], NEW s \in [TaskIds -> Calls],
         active' = Settle(a, FALSE), saved' = Settle(s, NoCall),
         \A i \in TaskIds : active[i] /\ a[i] => s[i] = saved[i]
  PROVE  FrameStep
<1> SUFFICES ASSUME NEW i \in TaskIds, active[i], active'[i]
             PROVE  saved'[i] = saved[i]
  BY DEF FrameStep
<1>1. state'[i] \notin {"hole", "zombie"}
  BY DEF Settle, Put
<1>2. active'[i] = a[i] /\ saved'[i] = s[i]
  BY <1>1 DEF Settle, Put
<1> QED
  BY <1>2

\* A step that puts nobody to sleep, leaves the calls of sleepers alone, and the frames of
\* handlers that go on.
LEMMA SettledStep ==
  ASSUME SigInv, NoNewSleeper,
         NEW p \in [TaskIds -> SUBSET Sigs], NEW h \in [TaskIds -> SUBSET Catchable],
         NEW a \in [TaskIds -> BOOLEAN], NEW c \in [TaskIds -> Calls],
         NEW s \in [TaskIds -> Calls],
         SettleAll(p, h, a, c, s),
         \A i \in TaskIds : state[i] = "blocked" => c[i].op = call[i].op,
         \A i \in TaskIds : active[i] /\ a[i] => s[i] = saved[i]
  PROVE  Kept
<1>1. SigTypes'
  BY SettleTypes
<1>2. SleepsOnItsCall'
  <2> SUFFICES ASSUME NEW i \in TaskIds, state'[i] = "blocked"
               PROVE  call'[i].op = waitReason'[i]
    BY DEF SleepsOnItsCall
  <2>1. call'[i] = c[i]
    BY SettledCall DEF SettleAll
  <2> QED
    BY <2>1 DEF SigInv, SleepsOnItsCall, NoNewSleeper
<1>3. FrameStep
  BY SettledFrames DEF SettleAll
<1> QED
  BY <1>1, <1>2, <1>3 DEF Kept

\* The task that makes a system call, or returns from one, is not asleep.
LEMMA CallerAwake ==
  Inv /\ phase \in {"user", "return"} => state[current] = "running" /\ current \in TaskIds
BY DEF Inv, OneRunning, TypeOK

\* A step that leaves the signal state alone.
LEMMA UnsignalledKept ==
  ASSUME SigInv, NoNewSleeper, Unsignalled
  PROVE  Kept
BY SettledStep DEF SigInv, SigTypes, Unsignalled

\* A table of calls in which only the caller's has changed.
LEMMA CallerMoves ==
  ASSUME SigInv, phase \in {"user", "return"}, NEW c \in Calls
  PROVE  /\ Put(call, {current}, c) \in [TaskIds -> Calls]
         /\ \A i \in TaskIds : state[i] = "blocked" => Put(call, {current}, c)[i].op = call[i].op
<1>1. state[current] = "running"
  BY CallerAwake DEF SigInv
<1> QED
  BY <1>1 DEF Put, SigInv, SigTypes

\* A system call after which its caller is somewhere else in ring 3.
LEMMA ResumeKept ==
  ASSUME SigInv, NoNewSleeper, phase = "user", NEW c \in Calls, Resume(c)
  PROVE  Kept
<1> DEFINE table == Put(call, {current}, c)
<1>1. /\ table \in [TaskIds -> Calls]
      /\ \A i \in TaskIds : state[i] = "blocked" => table[i].op = call[i].op
  BY CallerMoves
<1>2. SettleAll(pending, handlers, active, table, saved)
  BY DEF Resume
<1> HIDE DEF table
<1> QED
  BY <1>1, <1>2, SettledStep DEF SigInv, SigTypes

\* A blocking call that goes to sleep stands on itself.
LEMMA SleepRearms ==
  ASSUME SigInv, NEW reason \in Events \cup {"child"}, Sleep(reason),
         Resume([call[current] EXCEPT !.op = reason])
  PROVE  Kept
<1> DEFINE armed == [call[current] EXCEPT !.op = reason]
           table == Put(call, {current}, armed)
<1>1. armed \in Calls /\ armed.op = reason
  BY CallTypes DEF SigInv, SigTypes, Inv, TypeOK
<1>2. table \in [TaskIds -> Calls]
  BY <1>1, PutType DEF SigInv, SigTypes
<1>3. SettleAll(pending, handlers, active, table, saved)
  BY DEF Resume
<1>4. SigTypes'
  <2> HIDE DEF table
  <2> QED BY <1>2, <1>3, SettleTypes DEF SigInv, SigTypes
<1>5. SleepsOnItsCall'
  <2> SUFFICES ASSUME NEW i \in TaskIds, state'[i] = "blocked"
               PROVE  call'[i].op = waitReason'[i]
    BY DEF SleepsOnItsCall
  <2>1. call'[i] = table[i]
    <3> HIDE DEF table
    <3>1. call' = Settle(table, NoCall)
      BY <1>3 DEF SettleAll
    <3> QED BY <1>2, <3>1, SettledCall
  <2>2. \/ i = current /\ waitReason'[i] = reason
        \/ i # current /\ state[i] = "blocked" /\ waitReason'[i] = waitReason[i]
    BY SleepSleepers DEF SigInv
  <2>3. CASE i = current
    BY <1>1, <2>1, <2>2, <2>3 DEF Put
  <2>4. CASE i # current
    <3>1. table[i] = call[i]
      BY <2>4 DEF Put
    <3> QED BY <2>1, <2>2, <2>4, <3>1 DEF SigInv, SleepsOnItsCall
  <2> QED BY <2>3, <2>4
<1>6. FrameStep
  <2>1. active' = Settle(active, FALSE) /\ saved' = Settle(saved, NoCall)
    BY <1>3 DEF SettleAll
  <2> QED BY <2>1, SettledFrames DEF SigInv, SigTypes
<1> QED
  BY <1>4, <1>5, <1>6 DEF Kept

-----------------------------------------------------------------------------
(* The actions: each is one of Scheduler's, and keeps the signal state.    *)

\* The timer, a key and the end of the idle loop.
LEMMA InterruptSteps ==
  ASSUME SigInv, SigTick \/ SigKeyIRQ \/ SigIdleExit
  PROVE  Next /\ Kept
<1>1. CASE SigTick
  BY <1>1, TickSleepers, UnsignalledKept DEF SigTick, SigInv, Next
<1>2. CASE SigKeyIRQ
  <2>1. PICK event \in IrqEvents : KeyIRQ(event)
    BY <1>2 DEF SigKeyIRQ
  <2>2. NoNewSleeper
    BY <2>1, UnblockSleepers DEF KeyIRQ
  <2> QED BY <1>2, <2>1, <2>2, UnsignalledKept DEF SigKeyIRQ, Next
<1>3. CASE SigIdleExit
  BY <1>3, IdleExitSleepers, UnsignalledKept DEF SigIdleExit, Next
<1> QED
  BY <1>1, <1>2, <1>3

\* Raising a signal: it is pending, and the sleep it ends is noted.
LEMMA RaiseKept ==
  ASSUME SigInv, NoNewSleeper, NEW S, NEW sig \in Sigs, RaiseSig(S, sig)
  PROVE  Kept
<1> DEFINE p == PendingAfter(S, sig)
           c == [i \in TaskIds |-> IF i \in S /\ state[i] = "blocked"
                                   THEN [call[i] EXCEPT !.cut = TRUE] ELSE call[i]]
<1>1. p \in [TaskIds -> SUBSET Sigs]
  BY PendingTypes DEF SigInv
<1>2. \A i \in TaskIds : c[i] \in Calls /\ c[i].op = call[i].op
  BY CallTypes DEF SigInv, SigTypes
<1>3. c \in [TaskIds -> Calls]
  BY <1>2
<1>4. SettleAll(p, handlers, active, c, saved)
  BY DEF RaiseSig
<1> HIDE DEF p, c
<1> QED
  BY <1>1, <1>2, <1>3, <1>4, SettledStep DEF SigInv, SigTypes

\* Ctrl-C.
LEMMA CtrlCStep ==
  ASSUME SigInv, SigCtrlC
  PROVE  Next /\ Kept
<1>1. NoNewSleeper
  BY UnblockSleepers DEF SigCtrlC, CtrlC, Raise
<1> QED
  BY <1>1, RaiseKept, SigsAssumption DEF SigCtrlC, Next

\* SYS_KILL.
LEMMA KillStep ==
  ASSUME SigInv, NEW id \in TaskIds, NEW sig \in Sigs, SigKill(id, sig)
  PROVE  Next /\ Kept
<1>1. NoNewSleeper
  BY UnblockSleepers DEF SigKill, SysKill, Raise
<1> QED
  BY <1>1, RaiseKept DEF SigKill, Next

\* SYS_RUN.
LEMMA RunStep ==
  ASSUME SigInv, SigRun
  PROVE  Next /\ Kept
<1>1. PICK req \in TaskIds \cup {NewGroup} : SysRun(req)
  BY DEF SigRun
<1>2. NoNewSleeper
  BY <1>1, SysRunSleepers
<1> QED
  BY <1>1, <1>2, UnsignalledKept DEF SigRun, Next

\* SYS_SETFG.
LEMMA SetfgStep ==
  ASSUME SigInv, SigSetfg
  PROVE  Next /\ Kept
<1>1. PICK g \in TaskIds : SysSetfg(g)
  BY DEF SigSetfg
<1>2. NoNewSleeper
  BY <1>1, QuietSleepers
<1> QED
  BY <1>1, <1>2, UnsignalledKept DEF SigSetfg, Next

\* SYS_EXIT, and the SYS_SIGRETURN that is refused.
LEMMA ExitStep ==
  ASSUME SigInv, SigExit \/ SigreturnRefused
  PROVE  Next /\ Kept
<1>1. PICK arg \in ExitArgs, R \in SUBSET CallEvents : SysExit(arg, R)
  BY SigsAssumption DEF SigExit, SigreturnRefused
<1>2. NoNewSleeper
  BY <1>1, TaskExitSleepers DEF SysExit, SigInv
<1> QED
  BY <1>1, <1>2, UnsignalledKept DEF SigExit, SigreturnRefused, Next

\* SYS_WAIT.
LEMMA WaitStep ==
  ASSUME SigInv, SigWait
  PROVE  Next /\ Kept
<1>0. NoCall \in Calls
  BY CallTypes
<1>1. CASE Collect /\ Resume(NoCall)
  BY <1>0, <1>1, QuietSleepers, ResumeKept DEF Collect, Next, SysWait
<1>2. CASE WaitFails /\ Resume(NoCall)
  BY <1>0, <1>2, QuietSleepers, ResumeKept DEF WaitFails, Next, SysWait
<1>3. CASE WaitSleeps /\ Resume([call[current] EXCEPT !.op = "child"])
  BY <1>3, SleepRearms DEF WaitSleeps, Next, SysWait
<1> QED
  BY <1>1, <1>2, <1>3 DEF SigWait

\* A blocking call that sleeps or is interrupted.
LEMMA BlockStep ==
  ASSUME SigInv, NEW event \in Events, SigBlock(event)
  PROVE  Next /\ Kept
<1>0. phase = "user" /\ NoCall \in Calls
  BY CallTypes DEF SigBlock, SysBlock
<1>1. CASE Sleep(event)
  <2>1. Resume([call[current] EXCEPT !.op = event])
    BY <1>1 DEF SigBlock, Sleep
  <2> QED BY <1>1, <2>1, SleepRearms DEF SigBlock, Next
<1>2. CASE Interrupted
  <2>1. Resume(NoCall)
    BY <1>2 DEF SigBlock, Interrupted
  <2> QED BY <1>0, <1>2, <2>1, QuietSleepers, ResumeKept DEF SigBlock, Next
<1> QED
  BY <1>1, <1>2 DEF SigBlock, SysBlock

\* A blocking call that finds what it needs.
LEMMA FinishStep ==
  ASSUME SigInv, NEW event \in Events, SigFinish(event)
  PROVE  Next /\ Kept
<1>0. Resume(NoCall) /\ NoCall \in Calls
  BY CallTypes DEF SigFinish
<1>1. CASE SysOther
  BY <1>0, <1>1, QuietSleepers, ResumeKept DEF SysOther, Next
<1>2. CASE \E other \in CallEvents : SysWake(other)
  <2>1. PICK other \in CallEvents : SysWake(other)
    BY <1>2
  <2>2. NoNewSleeper
    BY <2>1, UnblockSleepers DEF SysWake
  <2> QED BY <1>0, <2>1, <2>2, ResumeKept DEF SysWake, Next
<1> QED
  BY <1>1, <1>2 DEF SigFinish

\* A SYS_WRITE into a pipe without readers: the caller is awake, so nobody is cut short.
LEMMA BrokenPipeStep ==
  ASSUME SigInv, SigBrokenPipe
  PROVE  Next /\ Kept
<1> DEFINE p == PendingAfter({current}, SIG_PIPE)
           c == Put(call, {current}, NoCall)
<1>1. SysKill(current) /\ SIG_PIPE \in Sigs /\ phase = "user"
  BY DEF SigBrokenPipe, SysKill
<1>2. NoNewSleeper
  BY <1>1, UnblockSleepers DEF SysKill, Raise
<1>3. p \in [TaskIds -> SUBSET Sigs]
  BY <1>1, PendingTypes DEF SigInv
<1>4. /\ c \in [TaskIds -> Calls]
      /\ \A i \in TaskIds : state[i] = "blocked" => c[i].op = call[i].op
  BY <1>1, CallTypes, CallerMoves
<1>5. SettleAll(p, handlers, active, c, saved)
  BY DEF SigBrokenPipe
<1>6. Next
  BY <1>1, CallerAwake DEF SigInv, Next
<1> HIDE DEF p, c
<1> QED
  BY <1>2, <1>3, <1>4, <1>5, <1>6, SettledStep DEF SigInv, SigTypes

\* SYS_SIGNAL.
LEMMA InstallStep ==
  ASSUME SigInv, NEW sig \in Catchable, NEW on \in BOOLEAN, SigInstall(sig, on)
  PROVE  Next /\ Kept
<1> DEFINE h == [handlers EXCEPT ![current] = IF on /\ sig # SIG_KILL THEN @ \cup {sig}
                                              ELSE @ \ {sig}]
<1>1. SysOther
  BY DEF SigInstall
<1>2. NoNewSleeper
  BY <1>1, QuietSleepers
<1>3. h \in [TaskIds -> SUBSET Catchable]
  BY DEF SigInv, SigTypes
<1>4. SettleAll(pending, h, active, call, saved)
  BY DEF SigInstall
<1> HIDE DEF h
<1> QED
  BY <1>1, <1>2, <1>3, <1>4, SettledStep DEF SigInv, SigTypes, Next

\* SYS_SIGRETURN: the frame goes only when its handler has ended.
LEMMA SigreturnStep ==
  ASSUME SigInv, Sigreturn
  PROVE  Next /\ Kept
<1> DEFINE a == Put(active, {current}, FALSE)
           c == Put(call, {current}, saved[current])
           s == Put(saved, {current}, NoCall)
<1>1. SysOther /\ phase = "user" /\ current \in TaskIds
  BY DEF Sigreturn, SysOther, SigInv, Inv, TypeOK
<1>2. NoNewSleeper
  BY <1>1, QuietSleepers
<1>3. a \in [TaskIds -> BOOLEAN] /\ s \in [TaskIds -> Calls]
  BY CallTypes, PutType DEF SigInv, SigTypes
<1>4. /\ c \in [TaskIds -> Calls]
      /\ \A i \in TaskIds : state[i] = "blocked" => c[i].op = call[i].op
  <2>1. saved[current] \in Calls
    BY <1>1 DEF SigInv, SigTypes
  <2> QED BY <1>1, <2>1, CallerMoves
<1>5. \A i \in TaskIds : active[i] /\ a[i] => s[i] = saved[i]
  BY DEF Put
<1>6. SettleAll(pending, handlers, a, c, s)
  BY DEF Sigreturn
<1> HIDE DEF a, c, s
<1> QED
  BY <1>1, <1>2, <1>3, <1>4, <1>5, <1>6, SettledStep DEF SigInv, SigTypes, Next

\* check_signals: only signals that are pending are acted on, and none in a handler.
LEMMA DueFacts ==
  ASSUME SigInv, phase = "return", NEW sig \in Due
  PROVE  sig \in Sigs /\ ~active[current] /\ current \in TaskIds
BY CallerAwake DEF SigInv, SigTypes, Due, Lowest

\* The default action.
LEMMA DefaultStep ==
  ASSUME SigInv, NEW sig \in Due, DefaultAction(sig)
  PROVE  Next /\ Kept
<1> DEFINE p == Put(pending, {current}, pending[current] \ {sig})
<1>1. PICK R \in SUBSET CallEvents : Killed(SigExitStatus(sig), R)
  BY DEF DefaultAction
<1>2. sig \in Sigs /\ current \in TaskIds
  BY <1>1, DueFacts DEF Killed
<1>3. NoNewSleeper
  BY <1>1, TaskExitSleepers DEF Killed, SigInv
<1>4. p \in [TaskIds -> SUBSET Sigs]
  BY <1>2 DEF Put, SigInv, SigTypes
<1>5. SettleAll(p, handlers, active, call, saved)
  BY DEF DefaultAction
<1>6. Next
  BY <1>1, <1>2, SigsAssumption DEF Next
<1> HIDE DEF p
<1> QED
  BY <1>3, <1>4, <1>5, <1>6, SettledStep DEF SigInv, SigTypes

\* deliver_to_handler.
LEMMA DeliverStep ==
  ASSUME SigInv, NEW sig \in Due, Deliver(sig)
  PROVE  Next /\ Kept
<1> DEFINE p == Put(pending, {current}, pending[current] \ {sig})
           a == Put(active, {current}, TRUE)
           c == Put(call, {current}, NoCall)
           s == Put(saved, {current}, call[current])
<1>1. ReturnToUser /\ phase = "return"
  BY DEF Deliver, ReturnToUser
<1>2. sig \in Sigs /\ current \in TaskIds /\ ~active[current]
  BY <1>1, DueFacts
<1>3. NoNewSleeper
  BY <1>1, QuietSleepers
<1>4. p \in [TaskIds -> SUBSET Sigs]
  BY <1>2 DEF Put, SigInv, SigTypes
<1>5. a \in [TaskIds -> BOOLEAN] /\ s \in [TaskIds -> Calls]
  BY <1>2 DEF Put, SigInv, SigTypes
<1>6. /\ c \in [TaskIds -> Calls]
      /\ \A i \in TaskIds : state[i] = "blocked" => c[i].op = call[i].op
  BY <1>1, CallTypes, CallerMoves
<1>7. \A i \in TaskIds : active[i] /\ a[i] => s[i] = saved[i]
  BY <1>2 DEF Put
<1>8. SettleAll(p, handlers, a, c, s)
  BY DEF Deliver
<1>9. Next
  BY <1>1 DEF Next
<1> HIDE DEF p, a, c, s
<1> QED
  BY <1>3, <1>4, <1>5, <1>6, <1>7, <1>8, <1>9, SettledStep DEF SigInv, SigTypes

\* The rest of check_signals: nothing to do, or no room for the frame.
LEMMA CheckStep ==
  ASSUME SigInv, SigCheck
  PROVE  Next /\ Kept
<1>1. CASE NothingDue
  BY <1>1, QuietSleepers, UnsignalledKept DEF NothingDue, Next
<1>2. ASSUME NEW sig \in Due, NoRoom(sig)
      PROVE  Next /\ Kept
  <2>1. PICK R \in SUBSET CallEvents : Killed(SigExitStatus(SIG_SEGV), R)
    BY <1>2 DEF NoRoom
  <2>2. NoNewSleeper
    BY <2>1, TaskExitSleepers DEF Killed, SigInv
  <2> QED BY <1>2, <2>1, <2>2, UnsignalledKept, SigsAssumption DEF NoRoom, Next
<1> QED
  BY <1>1, <1>2, DefaultStep, DeliverStep DEF SigCheck

-----------------------------------------------------------------------------
(* The whole.                                                              *)

\* The first entry into ring 3.
LEMMA SigInitInv == SigInit => SigInv
<1> SUFFICES ASSUME SigInit PROVE SigInv
  OBVIOUS
<1>1. Inv
  BY InitInv DEF SigInit
<1>2. SigTypes
  BY CallTypes DEF SigInit, SigTypes
<1>3. SleepsOnItsCall
  BY DEF SigInit, Init, Put, SleepsOnItsCall
<1> QED
  BY <1>1, <1>2, <1>3 DEF SigInv

\* Every step with signals is a step of the task table, and keeps the invariant.
LEMMA SigNextInv == SigInv /\ [SigNext]_allVars => SigInv' /\ [Next]_vars /\ FrameStep
<1> SUFFICES ASSUME SigInv, [SigNext]_allVars
             PROVE  SigInv' /\ [Next]_vars /\ FrameStep
  OBVIOUS
<1>1. CASE SigNext
  <2>1. Next /\ Kept
    BY <1>1, InterruptSteps, CtrlCStep, KillStep, RunStep, SetfgStep, ExitStep, WaitStep,
       BlockStep, FinishStep, BrokenPipeStep, InstallStep, SigreturnStep, CheckStep
    DEF SigNext
  <2>2. Inv'
    BY <2>1, NextInv DEF SigInv
  <2> QED
    BY <2>1, <2>2 DEF Kept, SigInv
<1>2. CASE UNCHANGED allVars
  <2>1. UNCHANGED vars /\ UNCHANGED <<pending, handlers, active, call, saved>>
    BY <1>2 DEF allVars, sigVars
  <2>2. Inv'
    BY <2>1, NextInv DEF SigInv
  <2>3. SigTypes' /\ FrameStep
    BY <2>1 DEF SigInv, SigTypes, FrameStep
  <2>4. SleepsOnItsCall'
    BY <2>1 DEF SigInv, SleepsOnItsCall, vars
  <2> QED
    BY <2>1, <2>2, <2>3, <2>4 DEF SigInv
<1> QED
  BY <1>1, <1>2

\* The invariant holds always.
THEOREM SigInvariance == SigSpec => []SigInv
<1>1. SigInv /\ [SigNext]_allVars => SigInv'
  BY SigNextInv
<1> QED BY <1>1, SigInitInv, PTL DEF SigSpec

\* For any tasks and signals: raising, handlers, SYS_SIGRETURN and check_signals do nothing
\* to the task table that Scheduler does not allow.
THEOREM SignalsImplementScheduler == SigSpec => Spec
<1>1. SigInit => Init
  BY DEF SigInit
<1>2. SigInv /\ [SigNext]_allVars => [Next]_vars
  BY SigNextInv
<1> QED BY <1>1, <1>2, SigInvariance, PTL DEF SigSpec, Spec

\* So with signals, too, nothing frees the task_t or the page tables the CPU stands on.
THEOREM CpuSafeWithSignals == SigSpec => []OnCpu
BY SignalsImplementScheduler, CpuSafe, PTL

\* And the status of a task that a signal killed reaches its parent, once.
THEOREM StatusesDeliveredWithSignals == SigSpec => StatusDelivered
BY SignalsImplementScheduler, StatusesDelivered, PTL

\* Whoever task_block put to sleep wakes up on the call that looks for the event it was
\* put to sleep for, whatever handlers and signals came in between.
THEOREM SleepersRearmed == SigSpec => []SleepsOnItsCall
<1>1. SigInv => SleepsOnItsCall
  BY DEF SigInv
<1> QED BY <1>1, SigInvariance, PTL

\* check_signals never replaces the frame of a handler that is running.
THEOREM FramesKept == SigSpec => FrameKept
<1>1. SigInv /\ [SigNext]_allVars => [FrameStep]_allVars
  BY SigNextInv
<1> QED BY <1>1, SigInvariance, PTL DEF SigSpec, FrameKept
=============================================================================
