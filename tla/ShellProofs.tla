----------------------------- MODULE ShellProofs -----------------------------
(***************************************************************************)
(* The shell's jobs, for every number of tasks, pipes, descriptors and     *)
(* stages: whatever fails on the way and whenever Ctrl-C comes, nothing of *)
(* a job outlives it, Ctrl-C means the job and the status reported is that *)
(* of the last stage.                                                      *)
(***************************************************************************)
EXTENDS Shell, DescriptorsProofs

Pcs == {"prompt", "key", "use", "pipe", "run", "close", "setfg", "wait", "restore"}
Places == Fds \cup {-1}
ShellRecords ==
  [pc : Pcs, n : Nat, i : Nat, in : Places, out : Places, next : Places, job : TaskIds,
   last : TaskIds \cup {-1}, started : Nat, ok : BOOLEAN, found : BOOLEAN, refused : BOOLEAN]
LineRecords ==
  [len : Nat, old : Nat, key : {"none", "char", "back", "enter"}, late : BOOLEAN,
   abandoned : BOOLEAN]

\* The keyboard ring stays out of it: keys come to the shell one by one.
Quiet == kbd.r = 0 /\ kbd.w = 0 /\ eof = FALSE

ShellTypeOK ==
  /\ pgid \in [TaskIds -> TaskIds] /\ foreground \in TaskIds
  /\ sh \in ShellRecords

\* The shell's table holds its consoles and the ends that its locals name, each once.  While
\* stages are being started, next_in is set only where there is a next stage.
Carried(s) == {s.in, s.out, s.next} \ {-1}
Apart(s) ==
  /\ s.in # -1 => s.in \notin {s.out, s.next}
  /\ s.out # -1 => s.out # s.next
  /\ s.in \notin {0, 1} /\ s.out \notin {0, 1} /\ s.next \notin {0, 1}
Table ==
  /\ fds[0][0] = ConsoleIn /\ fds[0][1] = ConsoleOut
  /\ \A fd \in Fds \ {0, 1} : fds[0][fd] = Closed <=> fd \notin Carried(sh)
  /\ Apart(sh)
Wired(s) ==
  /\ s.pc \in {"prompt", "key", "use", "setfg", "wait", "restore"} => Carried(s) = {}
  /\ s.pc = "pipe" => s.out = -1 /\ s.next = -1 /\ s.i < s.n - 1
  /\ s.pc \in {"pipe", "run"} => s.ok
  /\ s.pc \in {"run", "close"} /\ s.ok /\ ~ (s.i < s.n - 1) => s.next = -1

\* A task that has exited holds no descriptor.
DeadHoldNothing ==
  \A t \in TaskIds : mode[t] \in {"exited", "gone"} => \A fd \in Fds : fds[t][fd] = Closed

\* Where the shell may be asleep; a call of it is cut short at the prompt only.
ShellAwake ==
  /\ mode[0] \in {"awake", "KEY", "CHILD"}
  /\ mode[0] = "KEY" => sh.pc = "prompt"
  /\ mode[0] = "CHILD" => sh.pc = "wait" /\ Children \ Dead # {}
  /\ cut[0] => sh.pc = "prompt" /\ mode[0] = "awake"

\* The shell's count of its children is right, and so is its idea of their group.
Family ==
  /\ pgid[0] = 0
  /\ sh.pc \in {"prompt", "key", "use", "restore"} => Children = {}
  /\ sh.pc \in {"pipe", "run", "close", "setfg", "wait"} => sh.started = Cardinality(Children)
  /\ sh.pc \in {"pipe", "run", "close"} => (sh.job = 0 <=> sh.started = 0)
  /\ sh.pc \in {"setfg", "wait"} => sh.job # 0 /\ sh.started # 0
  /\ \A t \in Children \ Dead : pgid[t] = sh.job
  /\ sh.pc \notin {"wait", "restore"} => foreground = 0
  /\ sh.pc = "wait" /\ Children \ Dead # {} => foreground = sh.job
  /\ sh.last # -1 => sh.last \in Children \/ sh.found

ShellInv ==
  /\ Inv /\ Quiet /\ ShellTypeOK /\ Table /\ Wired(sh) /\ DeadHoldNothing /\ ShellAwake /\ Family

\* All that matters of the shell's locals while a line is being typed.
HasPc(s) == "pc" \in DOMAIN s

\* What is left of a line that the handler has abandoned, while read_line goes on.
LineInv ==
  /\ line \in LineRecords /\ HasPc(sh)
  /\ sh.pc \in {"key", "use"} => line.key # "none"
  /\ ~ line.abandoned => line.old <= 1
  /\ sh.pc = "key" /\ line.late => line.abandoned
  /\ sh.pc = "use" /\ line.late /\ ~ line.abandoned => line.len = 0
  /\ sh.pc = "use" /\ line.abandoned => line.late

-----------------------------------------------------------------------------
(* The control flow, as far as it does not touch the system.               *)

\* The shell is a task, and its consoles are in the first two places of its table.
LEMMA Basics ==
  /\ 0 \in TaskIds /\ 0 \in Fds /\ 1 \in Fds /\ -1 \notin Fds /\ -1 \notin TaskIds
  /\ ConsoleIn # Closed /\ ConsoleOut # Closed
BY SizesAssumption DEF TaskIds, Fds, ConsoleIn, ConsoleOut, Closed

\* A record before GoOn looks at it: between two stages, or after one that did not start.
Between(s) ==
  /\ s \in ShellRecords /\ Apart(s)
  /\ s.ok /\ ~ (s.i < s.n - 1) => s.next = -1
  /\ s.job = 0 <=> s.started = 0

\* What GoOn makes of it: it forgets no descriptor and no child.
GoesOn(s, r) ==
  /\ r \in ShellRecords /\ Apart(r) /\ Wired(r)
  /\ r.pc \in {"pipe", "run", "close", "setfg", "prompt", "restore"}
  /\ Carried(r) = Carried(s)
  /\ r.last = -1 \/ (r.last = s.last /\ r.found = s.found)
  /\ r.pc \in {"pipe", "run", "close"} =>
       r.job = s.job /\ r.started = s.started /\ (r.job = 0 <=> r.started = 0)
  /\ r.pc = "setfg" => r.job = s.job /\ r.started = s.started /\ r.job # 0 /\ r.started # 0
  /\ r.pc \in {"prompt", "restore"} => s.started = 0

\* The shell at its prompt carries nothing.
LEMMA PromptRecord ==
  /\ AtPrompt \in ShellRecords /\ Apart(AtPrompt) /\ Wired(AtPrompt) /\ Carried(AtPrompt) = {}
  /\ AtPrompt.pc = "prompt" /\ AtPrompt.last = -1 /\ AtPrompt.started = 0 /\ AtPrompt.job = 0
BY Basics DEF AtPrompt, ShellRecords, Places, Pcs, Apart, Wired, Carried

\* The record r is s in every field that outlives a stage.
SameJob(s, r) ==
  /\ r.n = s.n /\ r.job = s.job /\ r.started = s.started /\ r.last = s.last
  /\ r.found = s.found /\ r.ok = s.ok

\* A step of the shell's program that only moves on.
LEMMA MovesOn ==
  ASSUME NEW s \in ShellRecords, NEW pc \in Pcs
  PROVE  LET r == [s EXCEPT !.pc = pc]
         IN /\ r \in ShellRecords /\ SameJob(s, r) /\ r.pc = pc
            /\ r.i = s.i /\ r.in = s.in /\ r.out = s.out /\ r.next = s.next
<1> DEFINE r == [s EXCEPT !.pc = pc]
<1>1. r \in ShellRecords
  BY Zenon DEF ShellRecords
<1>2. /\ r.n = s.n /\ r.job = s.job /\ r.started = s.started /\ r.last = s.last
      /\ r.found = s.found /\ r.ok = s.ok /\ r.pc = pc
      /\ r.i = s.i /\ r.in = s.in /\ r.out = s.out /\ r.next = s.next
  BY DEF ShellRecords
<1> QED BY <1>1, <1>2 DEF SameJob

\* The same descriptors are carried, and are as far apart as before.
LEMMA SameEnds ==
  ASSUME NEW s, NEW r, r.in = s.in, r.out = s.out, r.next = s.next, Apart(s)
  PROVE  Carried(r) = Carried(s) /\ Apart(r)
BY Zenon DEF Carried, Apart

\* The shell goes on as it should.
LEMMA GoOnStep ==
  ASSUME NEW s, Between(s)
  PROVE  GoesOn(s, GoOn(s))
<1> DEFINE r == GoOn(s)
<1> SUFFICES GoesOn(s, r)
  OBVIOUS
<1>0. s \in ShellRecords /\ Apart(s) /\ (s.job = 0 <=> s.started = 0)
  BY DEF Between
<1>1. CASE ToClose(s) # "none"
  <2>1. r = [s EXCEPT !.pc = "close"]
    BY <1>1 DEF GoOn
  <2> HIDE DEF r
  <2>2. /\ r \in ShellRecords /\ SameJob(s, r) /\ r.pc = "close"
        /\ r.i = s.i /\ r.in = s.in /\ r.out = s.out /\ r.next = s.next
    BY <1>0, <2>1, MovesOn, Zenon DEF Pcs
  <2>3. Carried(r) = Carried(s) /\ Apart(r)
    BY <1>0, <2>2, SameEnds
  <2>4. Wired(r)
    BY <2>2 DEF Between, Wired, SameJob
  <2> QED BY <1>0, <2>2, <2>3, <2>4 DEF GoesOn, SameJob
<1>2. CASE ToClose(s) = "none" /\ s.ok /\ s.i < s.n - 1
  <2> DEFINE pc == IF s.i + 1 = s.n - 1 THEN "run" ELSE "pipe"
  <2>1. r = [s EXCEPT !.i = s.i + 1, !.pc = pc, !.in = s.next, !.out = -1, !.next = -1]
    BY <1>2 DEF GoOn, NextStage
  <2>2. s.in = -1 /\ s.out = -1 /\ s.next \in Places /\ -1 \in Places
    BY <1>0, <1>2 DEF ToClose, ShellRecords, Places
  <2>3. s.i \in Nat /\ s.n \in Nat /\ s.i + 1 \in Nat /\ pc \in Pcs /\ pc \in {"run", "pipe"}
    BY <1>0 DEF ShellRecords, Pcs
  <2>0. pc = "pipe" => s.i + 1 < s.n - 1
    BY <1>2, <2>3
  <2> HIDE DEF r, pc
  <2>4. r \in ShellRecords
    BY <1>0, <2>1, <2>2, <2>3, Zenon DEF ShellRecords
  <2>5. /\ r.in = s.next /\ r.out = -1 /\ r.next = -1 /\ r.i = s.i + 1 /\ r.pc = pc
        /\ SameJob(s, r)
    BY <1>0, <2>1 DEF ShellRecords, SameJob
  <2>6. Carried(r) = Carried(s) /\ Apart(r)
    BY <1>0, <2>2, <2>5, Basics DEF Apart, Carried
  <2>7. Wired(r)
    BY <1>2, <2>0, <2>3, <2>5 DEF Wired, SameJob
  <2> QED BY <1>0, <2>3, <2>4, <2>5, <2>6, <2>7 DEF GoesOn, SameJob
<1>3. CASE ToClose(s) = "none" /\ ~ (s.ok /\ s.i < s.n - 1)
  <2>1. r = Drained(s)
    BY <1>3 DEF GoOn
  <2>2. s.in = -1 /\ s.out = -1 /\ s.next = -1
    BY <1>3 DEF ToClose, Between
  <2>3. Carried(s) = {}
    BY <2>2 DEF Carried
  <2> HIDE DEF r
  <2>4. CASE s.job # 0
    <3>1. r = [s EXCEPT !.pc = "setfg"]
      BY <2>1, <2>4 DEF Drained
    <3>2. /\ r \in ShellRecords /\ SameJob(s, r) /\ r.pc = "setfg"
          /\ r.i = s.i /\ r.in = s.in /\ r.out = s.out /\ r.next = s.next
      BY <1>0, <3>1, MovesOn, Zenon DEF Pcs
    <3>3. Carried(r) = Carried(s) /\ Apart(r)
      BY <1>0, <3>2, SameEnds
    <3>4. Wired(r)
      BY <2>3, <3>2, <3>3 DEF Wired
    <3> QED BY <1>0, <2>4, <3>2, <3>3, <3>4 DEF GoesOn, SameJob
  <2>5. CASE s.job = 0 /\ s.n > 1
    <3>1. r = [s EXCEPT !.pc = "restore"]
      BY <2>1, <2>5 DEF Drained
    <3>2. /\ r \in ShellRecords /\ SameJob(s, r) /\ r.pc = "restore"
          /\ r.i = s.i /\ r.in = s.in /\ r.out = s.out /\ r.next = s.next
      BY <1>0, <3>1, MovesOn, Zenon DEF Pcs
    <3>3. Carried(r) = Carried(s) /\ Apart(r)
      BY <1>0, <3>2, SameEnds
    <3>4. Wired(r)
      BY <2>3, <3>2, <3>3 DEF Wired
    <3> QED BY <1>0, <2>5, <3>2, <3>3, <3>4 DEF GoesOn, SameJob
  <2>6. CASE s.job = 0 /\ ~ (s.n > 1)
    <3>1. r = AtPrompt
      BY <2>1, <2>6 DEF Drained
    <3>2. s.started = 0
      BY <1>0, <2>6
    <3> HIDE DEF r
    <3> QED BY <2>3, <3>1, <3>2, PromptRecord DEF GoesOn
  <2> QED BY <2>4, <2>5, <2>6
<1> QED BY <1>1, <1>2, <1>3

-----------------------------------------------------------------------------
(* What the others do, as the shell sees it.                               *)

Living == {"awake", "PIPE_READ", "PIPE_WRITE", "KEY", "CHILD"}

\* Nobody is born, dies or is collected.
StaysAlive ==
  \A t \in TaskIds : mode'[t] = mode[t] \/ (mode[t] \in Living /\ mode'[t] \in Living)

\* Then the shell's children are what they were.
LEMMA SameKin ==
  ASSUME StaysAlive
  PROVE  Children' = Children /\ Dead' = Dead
BY DEF StaysAlive, Living, Children, Dead

\* scheduler_wake is such a step.
LEMMA WakingStaysAlive ==
  ASSUME TypeOK, NEW R \in SUBSET (SleepModes \cup {"CHILD"})
  PROVE  \A t \in TaskIds : \/ Woken(mode, R)[t] = mode[t]
                            \/ mode[t] \in Living \ {"awake"} /\ Woken(mode, R)[t] = "awake"
BY Zenon DEF Woken, SleepModes, Living

\* So far as the shell's own tables and records are concerned, nothing happens.
LEMMA Bystanders ==
  ASSUME ShellInv, Inv', Quiet', StaysAlive, ShellAwake', UNCHANGED <<fds, pgid, foreground, sh>>
  PROVE  ShellInv'
<1>1. Children' = Children /\ Dead' = Dead
  BY SameKin
<1>2. Family'
  BY <1>1 DEF ShellInv, Family
<1>3. DeadHoldNothing'
  BY DEF ShellInv, DeadHoldNothing, StaysAlive, Living
<1>4. ShellTypeOK' /\ Table' /\ Wired(sh)'
  BY DEF ShellInv, ShellTypeOK, Table, Wired, Carried, Apart
<1> QED BY <1>2, <1>3, <1>4 DEF ShellInv

\* The shell alone takes a step, and carries the same descriptors.
LEMMA ShellAlone ==
  ASSUME ShellInv, UNCHANGED <<vars, pgid>>, foreground' \in TaskIds, sh' \in ShellRecords,
         Apart(sh'), Wired(sh'), Carried(sh') = Carried(sh), ShellAwake', Family'
  PROVE  ShellInv'
<1>1. Inv' /\ Quiet' /\ DeadHoldNothing'
  <2>1. NoNewSleeper
    BY DEF NoNewSleeper, vars
  <2>2. mode' \in [TaskIds -> Modes] /\ call' \in [TaskIds -> Calls] /\ cut' \in [TaskIds -> BOOLEAN]
    BY DEF ShellInv, Inv, TypeOK, vars
  <2>3. Inv'
    BY <2>1, <2>2, OnlyWakes DEF ShellInv, vars
  <2> QED BY <2>3 DEF ShellInv, Quiet, DeadHoldNothing, vars
<1>2. ShellTypeOK'
  BY DEF ShellInv, ShellTypeOK
<1>3. Table'
  BY DEF ShellInv, Table, vars, Carried, Apart
<1>4. Wired(sh)'
  BY DEF Wired, Carried
<1> QED BY <1>1, <1>2, <1>3, <1>4 DEF ShellInv

-----------------------------------------------------------------------------
(* A step after which the shell goes on with its stages.                   *)

Ready(s) ==
  /\ Inv' /\ Quiet' /\ DeadHoldNothing' /\ Between(s)
  /\ pgid' \in [TaskIds -> TaskIds] /\ pgid'[0] = 0 /\ foreground' = 0
  /\ fds'[0][0] = ConsoleIn /\ fds'[0][1] = ConsoleOut
  /\ \A fd \in Fds \ {0, 1} : fds'[0][fd] = Closed <=> fd \notin Carried(s)
  /\ mode'[0] = "awake" /\ ~ cut'[0]
  /\ s.started = Cardinality(Children')
  /\ \A t \in Children' \ Dead' : pgid'[t] = s.job
  /\ s.last # -1 => s.last \in Children' \/ s.found

\* No child is counted exactly when there is none.
LEMMA NoChildren ==
  ASSUME NEW K \in SUBSET TaskIds
  PROVE  IsFiniteSet(K) /\ Cardinality(K) \in Nat /\ (Cardinality(K) = 0 <=> K = {})
<1>1. IsFiniteSet(K)
  BY Finite, FS_Subset
<1> QED BY <1>1, FS_EmptySet, FS_CardinalityType

\* It ends in a state in which everything is in order.
LEMMA Settled ==
  ASSUME NEW s, Ready(s), sh' = GoOn(s)
  PROVE  ShellInv'
<1>1. GoesOn(s, sh')
  BY GoOnStep DEF Ready
<1>2. Cardinality(Children') = 0 <=> Children' = {}
  <2>1. Children' \in SUBSET TaskIds
    BY DEF Children
  <2> QED BY <2>1, NoChildren
<1>3. ShellTypeOK'
  BY <1>1, Basics DEF ShellTypeOK, Ready, GoesOn
<1>4. Table' /\ Wired(sh)'
  <2>1. Carried(sh') = Carried(s) /\ Apart(sh') /\ Wired(sh')
    BY <1>1 DEF GoesOn
  <2> QED BY <2>1 DEF Ready, Table, Wired, Carried, Apart
<1>5. ShellAwake'
  BY DEF Ready, ShellAwake
<1>6. Family'
  <2> DEFINE r == sh'
             K == Children'
             D == Dead'
  <2>1. /\ r.pc \in {"pipe", "run", "close", "setfg", "prompt", "restore"}
        /\ r.last = -1 \/ (r.last = s.last /\ r.found = s.found)
        /\ r.pc \in {"pipe", "run", "close"} =>
             r.job = s.job /\ r.started = s.started /\ (r.job = 0 <=> r.started = 0)
        /\ r.pc = "setfg" => r.job = s.job /\ r.started = s.started /\ r.job # 0 /\ r.started # 0
        /\ r.pc \in {"prompt", "restore"} => s.started = 0
    BY <1>1 DEF GoesOn
  <2>2. /\ pgid'[0] = 0 /\ foreground' = 0 /\ s.started = Cardinality(K)
        /\ \A t \in K \ D : pgid'[t] = s.job
        /\ s.last # -1 => s.last \in K \/ s.found
    BY DEF Ready
  <2>3. Cardinality(K) = 0 <=> K = {}
    BY <1>2
  <2> SUFFICES
        /\ pgid'[0] = 0
        /\ r.pc \in {"prompt", "key", "use", "restore"} => K = {}
        /\ r.pc \in {"pipe", "run", "close", "setfg", "wait"} => r.started = Cardinality(K)
        /\ r.pc \in {"pipe", "run", "close"} => (r.job = 0 <=> r.started = 0)
        /\ r.pc \in {"setfg", "wait"} => r.job # 0 /\ r.started # 0
        /\ \A t \in K \ D : pgid'[t] = r.job
        /\ r.pc \notin {"wait", "restore"} => foreground' = 0
        /\ r.pc = "wait" /\ K \ D # {} => foreground' = r.job
        /\ r.last # -1 => r.last \in K \/ r.found
    BY DEF Family
  <2> HIDE DEF r, K, D
  <2>4. \A t \in K \ D : pgid'[t] = r.job
    BY <2>1, <2>2, <2>3
  <2> QED BY <2>1, <2>2, <2>3, <2>4
<1> QED BY <1>3, <1>4, <1>5, <1>6 DEF ShellInv, Ready

-----------------------------------------------------------------------------
(* The prompt.                                                             *)

\* Nothing has been typed that the shell has not asked for.
LEMMA NoKeyWaiting == ASSUME Quiet PROVE KbdUsed = 0
<1>1. KbdSize \in Nat \ {0}
  BY SizesFit
<1>2. (0 + KbdSize - 0) % KbdSize = 0
  BY <1>1
<1> QED BY <1>2 DEF Quiet, KbdUsed, Used

LEMMA AwaitKeyStep == ShellInv /\ AwaitKey => ShellInv'
<1> SUFFICES ASSUME ShellInv, AwaitKey PROVE ShellInv'
  OBVIOUS
<1>1. mode[0] = "awake" /\ sh.pc = "prompt" /\ Block(0, NoCall, "KEY")
      /\ UNCHANGED <<fds, kbd, eof, pgid, foreground, sh>>
  BY DEF AwaitKey, At, Block
<1>2. 0 \in TaskIds /\ mode \in [TaskIds -> Modes] /\ cut \in [TaskIds -> BOOLEAN] /\ Inv
      /\ mode[0] \in {"awake", "KEY", "CHILD"}
  BY Basics DEF ShellInv, Inv, TypeOK, ShellAwake
<1>3. Inv'
  <2>1. NoCall \in Calls /\ "KEY" \in SleepModes /\ KbdUsed = 0 /\ ~ eof
    BY CallsTyped, NoKeyWaiting, Zenon DEF SleepModes, ShellInv, Quiet
  <2> QED BY <1>1, <1>2, <2>1, BlockStep
<1>4. StaysAlive /\ mode'[0] \in {"awake", "KEY"} /\ ~ cut'[0]
  BY <1>1, <1>2 DEF Block, StaysAlive, Living
<1>5. Quiet'
  BY <1>1 DEF ShellInv, Quiet
<1>6. ShellAwake'
  BY <1>1, <1>4 DEF ShellAwake
<1> QED BY <1>1, <1>3, <1>4, <1>5, <1>6, Bystanders

\* Moving on within read_line.
LEMMA KeyInHand ==
  ASSUME ShellInv, sh.pc \in {"prompt", "key", "use"}, NEW pc \in {"key", "use"},
         sh' = [sh EXCEPT !.pc = pc], UNCHANGED <<fds, pgid, foreground>>, StaysAlive
  PROVE  /\ ShellTypeOK' /\ Table' /\ Wired(sh)' /\ Family' /\ DeadHoldNothing'
         /\ sh' \in ShellRecords /\ Apart(sh') /\ Wired(sh') /\ Carried(sh') = Carried(sh)
         /\ sh'.pc = pc
<1>1. sh \in ShellRecords /\ Apart(sh) /\ Carried(sh) = {}
  BY DEF ShellInv, ShellTypeOK, Table, Wired
<1>2. /\ sh' \in ShellRecords /\ SameJob(sh, sh') /\ sh'.pc = pc
      /\ sh'.i = sh.i /\ sh'.in = sh.in /\ sh'.out = sh.out /\ sh'.next = sh.next
  <2>1. pc \in Pcs
    BY DEF Pcs
  <2> QED BY <1>1, <2>1, MovesOn
<1>3. Carried(sh') = Carried(sh) /\ Apart(sh')
  BY <1>1, <1>2, SameEnds, Zenon
<1>4. Wired(sh')
  BY <1>1, <1>2, <1>3 DEF Wired
<1>5. Children' = Children /\ Dead' = Dead
  BY SameKin
<1>6. Family'
  BY <1>2, <1>5 DEF ShellInv, Family, SameJob
<1>7. DeadHoldNothing'
  BY DEF ShellInv, DeadHoldNothing, StaysAlive, Living
<1>8. ShellTypeOK'
  BY <1>2 DEF ShellInv, ShellTypeOK
<1>9. Table' /\ Wired(sh)'
  BY <1>3, <1>4 DEF ShellInv, Table, Wired, Carried, Apart
<1> QED BY <1>2, <1>3, <1>4, <1>6, <1>7, <1>8, <1>9

\* The only step that a key typed ahead would break: it finds the shell asleep, so that no
\* signal that came meanwhile is left noted.
LEMMA KeyReadStep ==
  ASSUME ShellInv, NEW key, KeyRead(key), TypeAhead = FALSE
  PROVE  ShellInv'
<1>1. /\ sh.pc = "prompt" /\ mode[0] = "KEY" /\ mode' = [mode EXCEPT ![0] = "awake"]
      /\ sh' = [sh EXCEPT !.pc = "key"]
      /\ UNCHANGED <<call, cut, fds, pipe, kbd, eof, pgid, foreground>>
  BY DEF KeyRead
<1>2. 0 \in TaskIds /\ mode \in [TaskIds -> Modes] /\ call \in [TaskIds -> Calls]
      /\ cut \in [TaskIds -> BOOLEAN] /\ Inv
  BY Basics DEF ShellInv, Inv, TypeOK
<1>3. mode' \in [TaskIds -> Modes] /\ call' \in [TaskIds -> Calls] /\ cut' \in [TaskIds -> BOOLEAN]
  BY <1>1, <1>2 DEF Modes
<1>4. NoNewSleeper /\ StaysAlive /\ mode'[0] = "awake"
  BY <1>1, <1>2 DEF NoNewSleeper, SleepModes, StaysAlive, Living
<1>5. Inv'
  BY <1>1, <1>2, <1>3, <1>4, OnlyWakes
<1>6. ShellTypeOK' /\ Table' /\ Wired(sh)' /\ Family' /\ DeadHoldNothing' /\ sh'.pc = "key"
  BY <1>1, <1>4, KeyInHand
<1>7. ~ cut'[0]
  BY <1>1 DEF ShellInv, ShellAwake
<1>8. ShellAwake'
  BY <1>4, <1>6, <1>7 DEF ShellAwake
<1>9. Quiet'
  BY <1>1 DEF ShellInv, Quiet
<1> QED BY <1>5, <1>6, <1>8, <1>9 DEF ShellInv

LEMMA CheckAbandonedStep == ShellInv /\ CheckAbandoned => ShellInv'
<1> SUFFICES ASSUME ShellInv, CheckAbandoned PROVE ShellInv'
  OBVIOUS
<1>1. /\ mode[0] = "awake" /\ sh.pc = "key" /\ sh' = [sh EXCEPT !.pc = "use"]
      /\ UNCHANGED <<vars, pgid, foreground>> /\ UNCHANGED <<mode, cut, fds>>
  BY DEF CheckAbandoned, At, vars
<1>2. StaysAlive
  BY <1>1 DEF StaysAlive
<1>3. /\ Family' /\ sh' \in ShellRecords /\ Apart(sh') /\ Wired(sh')
      /\ Carried(sh') = Carried(sh)
  BY <1>1, <1>2, KeyInHand
<1>4. ShellAwake' /\ foreground' \in TaskIds
  BY <1>1 DEF ShellInv, ShellAwake, ShellTypeOK
<1> QED BY <1>1, <1>3, <1>4, ShellAlone

\* Back at the prompt, or off with a new job.
LEMMA NewLine ==
  ASSUME ShellInv, mode[0] = "awake", sh.pc \in {"use", "restore"}, UNCHANGED <<vars, pgid>>,
         foreground' = 0, sh' \in ShellRecords, Apart(sh'), Wired(sh'), Carried(sh') = {},
         sh'.pc \in {"prompt", "run", "pipe"}, sh'.job = 0, sh'.started = 0, sh'.last = -1
  PROVE  ShellInv'
<1>1. Children' = {} /\ Children = {} /\ Carried(sh) = {} /\ ~ cut[0]
  BY DEF ShellInv, Family, Wired, ShellAwake, Children, vars
<1>2. Cardinality({}) = 0
  BY FS_EmptySet
<1>3. Family'
  BY <1>1, <1>2 DEF ShellInv, Family
<1>4. ShellAwake'
  BY <1>1 DEF ShellAwake, vars
<1> QED BY <1>1, <1>3, <1>4, Basics, ShellAlone

LEMMA EditLineStep == ShellInv /\ EditLine => ShellInv'
<1> SUFFICES ASSUME ShellInv, EditLine PROVE ShellInv'
  OBVIOUS
<1>1. /\ mode[0] = "awake" /\ sh.pc = "use" /\ sh' = AtPrompt
      /\ UNCHANGED <<vars, pgid, foreground>> /\ foreground = 0
  BY DEF EditLine, At, ShellInv, Family
<1> QED BY <1>1, PromptRecord, NewLine

LEMMA EndLineStep == ShellInv /\ EndLine => ShellInv'
<1> SUFFICES ASSUME ShellInv, EndLine PROVE ShellInv'
  OBVIOUS
<1>1. /\ mode[0] = "awake" /\ sh.pc = "use"
      /\ UNCHANGED <<vars, pgid, foreground>> /\ foreground = 0
  BY Zenon DEF EndLine, At, ShellInv, Family
<1>2. CASE sh' = AtPrompt
  BY <1>1, <1>2, PromptRecord, NewLine
<1>3. ASSUME NEW n \in Lines,
             sh' = [AtPrompt EXCEPT !.n = n, !.pc = IF n = 1 THEN "run" ELSE "pipe"]
      PROVE  ShellInv'
  <2> DEFINE pc == IF n = 1 THEN "run" ELSE "pipe"
  <2>1. n \in Nat \ {0} /\ pc \in {"run", "pipe"} /\ (pc = "pipe" => 0 < n - 1)
    BY LinesAssumption
  <2>2. /\ sh'.pc = pc /\ sh'.n = n /\ sh'.i = 0 /\ sh'.in = -1 /\ sh'.out = -1 /\ sh'.next = -1
        /\ sh'.job = 0 /\ sh'.started = 0 /\ sh'.last = -1 /\ sh'.ok = TRUE
    BY <1>3 DEF AtPrompt
  <2>3. sh' \in ShellRecords
    BY <1>3, <2>1, PromptRecord, Zenon DEF ShellRecords, Pcs
  <2> HIDE DEF pc
  <2>4. Carried(sh') = {} /\ Apart(sh') /\ Wired(sh')
    BY <2>1, <2>2 DEF Carried, Apart, Wired
  <2> QED BY <1>1, <2>1, <2>2, <2>3, <2>4, NewLine
<1> QED BY <1>2, <1>3, Zenon DEF EndLine

-----------------------------------------------------------------------------
(* Wiring up a job.                                                        *)

\* What the shell knows while it starts stages.
LEMMA Starting ==
  ASSUME ShellInv, sh.pc \in {"pipe", "run", "close"}
  PROVE  /\ Inv /\ Quiet /\ sh \in ShellRecords /\ Apart(sh) /\ Wired(sh)
         /\ ~ cut[0] /\ pgid \in [TaskIds -> TaskIds] /\ pgid[0] = 0 /\ foreground = 0
         /\ fds[0][0] = ConsoleIn /\ fds[0][1] = ConsoleOut
         /\ \A fd \in Fds \ {0, 1} : fds[0][fd] = Closed <=> fd \notin Carried(sh)
         /\ sh.started = Cardinality(Children) /\ (sh.job = 0 <=> sh.started = 0)
         /\ \A t \in Children \ Dead : pgid[t] = sh.job
         /\ sh.last # -1 => sh.last \in Children \/ sh.found
         /\ DeadHoldNothing
         /\ 0 \in TaskIds /\ mode \in [TaskIds -> Modes] /\ call \in [TaskIds -> Calls]
         /\ cut \in [TaskIds -> BOOLEAN] /\ fds \in [TaskIds -> [Fds -> Files]]
BY Basics DEF ShellInv, ShellTypeOK, Table, ShellAwake, Family, Inv, TypeOK

\* A stage that is not started: the shell notes it and goes on.
LEMMA NotStarted ==
  ASSUME ShellInv, sh.pc \in {"pipe", "run"}, NEW b \in BOOLEAN,
         Inv', StaysAlive, mode'[0] = "awake",
         UNCHANGED <<cut, fds, kbd, eof, pgid, foreground>>,
         sh' = GoOn([sh EXCEPT !.ok = FALSE, !.refused = b])
  PROVE  ShellInv'
<1> DEFINE s == [sh EXCEPT !.ok = FALSE, !.refused = b]
<1>1. sh \in ShellRecords
  BY Starting
<1>2. s \in ShellRecords
  BY <1>1, Zenon DEF ShellRecords
<1>3. /\ s.in = sh.in /\ s.out = sh.out /\ s.next = sh.next /\ s.ok = FALSE /\ s.i = sh.i /\ s.n = sh.n
      /\ s.job = sh.job /\ s.started = sh.started /\ s.last = sh.last /\ s.found = sh.found
  BY <1>1 DEF ShellRecords
<1> HIDE DEF s
<1>4. Carried(s) = Carried(sh) /\ Apart(s)
  BY <1>3, Starting, SameEnds
<1>5. Between(s)
  BY <1>2, <1>3, <1>4, Starting DEF Between
<1>6. Children' = Children /\ Dead' = Dead
  BY SameKin
<1>7. DeadHoldNothing'
  BY Starting DEF DeadHoldNothing, StaysAlive, Living
<1>8. Quiet'
  BY Starting, Zenon DEF Quiet
<1>9. Ready(s)
  BY <1>3, <1>4, <1>5, <1>6, <1>7, <1>8, Starting DEF Ready
<1>10. sh' = GoOn(s)
  BY DEF s
<1> QED BY <1>9, <1>10, Settled

LEMMA PipeRefusedStep == ShellInv /\ PipeRefused => ShellInv'
<1> SUFFICES ASSUME ShellInv, PipeRefused PROVE ShellInv'
  OBVIOUS
<1>1. /\ mode[0] = "awake" /\ sh.pc = "pipe" /\ UNCHANGED <<pgid, foreground>>
      /\ SysPipeFails(0) \/ UNCHANGED vars
      /\ sh' = GoOn([sh EXCEPT !.ok = FALSE])
  BY DEF PipeRefused, At
<1>2. sh \in ShellRecords /\ Inv /\ 0 \in TaskIds /\ TypeOK
  BY <1>1, Starting DEF Inv
<1>3. sh.refused \in BOOLEAN /\ [sh EXCEPT !.ok = FALSE] = [sh EXCEPT !.ok = FALSE, !.refused = sh.refused]
  BY <1>2, Zenon DEF ShellRecords
<1>4. CASE SysPipeFails(0)
  <2>1. Inv'
    BY <1>2, <1>4, SysPipeFailsStep
  <2>2. mode' = Woken(mode, {"PIPE_WRITE"}) /\ UNCHANGED <<cut, fds, kbd, eof>>
    BY <1>4 DEF SysPipeFails
  <2>3. {"PIPE_WRITE"} \in SUBSET (SleepModes \cup {"CHILD"})
    BY DEF SleepModes
  <2>4. StaysAlive /\ mode'[0] = "awake"
    BY <1>1, <1>2, <2>2, <2>3, WakingStaysAlive DEF StaysAlive, Living
  <2> QED BY <1>1, <1>3, <2>1, <2>2, <2>4, NotStarted, Zenon
<1>5. CASE UNCHANGED vars
  <2>1. UNCHANGED <<mode, call, cut, fds, pipe, kbd, eof>>
    BY <1>5 DEF vars
  <2>2. StaysAlive /\ NoNewSleeper /\ mode' \in [TaskIds -> Modes] /\ call' \in [TaskIds -> Calls]
        /\ cut' \in [TaskIds -> BOOLEAN]
    BY <1>2, <2>1 DEF StaysAlive, NoNewSleeper, TypeOK
  <2>3. Inv'
    BY <1>2, <2>1, <2>2, OnlyWakes
  <2> QED BY <1>1, <1>3, <2>1, <2>2, <2>3, NotStarted, Zenon
<1> QED BY <1>1, <1>4, <1>5

LEMMA StageRefusedStep == ShellInv /\ StageRefused => ShellInv'
<1> SUFFICES ASSUME ShellInv, StageRefused PROVE ShellInv'
  OBVIOUS
<1> DEFINE b == sh.job # 0 /\ ~ MayUseGroup(sh.job)
<1>1. /\ mode[0] = "awake" /\ sh.pc = "run"
      /\ UNCHANGED <<mode, call, cut, fds, pipe, kbd, eof>> /\ UNCHANGED <<pgid, foreground>>
      /\ sh' = GoOn([sh EXCEPT !.ok = FALSE, !.refused = b])
  BY DEF StageRefused, At, vars
<1>2. Inv /\ TypeOK /\ b \in BOOLEAN
  BY <1>1, Starting DEF Inv
<1>3. StaysAlive /\ NoNewSleeper /\ mode' \in [TaskIds -> Modes] /\ call' \in [TaskIds -> Calls]
      /\ cut' \in [TaskIds -> BOOLEAN]
  BY <1>1, <1>2 DEF StaysAlive, NoNewSleeper, TypeOK
<1>4. Inv'
  BY <1>1, <1>2, <1>3, OnlyWakes
<1> HIDE DEF b
<1> QED BY <1>1, <1>2, <1>3, <1>4, NotStarted, Zenon

\* SYS_PIPE takes free slots, which none of the shell's locals names.
LEMMA MakePipeStep == ShellInv /\ MakePipe => ShellInv'
<1> SUFFICES ASSUME ShellInv, MakePipe PROVE ShellInv'
  OBVIOUS
<1> DEFINE rfd == Min(FreeFds(0))
           wfd == Min(FreeFds(0) \ {rfd})
<1>1. /\ mode[0] = "awake" /\ sh.pc = "pipe" /\ UNCHANGED <<pgid, foreground>>
      /\ sh' = [sh EXCEPT !.pc = "run", !.next = rfd, !.out = wfd]
  BY DEF MakePipe, At
<1>2. PICK p \in Pipes : SysPipe(0, p)
  <2>1. NewPipe \in SUBSET Pipes
    BY DEF NewPipe
  <2> QED BY <2>1 DEF MakePipe
<1>3. Inv'
  BY <1>1, <1>2, Starting, SysPipeStep
<1>4. /\ Cardinality(FreeFds(0)) >= 2
      /\ fds' = [fds EXCEPT ![0][rfd] = PipeEnd(p, "read"), ![0][wfd] = PipeEnd(p, "write")]
      /\ UNCHANGED <<mode, cut, kbd, eof>>
  BY <1>2 DEF SysPipe, PipeEnd
<1>5. /\ rfd \in Fds /\ wfd \in Fds /\ rfd # wfd
      /\ fds[0][rfd] = Closed /\ fds[0][wfd] = Closed
  BY <1>1, <1>4, Starting, TwoSlots
<1> HIDE DEF rfd, wfd
<1>6. rfd \notin {0, 1} /\ wfd \notin {0, 1} /\ rfd \notin Carried(sh) /\ wfd \notin Carried(sh)
      /\ rfd # -1 /\ wfd # -1
  BY <1>1, <1>5, Starting, Basics
<1>7. sh.out = -1 /\ sh.next = -1 /\ sh.i < sh.n - 1 /\ sh.ok /\ sh \in ShellRecords
  BY <1>1, Starting DEF Wired
<1>8. sh' \in ShellRecords
  BY <1>1, <1>5, <1>7, Zenon DEF ShellRecords, Places, Pcs
<1>9. /\ sh'.pc = "run" /\ sh'.next = rfd /\ sh'.out = wfd /\ sh'.in = sh.in /\ SameJob(sh, sh')
      /\ sh'.i = sh.i
  BY <1>1, <1>7, Zenon DEF ShellRecords, SameJob
<1>10. Carried(sh') = Carried(sh) \cup {rfd, wfd} /\ Apart(sh')
  <2>1. sh.in # rfd /\ sh.in # wfd
    BY <1>6 DEF Carried
  <2>2. Apart(sh)
    BY <1>1, Starting
  <2> QED BY <1>5, <1>6, <1>7, <1>9, <2>1, <2>2 DEF Carried, Apart
<1>11. Wired(sh')
  BY <1>7, <1>9 DEF Wired, SameJob
<1>12. \A fd \in Fds : fds'[0][fd] = IF fd = rfd THEN PipeEnd(p, "read")
                                       ELSE IF fd = wfd THEN PipeEnd(p, "write") ELSE fds[0][fd]
  BY <1>1, <1>4, <1>5, Starting
<1>13. Table'
  <2>1. fds'[0][0] = ConsoleIn /\ fds'[0][1] = ConsoleOut
    BY <1>1, <1>6, <1>12, Starting, Basics
  <2>2. ASSUME NEW fd \in Fds \ {0, 1} PROVE fds'[0][fd] = Closed <=> fd \notin Carried(sh')
    <3>1. PipeEnd(p, "read") # Closed /\ PipeEnd(p, "write") # Closed
      BY EndFacts
    <3>2. fds[0][fd] = Closed <=> fd \notin Carried(sh)
      BY <1>1, Starting
    <3> QED BY <1>10, <1>12, <3>1, <3>2
  <2> QED BY <1>10, <2>1, <2>2 DEF Table, Carried, Apart
<1>14. StaysAlive
  BY <1>4 DEF StaysAlive
<1>15. Children' = Children /\ Dead' = Dead
  BY <1>14, SameKin
<1>16. Family'
  BY <1>1, <1>9, <1>15 DEF ShellInv, Family, SameJob
<1>17. ShellAwake'
  BY <1>1, <1>4, <1>9, Starting DEF ShellAwake
<1>18. DeadHoldNothing'
  <2>1. \A t \in TaskIds \ {0} : fds'[t] = fds[t]
    BY <1>1, <1>4, Starting
  <2> QED BY <1>1, <1>4, <2>1, Starting DEF DeadHoldNothing
<1>19. Quiet' /\ ShellTypeOK' /\ Wired(sh)'
  <2>1. Quiet'
    BY <1>4 DEF ShellInv, Quiet
  <2>2. ShellTypeOK'
    BY <1>1, <1>8 DEF ShellInv, ShellTypeOK
  <2>3. Wired(sh)'
    BY <1>11 DEF Wired, Carried
  <2> QED BY <2>1, <2>2, <2>3
<1> QED BY <1>3, <1>13, <1>16, <1>17, <1>18, <1>19 DEF ShellInv

\* SYS_RUN: one more child, in the job's group.
LEMMA StartStageStep ==
  ASSUME ShellInv, NEW child \in TaskIds \ {0}, StartStage(child)
  PROVE  ShellInv'
<1> DEFINE g == GroupOf(child)
           last == LastId(child)
           s == [sh EXCEPT !.last = last, !.job = g, !.started = @ + 1]
<1>1. /\ mode[0] = "awake" /\ sh.pc = "run" /\ SysRun(0, child, sh.in, sh.out)
      /\ pgid' = [pgid EXCEPT ![child] = g] /\ sh' = GoOn(s) /\ UNCHANGED foreground
  BY DEF StartStage, At
<1>2. sh \in ShellRecords /\ sh.ok
  BY <1>1, Starting DEF Wired
<1>3. /\ sh.in \in Fds \cup {-1} /\ sh.out \in Fds \cup {-1} /\ sh.started \in Nat
      /\ sh.job \in TaskIds /\ sh.last \in TaskIds \cup {-1} /\ sh.started + 1 \in Nat
      /\ sh.started + 1 # 0
  <2>1. /\ sh.in \in Fds \cup {-1} /\ sh.out \in Fds \cup {-1} /\ sh.started \in Nat
        /\ sh.job \in TaskIds /\ sh.last \in TaskIds \cup {-1}
    BY <1>2 DEF ShellRecords, Places
  <2> QED BY <2>1
<1>4. Inv'
  BY <1>1, <1>3, Starting, SysRunStep, Zenon
<1>5. /\ mode[child] = "none" /\ mode' = [mode EXCEPT ![child] = "awake"]
      /\ UNCHANGED <<call, cut, kbd, eof>>
      /\ \A t \in TaskIds \ {child} : fds'[t] = fds[t]
  BY <1>1, Starting, Zenon DEF SysRun
<1>6. g \in TaskIds /\ g # 0 /\ last \in TaskIds \cup {-1} /\ (last = child \/ last = sh.last)
      /\ (sh.job # 0 => g = sh.job) /\ (sh.job = 0 => g = child)
  BY <1>3 DEF GroupOf, LastId
<1> HIDE DEF g, last
<1>7. s \in ShellRecords
  <2>1. s = [sh EXCEPT !.last = last, !.job = g, !.started = sh.started + 1]
    BY <1>2, Zenon DEF ShellRecords
  <2> QED BY <1>2, <1>3, <1>6, <2>1, Zenon DEF ShellRecords
<1>8. /\ s.in = sh.in /\ s.out = sh.out /\ s.next = sh.next /\ s.ok = sh.ok /\ s.i = sh.i /\ s.n = sh.n
      /\ s.job = g /\ s.started = sh.started + 1 /\ s.last = last /\ s.found = sh.found
  BY <1>2, Zenon DEF ShellRecords
<1> HIDE DEF s
<1>9. Carried(s) = Carried(sh) /\ Apart(s)
  BY <1>1, <1>8, Starting, SameEnds
<1>10. Between(s)
  <2>1. Wired(sh)
    BY <1>1, Starting
  <2>2. s.ok /\ ~ (s.i < s.n - 1) => s.next = -1
    BY <1>1, <1>8, <2>1 DEF Wired
  <2> QED BY <1>3, <1>6, <1>7, <1>8, <1>9, <2>2 DEF Between
<1>11. Children' = Children \cup {child} /\ child \notin Children /\ Dead' = Dead
  BY <1>1, <1>5, Starting, Zenon DEF Children, Dead
<1>12. s.started = Cardinality(Children')
  <2>1. Children \in SUBSET TaskIds
    BY DEF Children
  <2>2. IsFiniteSet(Children)
    BY <2>1, NoChildren
  <2>3. Cardinality(Children \cup {child}) = Cardinality(Children) + 1
    BY <1>11, <2>2, FS_AddElement
  <2>4. sh.started = Cardinality(Children)
    BY <1>1, Starting
  <2> QED BY <1>8, <1>11, <2>3, <2>4
<1>13. \A t \in Children' \ Dead' : pgid'[t] = s.job
  <2>1. CASE sh.job = 0
    <3>1. Children = {}
      <4>1. Children \in SUBSET TaskIds /\ Cardinality(Children) = 0
        BY <1>1, <2>1, Starting, SMTT(30) DEF Children
      <4> QED BY <4>1, NoChildren
    <3> QED BY <1>1, <1>6, <1>8, <1>11, <3>1, Starting
  <2>2. CASE sh.job # 0
    <3>1. \A t \in Children \ Dead : pgid[t] = sh.job /\ t \in TaskIds
      BY <1>1, Starting DEF Children
    <3>2. pgid \in [TaskIds -> TaskIds]
      BY <1>1, Starting
    <3> QED BY <1>1, <1>6, <1>8, <1>11, <2>2, <3>1, <3>2
  <2> QED BY <2>1, <2>2, SMTT(30)
<1>14. s.last # -1 => s.last \in Children' \/ s.found
  <2>1. sh.last # -1 => sh.last \in Children \/ sh.found
    BY <1>1, Starting
  <2> QED BY <1>6, <1>8, <1>11, <2>1
<1>15. DeadHoldNothing' /\ mode'[0] = "awake"
  <2>1. mode'[child] = "awake" /\ \A t \in TaskIds \ {child} : mode'[t] = mode[t]
    BY <1>1, <1>5, Starting
  <2>2. DeadHoldNothing
    BY <1>1, Starting, SMTT(30)
  <2> QED BY <1>1, <1>5, <2>1, <2>2, Basics, SMTT(30) DEF DeadHoldNothing
<1>16. pgid' \in [TaskIds -> TaskIds] /\ pgid'[0] = 0 /\ foreground' = 0 /\ ~ cut'[0] /\ Quiet'
  BY <1>1, <1>5, <1>6, Starting, SMTT(30) DEF Quiet
<1>17. /\ fds'[0][0] = ConsoleIn /\ fds'[0][1] = ConsoleOut
       /\ \A fd \in Fds \ {0, 1} : fds'[0][fd] = Closed <=> fd \notin Carried(s)
  <2>1. fds'[0] = fds[0]
    BY <1>5, Basics
  <2> QED BY <1>1, <1>9, <2>1, Starting
<1>18. Ready(s)
  BY <1>4, <1>10, <1>12, <1>13, <1>14, <1>15, <1>16, <1>17, Zenon DEF Ready
<1> QED BY <1>1, <1>18, Settled

\* SYS_CLOSE of one of the shell's ends.
LEMMA CloseOneStep ==
  ASSUME ShellInv, mode[0] = "awake", sh.pc = "close", NEW fd \in Carried(sh), NEW s,
         SysClose(0, fd), UNCHANGED <<pgid, foreground>>, sh' = GoOn(s),
         s \in ShellRecords, Apart(s), Carried(s) = Carried(sh) \ {fd}, SameJob(sh, s),
         s.i = sh.i, s.next \in {sh.next, -1}
  PROVE  ShellInv'
<1>1. sh \in ShellRecords /\ Inv /\ TypeOK
  BY Starting, SMTT(30) DEF Inv
<1>2. fd \in Fds /\ fd \notin {0, 1}
  BY <1>1, Starting DEF Carried, ShellRecords, Places, Apart
<1>3. Inv'
  BY <1>2, Starting, SysCloseStep
<1>4. /\ fds' = [fds EXCEPT ![0][fd] = Closed]
      /\ mode' = Woken(mode, ClosingWakes([i \in {fd} |-> fds[0][i]]))
      /\ UNCHANGED <<call, cut, kbd, eof>>
  BY DEF SysClose
<1>5. StaysAlive /\ mode'[0] = "awake"
  <2> DEFINE R == ClosingWakes([i \in {fd} |-> fds[0][i]])
  <2>1. R \in SUBSET SleepModes
    BY ClosingWakesSleepers
  <2>2. mode' = Woken(mode, R)
    BY <1>4
  <2> HIDE DEF R
  <2>3. R \in SUBSET (SleepModes \cup {"CHILD"})
    BY <2>1
  <2>4. \A t \in TaskIds : mode'[t] = mode[t] \/ (mode[t] \in Living \ {"awake"} /\ mode'[t] = "awake")
    BY <1>1, <2>2, <2>3, WakingStaysAlive
  <2> QED BY <2>4, Basics DEF StaysAlive, Living
<1>6. Children' = Children /\ Dead' = Dead
  BY <1>5, SameKin
<1>7. Between(s)
  <2>1. sh.ok /\ ~ (sh.i < sh.n - 1) => sh.next = -1
    BY Starting DEF Wired
  <2>2. s.ok /\ ~ (s.i < s.n - 1) => s.next = -1
    BY <2>1 DEF SameJob
  <2>3. s.job = 0 <=> s.started = 0
    BY Starting DEF SameJob
  <2> QED BY <2>2, <2>3 DEF Between
<1>8. /\ \A t \in TaskIds \ {0} : fds'[t] = fds[t]
      /\ \A i \in Fds : fds'[0][i] = IF i = fd THEN Closed ELSE fds[0][i]
  BY <1>2, <1>4, Starting, SMTT(30)
<1>9. DeadHoldNothing'
  <2>1. DeadHoldNothing
    BY Starting
  <2> QED BY <1>5, <1>8, <2>1 DEF DeadHoldNothing, StaysAlive, Living
<1>10. /\ fds'[0][0] = ConsoleIn /\ fds'[0][1] = ConsoleOut
       /\ \A i \in Fds \ {0, 1} : fds'[0][i] = Closed <=> i \notin Carried(s)
  BY <1>2, <1>8, Starting, Basics, Zenon
<1>11. /\ pgid' \in [TaskIds -> TaskIds] /\ pgid'[0] = 0 /\ foreground' = 0 /\ ~ cut'[0] /\ Quiet'
       /\ s.started = Cardinality(Children')
       /\ \A t \in Children' \ Dead' : pgid'[t] = s.job
       /\ s.last # -1 => s.last \in Children' \/ s.found
  BY <1>4, <1>6, Starting DEF Quiet, SameJob
<1>12. Ready(s)
  BY <1>3, <1>5, <1>7, <1>9, <1>10, <1>11, Zenon DEF Ready
<1> QED BY <1>12, Settled

\* One end less is carried.
LEMMA CloseEndStep == ShellInv /\ CloseEnd => ShellInv'
<1> SUFFICES ASSUME ShellInv, CloseEnd PROVE ShellInv'
  OBVIOUS
<1>1. mode[0] = "awake" /\ sh.pc = "close" /\ UNCHANGED <<pgid, foreground>>
  BY Zenon DEF CloseEnd, At
<1>2. sh \in ShellRecords /\ Apart(sh) /\ -1 \in Places
  BY <1>1, Starting DEF Places
<1>3. CASE ToClose(sh) = "in" /\ SysClose(0, sh.in) /\ sh' = GoOn([sh EXCEPT !.in = -1])
  <2> DEFINE s == [sh EXCEPT !.in = -1]
  <2>1. s \in ShellRecords
    BY <1>2, Zenon DEF ShellRecords
  <2>2. SameJob(sh, s) /\ s.i = sh.i /\ s.in = -1 /\ s.out = sh.out /\ s.next = sh.next
    BY <1>2 DEF ShellRecords, SameJob
  <2>3. sh' = GoOn(s)
    BY <1>3
  <2> HIDE DEF s
  <2>4. sh.in # -1
    BY <1>3 DEF ToClose
  <2>5. sh.in \in Carried(sh) /\ Carried(s) = Carried(sh) \ {sh.in} /\ Apart(s)
    BY <1>2, <2>2, <2>4 DEF Carried, Apart
  <2> QED BY <1>1, <1>3, <2>1, <2>2, <2>3, <2>5, CloseOneStep, Zenon
<1>4. CASE ToClose(sh) = "out" /\ SysClose(0, sh.out) /\ sh' = GoOn([sh EXCEPT !.out = -1])
  <2> DEFINE s == [sh EXCEPT !.out = -1]
  <2>1. s \in ShellRecords
    BY <1>2, Zenon DEF ShellRecords
  <2>2. SameJob(sh, s) /\ s.i = sh.i /\ s.in = sh.in /\ s.out = -1 /\ s.next = sh.next
    BY <1>2 DEF ShellRecords, SameJob
  <2>3. sh' = GoOn(s)
    BY <1>4
  <2> HIDE DEF s
  <2>4. sh.out # -1 /\ sh.in = -1
    BY <1>4 DEF ToClose
  <2>5. sh.out \in Carried(sh) /\ Carried(s) = Carried(sh) \ {sh.out} /\ Apart(s)
    BY <1>2, <2>2, <2>4 DEF Carried, Apart
  <2> QED BY <1>1, <1>4, <2>1, <2>2, <2>3, <2>5, CloseOneStep, Zenon
<1>5. CASE ToClose(sh) = "next" /\ SysClose(0, sh.next) /\ sh' = GoOn([sh EXCEPT !.next = -1])
  <2> DEFINE s == [sh EXCEPT !.next = -1]
  <2>1. s \in ShellRecords
    BY <1>2, Zenon DEF ShellRecords
  <2>2. SameJob(sh, s) /\ s.i = sh.i /\ s.in = sh.in /\ s.out = sh.out /\ s.next = -1
    BY <1>2 DEF ShellRecords, SameJob
  <2>3. sh' = GoOn(s)
    BY <1>5
  <2> HIDE DEF s
  <2>4. sh.next # -1 /\ sh.in = -1 /\ sh.out = -1
    BY <1>5 DEF ToClose
  <2>5. sh.next \in Carried(sh) /\ Carried(s) = Carried(sh) \ {sh.next} /\ Apart(s)
    BY <1>2, <2>2, <2>4 DEF Carried, Apart
  <2> QED BY <1>1, <1>5, <2>1, <2>2, <2>3, <2>5, CloseOneStep, Zenon
<1> QED BY <1>3, <1>4, <1>5, Zenon DEF CloseEnd

-----------------------------------------------------------------------------
(* Waiting for it.                                                         *)

LEMMA GiveKeyboardStep == ShellInv /\ GiveKeyboard => ShellInv'
<1> SUFFICES ASSUME ShellInv, GiveKeyboard PROVE ShellInv'
  OBVIOUS
<1>1. /\ mode[0] = "awake" /\ sh.pc = "setfg" /\ sh' = [sh EXCEPT !.pc = "wait"]
      /\ foreground' = IF MayUseGroup(sh.job) THEN sh.job ELSE foreground
      /\ UNCHANGED <<vars, pgid>> /\ UNCHANGED <<mode, cut>>
  BY DEF GiveKeyboard, At, vars
<1>2. sh \in ShellRecords /\ Apart(sh) /\ Carried(sh) = {} /\ Family /\ ~ cut[0]
  BY <1>1 DEF ShellInv, ShellTypeOK, Table, Wired, ShellAwake
<1>3. /\ sh' \in ShellRecords /\ SameJob(sh, sh') /\ sh'.pc = "wait"
      /\ sh'.i = sh.i /\ sh'.in = sh.in /\ sh'.out = sh.out /\ sh'.next = sh.next
  BY <1>1, <1>2, MovesOn, Zenon DEF Pcs
<1>4. Carried(sh') = Carried(sh) /\ Apart(sh')
  BY <1>2, <1>3, SameEnds
<1>5. Wired(sh')
  BY <1>2, <1>3, <1>4 DEF Wired
<1>6. StaysAlive
  BY <1>1 DEF StaysAlive
<1>7. Children' = Children /\ Dead' = Dead
  BY <1>6, SameKin
<1>8. Children \ Dead # {} => foreground' = sh.job
  BY <1>1, <1>2 DEF MayUseGroup, Family
<1>9. Family'
  BY <1>1, <1>2, <1>3, <1>7, <1>8 DEF Family, SameJob
<1>10. ShellAwake' /\ foreground' \in TaskIds
  BY <1>1, <1>2 DEF ShellAwake, ShellInv, ShellTypeOK, ShellRecords
<1> QED BY <1>1, <1>3, <1>4, <1>5, <1>9, <1>10, ShellAlone

LEMMA TakeKeyboardStep == ShellInv /\ TakeKeyboard => ShellInv'
<1> SUFFICES ASSUME ShellInv, TakeKeyboard PROVE ShellInv'
  OBVIOUS
<1>1. /\ mode[0] = "awake" /\ sh.pc = "restore" /\ sh' = AtPrompt /\ foreground' = 0
      /\ UNCHANGED <<vars, pgid>>
  BY DEF TakeKeyboard, At
<1> QED BY <1>1, PromptRecord, NewLine

\* The record after one wait more.
LEMMA WaitedRecord ==
  ASSUME NEW s \in ShellRecords, NEW f \in BOOLEAN, s.started # 0
  PROVE  LET r == Waited([s EXCEPT !.found = f])
         IN /\ r \in ShellRecords /\ r.in = s.in /\ r.out = s.out /\ r.next = s.next
            /\ r.pc = (IF s.started = 1 THEN "restore" ELSE "wait")
            /\ r.started = s.started - 1 /\ r.job = s.job /\ r.last = s.last /\ r.found = f
<1> DEFINE m == [s EXCEPT !.found = f]
           pc == IF s.started = 1 THEN "restore" ELSE "wait"
           r == Waited(m)
<1>1. m \in ShellRecords
  BY Zenon DEF ShellRecords
<1>2. /\ m.in = s.in /\ m.out = s.out /\ m.next = s.next /\ m.started = s.started /\ m.job = s.job
      /\ m.last = s.last /\ m.found = f
  BY DEF ShellRecords
<1> HIDE DEF m
<1>3. s.started \in Nat /\ s.started - 1 \in Nat /\ pc \in Pcs
  <2>1. s.started \in Nat
    BY DEF ShellRecords
  <2> QED BY <2>1 DEF Pcs
<1>4. r = [m EXCEPT !.started = s.started - 1, !.pc = pc]
  BY <1>1, <1>2, Zenon DEF Waited, ShellRecords
<1> HIDE DEF r, pc
<1>5. r \in ShellRecords
  BY <1>1, <1>3, <1>4, Zenon DEF ShellRecords
<1>6. /\ r.in = m.in /\ r.out = m.out /\ r.next = m.next /\ r.pc = pc
      /\ r.started = s.started - 1 /\ r.job = m.job /\ r.last = m.last /\ r.found = m.found
  BY <1>1, <1>4 DEF ShellRecords
<1> QED BY <1>2, <1>5, <1>6 DEF r, m, pc

\* SYS_WAIT collects a child: one less of them, and one wait less to do.
LEMMA WaitCollectsStep == ShellInv /\ WaitCollects => ShellInv'
<1> SUFFICES ASSUME ShellInv, WaitCollects PROVE ShellInv'
  OBVIOUS
<1> DEFINE child == Min(Dead)
           f == sh.found \/ child = sh.last
<1>1. /\ mode[0] = "awake" /\ sh.pc = "wait" /\ Dead # {}
      /\ mode' = [mode EXCEPT ![child] = "gone"] /\ pgid' = [pgid EXCEPT ![child] = 0]
      /\ sh' = Waited([sh EXCEPT !.found = @ \/ child = sh.last])
      /\ UNCHANGED <<call, cut, fds, pipe, kbd, eof, foreground>>
  BY DEF WaitCollects, At
<1>2. child \in Dead
  <2>1. Dead \in SUBSET Nat
    BY SizesAssumption DEF Dead, Children, TaskIds
  <2> QED BY <1>1, <2>1, NatMin
<1> HIDE DEF child
<1>3. child \in TaskIds \ {0} /\ mode[child] = "exited" /\ child \in Children
  BY <1>2 DEF Dead, Children
<1>4. /\ Inv /\ mode \in [TaskIds -> Modes] /\ call \in [TaskIds -> Calls] /\ cut \in [TaskIds -> BOOLEAN]
      /\ sh \in ShellRecords /\ Apart(sh) /\ Carried(sh) = {} /\ Family /\ ~ cut[0] /\ DeadHoldNothing
      /\ pgid \in [TaskIds -> TaskIds] /\ foreground \in TaskIds /\ Table
  BY <1>1 DEF ShellInv, Inv, TypeOK, ShellTypeOK, Table, Wired, ShellAwake
<1>5. /\ mode'[child] = "gone" /\ \A t \in TaskIds \ {child} : mode'[t] = mode[t]
      /\ mode' \in [TaskIds -> Modes] /\ mode'[0] = "awake"
  BY <1>1, <1>3, <1>4, Basics DEF Modes
<1>6. Inv'
  <2>1. NoNewSleeper
    BY <1>1, <1>5 DEF NoNewSleeper, SleepModes
  <2> QED BY <1>1, <1>4, <1>5, <2>1, OnlyWakes
<1>7. Children' = Children \ {child} /\ Dead' = Dead \ {child} /\ Children' \ Dead' = Children \ Dead
  BY <1>2, <1>3, <1>5 DEF Children, Dead
<1>8. sh.started = Cardinality(Children) /\ sh.started # 0 /\ sh.job # 0
  BY <1>1, <1>4 DEF Family
<1>9. Cardinality(Children') = sh.started - 1 /\ (Cardinality(Children') = 0 <=> Children' = {})
  <2>1. Children \in SUBSET TaskIds /\ Children' \in SUBSET TaskIds
    BY DEF Children
  <2>2. IsFiniteSet(Children)
    BY <2>1, NoChildren
  <2>3. Cardinality(Children \ {child}) = Cardinality(Children) - 1
    BY <1>3, <2>2, FS_RemoveElement, Zenon
  <2> QED BY <1>7, <1>8, <2>1, <2>3, NoChildren
<1>10. f \in BOOLEAN /\ sh.started \in Nat /\ [sh EXCEPT !.found = @ \/ child = sh.last] = [sh EXCEPT !.found = f]
  BY <1>4 DEF ShellRecords
<1>11. /\ sh' \in ShellRecords /\ sh'.in = sh.in /\ sh'.out = sh.out /\ sh'.next = sh.next
       /\ sh'.pc = (IF sh.started = 1 THEN "restore" ELSE "wait")
       /\ sh'.started = sh.started - 1 /\ sh'.job = sh.job /\ sh'.last = sh.last /\ sh'.found = f
  BY <1>1, <1>4, <1>8, <1>10, WaitedRecord, Zenon
<1>12. Carried(sh') = Carried(sh) /\ Apart(sh')
  BY <1>4, <1>11, SameEnds
<1>13. Wired(sh)' /\ Table'
  <2>1. sh'.pc \in {"restore", "wait"}
    BY <1>11
  <2>2. Wired(sh')
    BY <1>4, <1>12, <2>1 DEF Wired
  <2> QED BY <1>1, <1>4, <1>12, <2>2, Zenon DEF Wired, Table, Carried, Apart
<1>14. Family'
  <2>1. \A t \in Children' \ Dead' : pgid'[t] = sh'.job
    <3>1. \A t \in Children \ Dead : pgid[t] = sh.job /\ t \in TaskIds /\ t # child
      BY <1>2, <1>4 DEF Family, Children
    <3> QED BY <1>1, <1>3, <1>4, <1>7, <1>11, <3>1
  <2>2. sh'.last # -1 => sh'.last \in Children' \/ sh'.found
    <3>1. sh.last # -1 => sh.last \in Children \/ sh.found
      BY <1>4 DEF Family
    <3> QED BY <1>7, <1>11, <3>1, Zenon
  <2>3. sh'.pc = "wait" /\ Children' \ Dead' # {} => foreground' = sh'.job
    <3>1. Children \ Dead # {} => foreground = sh.job
      BY <1>1, <1>4 DEF Family
    <3> QED BY <1>1, <1>7, <1>11, <3>1
  <2>4. pgid'[0] = 0
    BY <1>1, <1>3, <1>4, Basics DEF Family
  <2>5. /\ sh'.pc \in {"restore", "wait"}
        /\ sh'.pc = "restore" => Children' = {}
        /\ sh'.started = Cardinality(Children')
        /\ sh'.pc = "wait" => sh'.job # 0 /\ sh'.started # 0
    BY <1>8, <1>9, <1>10, <1>11
  <2> QED BY <2>1, <2>2, <2>3, <2>4, <2>5 DEF Family
<1>15. ShellAwake' /\ Quiet' /\ DeadHoldNothing' /\ ShellTypeOK'
  <2>1. ShellAwake' /\ Quiet'
    BY <1>1, <1>4, <1>5 DEF ShellAwake, ShellInv, Quiet
  <2>2. DeadHoldNothing'
    BY <1>1, <1>3, <1>4, <1>5 DEF DeadHoldNothing
  <2>3. ShellTypeOK'
    BY <1>1, <1>3, <1>4, <1>11, Basics DEF ShellTypeOK
  <2> QED BY <2>1, <2>2, <2>3
<1> QED BY <1>6, <1>13, <1>14, <1>15 DEF ShellInv

\* SYS_WAIT sleeps: there is a child, and it is alive.
LEMMA WaitOtherwiseStep == ShellInv /\ WaitOtherwise => ShellInv'
<1> SUFFICES ASSUME ShellInv, WaitOtherwise PROVE ShellInv'
  OBVIOUS
<1>1. /\ mode[0] = "awake" /\ sh.pc = "wait" /\ Dead = {}
      /\ (Children = {} /\ UNCHANGED vars) \/ (Children # {} /\ Block(0, NoCall, "CHILD"))
      /\ sh' = IF mode'[0] = "awake" THEN Waited(sh) ELSE sh
      /\ UNCHANGED <<pgid, foreground>>
  BY SMTT(30) DEF WaitOtherwise, At
<1>2. /\ Inv /\ mode \in [TaskIds -> Modes] /\ call \in [TaskIds -> Calls] /\ cut \in [TaskIds -> BOOLEAN]
      /\ Family /\ ~ cut[0] /\ 0 \in TaskIds
  BY <1>1, Basics DEF ShellInv, Inv, TypeOK, ShellAwake
<1>3. Children # {}
  <2>1. Children \in SUBSET TaskIds /\ Cardinality(Children) # 0
    BY <1>1, <1>2 DEF Family, Children
  <2> QED BY <2>1, NoChildren
<1>4. /\ mode' = [mode EXCEPT ![0] = "CHILD"] /\ call' = [call EXCEPT ![0] = NoCall]
      /\ UNCHANGED <<cut, fds, pipe, kbd, eof>>
  BY <1>1, <1>2, <1>3 DEF Block
<1>5. mode'[0] = "CHILD" /\ sh' = sh
  BY <1>1, <1>2, <1>4
<1>6. mode' \in [TaskIds -> Modes] /\ call' \in [TaskIds -> Calls] /\ cut' \in [TaskIds -> BOOLEAN]
  BY <1>2, <1>4, CallsTyped DEF Modes
<1>7. NoNewSleeper /\ StaysAlive
  BY <1>1, <1>2, <1>4 DEF NoNewSleeper, SleepModes, StaysAlive, Living
<1>8. Inv'
  BY <1>2, <1>4, <1>6, <1>7, OnlyWakes
<1>9. Children' = Children /\ Dead' = Dead
  BY <1>7, SameKin
<1>10. ShellAwake'
  BY <1>1, <1>2, <1>3, <1>4, <1>5, <1>9 DEF ShellAwake
<1>11. Quiet'
  BY <1>4 DEF ShellInv, Quiet
<1> QED BY <1>1, <1>4, <1>5, <1>7, <1>8, <1>10, <1>11, Bystanders

-----------------------------------------------------------------------------
(* The stages, and the person at the keyboard.                             *)

\* The shell sleeps as before, or has been woken.
LEMMA ShellMayWake ==
  ASSUME ShellInv, StaysAlive, UNCHANGED sh, cut'[0] = cut[0],
         mode'[0] = mode[0] \/ mode'[0] = "awake"
  PROVE  ShellAwake'
<1>1. Children' = Children /\ Dead' = Dead
  BY SameKin
<1> QED BY <1>1 DEF ShellInv, ShellAwake

LEMMA StageWorksStep ==
  ASSUME ShellInv, NEW t \in TaskIds, StageWorks(t)
  PROVE  ShellInv'
<1>1. /\ t # 0 /\ UNCHANGED <<pgid, foreground, sh>>
      /\ \E len \in IoLens : PipeRead(t, 0, len) \/ PipeWrite(t, 1, len)
  BY DEF StageWorks, Children
<1>2. PICK len \in IoLens : PipeRead(t, 0, len) \/ PipeWrite(t, 1, len)
  BY <1>1
<1>3. Inv /\ TypeOK /\ mode \in [TaskIds -> Modes] /\ cut \in [TaskIds -> BOOLEAN]
  BY DEF ShellInv, Inv, TypeOK
<1>4. Inv'
  BY <1>2, <1>3, Basics, PipeReadStep, PipeWriteStep
<1>5. mode[t] = "awake" /\ UNCHANGED <<fds, kbd, eof>>
  BY <1>2, Zenon DEF PipeRead, PipeWrite, Issues, Block
<1>6. \/ mode' = Woken(mode, {"PIPE_WRITE"}) /\ cut' = cut
      \/ mode' = Woken(mode, {"PIPE_READ"}) /\ cut' = cut
      \/ mode' = mode /\ cut' = cut
      \/ mode' = mode /\ cut' = [cut EXCEPT ![t] = FALSE]
      \/ mode' = [mode EXCEPT ![t] = "PIPE_READ"] /\ cut' = cut
      \/ mode' = [mode EXCEPT ![t] = "PIPE_WRITE"] /\ cut' = cut
  BY <1>2, Zenon DEF PipeRead, PipeWrite, Block, Answered
<1>7. /\ StaysAlive /\ cut'[0] = cut[0]
      /\ mode'[0] = mode[0] \/ mode'[0] = "awake"
  <2>1. {"PIPE_WRITE"} \in SUBSET (SleepModes \cup {"CHILD"}) /\ {"PIPE_READ"} \in SUBSET (SleepModes \cup {"CHILD"})
    BY DEF SleepModes
  <2>2. CASE mode' = Woken(mode, {"PIPE_WRITE"}) /\ cut' = cut
    BY <1>3, <2>1, <2>2, WakingStaysAlive, Basics DEF StaysAlive, Living
  <2>3. CASE mode' = Woken(mode, {"PIPE_READ"}) /\ cut' = cut
    BY <1>3, <2>1, <2>3, WakingStaysAlive, Basics DEF StaysAlive, Living
  <2>4. CASE mode' = mode /\ (cut' = cut \/ cut' = [cut EXCEPT ![t] = FALSE])
    BY <1>1, <1>3, <2>4, Basics DEF StaysAlive
  <2>5. CASE (mode' = [mode EXCEPT ![t] = "PIPE_READ"] \/ mode' = [mode EXCEPT ![t] = "PIPE_WRITE"]) /\ cut' = cut
    BY <1>1, <1>3, <1>5, <2>5, Basics DEF StaysAlive, Living
  <2> QED BY <1>6, <2>2, <2>3, <2>4, <2>5
<1>8. ShellAwake'
  BY <1>1, <1>7, ShellMayWake
<1>9. Quiet'
  BY <1>5 DEF ShellInv, Quiet
<1> QED BY <1>1, <1>4, <1>5, <1>7, <1>8, <1>9, Bystanders

\* A child dies: it stays a child, and the shell is woken if it waits.
LEMMA StageEndsStep ==
  ASSUME ShellInv, NEW t \in TaskIds, StageEnds(t)
  PROVE  ShellInv'
<1> DEFINE R == ClosingWakes(fds[t]) \cup {"CHILD"}
<1>1. /\ t \in Children /\ t # 0 /\ ExitWaking(t, {"CHILD"}) /\ UNCHANGED <<pgid, foreground, sh>>
  BY DEF StageEnds, Children
<1>2. /\ mode[t] = "awake" /\ fds' = [fds EXCEPT ![t] = [fd \in Fds |-> Closed]]
      /\ mode' = [Woken(mode, R) EXCEPT ![t] = "exited"] /\ cut' = [cut EXCEPT ![t] = FALSE]
      /\ UNCHANGED <<kbd, eof>>
  BY <1>1 DEF ExitWaking
<1>3. /\ Inv /\ TypeOK /\ mode \in [TaskIds -> Modes] /\ cut \in [TaskIds -> BOOLEAN]
      /\ fds \in [TaskIds -> [Fds -> Files]] /\ 0 \in TaskIds
  BY Basics DEF ShellInv, Inv, TypeOK
<1>4. Inv'
  BY <1>1, <1>3, ExitWakingStep
<1>5. /\ mode'[t] = "exited"
      /\ \A u \in TaskIds \ {t} :
           \/ mode'[u] = mode[u] /\ mode[u] # "CHILD"
           \/ mode[u] \in Living \ {"awake"} /\ mode'[u] = "awake"
  <2>1. R \in SUBSET (SleepModes \cup {"CHILD"}) /\ "CHILD" \in R
    BY ClosingWakesSleepers
  <2> HIDE DEF R
  <2>2. Woken(mode, R) \in [TaskIds -> Modes]
    BY <1>3, <2>1, WokenFacts
  <2>3. \A u \in TaskIds : \/ Woken(mode, R)[u] = mode[u]
                           \/ mode[u] \in Living \ {"awake"} /\ Woken(mode, R)[u] = "awake"
    BY <1>3, <2>1, WakingStaysAlive
  <2>4. \A u \in TaskIds : Woken(mode, R)[u] # "CHILD"
    BY <2>1 DEF Woken
  <2> QED BY <1>2, <2>2, <2>3, <2>4
<1>6. Children' = Children /\ Dead' = Dead \cup {t}
  BY <1>1, <1>2, <1>5 DEF Children, Dead, Living
<1>7. Family'
  <2>1. Children' \ Dead' \in SUBSET (Children \ Dead)
    BY <1>6, SMTT(30)
  <2> QED BY <1>1, <1>6, <2>1 DEF ShellInv, Family
<1>8. ShellAwake'
  <2>1. mode'[0] \in {"awake", "KEY"} /\ (mode'[0] = "KEY" => mode[0] = "KEY") /\ cut'[0] = cut[0]
        /\ (mode[0] = "awake" => mode'[0] = "awake")
    BY <1>1, <1>2, <1>3, <1>5, Zenon DEF ShellInv, ShellAwake
  <2> QED BY <1>1, <2>1 DEF ShellInv, ShellAwake
<1>9. (\A u \in TaskIds \ {t} : fds'[u] = fds[u]) /\ (\A fd \in Fds : fds'[t][fd] = Closed)
  BY <1>2, <1>3, SMTT(30)
<1>10. DeadHoldNothing'
  BY <1>5, <1>9 DEF ShellInv, DeadHoldNothing, Living
<1>11. Table' /\ ShellTypeOK' /\ Wired(sh)' /\ Quiet'
  <2>1. fds'[0] = fds[0]
    BY <1>1, <1>3, <1>9, SMTT(30)
  <2>2. Table'
    BY <1>1, <2>1 DEF ShellInv, Table, Carried, Apart
  <2>3. ShellTypeOK' /\ Wired(sh)'
    BY <1>1 DEF ShellInv, ShellTypeOK, Wired, Carried
  <2>4. Quiet'
    BY <1>2, SMTT(30) DEF ShellInv, Quiet
  <2> QED BY <2>2, <2>3, <2>4
<1> QED BY <1>4, <1>7, <1>8, <1>10, <1>11 DEF ShellInv

\* Ctrl-C wakes the shell at its prompt; while it waits for a living job, the keyboard is the
\* job's.
LEMMA CtrlCStep == ShellInv /\ CtrlC => ShellInv'
<1> SUFFICES ASSUME ShellInv, CtrlC PROVE ShellInv'
  OBVIOUS
<1> DEFINE group == {t \in Children \cup {0} : t \notin Dead /\ pgid[t] = foreground}
<1>1. /\ mode' = [t \in TaskIds |-> IF t \in group /\ Sleeps(t) THEN "awake" ELSE mode[t]]
      /\ cut' = [t \in TaskIds |-> cut[t] \/ (t \in group /\ Sleeps(t))]
      /\ UNCHANGED <<call, fds, pipe, kbd, eof, pgid, foreground, sh>>
  BY DEF CtrlC
<1>2. /\ Inv /\ mode \in [TaskIds -> Modes] /\ call \in [TaskIds -> Calls]
      /\ cut \in [TaskIds -> BOOLEAN] /\ 0 \in TaskIds /\ Family /\ ShellAwake
  BY Basics DEF ShellInv, Inv, TypeOK
<1>3. mode[0] = "CHILD" => 0 \notin group
  BY <1>2 DEF Family, ShellAwake
<1> HIDE DEF group
<1>4. mode' \in [TaskIds -> Modes] /\ call' \in [TaskIds -> Calls] /\ cut' \in [TaskIds -> BOOLEAN]
  BY <1>1, <1>2 DEF Modes
<1>5. NoNewSleeper /\ StaysAlive
  BY <1>1, <1>2 DEF NoNewSleeper, SleepModes, StaysAlive, Living, Sleeps, Asleep
<1>6. Inv'
  BY <1>1, <1>2, <1>4, <1>5, OnlyWakes
<1>7. Children' = Children /\ Dead' = Dead
  BY <1>5, SameKin
<1>8. ShellAwake'
  <2>1. \/ mode'[0] = mode[0] /\ cut'[0] = cut[0]
        \/ mode[0] = "KEY" /\ mode'[0] = "awake" /\ cut'[0]
    BY <1>1, <1>2, <1>3, Zenon DEF Sleeps, Asleep, ShellAwake
  <2> QED BY <1>1, <1>2, <1>7, <2>1 DEF ShellAwake
<1>9. Quiet'
  BY <1>1 DEF ShellInv, Quiet
<1> QED BY <1>1, <1>5, <1>6, <1>8, <1>9, Bystanders

-----------------------------------------------------------------------------
(* All together.                                                           *)

LEMMA ShellInitInv == ShellInit => ShellInv
<1> SUFFICES ASSUME ShellInit PROVE ShellInv
  OBVIOUS
<1>1. /\ Init /\ pgid = [t \in TaskIds |-> 0] /\ foreground = 0 /\ sh = AtPrompt
  BY DEF ShellInit
<1>2. Inv
  BY <1>1, InitInv
<1>3. /\ mode = [t \in TaskIds |-> IF t = 0 THEN "awake" ELSE "none"]
      /\ cut = [t \in TaskIds |-> FALSE] /\ kbd.r = 0 /\ kbd.w = 0 /\ eof = FALSE
  BY <1>1 DEF Init
<1>4. \A fd \in Fds : fds[0][fd] = IF fd = 0 THEN ConsoleIn ELSE IF fd = 1 THEN ConsoleOut ELSE Closed
  <2>1. fds = [t \in TaskIds |-> [fd \in Fds |-> CASE t = 0 /\ fd = 0 -> ConsoleIn
                                                  [] t = 0 /\ fd = 1 -> ConsoleOut
                                                  [] OTHER -> Closed]]
    BY <1>1 DEF Init
  <2>2. fds[0] = [fd \in Fds |-> CASE 0 = 0 /\ fd = 0 -> ConsoleIn
                                [] 0 = 0 /\ fd = 1 -> ConsoleOut
                                [] OTHER -> Closed]
    BY <2>1, Basics
  <2> QED BY <2>2
<1>5. Children = {} /\ ~ cut[0] /\ mode[0] = "awake"
  BY <1>3, Basics DEF Children
<1>6. Quiet /\ ShellTypeOK /\ Wired(sh) /\ ShellAwake
  BY <1>1, <1>3, <1>5, Basics, PromptRecord DEF Quiet, ShellTypeOK, ShellAwake
<1>7. Table
  BY <1>1, <1>4, Basics, PromptRecord DEF Table
<1>8. DeadHoldNothing
  BY <1>3 DEF DeadHoldNothing
<1>9. Family
  BY <1>1, <1>5, Basics, PromptRecord DEF Family
<1> QED BY <1>2, <1>6, <1>7, <1>8, <1>9 DEF ShellInv

LEMMA ShellNextInv == TypeAhead = FALSE /\ ShellInv /\ [ShellNext]_allVars => ShellInv'
<1> SUFFICES ASSUME TypeAhead = FALSE, ShellInv, [ShellNext]_allVars PROVE ShellInv'
  BY Zenon
<1>1. CASE UNCHANGED allVars
  <2>1. UNCHANGED <<mode, call, cut, fds, pipe, kbd, eof, pgid, foreground, sh>>
    BY <1>1 DEF allVars, vars
  <2>2. StaysAlive /\ NoNewSleeper
    BY <2>1 DEF StaysAlive, NoNewSleeper
  <2>3. mode' \in [TaskIds -> Modes] /\ call' \in [TaskIds -> Calls] /\ cut' \in [TaskIds -> BOOLEAN]
    BY <2>1 DEF ShellInv, Inv, TypeOK
  <2>4. Inv' /\ Quiet'
    BY <2>1, <2>2, <2>3, OnlyWakes DEF ShellInv, Quiet
  <2>5. ShellAwake'
    BY <2>1, <2>2, ShellMayWake
  <2> QED BY <2>1, <2>2, <2>4, <2>5, Bystanders
<1>2. CASE AwaitKey
  BY <1>2, AwaitKeyStep
<1>3. CASE \E key \in {"char", "back", "enter"} : KeyRead(key)
  BY <1>3, KeyReadStep, Zenon
<1>4. CASE CheckAbandoned \/ EditLine \/ EndLine
  BY <1>4, CheckAbandonedStep, EditLineStep, EndLineStep
<1>5. CASE MakePipe \/ PipeRefused \/ StageRefused \/ CloseEnd
  BY <1>5, MakePipeStep, PipeRefusedStep, StageRefusedStep, CloseEndStep
<1>6. CASE \E child \in TaskIds \ {0} : StartStage(child)
  BY <1>6, StartStageStep
<1>7. CASE GiveKeyboard \/ WaitCollects \/ WaitOtherwise \/ TakeKeyboard
  BY <1>7, GiveKeyboardStep, WaitCollectsStep, WaitOtherwiseStep, TakeKeyboardStep
<1>8. CASE \E t \in TaskIds : StageWorks(t) \/ StageEnds(t)
  BY <1>8, StageWorksStep, StageEndsStep
<1>9. CASE CtrlC
  BY <1>9, CtrlCStep
<1> QED
  BY <1>1, <1>2, <1>3, <1>4, <1>5, <1>6, <1>7, <1>8, <1>9, Zenon DEF ShellNext, ShellStep

\* The inductive invariant, while nobody types ahead of the prompt.
THEOREM ShellInvHolds == TypeAhead = FALSE /\ ShellSpec => []ShellInv
<1> SUFFICES ASSUME TypeAhead = FALSE PROVE ShellSpec => []ShellInv
  BY Zenon
<1>1. ShellInv /\ [ShellNext]_allVars => ShellInv'
  BY ShellNextInv
<1> QED BY <1>1, ShellInitInv, PTL DEF ShellSpec

\* At the prompt no table holds a pipe, so that by the counts no pipe is live.
LEMMA PromptIsClean == ShellInv => PromptClean
<1> SUFFICES ASSUME ShellInv, sh.pc = "prompt" PROVE PromptClean
  BY DEF PromptClean
<1>1. Carried(sh) = {} /\ Children = {} /\ foreground = 0 /\ Inv /\ Table
  BY DEF ShellInv, Wired, Family
<1>2. fds \in [TaskIds -> [Fds -> Files]] /\ 0 \in TaskIds /\ mode \in [TaskIds -> Modes]
  BY <1>1, Basics DEF Inv, TypeOK
<1>3. \A fd \in Fds : fds[0][fd] = IF fd = 0 THEN ConsoleIn ELSE IF fd = 1 THEN ConsoleOut ELSE Closed
  BY <1>1 DEF Table
<1>4. fds[0] = [fd \in Fds |-> IF fd = 0 THEN ConsoleIn ELSE IF fd = 1 THEN ConsoleOut ELSE Closed]
  <2>1. fds[0] = [fd \in Fds |-> fds[0][fd]]
    BY <1>2
  <2> QED BY <1>3, <2>1
<1>5. \A t \in TaskIds \ {0} : \A fd \in Fds : fds[t][fd] = Closed
  <2>1. \A t \in TaskIds \ {0} : mode[t] \in {"none", "gone"}
    BY <1>1, SMTT(30) DEF Children
  <2> QED BY <1>1, <2>1 DEF ShellInv, DeadHoldNothing, Inv, Unborn
<1>6. ASSUME NEW p \in Pipes PROVE ~ pipe[p].live
  <2>1. HeldAt(fds, PipeEnd(p, "read")) = {} /\ HeldAt(fds, PipeEnd(p, "write")) = {}
    <3>1. ASSUME NEW end \in {"read", "write"}, NEW at \in TaskIds \X Fds
          PROVE  fds[at[1]][at[2]] # PipeEnd(p, end)
      <4>1. at[1] \in TaskIds /\ at[2] \in Fds
        OBVIOUS
      <4>2. fds[at[1]][at[2]] \in {ConsoleIn, ConsoleOut, Closed}
        BY <1>3, <1>5, <4>1
      <4> QED BY <4>2, EndFacts
    <3> QED BY <3>1, SMTT(30) DEF HeldAt
  <2>2. Exact(pipe, fds, p)
    BY <1>1, ExactCounts DEF Inv
  <2> QED BY <2>1, <2>2, FS_EmptySet DEF Exact
<1> QED BY <1>1, <1>4, <1>6 DEF PromptClean

\* However the jobs go (pipes and stages refused, stages killed, Ctrl-C at any moment), the
\* shell is back at its prompt with no pipe, no descriptor and no child of theirs left, and
\* with the keyboard: run_pipeline of user/shell.c.
THEOREM PromptAlwaysClean == TypeAhead = FALSE /\ ShellSpec => []PromptClean
BY ShellInvHolds, PromptIsClean, PTL

\* While the shell sleeps in SYS_WAIT, Ctrl-C reaches every living stage, and not the shell.
THEOREM InterruptAlwaysReaches == TypeAhead = FALSE /\ ShellSpec => []InterruptReachesJob
<1>1. ShellInv => InterruptReachesJob
  BY DEF ShellInv, ShellAwake, Family, InterruptReachesJob
<1> QED BY <1>1, ShellInvHolds, PTL

\* Once run_pipeline has done its waits, it has met the last stage.
THEOREM StatusAlwaysOfLast == TypeAhead = FALSE /\ ShellSpec => []StatusOfLast
<1>1. ShellInv => StatusOfLast
  BY DEF ShellInv, Family, StatusOfLast
<1> QED BY <1>1, ShellInvHolds, PTL

-----------------------------------------------------------------------------
(* Lines that Ctrl-C abandons, with keys typed ahead or not.               *)

Elsewhere == {"prompt", "pipe", "run", "close", "setfg", "wait", "restore"}

\* Where the shell goes on, it is not at the prompt's keys.
LEMMA GoOnElsewhere ==
  ASSUME NEW s, HasPc(s)
  PROVE  HasPc(GoOn(s)) /\ GoOn(s).pc \in Elsewhere
<1>1. HasPc(AtPrompt) /\ AtPrompt.pc = "prompt"
  BY DEF HasPc, AtPrompt
<1>2. CASE ToClose(s) # "none"
  BY <1>2 DEF GoOn, HasPc, Elsewhere
<1>3. CASE ToClose(s) = "none" /\ s.ok /\ s.i < s.n - 1
  <2>1. GoOn(s) = NextStage(s)
    BY <1>3 DEF GoOn
  <2> QED BY <2>1 DEF NextStage, HasPc, Elsewhere
<1>4. CASE ToClose(s) = "none" /\ ~ (s.ok /\ s.i < s.n - 1)
  <2>1. GoOn(s) = Drained(s)
    BY <1>4 DEF GoOn
  <2> QED BY <1>1, <2>1 DEF Drained, HasPc, Elsewhere
<1> QED BY <1>2, <1>3, <1>4, SMTT(30)

\* While a job runs, the line is left alone.
LEMMA LineLeft ==
  ASSUME LineInv, UNCHANGED line, HasPc(sh'), sh'.pc \in Elsewhere \/ sh' = sh
  PROVE  LineInv'
<1>1. CASE sh'.pc \in Elsewhere
  BY <1>1 DEF LineInv, Elsewhere, HasPc
<1>2. CASE sh' = sh
  BY <1>2 DEF LineInv, HasPc
<1> QED BY <1>1, <1>2, SMTT(30)

LEMMA LineStepInv == LineInv /\ ShellStep => LineInv'
<1> SUFFICES ASSUME LineInv, ShellStep PROVE LineInv'
  OBVIOUS
<1>0. line \in LineRecords /\ HasPc(sh) /\ HasPc(AtPrompt) /\ AtPrompt.pc = "prompt"
  BY SMTT(30) DEF LineInv, HasPc, AtPrompt
<1>00. /\ line.len \in Nat /\ line.old \in Nat /\ line.late \in BOOLEAN /\ line.abandoned \in BOOLEAN
       /\ line.key \in {"none", "char", "back", "enter"}
  BY <1>0 DEF LineRecords
<1>1. CASE CheckAbandoned
  <2>1. sh.pc = "key" /\ sh' = [sh EXCEPT !.pc = "use"] /\ line' = Abandon(line)
    BY <1>1 DEF CheckAbandoned, At
  <2>2. HasPc(sh') /\ sh'.pc = "use"
    BY <1>0, <2>1 DEF HasPc
  <2>3. CASE line.abandoned
    <3>1. line' = [line EXCEPT !.len = 0, !.old = 0, !.abandoned = FALSE]
      BY <1>0, <2>1, <2>3, Zenon DEF Abandon, Emptied, LineRecords
    <3>2. line' \in LineRecords /\ line'.len = 0 /\ line'.old = 0 /\ ~ line'.abandoned
          /\ line'.key = line.key
      BY <1>0, <3>1, Zenon DEF LineRecords
    <3> QED BY <2>1, <2>2, <3>2 DEF LineInv, HasPc
  <2>4. CASE ~ line.abandoned
    <3>1. line' = line /\ ~ line.late
      BY <2>1, <2>4 DEF Abandon, LineInv
    <3> QED BY <2>1, <2>2, <2>4, <3>1 DEF LineInv, HasPc
  <2> QED BY <2>3, <2>4
<1>2. CASE EditLine
  <2> DEFINE len == IF line.key = "char" THEN IF line.len < LineMax - 1 THEN line.len + 1 ELSE line.len
                    ELSE IF line.len > 0 THEN line.len - 1 ELSE 0
             old == IF line.late THEN len ELSE Min({line.old, len})
  <2>1. sh.pc = "use" /\ sh' = AtPrompt /\ line' = [line EXCEPT !.len = len, !.old = old, !.key = "none"]
    BY <1>2 DEF EditLine, At, Edited
  <2>2. len \in Nat /\ (line.len = 0 => len <= 1)
    BY <1>00
  <2> HIDE DEF len
  <2>3. Min({line.old, len}) = IF line.old <= len THEN line.old ELSE len
    BY <1>00, <2>2, MinOfTwo
  <2>4. old \in Nat /\ (~ line.abandoned => old <= 1)
    <3>1. (~ line.abandoned => line.old <= 1) /\ (line.late /\ ~ line.abandoned => line.len = 0)
      BY <2>1 DEF LineInv
    <3> QED BY <1>00, <2>2, <2>3, <3>1
  <2> HIDE DEF old
  <2>5. line' \in LineRecords
    BY <1>0, <2>1, <2>2, <2>4, Zenon DEF LineRecords
  <2>6. line'.old = old /\ line'.abandoned = line.abandoned
    BY <1>0, <2>1 DEF LineRecords
  <2> QED BY <1>0, <2>1, <2>4, <2>5, <2>6 DEF LineInv, HasPc
<1>3. CASE EndLine
  <2>1. line' = [EmptyLine EXCEPT !.abandoned = line.abandoned]
        /\ \/ sh' = AtPrompt
           \/ \E n \in Lines : sh' = [AtPrompt EXCEPT !.n = n, !.pc = IF n = 1 THEN "run" ELSE "pipe"]
    BY <1>3, Zenon DEF EndLine
  <2>2. HasPc(sh') /\ sh'.pc \in Elsewhere
    BY <1>0, <2>1, Zenon DEF HasPc, Elsewhere
  <2>3. line' \in LineRecords /\ line'.old = 0
    BY <1>00, <2>1, Zenon DEF EmptyLine, LineRecords
  <2> QED BY <2>2, <2>3 DEF LineInv, HasPc, Elsewhere
<1>4. CASE MakePipe
  <2>1. /\ UNCHANGED line
        /\ \E a, b : sh' = [sh EXCEPT !.pc = "run", !.next = a, !.out = b]
    BY <1>4, Zenon DEF MakePipe
  <2>2. HasPc(sh') /\ sh'.pc = "run"
    BY <1>0, <2>1 DEF HasPc
  <2> QED BY <2>1, <2>2, LineLeft DEF Elsewhere
<1>5. CASE PipeRefused
  <2>1. UNCHANGED line /\ sh' = GoOn([sh EXCEPT !.ok = FALSE]) /\ HasPc([sh EXCEPT !.ok = FALSE])
    BY <1>0, <1>5 DEF PipeRefused, HasPc
  <2> QED BY <2>1, GoOnElsewhere, LineLeft
<1>6. ASSUME NEW child, StartStage(child) PROVE LineInv'
  <2> DEFINE s == [sh EXCEPT !.last = LastId(child), !.job = GroupOf(child), !.started = @ + 1]
  <2>1. UNCHANGED line /\ sh' = GoOn(s) /\ HasPc(s)
    BY <1>0, <1>6 DEF StartStage, HasPc
  <2> HIDE DEF s
  <2> QED BY <2>1, GoOnElsewhere, LineLeft
<1>7. CASE StageRefused
  <2> DEFINE s == [sh EXCEPT !.ok = FALSE, !.refused = sh.job # 0 /\ ~ MayUseGroup(sh.job)]
  <2>1. UNCHANGED line /\ sh' = GoOn(s) /\ HasPc(s)
    BY <1>0, <1>7 DEF StageRefused, HasPc
  <2> HIDE DEF s
  <2> QED BY <2>1, GoOnElsewhere, LineLeft
<1>8. CASE CloseEnd
  <2>1. PICK end \in {"in", "out", "next"} : sh' = GoOn([sh EXCEPT ![end] = -1])
    BY <1>8, Zenon DEF CloseEnd
  <2>2. UNCHANGED line /\ HasPc([sh EXCEPT ![end] = -1])
    BY <1>0, <1>8 DEF CloseEnd, HasPc
  <2> QED BY <2>1, <2>2, GoOnElsewhere, LineLeft
<1>9. CASE GiveKeyboard \/ TakeKeyboard
  <2>1. UNCHANGED line /\ (sh' = [sh EXCEPT !.pc = "wait"] \/ sh' = AtPrompt)
    BY <1>9 DEF GiveKeyboard, TakeKeyboard
  <2>2. HasPc(sh') /\ sh'.pc \in Elsewhere
    BY <1>0, <2>1 DEF HasPc, Elsewhere
  <2> QED BY <2>1, <2>2, LineLeft
<1>10. CASE WaitCollects \/ WaitOtherwise
  <2>1. UNCHANGED line /\ (sh' = sh \/ \E s : HasPc(s) /\ sh' = Waited(s))
    <3>1. HasPc([sh EXCEPT !.found = @ \/ Min(Dead) = sh.last])
      BY <1>0 DEF HasPc
    <3> QED BY <1>0, <1>10, <3>1, Zenon DEF WaitCollects, WaitOtherwise
  <2>2. HasPc(sh') /\ (sh' = sh \/ sh'.pc \in Elsewhere)
    BY <1>0, <2>1, Zenon DEF HasPc, Waited, Elsewhere
  <2> QED BY <2>1, <2>2, LineLeft
<1> QED
  BY <1>1, <1>2, <1>3, <1>4, <1>5, <1>6, <1>7, <1>8, <1>9, <1>10, Zenon DEF ShellStep

LEMMA LineNextInv == LineInv /\ [ShellNext]_allVars => LineInv'
<1> SUFFICES ASSUME LineInv, [ShellNext]_allVars PROVE LineInv'
  BY SMTT(30)
<1>0. line \in LineRecords /\ HasPc(sh)
  BY DEF LineInv
<1>1. CASE UNCHANGED <<sh, line>>
  BY <1>0, <1>1, LineLeft
<1>2. CASE ShellStep
  BY <1>2, LineStepInv, SMTT(30)
<1>3. ASSUME NEW key \in {"char", "back", "enter"}, KeyRead(key) PROVE LineInv'
  <2>1. sh' = [sh EXCEPT !.pc = "key"] /\ line' = [line EXCEPT !.key = key, !.late = FALSE]
    BY <1>3 DEF KeyRead
  <2>2. HasPc(sh') /\ sh'.pc = "key"
    BY <1>0, <2>1 DEF HasPc
  <2>3. /\ line' \in LineRecords /\ line'.key = key /\ ~ line'.late /\ line'.old = line.old
        /\ line'.abandoned = line.abandoned
    BY <1>0, <2>1, Zenon DEF LineRecords
  <2> QED BY <2>2, <2>3 DEF LineInv, HasPc
<1>4. CASE CtrlC
  <2> DEFINE b == line.key # "none"
  <2>1. /\ UNCHANGED sh
        /\ \/ UNCHANGED line
           \/ line' = [line EXCEPT !.abandoned = TRUE, !.old = line.len, !.late = b]
    BY <1>4, Zenon DEF CtrlC
  <2>2. CASE UNCHANGED line
    BY <1>0, <2>1, <2>2, LineLeft, SMTT(30)
  <2>3. CASE line' = [line EXCEPT !.abandoned = TRUE, !.old = line.len, !.late = b]
    <3>1. b \in BOOLEAN /\ (b <=> line.key # "none")
      OBVIOUS
    <3> HIDE DEF b
    <3>2. line' \in LineRecords
      BY <1>0, <2>3, <3>1, Zenon DEF LineRecords
    <3>3. line'.abandoned = TRUE /\ line'.key = line.key /\ line'.late = b
      BY <1>0, <2>3 DEF LineRecords
    <3>4. (line'.late <=> line.key # "none") /\ line'.abandoned
      BY <3>1, <3>3
    <3>5. sh' = sh /\ (sh.pc \in {"key", "use"} => line.key # "none")
      BY <2>1 DEF LineInv
    <3> QED BY <1>0, <3>2, <3>3, <3>4, <3>5 DEF LineInv, HasPc
  <2> QED BY <2>1, <2>2, <2>3
<1> QED
  BY <1>1, <1>2, <1>3, <1>4, Zenon DEF ShellNext, AwaitKey, StageWorks, StageEnds, allVars

\* The part of a line that Ctrl-C has abandoned is never run: read_line and its signal
\* handler in user/shell.c agree on what is old, whenever the signal comes.
THEOREM AbandonedNeverRun == ShellSpec => []AbandonedNotRun
<1>1. ShellInit => LineInv
  <2> SUFFICES ASSUME ShellInit PROVE LineInv
    OBVIOUS
  <2>1. line = EmptyLine /\ sh = AtPrompt
    BY SMTT(30) DEF ShellInit
  <2>2. sh.pc = "prompt" /\ HasPc(sh)
    BY <2>1 DEF AtPrompt, HasPc
  <2>3. line \in LineRecords /\ ~ line.abandoned /\ line.old = 0
    BY <2>1 DEF EmptyLine, LineRecords
  <2> QED BY <2>2, <2>3 DEF LineInv
<1>2. LineInv => AbandonedNotRun
  BY DEF LineInv, AbandonedNotRun
<1> QED BY <1>1, <1>2, LineNextInv, PTL DEF ShellSpec
=============================================================================
