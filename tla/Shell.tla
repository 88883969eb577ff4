------------------------------- MODULE Shell -------------------------------
(***************************************************************************)
(* The shell's jobs (user/shell.c): cmd_run and run_pipeline, one system   *)
(* call a step, over the descriptors and pipes of Descriptors and beside   *)
(* the programs it starts.                                                 *)
(*                                                                         *)
(* Task 0 is the shell and every other task is a child of it: a stage that *)
(* reads its input, writes its output and exits when it likes.  SYS_WAIT,  *)
(* the groups and the foreground are those of Scheduler, as far as a       *)
(* parent and its children see them.                                       *)
(***************************************************************************)
EXTENDS Descriptors, Sequences

CONSTANTS
  Lines,       \* the numbers of stages of the lines typed; 1 is a plain `run'
  TypeAhead,   \* whether a key may be typed before the shell asks for it
  LineMax,     \* SHELL_LINE_MAX
  MaxBytes     \* bound: bytes that go through one pipe

ASSUME LinesAssumption ==
  /\ Lines \subseteq Nat \ {0} /\ TypeAhead \in BOOLEAN /\ LineMax \in Nat \ {0}
  /\ MaxBytes \in 1 .. PipeWrap - 1

VARIABLES
  pgid,        \* task_t.pgid
  foreground,  \* foreground_pgid
  doomed,      \* the tasks with a signal pending whose default action kills
  sh,          \* where the shell is in its program, and its local variables
  line         \* the line being typed, and line_abandoned

allVars == <<vars, pgid, foreground, doomed, sh, line>>

\* Locals of run_pipeline: n stages, of which i is next; the descriptors in_fd, out_fd and
\* next_in, or -1 once closed; job_pgid, 0 without a job; last_id; the children not yet
\* waited for.  `ok' says whether the stages started so far, `found' whether the status of the
\* last stage has come, `refused' whether a group was denied to a stage.
AtPrompt == [pc |-> "prompt", n |-> 0, i |-> 0, in |-> -1, out |-> -1, next |-> -1,
             job |-> 0, last |-> -1, started |-> 0, ok |-> TRUE, found |-> FALSE,
             refused |-> FALSE]

-----------------------------------------------------------------------------
(* The kernel, as a parent sees it.                                        *)

Children == {t \in TaskIds \ {0} : mode[t] \notin {"none", "gone"}}
Dead == {t \in Children : mode[t] = "exited"}

\* may_use_group, of the shell: its own group, or that of a living child.
MayUseGroup(g) == g = pgid[0] \/ \E t \in Children \ Dead : pgid[t] = g

\* Does t sleep in a system call?
Sleeps(t) == Asleep(t) \/ mode[t] = "CHILD"

-----------------------------------------------------------------------------
(* The shell's control flow between two system calls.                      *)

\* Mutant: the read end meant for the next stage stays open.
ToCloseButNext(s) == IF s.in # -1 THEN "in" ELSE IF s.out # -1 THEN "out" ELSE "none"

\* What the shell closes next: its own copies of the ends of this stage and, when the stage
\* did not start, the read end meant for the next one.
ToClose(s) ==
  IF s.in # -1 THEN "in" ELSE IF s.out # -1 THEN "out"
  ELSE IF ~ s.ok /\ s.next # -1 THEN "next" ELSE "none"

\* The label `drain': without a job there is nothing to wait for.
Drained(s) ==
  IF s.job # 0 THEN [s EXCEPT !.pc = "setfg"]
  ELSE IF s.n > 1 THEN [s EXCEPT !.pc = "restore"]
  ELSE AtPrompt

\* The next turn of the loop over the stages.
NextStage(s) ==
  [s EXCEPT !.i = @ + 1, !.pc = IF s.i + 1 = s.n - 1 THEN "run" ELSE "pipe",
            !.in = s.next, !.out = -1, !.next = -1]

\* After a stage: its ends are closed first, then comes the next stage, if there is one.
GoOn(s) ==
  IF ToClose(s) # "none" THEN [s EXCEPT !.pc = "close"]
  ELSE IF s.ok /\ s.i < s.n - 1 THEN NextStage(s)
  ELSE Drained(s)

\* Mutant: the first child that comes ends the waiting.
WaitedOnce(s) == [s EXCEPT !.started = @ - 1, !.pc = "restore"]

\* One wait less to do.
Waited(s) == [s EXCEPT !.started = @ - 1, !.pc = IF s.started = 1 THEN "restore" ELSE "wait"]

At(pc) == mode[0] = "awake" /\ sh.pc = pc

-----------------------------------------------------------------------------
(* The prompt.                                                             *)

\* read_line asks for a key.  A call that a signal cut short is simply made again.
AwaitKey ==
  /\ At("prompt")
  /\ Block(0, NoCall, "KEY")
  /\ UNCHANGED <<pgid, foreground, doomed, sh, line>>

\* Of the line, only its length counts, and how many of its characters are `old': read before
\* the handler last ran.  `late' says that it ran after the key in hand was read.
EmptyLine == [len |-> 0, old |-> 0, key |-> "none", late |-> FALSE, abandoned |-> FALSE]
Emptied(l) == [l EXCEPT !.len = 0, !.old = 0]

\* SYS_READKEY returns a key: it finds the shell asleep, or has been there before.
KeyRead(key) ==
  /\ sh.pc = "prompt"
  /\ mode[0] = "KEY" \/ TypeAhead
  /\ mode' = [mode EXCEPT ![0] = "awake"]
  /\ sh' = [sh EXCEPT !.pc = "key"]
  /\ line' = [line EXCEPT !.key = key, !.late = FALSE]
  /\ UNCHANGED <<call, cut, fds, pipe, kbd, eof, pgid, foreground, doomed>>

\* Mutant: the flag is not looked at before the key that ends the line.
AbandonOnKey(l) == IF l.abandoned /\ l.key # "enter" THEN [Emptied(l) EXCEPT !.abandoned = FALSE] ELSE l

\* read_line throws away what was typed before the handler ran.
Abandon(l) == IF l.abandoned THEN [Emptied(l) EXCEPT !.abandoned = FALSE] ELSE l

CheckAbandoned ==
  /\ At("key")
  /\ line' = Abandon(line)
  /\ sh' = [sh EXCEPT !.pc = "use"]
  /\ UNCHANGED <<vars, pgid, foreground, doomed>>

\* A character is added while there is room, and backspace drops one.
Edited(l) ==
  LET len == IF l.key = "char" THEN IF l.len < LineMax - 1 THEN l.len + 1 ELSE l.len
             ELSE IF l.len > 0 THEN l.len - 1 ELSE 0
  IN [l EXCEPT !.len = len, !.old = IF l.late THEN len ELSE Min({l.old, len}), !.key = "none"]

EditLine ==
  /\ At("use") /\ line.key # "enter"
  /\ line' = Edited(line)
  /\ sh' = AtPrompt
  /\ UNCHANGED <<vars, pgid, foreground, doomed>>

\* The line is complete: a job of n stages, or something that the shell does by itself.
EndLine ==
  /\ At("use") /\ line.key = "enter"
  /\ line' = [EmptyLine EXCEPT !.abandoned = line.abandoned]
  /\ \/ sh' = AtPrompt
     \/ /\ line.len > 0
        /\ \E n \in Lines : sh' = [AtPrompt EXCEPT !.n = n, !.pc = IF n = 1 THEN "run" ELSE "pipe"]
  /\ UNCHANGED <<vars, pgid, foreground, doomed>>

-----------------------------------------------------------------------------
(* Wiring up a job.                                                        *)

\* Where the heap puts a new pipe: which place is free does not matter.
NewPipe == LET free == {p \in Pipes : ~ pipe[p].live}
           IN IF free = {} THEN {} ELSE {CHOOSE p \in free : TRUE}

\* SYS_PIPE between this stage and the next.
MakePipe ==
  /\ At("pipe")
  /\ \E p \in NewPipe : SysPipe(0, p)
  /\ LET rfd == Min(FreeFds(0))
     IN sh' = [sh EXCEPT !.pc = "run", !.next = rfd, !.out = Min(FreeFds(0) \ {rfd})]
  /\ UNCHANGED <<pgid, foreground, doomed, line>>

\* It fails, with or without having made a read end first.
PipeRefused ==
  /\ At("pipe")
  /\ SysPipeFails(0) \/ UNCHANGED vars
  /\ sh' = GoOn([sh EXCEPT !.ok = FALSE])
  /\ UNCHANGED <<pgid, foreground, doomed, line>>

\* Mutant: every stage leads a group of its own.
GroupOfEach(child) == child

\* The first stage leads the job's group and the others join it.
GroupOf(child) == IF sh.job = 0 THEN child ELSE sh.job

\* last_id, once this stage has been started.
LastId(child) == IF sh.i = sh.n - 1 THEN child ELSE sh.last

\* SYS_RUN of this stage.  The shell's own copies of its ends are next to go.
StartStage(child) ==
  /\ At("run")
  /\ sh.job = 0 \/ MayUseGroup(sh.job)
  /\ SysRun(0, child, sh.in, sh.out)
  /\ pgid' = [pgid EXCEPT ![child] = GroupOf(child)]
  /\ sh' = GoOn([sh EXCEPT !.last = LastId(child), !.job = GroupOf(child), !.started = @ + 1])
  /\ UNCHANGED <<foreground, doomed, line>>

\* It does not start: no such program, no memory, or the group is not to be had.
StageRefused ==
  /\ At("run")
  /\ sh' = GoOn([sh EXCEPT !.ok = FALSE, !.refused = sh.job # 0 /\ ~ MayUseGroup(sh.job)])
  /\ UNCHANGED <<vars, pgid, foreground, doomed, line>>

CloseEnd ==
  /\ At("close")
  /\ \E end \in {"in", "out", "next"} :
       /\ end = ToClose(sh)
       /\ SysClose(0, sh[end])
       /\ sh' = GoOn([sh EXCEPT ![end] = -1])
  /\ UNCHANGED <<pgid, foreground, doomed, line>>

-----------------------------------------------------------------------------
(* Waiting for it.                                                         *)

\* The keyboard goes to the job, if anything of it is left.
GiveKeyboard ==
  /\ At("setfg")
  /\ foreground' = IF MayUseGroup(sh.job) THEN sh.job ELSE foreground
  /\ sh' = [sh EXCEPT !.pc = "wait"]
  /\ UNCHANGED <<vars, pgid, doomed, line>>

\* SYS_WAIT gives the lowest dead child.
WaitCollects ==
  LET child == Min(Dead)
  IN /\ At("wait") /\ Dead # {}
     /\ mode' = [mode EXCEPT ![child] = "gone"]
     /\ pgid' = [pgid EXCEPT ![child] = 0]
     /\ sh' = Waited([sh EXCEPT !.found = @ \/ child = sh.last])
     /\ UNCHANGED <<call, cut, fds, pipe, kbd, eof, foreground, doomed, line>>

\* Without a dead child it fails if there is none at all, or if a signal has come, and else
\* sleeps.
WaitOtherwise ==
  /\ At("wait") /\ Dead = {}
  /\ \/ Children = {} /\ UNCHANGED vars
     \/ Children # {} /\ Block(0, NoCall, "CHILD")
  /\ sh' = IF mode'[0] = "awake" THEN Waited(sh) ELSE sh
  /\ UNCHANGED <<pgid, foreground, doomed, line>>

\* And back: one's own group is never refused.
TakeKeyboard ==
  /\ At("restore")
  /\ foreground' = 0
  /\ sh' = AtPrompt
  /\ UNCHANGED <<vars, pgid, doomed, line>>

-----------------------------------------------------------------------------
(* The stages, and the person at the keyboard.                             *)

\* A stage goes on reading or writing.  A write that nobody will read raises SIG_PIPE.
StageWorks(t) ==
  /\ t \in Children \ doomed
  /\ \E len \in IoLens :
       \/ PipeRead(t, 0, len) /\ UNCHANGED doomed
       \/ /\ PipeWrite(t, 1, len) /\ pipe[fds[t][1].to].sent < MaxBytes
          /\ doomed' = IF pipe[fds[t][1].to].readers = 0 THEN doomed \cup {t} ELSE doomed
  /\ UNCHANGED <<pgid, foreground, sh, line>>

\* A stage exits, or check_signals kills it.
StageEnds(t) ==
  /\ t \in Children
  /\ ExitWaking(t, {"CHILD"})
  /\ doomed' = doomed \ {t}
  /\ UNCHANGED <<pgid, foreground, sh, line>>

\* SIG_INT for the foreground group.  The shell has a handler, which prints a new prompt and
\* runs before anything else that the shell does.
CtrlC ==
  LET group == {t \in Children \cup {0} : t \notin Dead /\ pgid[t] = foreground}
  IN /\ mode' = [t \in TaskIds |-> IF t \in group /\ Sleeps(t) THEN "awake" ELSE mode[t]]
     /\ cut' = [t \in TaskIds |-> cut[t] \/ (t \in group /\ Sleeps(t))]
     /\ doomed' = doomed \cup (group \ {0})
     /\ line' = IF 0 \in group
                THEN [line EXCEPT !.abandoned = TRUE, !.old = line.len, !.late = line.key # "none"]
                ELSE line
     /\ UNCHANGED <<call, fds, pipe, kbd, eof, pgid, foreground, sh>>

ShellInit ==
  /\ Init
  /\ pgid = [t \in TaskIds |-> 0]
  /\ foreground = 0
  /\ doomed = {}
  /\ sh = AtPrompt
  /\ line = EmptyLine

\* What the shell does while it is not at its prompt.
ShellStep ==
  \/ CheckAbandoned \/ EditLine \/ EndLine
  \/ MakePipe \/ PipeRefused
  \/ \E child \in TaskIds \ {0} : StartStage(child)
  \/ StageRefused \/ CloseEnd
  \/ GiveKeyboard \/ WaitCollects \/ WaitOtherwise \/ TakeKeyboard

ShellNext ==
  \/ AwaitKey \/ \E key \in {"char", "back", "enter"} : KeyRead(key)
  \/ ShellStep
  \/ \E t \in TaskIds : StageWorks(t) \/ StageEnds(t)
  \/ CtrlC

\* The shell goes on while it is not asleep (ReadyRuns of Scheduler), and a program that runs
\* again and again is at its end some time: no stage of a job loops for ever.
ShellSpec ==
  /\ ShellInit /\ [][ShellNext]_allVars
  /\ WF_allVars(ShellStep)
  /\ \A t \in TaskIds : SF_allVars(StageEnds(t))

-----------------------------------------------------------------------------
(* Properties.                                                             *)

\* Whatever failed on the way, the prompt comes back with nothing of the job left: no pipe
\* and no end of one in the shell's table, no child that nobody has waited for, and the
\* keyboard with the shell.
PromptClean ==
  sh.pc = "prompt" =>
    /\ fds[0] = [fd \in Fds |-> IF fd = 0 THEN ConsoleIn ELSE IF fd = 1 THEN ConsoleOut
                                ELSE Closed]
    /\ \A p \in Pipes : ~ pipe[p].live
    /\ Children = {}
    /\ foreground = 0

\* While the shell is asleep waiting for a job, Ctrl-C means the job: every stage that is
\* still alive is in the foreground group, and the shell is not.
InterruptReachesJob ==
  mode[0] = "CHILD" =>
    /\ foreground # pgid[0]
    /\ \A t \in Children \ Dead : pgid[t] = foreground

\* When all the waits are done, the status of the last stage is among those collected, so
\* that it is the one reported (decision 8 of docs/decisions/0022).
StatusOfLast == sh.pc = "restore" /\ sh.last # -1 => sh.found

\* A job whose programs come to an end comes to an end: no stage sleeps for ever on a pipe
\* whose other side has gone, and the shell gets back to its prompt.
PromptReturns == sh.pc # "prompt" ~> sh.pc = "prompt"

\* What Ctrl-C has abandoned is not run: when the key that ends the line was read after the
\* handler ran, nothing of what was read before is left in the line, but for the one key that
\* read_line had in hand when the handler cut in.
AbandonedNotRun == sh.pc = "use" /\ line.key = "enter" /\ ~ line.late => line.old <= 1

\* A stage is started in the group of the first one ("the rest join the id it was given",
\* user/shell.c); the group is never denied to it.
StageJoins == ~ sh.refused
=============================================================================
