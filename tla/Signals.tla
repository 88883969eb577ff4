------------------------------ MODULE Signals ------------------------------
(***************************************************************************)
(* kernel/signal.c on top of the task table: raising, check_signals on the *)
(* way out of the kernel, handlers and SYS_SIGRETURN, together with the    *)
(* re-arm of task_block, which makes a task that was put to sleep issue    *)
(* its system call a second time.                                          *)
(*                                                                         *)
(* Every action is the action of Scheduler it names, with what it does to  *)
(* the signal state of task_t.                                             *)
(***************************************************************************)
EXTENDS Scheduler

CONSTANTS Sigs,       \* the signals that can be raised
          Catchable   \* those that programs install handlers for

SIG_INT == 2
SIG_KILL == 9
SIG_SEGV == 11
SIG_PIPE == 13
SigExitStatus(sig) == 128 + sig

ASSUME SigsAssumption ==
  /\ Sigs \subseteq 1 .. 31
  /\ SIG_INT \in Sigs
  /\ Catchable \subseteq Sigs
  /\ \A sig \in Sigs \cup {SIG_SEGV} : SigExitStatus(sig) \in ExitArgs

VARIABLES pending,   \* task_t.sig_pending
          handlers,  \* the signals with an entry in task_t.sig_handlers
          active,    \* task_t.sig_active
          call,      \* what the task does at its next instruction in ring 3
          saved      \* the same, in the frame at task_t.sig_ctx

sigVars == <<pending, handlers, active, call, saved>>
allVars == <<vars, sigVars>>

\* A re-armed call: its number is in RAX and RIP is on the `int 0x50' again.  `cut' is a
\* history variable: a signal has ended the sleep of this call.
Calls == [op : Events \cup {"none", "child"}, cut : BOOLEAN]
NoCall == [op |-> "none", cut |-> FALSE]

-----------------------------------------------------------------------------
(* How an action ends: the signal state of the living tasks.  Nobody reads *)
(* that of a zombie again (signal_raise, check_signals and SYS_KILL all    *)
(* test for one), so it is dropped here and not with the tombstone.        *)

Settle(f, d) == Put(f, {i \in TaskIds : state'[i] \in {"hole", "zombie"}}, d)

SettleAll(p, h, a, c, s) ==
  /\ pending' = Settle(p, {})
  /\ handlers' = Settle(h, {})
  /\ active' = Settle(a, FALSE)
  /\ call' = Settle(c, NoCall)
  /\ saved' = Settle(s, NoCall)

\* The current task's next instruction becomes c.
Resume(c) == SettleAll(pending, handlers, active, Put(call, {current}, c), saved)

\* Tables other than `call' are left alone, but for the tasks that go.
Unsignalled == SettleAll(pending, handlers, active, call, saved)

\* sig_pending after signal_raise(i, sig) for each i in S.
PendingAfter(S, sig) ==
  [i \in TaskIds |-> IF i \in S /\ state[i] \notin {"hole", "zombie"}
                     THEN pending[i] \cup {sig} ELSE pending[i]]

\* signal_raise(i, sig) for each i in S, the part that is not in Scheduler's Raise.
RaiseSig(S, sig) ==
  SettleAll(PendingAfter(S, sig), handlers, active,
            [i \in TaskIds |-> IF i \in S /\ state[i] = "blocked"
                               THEN [call[i] EXCEPT !.cut = TRUE] ELSE call[i]],
            saved)

\* Ring 3 is free to make any system call, or it stands on the `int' of a re-armed one.
FreeTo(op) == call[current].op \in {"none", op}
Free == call[current].op = "none"

-----------------------------------------------------------------------------
(* Interrupts.                                                             *)

SigTick == Tick /\ Unsignalled
SigKeyIRQ == (\E event \in IrqEvents : KeyIRQ(event)) /\ Unsignalled
SigIdleExit == IdleExit /\ Unsignalled
SigCtrlC == CtrlC /\ RaiseSig({i \in TaskIds : pgid[i] = foreground}, SIG_INT)

-----------------------------------------------------------------------------
(* System calls.                                                           *)

SigRun == Free /\ (\E req \in TaskIds \cup {NewGroup} : SysRun(req)) /\ Unsignalled
SigSetfg == Free /\ (\E g \in TaskIds : SysSetfg(g)) /\ Unsignalled
SigExit == Free /\ (\E arg \in ExitArgs, R \in SUBSET CallEvents : SysExit(arg, R)) /\ Unsignalled

\* SYS_WAIT.
SigWait ==
  /\ FreeTo("child")
  /\ \/ Collect /\ Resume(NoCall)
     \/ WaitFails /\ Resume(NoCall)
     \/ WaitSleeps /\ Resume([call[current] EXCEPT !.op = "child"])

\* Mutant: task_block forgets to wind RIP back.
SigBlockNoRearm(event) ==
  /\ FreeTo(event)
  /\ SysBlock(event)
  /\ Resume(NoCall)

\* A blocking call that finds nothing: asleep and re-armed, or failed because of a signal.
SigBlock(event) ==
  /\ FreeTo(event)
  /\ SysBlock(event)
  /\ Resume(IF sigInterrupted[current] THEN NoCall ELSE [call[current] EXCEPT !.op = event])

\* A blocking call that finds what it needs; a transfer through a pipe wakes the other side.
SigFinish(event) ==
  /\ FreeTo(event)
  /\ \/ event \in IrqEvents /\ SysOther
     \/ event \in CallEvents /\ \E other \in CallEvents : SysWake(other)
  /\ Resume(NoCall)

\* A SYS_WRITE that finds the last reader gone, at once or after a sleep.
SigBrokenPipe ==
  /\ SIG_PIPE \in Sigs
  /\ FreeTo("pipeWrite")
  /\ SysKill(current)
  /\ SettleAll(PendingAfter({current}, SIG_PIPE), handlers, active,
               Put(call, {current}, NoCall), saved)

\* SYS_KILL.
SigKill(id, sig) ==
  /\ Free
  /\ SysKill(id)
  /\ RaiseSig({id}, sig)

\* SYS_SIGNAL: signal_install_handler refuses SIG_KILL.
SigInstall(sig, on) ==
  /\ Free
  /\ SysOther
  /\ SettleAll(pending,
               [handlers EXCEPT ![current] = IF on /\ sig # SIG_KILL THEN @ \cup {sig}
                                             ELSE @ \ {sig}],
               active, call, saved)

\* SYS_SIGRETURN, from the trampoline: the frame the handler interrupted comes back.
Sigreturn ==
  /\ Free
  /\ active[current]
  /\ SysOther
  /\ SettleAll(pending, handlers, Put(active, {current}, FALSE),
               Put(call, {current}, saved[current]), Put(saved, {current}, NoCall))

\* SYS_SIGRETURN outside a handler.
SigreturnRefused ==
  /\ Free
  /\ ~active[current]
  /\ \E R \in SUBSET CallEvents : SysExit(SigExitStatus(SIG_SEGV), R)
  /\ Unsignalled

-----------------------------------------------------------------------------
(* check_signals.                                                          *)

\* Mutant: the scan stops one short of SIG_KILL.
LowestBelowKill == {sig \in pending[current] : sig < SIG_KILL /\ sig = Min(pending[current])}

\* The lowest pending signal, if there is one.
Lowest == {sig \in pending[current] : sig = Min(pending[current])}

\* Mutant: a second handler may start on top of the first (the test of sig_active is gone).
DueAnyTime == Lowest

\* The signal this return to ring 3 acts on.
Due == IF active[current] THEN {} ELSE Lowest

NothingDue ==
  /\ Due = {}
  /\ ReturnToUser
  /\ Unsignalled

\* The default action, and SIG_KILL whatever is installed.
DefaultAction(sig) ==
  /\ sig \notin handlers[current] \/ sig = SIG_KILL
  /\ \E R \in SUBSET CallEvents : Killed(SigExitStatus(sig), R)
  /\ SettleAll(Put(pending, {current}, pending[current] \ {sig}), handlers, active, call, saved)

\* deliver_to_handler: push the frame, start the handler.
Deliver(sig) ==
  /\ sig \in handlers[current] /\ sig # SIG_KILL
  /\ ReturnToUser
  /\ SettleAll(Put(pending, {current}, pending[current] \ {sig}), handlers,
               Put(active, {current}, TRUE), Put(call, {current}, NoCall),
               Put(saved, {current}, call[current]))

\* deliver_to_handler finds no room for the frame below the stack pointer.
NoRoom(sig) ==
  /\ sig \in handlers[current] /\ sig # SIG_KILL
  /\ \E R \in SUBSET CallEvents : Killed(SigExitStatus(SIG_SEGV), R)
  /\ Unsignalled

SigCheck == NothingDue \/ \E sig \in Due : DefaultAction(sig) \/ Deliver(sig) \/ NoRoom(sig)

-----------------------------------------------------------------------------
SigInit ==
  /\ Init
  /\ pending = [i \in TaskIds |-> {}]
  /\ handlers = [i \in TaskIds |-> {}]
  /\ active = [i \in TaskIds |-> FALSE]
  /\ call = [i \in TaskIds |-> NoCall]
  /\ saved = [i \in TaskIds |-> NoCall]

SigNext ==
  \/ SigTick \/ SigKeyIRQ \/ SigIdleExit \/ SigCtrlC
  \/ SigRun \/ SigSetfg \/ SigExit \/ SigWait
  \/ \E event \in Events : SigBlock(event) \/ SigFinish(event)
  \/ \E id \in TaskIds, sig \in Sigs : SigKill(id, sig)
  \/ \E sig \in Catchable, on \in BOOLEAN : SigInstall(sig, on)
  \/ SigBrokenPipe
  \/ Sigreturn \/ SigreturnRefused
  \/ SigCheck

SigSpec == SigInit /\ [][SigNext]_allVars

\* The handler that is running ends, the idle loop tests after every interrupt, and the
\* interrupt controller latches a tick that arrives while interrupts are off, so that the
\* timer is taken at one of the returns to ring 3 even if each of them is short.  Nothing is
\* assumed of ring 3.
SigFairSpec == /\ SigSpec
               /\ WF_allVars(SigCheck) /\ WF_allVars(SigIdleExit) /\ SF_allVars(SigTick)

-----------------------------------------------------------------------------
(* Properties.                                                             *)

\* A step that leaves the frame of a handler that goes on running alone.
FrameStep == \A i \in TaskIds : active[i] /\ active'[i] => saved'[i] = saved[i]

\* check_signals starts no handler on top of a running one (S6): as long as a handler runs,
\* the frame SYS_SIGRETURN will restore, with the call that is re-armed in it, is the one
\* that was interrupted.
FrameKept == [][FrameStep]_allVars

\* task_block re-arms what it puts to sleep: a sleeping task wakes up on the call that will
\* look for the very event it was waiting for, whatever handlers ran in between.
SleepsOnItsCall ==
  \A i \in TaskIds : state[i] = "blocked" => call[i].op = waitReason[i]

\* SIG_KILL takes effect: the task dies, unless a handler is running, which holds signals
\* back, or the task has gone to sleep with the signal pending.
KillTakesEffect ==
  \A i \in TaskIds :
    SIG_KILL \in pending[i] ~> state[i] \in {"zombie", "hole", "blocked"} \/ active[i]

\* A signal reaches a task that would sleep: nobody is blocked with a signal pending that
\* check_signals would act on (the comment in signal_raise: "A BLOCKED TASK MUST BE WOKEN,
\* OR THE SIGNAL NEVER ARRIVES").
NoSleepOnSignal ==
  \A i \in TaskIds : state[i] = "blocked" /\ ~active[i] => pending[i] = {}

\* A call whose sleep a signal has ended is not silently issued again: it does not go
\* back to sleep (decision 9 of docs/decisions/0023-signals.md).
CutCallFails ==
  \A i \in TaskIds : state[i] = "blocked" => ~call[i].cut
=============================================================================
