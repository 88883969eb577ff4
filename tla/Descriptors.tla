---------------------------- MODULE Descriptors ----------------------------
(***************************************************************************)
(* File descriptors, pipes and the console (kernel/file.c, kernel/pipe.c,  *)
(* the ring of drivers/keyboard.c and their system calls).                 *)
(*                                                                         *)
(* Any task that is not asleep may run next: which one does is the         *)
(* business of Scheduler.  A call that must wait puts its task to sleep on *)
(* a reason and is issued again, from the start, when the task runs after  *)
(* a wake; a signal wakes it too, and then the call fails if it would wait *)
(* again.  Bytes are numbered as they enter a stream, modulo a number      *)
(* larger than the stream can hold, so that one lost, doubled or out of    *)
(* order shows.                                                            *)
(***************************************************************************)
EXTENDS RingBuffer, FiniteSets, FiniteSetsExt

CONSTANTS
  NumTasks,    \* bound: tasks that are ever created
  Pipes,       \* bound: pipe objects the heap has room for
  Console,     \* what a descriptor that is not a pipe end leads to
  MaxFds,      \* MAX_FDS
  PipeSize,    \* PIPE_SIZE
  KbdSize,     \* KBD_BUFFER_SIZE
  IoLens,      \* lengths of the reads and writes made
  ConsoleUsed  \* whether anybody types, and programs read what is typed

ASSUME SizesAssumption ==
  /\ NumTasks \in Nat \ {0} /\ MaxFds \in Nat /\ MaxFds >= 2
  /\ PipeSize \in Nat /\ PipeSize >= 2 /\ KbdSize \in Nat /\ KbdSize >= 2
  /\ Console \notin Pipes
  /\ IoLens \subseteq Nat \ {0} /\ ConsoleUsed \in BOOLEAN

VARIABLES
  mode,     \* of each task: "none", "awake", "exited" or the wait_reason it sleeps on
  call,     \* the call a task issues again once it is woken
  cut,      \* sig_interrupted
  fds,      \* the descriptor tables
  pipe,     \* the pipes
  kbd,      \* the keyboard ring
  eof       \* console_eof

vars == <<mode, call, cut, fds, pipe, kbd, eof>>

TaskIds == 0 .. NumTasks - 1
Fds == 0 .. MaxFds - 1
Closed == [to |-> Console, end |-> "closed"]
ConsoleIn == [to |-> Console, end |-> "read"]
ConsoleOut == [to |-> Console, end |-> "write"]
PipeWrap == PipeSize + 1
KbdWrap == KbdSize + 1

NoCall == [op |-> "none", fd |-> 0, len |-> 0]
FreshPipe == [live |-> FALSE, r |-> 0, w |-> 0, buf |-> [i \in 0 .. PipeSize - 1 |-> 0],
              readers |-> 0, writers |-> 0, sent |-> 0, got |-> 0]

PipeUsed(p) == Used(pipe[p].r, pipe[p].w, PipeSize)
PipeSpace(p) == Space(pipe[p].r, pipe[p].w, PipeSize)
KbdUsed == Used(kbd.r, kbd.w, KbdSize)

-----------------------------------------------------------------------------
(* Sleeping and waking.                                                    *)

\* scheduler_wake: every task that sleeps for one of these reasons.
Woken(m, reasons) == [t \in TaskIds |-> IF m[t] \in reasons THEN "awake" ELSE m[t]]

\* May t issue this call: is it running, and not in the middle of another one?
Issues(t, c) == mode[t] = "awake" /\ call[t] \in {NoCall, c}

\* The call has its answer.  A signal that found nothing to cut short stays noted.
Answered(t) == call' = [call EXCEPT ![t] = NoCall] /\ UNCHANGED cut

\* task_block: sleep, unless a signal has come in the meantime; then the call fails.
Block(t, c, reason) ==
  /\ \/ /\ cut[t]
        /\ cut' = [cut EXCEPT ![t] = FALSE]
        /\ call' = [call EXCEPT ![t] = NoCall]
        /\ UNCHANGED mode
     \/ /\ ~ cut[t]
        /\ mode' = [mode EXCEPT ![t] = reason]
        /\ call' = [call EXCEPT ![t] = c]
        /\ UNCHANGED cut
  /\ UNCHANGED <<fds, pipe, kbd, eof>>

-----------------------------------------------------------------------------
(* Opening and closing.                                                    *)

FreeFds(t) == {fd \in Fds : fds[t][fd] = Closed}

\* The ends of each pipe among these files, by direction.
Ends(files, p, end) == Cardinality({i \in DOMAIN files : files[i] = [to |-> p, end |-> end]})

\* Mutant: a pipe is freed once either side has gone.
UncountedEither(files, p) ==
  LET readers == pipe[p].readers - Ends(files, p, "read")
      writers == pipe[p].writers - Ends(files, p, "write")
  IN IF pipe[p].live /\ (readers = 0 \/ writers = 0) THEN FreshPipe
     ELSE [pipe[p] EXCEPT !.readers = readers, !.writers = writers]

\* file_close for each of these files: uncount the ends, free a pipe without any.
Uncounted(files, p) ==
  LET readers == pipe[p].readers - Ends(files, p, "read")
      writers == pipe[p].writers - Ends(files, p, "write")
  IN IF pipe[p].live /\ readers = 0 /\ writers = 0 THEN FreshPipe
     ELSE [pipe[p] EXCEPT !.readers = readers, !.writers = writers]

\* Mutant: the last writer leaves without waking the readers.
ClosingWakesWriters(files) ==
  {"PIPE_WRITE" : p \in {q \in Pipes : /\ Ends(files, q, "read") > 0
                                       /\ pipe[q].readers = Ends(files, q, "read")}}

\* Whom these closes wake: the other side of a pipe that loses its last end of a kind.
ClosingWakes(files) ==
  {"PIPE_READ" : p \in {q \in Pipes : /\ Ends(files, q, "write") > 0
                                      /\ pipe[q].writers = Ends(files, q, "write")}}
  \cup {"PIPE_WRITE" : p \in {q \in Pipes : /\ Ends(files, q, "read") > 0
                                            /\ pipe[q].readers = Ends(files, q, "read")}}

SysClose(t, fd) ==
  LET files == [i \in {fd} |-> fds[t][i]]
  IN /\ mode[t] = "awake" /\ call[t] = NoCall /\ fds[t][fd] # Closed
     /\ fds' = [fds EXCEPT ![t][fd] = Closed]
     /\ pipe' = [p \in Pipes |-> Uncounted(files, p)]
     /\ mode' = Woken(mode, ClosingWakes(files))
     /\ UNCHANGED <<call, cut, kbd, eof>>

\* task_exit closes every descriptor, and wakes the parent if that waits (`parent' is what it
\* sleeps on).  A task may also be killed before it issues its call again.
ExitWaking(t, parent) ==
  /\ mode[t] = "awake"
  /\ fds' = [fds EXCEPT ![t] = [fd \in Fds |-> Closed]]
  /\ pipe' = [p \in Pipes |-> Uncounted(fds[t], p)]
  /\ mode' = [Woken(mode, ClosingWakes(fds[t]) \cup parent) EXCEPT ![t] = "exited"]
  /\ call' = [call EXCEPT ![t] = NoCall] /\ cut' = [cut EXCEPT ![t] = FALSE]
  /\ UNCHANGED <<kbd, eof>>

\* Here nobody is in SYS_WAIT.
Exit(t) == ExitWaking(t, {})

\* SYS_PIPE: a pipe and two ends in the two lowest free slots.
SysPipe(t, p) ==
  LET rfd == Min(FreeFds(t))
      wfd == Min(FreeFds(t) \ {rfd})
  IN /\ mode[t] = "awake" /\ call[t] = NoCall
     /\ ~ pipe[p].live /\ Cardinality(FreeFds(t)) >= 2
     /\ fds' = [fds EXCEPT ![t][rfd] = [to |-> p, end |-> "read"],
                           ![t][wfd] = [to |-> p, end |-> "write"]]
     /\ pipe' = [pipe EXCEPT ![p] = [FreshPipe EXCEPT !.live = TRUE, !.readers = 1,
                                                      !.writers = 1]]
     /\ UNCHANGED <<mode, call, cut, kbd, eof>>

\* It gets the read end and no write end, for want of a slot or of memory: closing the read
\* end frees the pipe, and wakes writers, none of whom writes to this pipe.
SysPipeFails(t) ==
  /\ mode[t] = "awake" /\ call[t] = NoCall
  /\ FreeFds(t) # {} /\ \E p \in Pipes : ~ pipe[p].live
  /\ mode' = Woken(mode, {"PIPE_WRITE"})
  /\ UNCHANGED <<call, cut, fds, pipe, kbd, eof>>

\* SYS_RUN: the child gets a copy of two of the caller's ends, or consoles (-1).
Inherited(t, fd, default) == IF fd = -1 THEN default ELSE fds[t][fd]

SysRun(t, child, in, out) ==
  LET files == [i \in {0, 1} |-> IF i = 0 THEN Inherited(t, in, ConsoleIn)
                                 ELSE Inherited(t, out, ConsoleOut)]
  IN /\ mode[t] = "awake" /\ call[t] = NoCall
     /\ mode[child] = "none" /\ \A c \in TaskIds : c < child => mode[c] # "none"
     /\ in # -1 => fds[t][in].end = "read"
     /\ out # -1 => fds[t][out].end = "write"
     /\ mode' = [mode EXCEPT ![child] = "awake"]
     /\ fds' = [fds EXCEPT ![child] = [fd \in Fds |-> IF fd \in {0, 1} THEN files[fd]
                                                         ELSE Closed]]
     /\ pipe' = [p \in Pipes |->
                   [pipe[p] EXCEPT !.readers = @ + Ends(files, p, "read"),
                                   !.writers = @ + Ends(files, p, "write")]]
     /\ UNCHANGED <<call, cut, kbd, eof>>

-----------------------------------------------------------------------------
(* Reading and writing.                                                    *)

\* SYS_READ on a pipe: what is there, up to len; end of file if no writer is left.
PipeRead(t, fd, len) ==
  LET p == fds[t][fd].to
      c == [op |-> "read", fd |-> fd, len |-> len]
      n == Min({PipeUsed(p), len})
  IN /\ Issues(t, c) /\ p \in Pipes /\ fds[t][fd].end = "read"
     /\ \/ /\ PipeUsed(p) > 0
           /\ pipe' = [pipe EXCEPT ![p].r = Advance(@, n, PipeSize),
                                   ![p].got = (Item(pipe[p].buf, pipe[p].r, n - 1, PipeSize) + 1)
                                                % PipeWrap]
           /\ mode' = Woken(mode, {"PIPE_WRITE"})
           /\ Answered(t)
           /\ UNCHANGED <<fds, kbd, eof>>
        \/ /\ PipeUsed(p) = 0 /\ pipe[p].writers > 0
           /\ Block(t, c, "PIPE_READ")
        \/ /\ PipeUsed(p) = 0 /\ pipe[p].writers = 0
           /\ Answered(t)
           /\ UNCHANGED <<mode, fds, pipe, kbd, eof>>

\* SYS_WRITE on a pipe: what fits.  Without a reader it fails, and raises SIG_PIPE, whose
\* default action is Exit.
PipeWrite(t, fd, len) ==
  LET p == fds[t][fd].to
      c == [op |-> "write", fd |-> fd, len |-> len]
      n == Min({PipeSpace(p), len})
  IN /\ Issues(t, c) /\ p \in Pipes /\ fds[t][fd].end = "write"
     /\ \/ /\ pipe[p].readers = 0
           /\ Answered(t)
           /\ UNCHANGED <<mode, fds, pipe, kbd, eof>>
        \/ /\ pipe[p].readers > 0 /\ PipeSpace(p) = 0
           /\ Block(t, c, "PIPE_WRITE")
        \/ /\ pipe[p].readers > 0 /\ PipeSpace(p) > 0
           /\ pipe' = [pipe EXCEPT ![p].w = Advance(@, n, PipeSize),
                                   ![p].buf = Stored(@, pipe[p].w, n, pipe[p].sent, PipeWrap,
                                                     PipeSize),
                                   ![p].sent = (@ + n) % PipeWrap]
           /\ mode' = Woken(mode, {"PIPE_READ"})
           /\ Answered(t)
           /\ UNCHANGED <<fds, kbd, eof>>

\* keyboard_getchar, n times.
Taken(n) ==
  [kbd EXCEPT !.r = Advance(@, n, KbdSize),
              !.got = (Item(kbd.buf, kbd.r, n - 1, KbdSize) + 1) % KbdWrap]

\* SYS_READ on the console: characters first, then the end of input, then sleep.
ConsoleRead(t, fd, len) ==
  LET c == [op |-> "read", fd |-> fd, len |-> len]
  IN /\ ConsoleUsed /\ Issues(t, c) /\ fds[t][fd] = ConsoleIn
     /\ \/ /\ KbdUsed > 0
           /\ kbd' = Taken(Min({KbdUsed, len}))
           /\ Answered(t)
           /\ UNCHANGED <<mode, fds, pipe, eof>>
        \/ /\ KbdUsed = 0 /\ eof
           /\ eof' = FALSE
           /\ Answered(t)
           /\ UNCHANGED <<mode, fds, pipe, kbd>>
        \/ /\ KbdUsed = 0 /\ ~ eof
           /\ Block(t, c, "KEY")

\* SYS_READKEY: one character, whatever the descriptors are.
SysReadkey(t) ==
  LET c == [op |-> "readkey", fd |-> 0, len |-> 1]
  IN /\ ConsoleUsed /\ Issues(t, c)
     /\ \/ /\ KbdUsed > 0
           /\ kbd' = Taken(1)
           /\ Answered(t)
           /\ UNCHANGED <<mode, fds, pipe, eof>>
        \/ /\ KbdUsed = 0
           /\ Block(t, c, "KEY")

-----------------------------------------------------------------------------
(* The keyboard interrupt, and signals.                                    *)

\* A key with a character: into the ring, or dropped if that is full.
Type ==
  /\ ConsoleUsed
  /\ kbd' = IF Space(kbd.r, kbd.w, KbdSize) = 0 THEN kbd
            ELSE [kbd EXCEPT !.buf = Stored(@, kbd.w, 1, kbd.sent, KbdWrap, KbdSize),
                             !.w = Advance(@, 1, KbdSize),
                             !.sent = (@ + 1) % KbdWrap]
  /\ mode' = Woken(mode, {"KEY"})
  /\ UNCHANGED <<call, cut, fds, pipe, eof>>

\* Mutant: the flag is set and nobody is woken.
CtrlDSilent ==
  /\ ConsoleUsed
  /\ eof' = TRUE
  /\ UNCHANGED <<mode, call, cut, fds, pipe, kbd>>

\* Ctrl-D: the end of input.
CtrlD ==
  /\ ConsoleUsed
  /\ eof' = TRUE
  /\ mode' = Woken(mode, {"KEY"})
  /\ UNCHANGED <<call, cut, fds, pipe, kbd>>

Asleep(t) == mode[t] \in {"PIPE_READ", "PIPE_WRITE", "KEY"}

\* signal_raise on the tasks of S: those that sleep wake up.
Signal(S) ==
  /\ mode' = [t \in TaskIds |-> IF t \in S /\ Asleep(t) THEN "awake" ELSE mode[t]]
  /\ cut' = [t \in TaskIds |-> cut[t] \/ (t \in S /\ Asleep(t))]
  /\ UNCHANGED <<call, fds, pipe, kbd, eof>>

Init ==
  /\ mode = [t \in TaskIds |-> IF t = 0 THEN "awake" ELSE "none"]
  /\ call = [t \in TaskIds |-> NoCall]
  /\ cut = [t \in TaskIds |-> FALSE]
  /\ fds = [t \in TaskIds |->
              [fd \in Fds |-> CASE t = 0 /\ fd = 0 -> ConsoleIn
                               [] t = 0 /\ fd = 1 -> ConsoleOut
                               [] OTHER -> Closed]]
  /\ pipe = [p \in Pipes |-> FreshPipe]
  /\ kbd = [r |-> 0, w |-> 0, buf |-> [i \in 0 .. KbdSize - 1 |-> 0], sent |-> 0, got |-> 0]
  /\ eof = FALSE

TaskStep ==
  \E t \in TaskIds :
    \/ \E fd \in Fds, len \in IoLens :
         PipeRead(t, fd, len) \/ PipeWrite(t, fd, len) \/ ConsoleRead(t, fd, len)
    \/ SysReadkey(t)
    \/ \E fd \in Fds : SysClose(t, fd)
    \/ \E p \in Pipes : SysPipe(t, p)
    \/ SysPipeFails(t)
    \/ \E child \in TaskIds, in \in Fds \cup {-1}, out \in Fds \cup {-1} :
         SysRun(t, child, in, out)
    \/ Exit(t)
    \/ Signal({t})

-----------------------------------------------------------------------------
(* Properties.                                                             *)

AllEnds(p, end) == {at \in TaskIds \X Fds : fds[at[1]][at[2]] = [to |-> p, end |-> end]}

\* A pipe's counts are the numbers of its ends in all the tables, and it is freed exactly
\* when it has none: nothing leaks, and no descriptor leads to a freed pipe.
CountsExact ==
  \A p \in Pipes :
    /\ pipe[p].readers = Cardinality(AllEnds(p, "read"))
    /\ pipe[p].writers = Cardinality(AllEnds(p, "write"))
    /\ pipe[p].live <=> AllEnds(p, "read") \cup AllEnds(p, "write") # {}

\* No wakeup is lost: a task sleeps only as long as what it waits for is not there.  A
\* reader sleeps on an empty pipe that has a writer, a writer on a full pipe that has a
\* reader, a console reader while nothing is typed.
SleepersJustified ==
  \A t \in TaskIds :
    LET p == fds[t][call[t].fd].to
    IN /\ mode[t] = "PIPE_READ" => PipeUsed(p) = 0 /\ pipe[p].writers > 0
       /\ mode[t] = "PIPE_WRITE" => PipeSpace(p) = 0 /\ pipe[p].readers > 0
       /\ mode[t] = "KEY" => KbdUsed = 0 /\ (eof => call[t].op = "readkey")

\* A ring holds, in order, exactly what was put in and has not been taken out.
InOrder(ring, size, wrap) ==
  LET n == Used(ring.r, ring.w, size)
  IN /\ (ring.got + n) % wrap = ring.sent
     /\ \A k \in 0 .. n - 1 : Item(ring.buf, ring.r, k, size) = (ring.got + k) % wrap

\* Bytes leave a pipe in the order they came, none lost and none twice, across wrap-around,
\* short reads and short writes.
StreamIntact == \A p \in Pipes : pipe[p].live => InOrder(pipe[p], PipeSize, PipeWrap)

\* So do the characters the keyboard ring accepted.
KeysIntact == InOrder(kbd, KbdSize, KbdWrap)
=============================================================================
