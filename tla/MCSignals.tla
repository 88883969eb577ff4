----------------------------- MODULE MCSignals -----------------------------
(* Small instances of Signals for TLC.                                     *)
EXTENDS Signals, TLC

\* The statuses of SIG_INT, SIG_KILL, SIG_SEGV and SIG_PIPE; SYS_EXIT may be given them too.
MCExitArgs == {130, 137, 139, 141}

\* Without SIG_PIPE, and with an argument of SYS_EXIT that does not fit a byte.
MCTaskArgs == {-1, 130, 137, 139}
=============================================================================
