------------------------------ MODULE Console ------------------------------
(***************************************************************************)
(* The keyboard and the tasks that read it: keyboard_callback as a whole,  *)
(* from the scancode to the wake, beside the system calls of Descriptors.  *)
(***************************************************************************)
EXTENDS Descriptors, Keyboard

\* What the keyboard interrupt does for the event it has decoded.  Ctrl-C signals the
\* foreground group, which may be any set of tasks here.
Handled ==
  \/ event'.kind = "char" /\ Type
  \/ event'.kind = "eof" /\ CtrlD
  \/ event'.kind = "interrupt" /\ \E group \in SUBSET TaskIds : Signal(group)
  \/ event'.kind = "nothing" /\ UNCHANGED vars

\* An interrupt from the keyboard.
KeyDown == \E k \in Keys : Press(k) /\ Handled
KeyUp == (\E k \in Keys : Release(k)) /\ UNCHANGED vars

ConsoleInit == Init /\ KeyInit
ConsoleNext == (TaskStep /\ UNCHANGED keyVars) \/ KeyDown \/ KeyUp
ConsoleSpec == ConsoleInit /\ [][ConsoleNext]_<<vars, keyVars>>
=============================================================================
