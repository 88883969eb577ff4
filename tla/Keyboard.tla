------------------------------ MODULE Keyboard ------------------------------
(***************************************************************************)
(* keyboard_callback (drivers/keyboard.c): from the scancodes of keys that *)
(* go down and up to characters, Ctrl-C and Ctrl-D.                        *)
(*                                                                         *)
(* A key is named by the code it sends, so that an extended key (0xE0 and  *)
(* then a code) is the plain key of that code: the driver drops the 0xE0   *)
(* as the release of a key it does not know.  Console has the rest of the  *)
(* handler: what the event does to the readers of the console.             *)
(***************************************************************************)
EXTENDS Naturals, FiniteSets

CONSTANTS
  Keys,       \* the keys of the keyboard
  MaxHeld,    \* bound: keys held down together
  Letters,    \* those that caps lock applies to
  Plain       \* the others that produce a character

ASSUME KeysAssumption ==
  /\ MaxHeld \in Nat
  /\ Letters \cup Plain \subseteq Keys /\ Letters \cap Plain = {}
  /\ {"c", "d"} \cap Keys \subseteq Letters
  /\ {"lshift", "rshift", "capslock", "lctrl", "rctrl"} \cap (Letters \cup Plain) = {}

VARIABLES
  down,         \* the keys that are held down (the hardware)
  shift_held,
  caps_on,
  ctrl_held,
  event,        \* what the last scancode led to
  let_go        \* modifiers that are down, but whose twin went up since (history)

keyVars == <<down, shift_held, caps_on, ctrl_held, event, let_go>>

Nothing == [kind |-> "nothing", key |-> "none", shifted |-> FALSE]
Event(kind) == [Nothing EXCEPT !.kind = kind]

\* Mutant: shift and caps lock together still shift a letter.
UseShiftedOr(k) == IF k \in Letters THEN shift_held \/ caps_on ELSE shift_held

\* table_for: is the shifted table the one to use?
UseShifted(k) == IF k \in Letters THEN shift_held # caps_on ELSE shift_held

\* What a key press without a modifier of its own leads to.
Decoded(k) ==
  IF ctrl_held THEN CASE k = "c" -> Event("interrupt")
                      [] k = "d" -> Event("eof")
                      [] OTHER -> Nothing
  ELSE IF k \in Letters \cup Plain
  THEN [kind |-> "char", key |-> k, shifted |-> UseShifted(k)]
  ELSE Nothing

Shifts == {"lshift", "rshift"}
Ctrls == {"lctrl", "rctrl"}

\* The keys that share a flag with k.
Twins(k) == IF k \in Shifts THEN Shifts ELSE IF k \in Ctrls THEN Ctrls ELSE {}

\* A make code.  A key that is held down repeats it.
Press(k) ==
  /\ Cardinality(down \cup {k}) <= MaxHeld
  /\ down' = down \cup {k}
  /\ \/ /\ k \in Shifts
        /\ shift_held' = TRUE /\ event' = Nothing /\ UNCHANGED <<caps_on, ctrl_held>>
     \/ /\ k = "capslock"
        /\ caps_on' = ~ caps_on /\ event' = Nothing /\ UNCHANGED <<shift_held, ctrl_held>>
     \/ /\ k \in Ctrls
        /\ ctrl_held' = TRUE /\ event' = Nothing /\ UNCHANGED <<shift_held, caps_on>>
     \/ /\ k \notin Shifts \cup Ctrls \cup {"capslock"}
        /\ event' = Decoded(k) /\ UNCHANGED <<shift_held, caps_on, ctrl_held>>
  /\ let_go' = let_go \ Twins(k)

\* A break code.
Release(k) ==
  /\ k \in down
  /\ down' = down \ {k}
  /\ shift_held' = (shift_held /\ k \notin Shifts)
  /\ ctrl_held' = (ctrl_held /\ k \notin Ctrls)
  /\ event' = Nothing
  /\ let_go' = (let_go \cup (down \cap Twins(k))) \ {k}
  /\ UNCHANGED caps_on

KeyInit ==
  /\ down = {}
  /\ shift_held = FALSE /\ caps_on = FALSE /\ ctrl_held = FALSE
  /\ event = Nothing
  /\ let_go = {}

-----------------------------------------------------------------------------
(* Properties.                                                             *)

\* A character comes out in the case the keys held say, with shift reversing caps lock, and
\* none comes out while ctrl is held; Ctrl-C and Ctrl-D come from ctrl and that key, held
\* together.  With one flag for two keys, a modifier that is down counts unless its twin has
\* gone up after it went down.
TypedAsHeld ==
  LET shift == Shifts \cap (down \ let_go) # {}
      ctrl == Ctrls \cap (down \ let_go) # {}
  IN CASE event.kind = "char" ->
            /\ ~ ctrl
            /\ event.shifted <=> IF event.key \in Letters THEN shift # caps_on ELSE shift
       [] event.kind = "interrupt" -> ctrl /\ "c" \in down
       [] event.kind = "eof" -> ctrl /\ "d" \in down
       [] OTHER -> TRUE
=============================================================================
