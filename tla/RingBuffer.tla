----------------------------- MODULE RingBuffer -----------------------------
(***************************************************************************)
(* The circular buffer that pipes (kernel/pipe.c) and the keyboard         *)
(* (drivers/keyboard.c) share: `w` chases `r` round `size` slots, and one  *)
(* slot stays unused so that equal indices can only mean empty.            *)
(***************************************************************************)
EXTENDS Integers

Used(r, w, size) == (w + size - r) % size
\* Mutant: the slot that tells full from empty is used too.
SpaceAll(r, w, size) == size - Used(r, w, size)

Space(r, w, size) == (size - 1) - Used(r, w, size)

Advance(i, n, size) == (i + n) % size

\* The k-th buffered item, counted from 0.
Item(buf, r, k, size) == buf[(r + k) % size]

\* The buffer with the items `first`, `first` + 1, ... (modulo `wrap`) stored in n slots from w on.
Stored(buf, w, n, first, wrap, size) ==
  [i \in DOMAIN buf |-> LET k == (i + size - w) % size
                        IN IF k < n THEN (first + k) % wrap ELSE buf[i]]
=============================================================================
