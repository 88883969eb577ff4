-------------------------- MODULE DescriptorsProofs --------------------------
(***************************************************************************)
(* Pipes, descriptors and the keyboard ring are safe for every number of   *)
(* tasks, pipes and descriptors, every ring size and every transfer        *)
(* length, with signals and key presses at any time; and what a key types  *)
(* is what the modifiers held say, for every set of keys held in any order *)
(* and beside any tasks that read.                                         *)
(***************************************************************************)
EXTENDS Console, Numbers

-----------------------------------------------------------------------------
(* The arithmetic of the ring, for every size: what a read and a write do  *)
(* to the items between the two indices.                                   *)

\* A sum of two indices is taken back by one turn at most.
LEMMA SumIs ==
  ASSUME NEW n \in Nat \ {0}, NEW a \in 0 .. n - 1, NEW b \in 0 .. n - 1
  PROVE  /\ (a + b) % n = IF a + b < n THEN a + b ELSE (a + b) - n
         /\ (a + b) % n \in 0 .. n - 1
<1>1. CASE a + b < n
  BY <1>1
<1>2. CASE ~ (a + b < n)
  BY <1>2
<1> QED BY <1>1, <1>2

\* pipe_used, without the modulus.
LEMMA UsedIs ==
  ASSUME NEW size \in Nat \ {0}, NEW r \in 0 .. size - 1, NEW w \in 0 .. size - 1
  PROVE  /\ Used(r, w, size) = IF r <= w THEN w - r ELSE (w + size) - r
         /\ Used(r, w, size) \in 0 .. size - 1
<1>1. CASE r <= w
  BY <1>1 DEF Used
<1>2. CASE ~ (r <= w)
  BY <1>2 DEF Used
<1> QED BY <1>1, <1>2

\* An index that has been moved on, without the modulus.
LEMMA AdvanceIs ==
  ASSUME NEW size \in Nat \ {0}, NEW i \in 0 .. size - 1, NEW n \in 0 .. size - 1
  PROVE  /\ Advance(i, n, size) = IF i + n < size THEN i + n ELSE (i + n) - size
         /\ Advance(i, n, size) \in 0 .. size - 1
BY SumIs, Zenon DEF Advance

\* Taking n items leaves n fewer, and putting n in leaves n more.
LEMMA UsedMoves ==
  ASSUME NEW size \in Nat \ {0}, NEW r \in 0 .. size - 1, NEW w \in 0 .. size - 1, NEW n \in Nat
  PROVE  /\ n <= Used(r, w, size) => Used(Advance(r, n, size), w, size) = Used(r, w, size) - n
         /\ n <= Space(r, w, size) => Used(r, Advance(w, n, size), size) = Used(r, w, size) + n
<1>1. /\ Used(r, w, size) \in 0 .. size - 1
      /\ Used(r, w, size) = IF r <= w THEN w - r ELSE (w + size) - r
  BY UsedIs, Zenon
<1>2. ASSUME n <= Used(r, w, size)
      PROVE  Used(Advance(r, n, size), w, size) = Used(r, w, size) - n
  <2> DEFINE r2 == Advance(r, n, size)
  <2>1. n \in 0 .. size - 1
    BY <1>1, <1>2
  <2>2. r2 \in 0 .. size - 1 /\ r2 = IF r + n < size THEN r + n ELSE (r + n) - size
    BY <2>1, AdvanceIs, Zenon
  <2> HIDE DEF r2
  <2>3. Used(r2, w, size) = IF r2 <= w THEN w - r2 ELSE (w + size) - r2
    BY <2>2, UsedIs, Zenon
  <2>4. Used(r2, w, size) = Used(r, w, size) - n
    BY <1>1, <1>2, <2>2, <2>3
  <2> QED BY <2>4, Zenon DEF r2
<1>3. ASSUME n <= Space(r, w, size)
      PROVE  Used(r, Advance(w, n, size), size) = Used(r, w, size) + n
  <2> DEFINE w2 == Advance(w, n, size)
  <2>1. n \in 0 .. size - 1 /\ n <= (size - 1) - Used(r, w, size)
    BY <1>1, <1>3 DEF Space
  <2>2. w2 \in 0 .. size - 1 /\ w2 = IF w + n < size THEN w + n ELSE (w + n) - size
    BY <2>1, AdvanceIs, Zenon
  <2> HIDE DEF w2
  <2>3. Used(r, w2, size) = IF r <= w2 THEN w2 - r ELSE (w2 + size) - r
    BY <2>2, UsedIs, Zenon
  <2>4. Used(r, w2, size) = Used(r, w, size) + n
    BY <1>1, <2>1, <2>2, <2>3
  <2> QED BY <2>4, Zenon DEF w2
<1> QED
  BY <1>2, <1>3, Zenon

\* Steps round a ring of n add up, as long as they stay within one turn.
LEMMA SumAgain ==
  ASSUME NEW n \in Nat \ {0}, NEW a \in 0 .. n - 1, NEW b \in 0 .. n - 1, NEW c \in 0 .. n - 1,
         b + c \in 0 .. n - 1
  PROVE  (((a + b) % n) + c) % n = (a + (b + c)) % n
<1> DEFINE m == (a + b) % n
<1>1. m \in 0 .. n - 1 /\ m = IF a + b < n THEN a + b ELSE (a + b) - n
  BY SumIs, Zenon
<1> HIDE DEF m
<1>2. (m + c) % n = IF m + c < n THEN m + c ELSE (m + c) - n
  BY <1>1, SumIs, Zenon
<1>3. (a + (b + c)) % n = IF a + (b + c) < n THEN a + (b + c) ELSE (a + (b + c)) - n
  BY SumIs, Zenon
<1> DEFINE x == (m + c) % n
           y == (a + (b + c)) % n
<1>4. x = y
  <2> HIDE DEF x, y
  <2>1. x = IF m + c < n THEN m + c ELSE (m + c) - n
    BY <1>2, Zenon DEF x
  <2>2. y = IF a + (b + c) < n THEN a + (b + c) ELSE (a + (b + c)) - n
    BY <1>3, Zenon DEF y
  <2> QED BY <2>1, <2>2, <1>1
<1> QED
  BY <1>4, Zenon DEF m

-----------------------------------------------------------------------------
(* What is in the ring.                                                    *)

\* The items between the indices are those numbered from `got' up to `sent'.
Holds(buf, r, w, got, sent, size, wrap) ==
  /\ (got + Used(r, w, size)) % wrap = sent
  /\ \A k \in 0 .. Used(r, w, size) - 1 : Item(buf, r, k, size) = (got + k) % wrap

\* pipe_read and keyboard_getchar: what is left are the items numbered from the one after
\* the last taken.
LEMMA ReadKeepsOrder ==
  ASSUME NEW size \in Nat \ {0}, NEW wrap \in Nat \ {0}, size <= wrap,
         NEW r \in 0 .. size - 1, NEW w \in 0 .. size - 1,
         NEW buf, NEW got \in 0 .. wrap - 1, NEW sent \in 0 .. wrap - 1,
         Holds(buf, r, w, got, sent, size, wrap),
         NEW n \in 1 .. Used(r, w, size)
  PROVE  /\ Advance(r, n, size) \in 0 .. size - 1
         /\ (Item(buf, r, n - 1, size) + 1) % wrap \in 0 .. wrap - 1
         /\ Holds(buf, Advance(r, n, size), w, (Item(buf, r, n - 1, size) + 1) % wrap, sent,
                  size, wrap)
<1> DEFINE used == Used(r, w, size)
           r2 == Advance(r, n, size)
           got2 == (Item(buf, r, n - 1, size) + 1) % wrap
<1>1. used \in 0 .. size - 1
  BY UsedIs, Zenon
<1>2. n \in 0 .. size - 1 /\ n \in 0 .. wrap - 1 /\ n \in Nat /\ n <= used
  BY <1>1
<1>3. Used(r2, w, size) = used - n
  BY <1>2, UsedMoves, Zenon
<1>4. r2 \in 0 .. size - 1
  BY <1>2, AdvanceIs, Zenon
<1>5. got2 = (got + n) % wrap
  <2>1. n - 1 \in 0 .. used - 1 /\ n - 1 \in 0 .. wrap - 1 /\ 1 \in 0 .. wrap - 1 /\ (n - 1) + 1 = n
    BY <1>1, <1>2
  <2>2. Item(buf, r, n - 1, size) = (got + (n - 1)) % wrap
    BY <2>1, Zenon DEF Holds
  <2>3. (((got + (n - 1)) % wrap) + 1) % wrap = (got + ((n - 1) + 1)) % wrap
    BY <1>2, <2>1, SumAgain, Zenon
  <2> QED BY <2>1, <2>2, <2>3, Zenon
<1>6. got2 \in 0 .. wrap - 1
  BY <1>2, <1>5, SumIs, Zenon
<1>7. (got2 + (used - n)) % wrap = sent
  <2>1. used - n \in 0 .. wrap - 1 /\ n + (used - n) = used /\ used \in 0 .. wrap - 1
    BY <1>1, <1>2
  <2>2. (((got + n) % wrap) + (used - n)) % wrap = (got + (n + (used - n))) % wrap
    BY <1>2, <2>1, SumAgain, Zenon
  <2> QED BY <1>5, <2>1, <2>2, Zenon DEF Holds
<1>8. ASSUME NEW k \in 0 .. (used - n) - 1
      PROVE  Item(buf, r2, k, size) = (got2 + k) % wrap
  <2>1. /\ k \in 0 .. size - 1 /\ k \in 0 .. wrap - 1 /\ n + k \in 0 .. used - 1
        /\ n + k \in 0 .. size - 1 /\ n + k \in 0 .. wrap - 1
    BY <1>1, <1>2
  <2>2. (r2 + k) % size = (r + (n + k)) % size
    BY <1>2, <2>1, SumAgain, Zenon DEF Advance
  <2>3. (got2 + k) % wrap = (got + (n + k)) % wrap
    <3>1. (((got + n) % wrap) + k) % wrap = (got + (n + k)) % wrap
      BY <1>2, <2>1, SumAgain, Zenon
    <3> QED BY <1>5, <3>1, Zenon
  <2>4. Item(buf, r, n + k, size) = (got + (n + k)) % wrap
    BY <2>1, Zenon DEF Holds
  <2> QED BY <2>2, <2>3, <2>4, Zenon DEF Item
<1>9. Holds(buf, r2, w, got2, sent, size, wrap)
  <2> HIDE DEF r2, got2, used
  <2> QED BY <1>3, <1>7, <1>8, Zenon DEF Holds
<1> QED
  BY <1>4, <1>6, <1>9, Zenon

\* pipe_write and kbd_push: n items put behind the others follow on from them, and
\* overwrite none of them.
LEMMA WriteKeepsOrder ==
  ASSUME NEW size \in Nat \ {0}, NEW wrap \in Nat \ {0}, size <= wrap,
         NEW r \in 0 .. size - 1, NEW w \in 0 .. size - 1,
         NEW buf \in [0 .. size - 1 -> 0 .. wrap - 1],
         NEW got \in 0 .. wrap - 1, NEW sent \in 0 .. wrap - 1,
         Holds(buf, r, w, got, sent, size, wrap),
         NEW n \in 1 .. Space(r, w, size)
  PROVE  /\ Advance(w, n, size) \in 0 .. size - 1
         /\ (sent + n) % wrap \in 0 .. wrap - 1
         /\ Stored(buf, w, n, sent, wrap, size) \in [0 .. size - 1 -> 0 .. wrap - 1]
         /\ Holds(Stored(buf, w, n, sent, wrap, size), r, Advance(w, n, size), got,
                  (sent + n) % wrap, size, wrap)
<1> DEFINE used == Used(r, w, size)
           w2 == Advance(w, n, size)
           buf2 == Stored(buf, w, n, sent, wrap, size)
<1>1. used \in 0 .. size - 1 /\ used = IF r <= w THEN w - r ELSE (w + size) - r
  BY UsedIs, Zenon
<1>2. /\ n \in 0 .. size - 1 /\ n \in 0 .. wrap - 1 /\ n \in Nat
      /\ used \in 0 .. wrap - 1 /\ used + n \in 0 .. wrap - 1 /\ used + n \in 0 .. size - 1
      /\ n <= Space(r, w, size)
  BY <1>1 DEF Space
<1>3. Used(r, w2, size) = used + n
  BY <1>2, UsedMoves, Zenon
<1>4. w2 \in 0 .. size - 1 /\ (sent + n) % wrap \in 0 .. wrap - 1
  BY <1>2, AdvanceIs, SumIs, Zenon
<1>5. (got + used) % wrap = sent
  BY Zenon DEF Holds
<1>6. (got + (used + n)) % wrap = (sent + n) % wrap
  <2>1. (((got + used) % wrap) + n) % wrap = (got + (used + n)) % wrap
    BY <1>2, SumAgain, Zenon
  <2> QED BY <1>5, <2>1, Zenon
<1>7. ASSUME NEW i \in 0 .. size - 1
      PROVE  buf2[i] = IF Used(w, i, size) < n THEN (sent + Used(w, i, size)) % wrap ELSE buf[i]
  BY Zenon DEF Stored, Used
<1>8. buf2 \in [0 .. size - 1 -> 0 .. wrap - 1]
  <2>1. ASSUME NEW i \in 0 .. size - 1
        PROVE  buf2[i] \in 0 .. wrap - 1
    <3>1. Used(w, i, size) \in 0 .. wrap - 1
      <4>1. Used(w, i, size) \in 0 .. size - 1
        BY UsedIs, Zenon
      <4> QED BY <4>1
    <3>2. (sent + Used(w, i, size)) % wrap \in 0 .. wrap - 1
      BY <3>1, SumIs, Zenon
    <3>3. buf[i] \in 0 .. wrap - 1
      OBVIOUS
    <3> QED BY <1>7, <3>2, <3>3, Zenon
  <2>2. buf2 = [i \in 0 .. size - 1 |-> buf2[i]]
    BY Zenon DEF Stored
  <2> HIDE DEF buf2
  <2> QED BY <2>1, <2>2, Zenon
<1>9. ASSUME NEW k \in 0 .. (used + n) - 1
      PROVE  Item(buf2, r, k, size) = (got + k) % wrap
  <2> DEFINE i == Advance(r, k, size)
  <2>1. k \in 0 .. size - 1 /\ k \in 0 .. wrap - 1
    <3> HIDE DEF used
    <3> QED BY <1>1, <1>2
  <2>2. i \in 0 .. size - 1 /\ i = IF r + k < size THEN r + k ELSE (r + k) - size
    BY <2>1, AdvanceIs, Zenon
  <2>3. Item(buf2, r, k, size) = buf2[i] /\ Item(buf, r, k, size) = buf[i]
    BY Zenon DEF Item, Advance
  <2> HIDE DEF i, buf2
  <2>4. Used(w, i, size) = IF w <= i THEN i - w ELSE (i + size) - w
    BY <2>2, UsedIs, Zenon
  <2>5. CASE k \in 0 .. used - 1
    <3>1. ~ (Used(w, i, size) < n)
      BY <1>1, <1>2, <2>2, <2>4, <2>5
    <3>2. Item(buf, r, k, size) = (got + k) % wrap
      BY <2>5, Zenon DEF Holds
    <3> QED BY <1>7, <2>2, <2>3, <3>1, <3>2, Zenon
  <2>6. CASE ~ (k \in 0 .. used - 1)
    <3>1. /\ Used(w, i, size) < n /\ Used(w, i, size) = k - used
          /\ k - used \in 0 .. wrap - 1 /\ used + (k - used) = k
      <4> HIDE DEF used
      <4> QED BY <1>1, <1>2, <2>1, <2>2, <2>4, <2>6
    <3>2. (sent + (k - used)) % wrap = (got + (used + (k - used))) % wrap
      <4>1. used + (k - used) \in 0 .. wrap - 1
        BY <2>1, <3>1, Zenon
      <4>2. (((got + used) % wrap) + (k - used)) % wrap = (got + (used + (k - used))) % wrap
        <5> DEFINE c == k - used
        <5>1. c \in 0 .. wrap - 1 /\ used + c \in 0 .. wrap - 1 /\ used \in 0 .. wrap - 1
          BY <1>2, <3>1, <4>1, Zenon
        <5> HIDE DEF c, used
        <5>2. (((got + used) % wrap) + c) % wrap = (got + (used + c)) % wrap
          BY <5>1, SumAgain, Zenon
        <5> QED BY <5>2, Zenon DEF c
      <4> QED BY <1>5, <4>2, Zenon
    <3> QED BY <1>7, <2>2, <2>3, <3>1, <3>2, Zenon
  <2> QED BY <2>5, <2>6, Zenon
<1>10. Holds(buf2, r, w2, got, (sent + n) % wrap, size, wrap)
  <2> HIDE DEF w2, buf2, used
  <2> QED BY <1>3, <1>6, <1>9, Zenon DEF Holds
<1> QED
  BY <1>4, <1>8, <1>10, Zenon

-----------------------------------------------------------------------------
(* Tables, pipes and sleepers.                                             *)

Modes == {"none", "awake", "exited", "gone", "PIPE_READ", "PIPE_WRITE", "KEY", "CHILD"}
SleepModes == {"PIPE_READ", "PIPE_WRITE", "KEY"}
Calls == [op : {"none", "read", "write", "readkey"}, fd : Fds, len : Nat]
Files == [to : Pipes \cup {Console}, end : {"read", "write", "closed"}]
PipeRecords ==
  [live : BOOLEAN, r : 0 .. PipeSize - 1, w : 0 .. PipeSize - 1,
   buf : [0 .. PipeSize - 1 -> 0 .. PipeWrap - 1], readers : Nat, writers : Nat,
   sent : 0 .. PipeWrap - 1, got : 0 .. PipeWrap - 1]
KbdRecords ==
  [r : 0 .. KbdSize - 1, w : 0 .. KbdSize - 1, buf : [0 .. KbdSize - 1 -> 0 .. KbdWrap - 1],
   sent : 0 .. KbdWrap - 1, got : 0 .. KbdWrap - 1]

TypeOK ==
  /\ mode \in [TaskIds -> Modes]
  /\ call \in [TaskIds -> Calls]
  /\ cut \in [TaskIds -> BOOLEAN]
  /\ fds \in [TaskIds -> [Fds -> Files]]
  /\ pipe \in [Pipes -> PipeRecords]
  /\ kbd \in KbdRecords
  /\ eof \in BOOLEAN

\* A task that does not exist yet holds no descriptor.
Unborn == \A t \in TaskIds : mode[t] = "none" => \A fd \in Fds : fds[t][fd] = Closed

\* A task that sleeps on a pipe still holds the end that it reads or writes.
HoldsItsEnd ==
  \A t \in TaskIds :
    LET f == fds[t][call[t].fd]
    IN /\ mode[t] = "PIPE_READ" => f.to \in Pipes /\ f.end = "read"
       /\ mode[t] = "PIPE_WRITE" => f.to \in Pipes /\ f.end = "write"

\* The rings of freed pipes are in order too.
Streams == \A p \in Pipes : InOrder(pipe[p], PipeSize, PipeWrap)

Inv ==
  /\ TypeOK /\ Unborn /\ HoldsItsEnd
  /\ CountsExact /\ SleepersJustified /\ Streams /\ KeysIntact

-----------------------------------------------------------------------------
(* Counting descriptors.                                                   *)

\* Where the tables f hold the file e.
HeldAt(f, e) == {at \in TaskIds \X Fds : f[at[1]][at[2]] = e}

\* The slots among D that hold e, in one task's table.
In(row, D, e) == {i \in D : row[i] = e}

\* The tables f and g agree but for the slots D of task t.
SameBut(f, g, t, D) ==
  \A u \in TaskIds, i \in Fds : f[u][i] = g[u][i] \/ (u = t /\ i \in D)

PipeEnd(p, end) == [to |-> p, end |-> end]

\* Tasks and descriptors are finitely many.
LEMMA Finite == IsFiniteSet(TaskIds) /\ IsFiniteSet(Fds) /\ IsFiniteSet(TaskIds \X Fds)
<1>1. IsFiniteSet(TaskIds) /\ IsFiniteSet(Fds)
  BY FS_Interval, SizesAssumption DEF TaskIds, Fds
<1> QED BY <1>1, FS_Product

\* The table f has as many more of e than g as it has in the slots D of t.
More(f, g, t, D, e) ==
  /\ Cardinality(HeldAt(f, e)) \in Nat
  /\ Cardinality(HeldAt(g, e)) \in Nat
  /\ Cardinality(In(f[t], D, e)) \in Nat
  /\ Cardinality(HeldAt(f, e)) = Cardinality(HeldAt(g, e)) + Cardinality(In(f[t], D, e))

\* Two tables that differ in some slots of one task, none of which holds e in the second:
\* the first has as many more of e as its slots do.
LEMMA OneRow ==
  ASSUME NEW f, NEW g, NEW t \in TaskIds, NEW D \in SUBSET Fds, NEW e,
         SameBut(f, g, t, D), In(g[t], D, e) = {}
  PROVE  More(f, g, t, D, e)
<1> DEFINE X == {i \in D : f[t][i] = e}
           row == {t} \X X
<1>0. /\ \A u \in TaskIds, i \in Fds : f[u][i] = g[u][i] \/ (u = t /\ i \in D)
      /\ \A i \in D : g[t][i] # e
      /\ In(f[t], D, e) = X
  BY DEF SameBut, In
<1>1. HeldAt(f, e) \in SUBSET (TaskIds \X Fds) /\ HeldAt(g, e) \in SUBSET (TaskIds \X Fds)
      /\ X \in SUBSET Fds
  BY DEF HeldAt
<1>2. IsFiniteSet(HeldAt(f, e)) /\ IsFiniteSet(HeldAt(g, e)) /\ IsFiniteSet(X)
  BY <1>1, Finite, FS_Subset
<1>3. Cardinality({t}) = 1 /\ IsFiniteSet({t})
  BY FS_Singleton, Zenon
<1>4. IsFiniteSet(row) /\ Cardinality(row) = Cardinality({t}) * Cardinality(X)
  <2> HIDE DEF X
  <2> QED BY <1>2, <1>3, FS_Product
<1>5. Cardinality(X) \in Nat /\ Cardinality(HeldAt(f, e)) \in Nat /\ Cardinality(HeldAt(g, e)) \in Nat
  BY <1>2, FS_CardinalityType
<1>6. Cardinality(row) = Cardinality(X)
  BY <1>3, <1>4, <1>5
<1>7. HeldAt(f, e) = HeldAt(g, e) \cup row
  <2>1. ASSUME NEW at \in HeldAt(f, e) PROVE at \in HeldAt(g, e) \cup row
    BY <1>0 DEF HeldAt
  <2>2. ASSUME NEW at \in HeldAt(g, e) PROVE at \in HeldAt(f, e)
    BY <1>0 DEF HeldAt
  <2>3. ASSUME NEW at \in row PROVE at \in HeldAt(f, e)
    BY <1>0 DEF HeldAt
  <2> QED BY <2>1, <2>2, <2>3
<1>8. HeldAt(g, e) \cap row = {}
  BY <1>0 DEF HeldAt
<1>9. Cardinality(HeldAt(f, e)) = Cardinality(HeldAt(g, e)) + Cardinality(row) - Cardinality({})
  <2> HIDE DEF row
  <2> QED BY <1>2, <1>4, <1>7, <1>8, FS_Union
<1> HIDE DEF X
<1> QED BY <1>0, <1>5, <1>6, <1>9, FS_EmptySet DEF More

\* What CountsExact says of a pipe, in numbers.
Exact(pi, f, p) ==
  /\ pi[p].readers = Cardinality(HeldAt(f, PipeEnd(p, "read")))
  /\ pi[p].writers = Cardinality(HeldAt(f, PipeEnd(p, "write")))
  /\ pi[p].live <=> pi[p].readers # 0 \/ pi[p].writers # 0

\* A pipe has ends if and only if it is counted as having some.
LEMMA EndsCounted ==
  ASSUME NEW f, NEW e
  PROVE  Cardinality(HeldAt(f, e)) \in Nat /\ (Cardinality(HeldAt(f, e)) = 0 <=> HeldAt(f, e) = {})
<1>1. HeldAt(f, e) \in SUBSET (TaskIds \X Fds)
  BY DEF HeldAt
<1>2. IsFiniteSet(HeldAt(f, e))
  BY <1>1, Finite, FS_Subset
<1> QED
  BY <1>2, FS_EmptySet, FS_CardinalityType

\* Exact is what CountsExact says.
LEMMA ExactIs ==
  ASSUME NEW pi, NEW f, NEW p
  PROVE  Exact(pi, f, p) <=>
           /\ pi[p].readers = Cardinality(HeldAt(f, PipeEnd(p, "read")))
           /\ pi[p].writers = Cardinality(HeldAt(f, PipeEnd(p, "write")))
           /\ pi[p].live <=> HeldAt(f, PipeEnd(p, "read")) \cup HeldAt(f, PipeEnd(p, "write")) # {}
<1>1. HeldAt(f, PipeEnd(p, "read")) \cup HeldAt(f, PipeEnd(p, "write")) # {}
        <=> \/ Cardinality(HeldAt(f, PipeEnd(p, "read"))) # 0
            \/ Cardinality(HeldAt(f, PipeEnd(p, "write"))) # 0
  BY EndsCounted
<1> QED
  BY <1>1 DEF Exact

\* The same before and after a step.
LEMMA ExactCounts ==
  /\ CountsExact <=> \A p \in Pipes : Exact(pipe, fds, p)
  /\ CountsExact' <=> \A p \in Pipes : Exact(pipe', fds', p)
<1>1. ASSUME NEW p \in Pipes, NEW end
      PROVE  /\ AllEnds(p, end) = HeldAt(fds, PipeEnd(p, end))
             /\ AllEnds(p, end)' = HeldAt(fds', PipeEnd(p, end))
  BY DEF AllEnds, HeldAt, PipeEnd
<1>2. CountsExact <=> \A p \in Pipes : Exact(pipe, fds, p)
  BY <1>1, ExactIs DEF CountsExact
<1>3. CountsExact' <=> \A p \in Pipes : Exact(pipe', fds', p)
  BY <1>1, ExactIs DEF CountsExact
<1> QED BY <1>2, <1>3

\* The counts stay exact when neither they nor the tables change.
LEMMA SameCounts ==
  ASSUME CountsExact, UNCHANGED fds,
         \A p \in Pipes : /\ pipe'[p].live = pipe[p].live
                          /\ pipe'[p].readers = pipe[p].readers
                          /\ pipe'[p].writers = pipe[p].writers
  PROVE  CountsExact'
BY ExactCounts DEF Exact

-----------------------------------------------------------------------------
(* Sleeping and waking.                                                    *)

\* scheduler_wake leaves asleep only those who sleep on something else.
LEMMA WokenFacts ==
  ASSUME TypeOK, NEW R \in SUBSET (SleepModes \cup {"CHILD"})
  PROVE  /\ Woken(mode, R) \in [TaskIds -> Modes]
         /\ \A t \in TaskIds :
              /\ Woken(mode, R)[t] \in SleepModes => Woken(mode, R)[t] = mode[t] /\ mode[t] \notin R
              /\ Woken(mode, R)[t] = "none" => mode[t] = "none"
BY DEF Woken, TypeOK, Modes, SleepModes

\* Nobody falls asleep, and who stays asleep does so in the same call.
NoNewSleeper ==
  \A u \in TaskIds :
    /\ mode'[u] \in SleepModes => mode'[u] = mode[u] /\ call'[u] = call[u]
    /\ mode'[u] = "none" => mode[u] = "none"

\* A step that only wakes tasks and answers calls keeps everything.
LEMMA OnlyWakes ==
  ASSUME Inv, NoNewSleeper,
         mode' \in [TaskIds -> Modes], call' \in [TaskIds -> Calls],
         cut' \in [TaskIds -> BOOLEAN], UNCHANGED <<fds, pipe, kbd, eof>>
  PROVE  Inv'
<1>1. TypeOK' /\ CountsExact' /\ Streams' /\ KeysIntact'
  BY SameCounts DEF Inv, TypeOK, Streams, KeysIntact
<1>2. Unborn'
  BY DEF Inv, Unborn, NoNewSleeper
<1>3. HoldsItsEnd'
  BY DEF Inv, HoldsItsEnd, NoNewSleeper, SleepModes
<1>4. SleepersJustified'
  BY Zenon DEF Inv, SleepersJustified, NoNewSleeper, SleepModes, PipeUsed, PipeSpace, KbdUsed
<1> QED BY <1>1, <1>2, <1>3, <1>4 DEF Inv

\* No call is a call, and so is what the tasks issue.
LEMMA CallsTyped ==
  /\ NoCall \in Calls
  /\ \A fd \in Fds, len \in IoLens :
       /\ [op |-> "read", fd |-> fd, len |-> len] \in Calls
       /\ [op |-> "write", fd |-> fd, len |-> len] \in Calls
  /\ [op |-> "readkey", fd |-> 0, len |-> 1] \in Calls
BY SizesAssumption DEF NoCall, Calls, Fds

\* task_block keeps the invariant when there is something to wait for.
LEMMA BlockStep ==
  ASSUME Inv, NEW t \in TaskIds, NEW c \in Calls, NEW reason \in SleepModes, Block(t, c, reason),
         mode[t] = "awake",
         LET f == fds[t][c.fd]
         IN /\ reason = "PIPE_READ" =>
                 f.to \in Pipes /\ f.end = "read" /\ PipeUsed(f.to) = 0 /\ pipe[f.to].writers > 0
            /\ reason = "PIPE_WRITE" =>
                 f.to \in Pipes /\ f.end = "write" /\ PipeSpace(f.to) = 0 /\ pipe[f.to].readers > 0
            /\ reason = "KEY" => KbdUsed = 0 /\ (eof => c.op = "readkey")
  PROVE  Inv'
<1>1. CASE cut[t]
  <2>1. /\ cut' = [cut EXCEPT ![t] = FALSE] /\ call' = [call EXCEPT ![t] = NoCall]
        /\ UNCHANGED <<mode, fds, pipe, kbd, eof>>
    BY <1>1 DEF Block
  <2>2. mode' \in [TaskIds -> Modes] /\ call' \in [TaskIds -> Calls] /\ cut' \in [TaskIds -> BOOLEAN]
    BY <2>1, CallsTyped DEF Inv, TypeOK
  <2>3. NoNewSleeper
    BY <2>1 DEF NoNewSleeper, Inv, TypeOK, SleepModes
  <2> QED BY <2>1, <2>2, <2>3, OnlyWakes
<1>2. CASE ~ cut[t]
  <2>1. /\ mode' = [mode EXCEPT ![t] = reason] /\ call' = [call EXCEPT ![t] = c]
        /\ UNCHANGED <<cut, fds, pipe, kbd, eof>>
    BY <1>2 DEF Block
  <2>2. TypeOK'
    BY <2>1 DEF Inv, TypeOK, Modes, SleepModes
  <2>3. CountsExact' /\ Streams' /\ KeysIntact'
    BY <2>1, SameCounts DEF Inv, Streams, KeysIntact
  <2>4. mode \in [TaskIds -> Modes] /\ call \in [TaskIds -> Calls]
    BY DEF Inv, TypeOK
  <2>5. Unborn'
    BY <2>1, <2>4 DEF Inv, Unborn, SleepModes
  <2>6. HoldsItsEnd'
    BY <2>1, <2>4 DEF Inv, HoldsItsEnd
  <2>7. SleepersJustified'
    BY <2>1, <2>4, Zenon DEF Inv, SleepersJustified, PipeUsed, PipeSpace, KbdUsed
  <2> QED BY <2>2, <2>3, <2>5, <2>6, <2>7 DEF Inv
<1> QED BY <1>1, <1>2

\* A call that is answered without touching anything.
LEMMA AnsweredStep ==
  ASSUME Inv, NEW t \in TaskIds, mode[t] = "awake", Answered(t),
         UNCHANGED <<mode, fds, pipe, kbd, eof>>
  PROVE  Inv'
<1>1. mode' \in [TaskIds -> Modes] /\ call' \in [TaskIds -> Calls] /\ cut' \in [TaskIds -> BOOLEAN]
  BY CallsTyped DEF Inv, TypeOK, Answered
<1>2. NoNewSleeper
  BY DEF NoNewSleeper, Answered, Inv, TypeOK, SleepModes
<1> QED BY <1>1, <1>2, OnlyWakes

\* signal_raise.
LEMMA SignalStep ==
  ASSUME Inv, NEW S, Signal(S)
  PROVE  Inv'
<1>1. mode' \in [TaskIds -> Modes] /\ call' \in [TaskIds -> Calls] /\ cut' \in [TaskIds -> BOOLEAN]
  BY DEF Inv, TypeOK, Signal, Modes
<1>2. NoNewSleeper
  BY DEF NoNewSleeper, Signal, SleepModes, Asleep
<1> QED BY <1>1, <1>2, OnlyWakes DEF Signal

\* A SYS_PIPE that fails half way.
LEMMA SysPipeFailsStep ==
  ASSUME Inv, NEW t \in TaskIds, SysPipeFails(t)
  PROVE  Inv'
<1>1. {"PIPE_WRITE"} \in SUBSET SleepModes
  BY DEF SleepModes
<1>2. mode' \in [TaskIds -> Modes] /\ call' \in [TaskIds -> Calls] /\ cut' \in [TaskIds -> BOOLEAN]
  BY <1>1, WokenFacts DEF Inv, TypeOK, SysPipeFails
<1>3. NoNewSleeper
  BY <1>1, WokenFacts DEF NoNewSleeper, SysPipeFails, Inv
<1> QED BY <1>2, <1>3, OnlyWakes DEF SysPipeFails

-----------------------------------------------------------------------------
(* Reading and writing pipes.                                              *)

\* The sizes are such that the lemmas on rings apply.
LEMMA SizesFit ==
  /\ PipeSize \in Nat \ {0} /\ PipeWrap \in Nat \ {0} /\ PipeSize <= PipeWrap
  /\ KbdSize \in Nat \ {0} /\ KbdWrap \in Nat \ {0} /\ KbdSize <= KbdWrap
BY SizesAssumption DEF PipeWrap, KbdWrap

\* pipe_used and pipe_space are within the ring.
LEMMA PipeUsedType ==
  ASSUME TypeOK, NEW p \in Pipes
  PROVE  /\ PipeUsed(p) \in 0 .. PipeSize - 1
         /\ PipeSpace(p) \in 0 .. PipeSize - 1
         /\ PipeUsed(p) = 0 => PipeSpace(p) > 0
<1>1. pipe[p].r \in 0 .. PipeSize - 1 /\ pipe[p].w \in 0 .. PipeSize - 1
  BY DEF TypeOK, PipeRecords
<1>2. PipeUsed(p) \in 0 .. PipeSize - 1
  BY <1>1, SizesFit, UsedIs, Zenon DEF PipeUsed
<1>3. PipeSpace(p) = (PipeSize - 1) - PipeUsed(p)
  BY DEF PipeSpace, PipeUsed, Space
<1> QED BY <1>2, <1>3, SizesAssumption

\* The pipe after n bytes have been read from it.
AfterRead(p, n) ==
  [pipe[p] EXCEPT !.r = Advance(pipe[p].r, n, PipeSize),
                  !.got = (Item(pipe[p].buf, pipe[p].r, n - 1, PipeSize) + 1) % PipeWrap]

\* The pipe after n bytes have been written to it.
AfterWrite(p, n) ==
  [pipe[p] EXCEPT !.w = Advance(pipe[p].w, n, PipeSize),
                  !.buf = Stored(pipe[p].buf, pipe[p].w, n, pipe[p].sent, PipeWrap, PipeSize),
                  !.sent = (pipe[p].sent + n) % PipeWrap]

\* Reading keeps the stream in order.
LEMMA ReadInOrder ==
  ASSUME TypeOK, Streams, NEW p \in Pipes, NEW n \in 1 .. PipeUsed(p)
  PROVE  AfterRead(p, n) \in PipeRecords /\ InOrder(AfterRead(p, n), PipeSize, PipeWrap)
<1> DEFINE ring == pipe[p]
           r2 == Advance(ring.r, n, PipeSize)
           got2 == (Item(ring.buf, ring.r, n - 1, PipeSize) + 1) % PipeWrap
<1>1. ring \in PipeRecords
  BY DEF TypeOK
<1>2. /\ ring.r \in 0 .. PipeSize - 1 /\ ring.w \in 0 .. PipeSize - 1
      /\ ring.got \in 0 .. PipeWrap - 1 /\ ring.sent \in 0 .. PipeWrap - 1
  BY <1>1 DEF PipeRecords
<1>3. Holds(ring.buf, ring.r, ring.w, ring.got, ring.sent, PipeSize, PipeWrap)
  BY DEF Streams, InOrder, Holds
<1>4. n \in 1 .. Used(ring.r, ring.w, PipeSize)
  BY DEF PipeUsed
<1> HIDE DEF ring
<1>5. /\ r2 \in 0 .. PipeSize - 1 /\ got2 \in 0 .. PipeWrap - 1
      /\ Holds(ring.buf, r2, ring.w, got2, ring.sent, PipeSize, PipeWrap)
  BY <1>2, <1>3, <1>4, SizesFit, ReadKeepsOrder, Zenon
<1>6. AfterRead(p, n) = [ring EXCEPT !.r = r2, !.got = got2]
  BY DEF AfterRead, ring
<1> HIDE DEF r2, got2
<1>7. AfterRead(p, n) \in PipeRecords
  BY <1>1, <1>5, <1>6, Zenon DEF PipeRecords
<1>8. /\ AfterRead(p, n).r = r2 /\ AfterRead(p, n).w = ring.w /\ AfterRead(p, n).got = got2
      /\ AfterRead(p, n).sent = ring.sent /\ AfterRead(p, n).buf = ring.buf
  BY <1>1, <1>6 DEF PipeRecords
<1> QED BY <1>5, <1>7, <1>8, Zenon DEF InOrder, Holds

\* So does writing.
LEMMA WriteInOrder ==
  ASSUME TypeOK, Streams, NEW p \in Pipes, NEW n \in 1 .. PipeSpace(p)
  PROVE  AfterWrite(p, n) \in PipeRecords /\ InOrder(AfterWrite(p, n), PipeSize, PipeWrap)
<1> DEFINE ring == pipe[p]
           w2 == Advance(ring.w, n, PipeSize)
           buf2 == Stored(ring.buf, ring.w, n, ring.sent, PipeWrap, PipeSize)
           sent2 == (ring.sent + n) % PipeWrap
<1>1. ring \in PipeRecords
  BY DEF TypeOK
<1>2. /\ ring.r \in 0 .. PipeSize - 1 /\ ring.w \in 0 .. PipeSize - 1
      /\ ring.got \in 0 .. PipeWrap - 1 /\ ring.sent \in 0 .. PipeWrap - 1
      /\ ring.buf \in [0 .. PipeSize - 1 -> 0 .. PipeWrap - 1]
  BY <1>1 DEF PipeRecords
<1>3. Holds(ring.buf, ring.r, ring.w, ring.got, ring.sent, PipeSize, PipeWrap)
  BY DEF Streams, InOrder, Holds
<1>4. n \in 1 .. Space(ring.r, ring.w, PipeSize)
  BY DEF PipeSpace
<1> HIDE DEF ring
<1>5. /\ w2 \in 0 .. PipeSize - 1 /\ sent2 \in 0 .. PipeWrap - 1
      /\ buf2 \in [0 .. PipeSize - 1 -> 0 .. PipeWrap - 1]
      /\ Holds(buf2, ring.r, w2, ring.got, sent2, PipeSize, PipeWrap)
  BY <1>2, <1>3, <1>4, SizesFit, WriteKeepsOrder, Zenon
<1>6. AfterWrite(p, n) = [ring EXCEPT !.w = w2, !.buf = buf2, !.sent = sent2]
  BY DEF AfterWrite, ring
<1> HIDE DEF w2, buf2, sent2
<1>7. AfterWrite(p, n) \in PipeRecords
  BY <1>1, <1>5, <1>6, Zenon DEF PipeRecords
<1>8. /\ AfterWrite(p, n).r = ring.r /\ AfterWrite(p, n).w = w2 /\ AfterWrite(p, n).got = ring.got
      /\ AfterWrite(p, n).sent = sent2 /\ AfterWrite(p, n).buf = buf2
  BY <1>1, <1>6 DEF PipeRecords
<1> QED BY <1>5, <1>7, <1>8, Zenon DEF InOrder, Holds

\* A transfer over p that wakes everybody on the other side of every pipe, and leaves nobody
\* asleep on this side of p because nobody was.
LEMMA TransferStep ==
  ASSUME Inv, NEW t \in TaskIds, mode[t] = "awake", NEW p \in Pipes, NEW ring \in PipeRecords,
         NEW woken \in {"PIPE_READ", "PIPE_WRITE"},
         InOrder(ring, PipeSize, PipeWrap),
         ring.live = pipe[p].live, ring.readers = pipe[p].readers, ring.writers = pipe[p].writers,
         woken = "PIPE_WRITE" => PipeUsed(p) > 0,
         woken = "PIPE_READ" => PipeSpace(p) > 0,
         pipe' = [pipe EXCEPT ![p] = ring], mode' = Woken(mode, {woken}), Answered(t),
         UNCHANGED <<fds, kbd, eof>>
  PROVE  Inv'
<1>1. {woken} \in SUBSET SleepModes
  BY DEF SleepModes
<1>2. /\ mode' \in [TaskIds -> Modes]
      /\ \A u \in TaskIds : /\ mode'[u] \in SleepModes => mode'[u] = mode[u] /\ mode[u] # woken
                            /\ mode'[u] = "none" => mode[u] = "none"
  BY <1>1, WokenFacts DEF Inv
<1>3. /\ call' \in [TaskIds -> Calls] /\ cut' \in [TaskIds -> BOOLEAN]
      /\ \A u \in TaskIds \ {t} : call'[u] = call[u]
  BY CallsTyped DEF Answered, Inv, TypeOK
<1>4. /\ pipe' \in [Pipes -> PipeRecords] /\ pipe'[p] = ring
      /\ \A q \in Pipes \ {p} : pipe'[q] = pipe[q]
  BY DEF Inv, TypeOK
<1>5. TypeOK'
  BY <1>2, <1>3, <1>4, Zenon DEF Inv, TypeOK
<1>6. CountsExact'
  <2>1. \A q \in Pipes : /\ pipe'[q].live = pipe[q].live
                         /\ pipe'[q].readers = pipe[q].readers
                         /\ pipe'[q].writers = pipe[q].writers
    BY <1>4
  <2> QED BY <2>1, SameCounts DEF Inv
<1>7. Streams' /\ KeysIntact'
  BY <1>4 DEF Inv, Streams, KeysIntact
<1>8. NoNewSleeper
  BY <1>2, <1>3 DEF NoNewSleeper, SleepModes
<1>9. Unborn' /\ HoldsItsEnd'
  BY <1>8, Zenon DEF Inv, Unborn, HoldsItsEnd, NoNewSleeper, SleepModes
<1>10. SleepersJustified'
  <2> SUFFICES ASSUME NEW u \in TaskIds, mode'[u] \in SleepModes
               PROVE  LET q == fds[u][call[u].fd].to
                      IN /\ mode'[u] = "PIPE_READ" =>
                              Used(pipe'[q].r, pipe'[q].w, PipeSize) = 0 /\ pipe'[q].writers > 0
                         /\ mode'[u] = "PIPE_WRITE" =>
                              Space(pipe'[q].r, pipe'[q].w, PipeSize) = 0 /\ pipe'[q].readers > 0
                         /\ mode'[u] = "KEY" => KbdUsed' = 0 /\ (eof' => call[u].op = "readkey")
    BY <1>8, Zenon DEF SleepersJustified, NoNewSleeper, SleepModes, PipeUsed, PipeSpace
  <2> DEFINE q == fds[u][call[u].fd].to
  <2>1. mode'[u] = mode[u] /\ mode[u] # woken
    BY <1>2
  <2>2. CASE mode[u] = "PIPE_READ"
    <3>1. q \in Pipes /\ PipeUsed(q) = 0 /\ pipe[q].writers > 0 /\ woken = "PIPE_WRITE"
      BY <2>1, <2>2, Zenon DEF Inv, HoldsItsEnd, SleepersJustified
    <3>2. q # p
      BY <3>1
    <3> QED BY <1>4, <2>1, <2>2, <3>1, <3>2, Zenon DEF PipeUsed
  <2>3. CASE mode[u] = "PIPE_WRITE"
    <3>1. q \in Pipes /\ PipeSpace(q) = 0 /\ pipe[q].readers > 0 /\ woken = "PIPE_READ"
      BY <2>1, <2>3, Zenon DEF Inv, HoldsItsEnd, SleepersJustified
    <3>2. q # p
      BY <3>1
    <3> QED BY <1>4, <2>1, <2>3, <3>1, <3>2, Zenon DEF PipeSpace
  <2>4. CASE mode[u] = "KEY"
    BY <2>1, <2>4, Zenon DEF Inv, SleepersJustified, KbdUsed
  <2> QED BY <2>1, <2>2, <2>3, <2>4, Zenon DEF SleepModes
<1> QED BY <1>5, <1>6, <1>7, <1>9, <1>10 DEF Inv

\* SYS_READ on a pipe.
LEMMA PipeReadStep ==
  ASSUME Inv, NEW t \in TaskIds, NEW fd \in Fds, NEW len \in IoLens, PipeRead(t, fd, len)
  PROVE  Inv'
<1> DEFINE p == fds[t][fd].to
           c == [op |-> "read", fd |-> fd, len |-> len]
           n == Min({PipeUsed(p), len})
<1>1. mode[t] = "awake" /\ p \in Pipes /\ fds[t][fd].end = "read"
  BY Zenon DEF PipeRead, Issues
<1>2. PipeUsed(p) \in 0 .. PipeSize - 1 /\ len \in Nat \ {0} /\ TypeOK /\ Streams
  BY <1>1, PipeUsedType, SizesAssumption DEF Inv
<1>3. CASE /\ PipeUsed(p) > 0
           /\ pipe' = [pipe EXCEPT ![p].r = Advance(@, n, PipeSize),
                                   ![p].got = (Item(pipe[p].buf, pipe[p].r, n - 1, PipeSize) + 1)
                                                % PipeWrap]
           /\ mode' = Woken(mode, {"PIPE_WRITE"})
           /\ Answered(t)
           /\ UNCHANGED <<fds, kbd, eof>>
  <2>1. n \in 1 .. PipeUsed(p)
    <3>1. PipeUsed(p) \in Nat /\ len \in Nat
      BY <1>2, SizesAssumption
    <3>2. n = IF PipeUsed(p) <= len THEN PipeUsed(p) ELSE len
      BY <3>1, MinOfTwo, Zenon
    <3> HIDE DEF p, n
    <3> QED BY <1>2, <1>3, <3>1, <3>2
  <2> HIDE DEF p, n
  <2>2. AfterRead(p, n) \in PipeRecords /\ InOrder(AfterRead(p, n), PipeSize, PipeWrap)
    BY <1>1, <1>2, <2>1, ReadInOrder, Zenon
  <2>3. pipe' = [pipe EXCEPT ![p] = AfterRead(p, n)]
    BY <1>1, <1>2, <1>3, Zenon DEF AfterRead, TypeOK
  <2>4. /\ AfterRead(p, n).live = pipe[p].live /\ AfterRead(p, n).readers = pipe[p].readers
        /\ AfterRead(p, n).writers = pipe[p].writers
    BY <1>1, <1>2 DEF AfterRead, TypeOK, PipeRecords
  <2> QED BY <1>1, <1>3, <2>2, <2>3, <2>4, TransferStep, Zenon
<1>4. CASE PipeUsed(p) = 0 /\ pipe[p].writers > 0 /\ Block(t, c, "PIPE_READ")
  <2>1. c \in Calls /\ c.fd = fd /\ "PIPE_READ" \in SleepModes
    BY CallsTyped, Zenon DEF SleepModes
  <2> QED BY <1>1, <1>4, <2>1, BlockStep
<1>5. CASE Answered(t) /\ UNCHANGED <<mode, fds, pipe, kbd, eof>>
  BY <1>1, <1>5, AnsweredStep
<1> QED
  BY <1>3, <1>4, <1>5, Zenon DEF PipeRead

\* SYS_WRITE on a pipe.
LEMMA PipeWriteStep ==
  ASSUME Inv, NEW t \in TaskIds, NEW fd \in Fds, NEW len \in IoLens, PipeWrite(t, fd, len)
  PROVE  Inv'
<1> DEFINE p == fds[t][fd].to
           c == [op |-> "write", fd |-> fd, len |-> len]
           n == Min({PipeSpace(p), len})
<1>1. mode[t] = "awake" /\ p \in Pipes /\ fds[t][fd].end = "write"
  BY Zenon DEF PipeWrite, Issues
<1>2. PipeSpace(p) \in 0 .. PipeSize - 1 /\ len \in Nat \ {0} /\ TypeOK /\ Streams
  BY <1>1, PipeUsedType, SizesAssumption DEF Inv
<1>3. CASE /\ PipeSpace(p) > 0
           /\ pipe' = [pipe EXCEPT ![p].w = Advance(@, n, PipeSize),
                                   ![p].buf = Stored(@, pipe[p].w, n, pipe[p].sent, PipeWrap,
                                                     PipeSize),
                                   ![p].sent = (@ + n) % PipeWrap]
           /\ mode' = Woken(mode, {"PIPE_READ"})
           /\ Answered(t)
           /\ UNCHANGED <<fds, kbd, eof>>
  <2>1. n \in 1 .. PipeSpace(p)
    <3>1. PipeSpace(p) \in Nat /\ len \in Nat
      BY <1>2, SizesAssumption
    <3>2. n = IF PipeSpace(p) <= len THEN PipeSpace(p) ELSE len
      BY <3>1, MinOfTwo, Zenon
    <3> HIDE DEF p, n
    <3> QED BY <1>2, <1>3, <3>1, <3>2
  <2> HIDE DEF p, n
  <2>2. AfterWrite(p, n) \in PipeRecords /\ InOrder(AfterWrite(p, n), PipeSize, PipeWrap)
    BY <1>1, <1>2, <2>1, WriteInOrder, Zenon
  <2>3. pipe' = [pipe EXCEPT ![p] = AfterWrite(p, n)]
    BY <1>1, <1>2, <1>3, Zenon DEF AfterWrite, TypeOK
  <2>4. /\ AfterWrite(p, n).live = pipe[p].live /\ AfterWrite(p, n).readers = pipe[p].readers
        /\ AfterWrite(p, n).writers = pipe[p].writers
    BY <1>1, <1>2 DEF AfterWrite, TypeOK, PipeRecords
  <2> QED BY <1>1, <1>3, <2>2, <2>3, <2>4, TransferStep, Zenon
<1>4. CASE pipe[p].readers > 0 /\ PipeSpace(p) = 0 /\ Block(t, c, "PIPE_WRITE")
  <2>1. c \in Calls /\ c.fd = fd /\ "PIPE_WRITE" \in SleepModes
    BY CallsTyped, Zenon DEF SleepModes
  <2> QED BY <1>1, <1>4, <2>1, BlockStep
<1>5. CASE Answered(t) /\ UNCHANGED <<mode, fds, pipe, kbd, eof>>
  BY <1>1, <1>5, AnsweredStep
<1> QED
  BY <1>3, <1>4, <1>5, Zenon DEF PipeWrite

-----------------------------------------------------------------------------
(* The console.                                                            *)

\* The keyboard ring is never more than full.
LEMMA KbdUsedType ==
  ASSUME TypeOK
  PROVE  KbdUsed \in 0 .. KbdSize - 1
<1>1. kbd.r \in 0 .. KbdSize - 1 /\ kbd.w \in 0 .. KbdSize - 1
  BY DEF TypeOK, KbdRecords
<1> QED BY <1>1, SizesFit, UsedIs, Zenon DEF KbdUsed

\* A step that leaves pipes and descriptors alone, and nobody asleep on a key without reason.
LEMMA KeyStep ==
  ASSUME Inv, NoNewSleeper,
         mode' \in [TaskIds -> Modes], call' \in [TaskIds -> Calls],
         cut' \in [TaskIds -> BOOLEAN], kbd' \in KbdRecords, eof' \in BOOLEAN,
         InOrder(kbd', KbdSize, KbdWrap), UNCHANGED <<fds, pipe>>,
         \A u \in TaskIds : mode'[u] = "KEY" => KbdUsed' = 0 /\ (eof' => call'[u].op = "readkey")
  PROVE  Inv'
<1>1. TypeOK' /\ CountsExact' /\ Streams' /\ KeysIntact'
  BY SameCounts DEF Inv, TypeOK, Streams, KeysIntact
<1>2. Unborn'
  BY DEF Inv, Unborn, NoNewSleeper
<1>3. HoldsItsEnd'
  BY DEF Inv, HoldsItsEnd, NoNewSleeper, SleepModes
<1>4. SleepersJustified'
  BY Zenon DEF Inv, SleepersJustified, NoNewSleeper, SleepModes, PipeUsed, PipeSpace
<1> QED BY <1>1, <1>2, <1>3, <1>4 DEF Inv

\* Taking characters out keeps the rest in order.
LEMMA TakenInOrder ==
  ASSUME TypeOK, KeysIntact, NEW n \in 1 .. KbdUsed
  PROVE  Taken(n) \in KbdRecords /\ InOrder(Taken(n), KbdSize, KbdWrap)
<1> DEFINE r2 == Advance(kbd.r, n, KbdSize)
           got2 == (Item(kbd.buf, kbd.r, n - 1, KbdSize) + 1) % KbdWrap
<1>1. kbd \in KbdRecords
  BY DEF TypeOK
<1>2. /\ kbd.r \in 0 .. KbdSize - 1 /\ kbd.w \in 0 .. KbdSize - 1
      /\ kbd.got \in 0 .. KbdWrap - 1 /\ kbd.sent \in 0 .. KbdWrap - 1
  BY <1>1 DEF KbdRecords
<1>3. Holds(kbd.buf, kbd.r, kbd.w, kbd.got, kbd.sent, KbdSize, KbdWrap)
  BY DEF KeysIntact, InOrder, Holds
<1>4. n \in 1 .. Used(kbd.r, kbd.w, KbdSize)
  BY DEF KbdUsed
<1>5. /\ r2 \in 0 .. KbdSize - 1 /\ got2 \in 0 .. KbdWrap - 1
      /\ Holds(kbd.buf, r2, kbd.w, got2, kbd.sent, KbdSize, KbdWrap)
  BY <1>2, <1>3, <1>4, SizesFit, ReadKeepsOrder, Zenon
<1>6. Taken(n) = [kbd EXCEPT !.r = r2, !.got = got2]
  BY DEF Taken
<1> HIDE DEF r2, got2
<1>7. Taken(n) \in KbdRecords
  BY <1>1, <1>5, <1>6, Zenon DEF KbdRecords
<1>8. /\ Taken(n).r = r2 /\ Taken(n).w = kbd.w /\ Taken(n).got = got2
      /\ Taken(n).sent = kbd.sent /\ Taken(n).buf = kbd.buf
  BY <1>1, <1>6 DEF KbdRecords
<1> QED BY <1>5, <1>7, <1>8, Zenon DEF InOrder, Holds

\* keyboard_getchar, for a task that finds something.
LEMMA TakenStep ==
  ASSUME Inv, NEW t \in TaskIds, mode[t] = "awake", NEW n \in 1 .. KbdUsed, kbd' = Taken(n),
         Answered(t), UNCHANGED <<mode, fds, pipe, eof>>
  PROVE  Inv'
<1>1. kbd' \in KbdRecords /\ InOrder(kbd', KbdSize, KbdWrap)
  BY TakenInOrder DEF Inv
<1>2. mode' \in [TaskIds -> Modes] /\ call' \in [TaskIds -> Calls] /\ cut' \in [TaskIds -> BOOLEAN]
      /\ eof' \in BOOLEAN
  BY CallsTyped DEF Inv, TypeOK, Answered
<1>3. NoNewSleeper
  BY DEF NoNewSleeper, Answered, Inv, TypeOK, SleepModes
<1>4. KbdUsed # 0
  BY KbdUsedType, SMTT(30) DEF Inv
<1>5. \A u \in TaskIds : mode'[u] # "KEY"
  BY <1>4 DEF Inv, SleepersJustified
<1> QED BY <1>1, <1>2, <1>3, <1>5, KeyStep

\* SYS_READ on the console.
LEMMA ConsoleReadStep ==
  ASSUME Inv, NEW t \in TaskIds, NEW fd \in Fds, NEW len \in IoLens, ConsoleRead(t, fd, len)
  PROVE  Inv'
<1> DEFINE c == [op |-> "read", fd |-> fd, len |-> len]
           n == Min({KbdUsed, len})
<1>1. mode[t] = "awake"
  BY DEF ConsoleRead, Issues
<1>2. CASE KbdUsed > 0 /\ kbd' = Taken(n) /\ Answered(t) /\ UNCHANGED <<mode, fds, pipe, eof>>
  <2>1. KbdUsed \in Nat /\ len \in Nat \ {0} /\ len \in Nat
    BY KbdUsedType, SizesAssumption DEF Inv
  <2>2. n = IF KbdUsed <= len THEN KbdUsed ELSE len
    BY <2>1, MinOfTwo, Zenon
  <2> HIDE DEF n
  <2>3. n \in 1 .. KbdUsed
    BY <1>2, <2>1, <2>2
  <2> QED BY <1>1, <1>2, <2>3, TakenStep
<1>3. CASE KbdUsed = 0 /\ eof /\ eof' = FALSE /\ Answered(t) /\ UNCHANGED <<mode, fds, pipe, kbd>>
  <2>1. mode' \in [TaskIds -> Modes] /\ call' \in [TaskIds -> Calls]
        /\ cut' \in [TaskIds -> BOOLEAN] /\ kbd' \in KbdRecords /\ eof' \in BOOLEAN
    BY <1>3, CallsTyped, Zenon DEF Inv, TypeOK, Answered
  <2>2. NoNewSleeper
    BY <1>1, <1>3 DEF NoNewSleeper, Answered, Inv, TypeOK, SleepModes
  <2>3. InOrder(kbd', KbdSize, KbdWrap) /\ KbdUsed' = 0
    BY <1>3 DEF Inv, KeysIntact, KbdUsed
  <2> QED BY <1>3, <2>1, <2>2, <2>3, KeyStep
<1>4. CASE KbdUsed = 0 /\ ~ eof /\ Block(t, c, "KEY")
  <2>1. c \in Calls /\ "KEY" \in SleepModes
    BY CallsTyped, Zenon DEF SleepModes
  <2> QED BY <1>1, <1>4, <2>1, BlockStep
<1> QED BY <1>2, <1>3, <1>4, Zenon DEF ConsoleRead

\* SYS_READKEY.
LEMMA SysReadkeyStep ==
  ASSUME Inv, NEW t \in TaskIds, SysReadkey(t)
  PROVE  Inv'
<1> DEFINE c == [op |-> "readkey", fd |-> 0, len |-> 1]
<1>1. mode[t] = "awake"
  BY DEF SysReadkey, Issues
<1>2. CASE KbdUsed > 0 /\ kbd' = Taken(1) /\ Answered(t) /\ UNCHANGED <<mode, fds, pipe, eof>>
  <2>1. 1 \in 1 .. KbdUsed
    BY <1>2, KbdUsedType DEF Inv
  <2> QED BY <1>1, <1>2, <2>1, TakenStep
<1>3. CASE KbdUsed = 0 /\ Block(t, c, "KEY")
  <2>1. c \in Calls /\ "KEY" \in SleepModes
    BY CallsTyped DEF SleepModes
  <2> QED BY <1>1, <1>3, <2>1, BlockStep
<1> QED BY <1>2, <1>3 DEF SysReadkey

\* A character typed: it goes behind the others, or is dropped.
LEMMA TypeStep ==
  ASSUME Inv, Type
  PROVE  Inv'
<1>1. {"KEY"} \in SUBSET SleepModes
  BY DEF SleepModes
<1>2. /\ mode' \in [TaskIds -> Modes] /\ call' \in [TaskIds -> Calls]
      /\ cut' \in [TaskIds -> BOOLEAN] /\ eof' \in BOOLEAN
  BY <1>1, WokenFacts DEF Inv, TypeOK, Type
<1>3. NoNewSleeper /\ \A u \in TaskIds : mode'[u] # "KEY"
  BY <1>1, WokenFacts DEF NoNewSleeper, Type, Inv, SleepModes
<1>4. kbd' \in KbdRecords /\ InOrder(kbd', KbdSize, KbdWrap)
  <2>1. CASE Space(kbd.r, kbd.w, KbdSize) = 0
    BY <2>1 DEF Type, Inv, TypeOK, KeysIntact
  <2>2. CASE Space(kbd.r, kbd.w, KbdSize) # 0
    <3> DEFINE w2 == Advance(kbd.w, 1, KbdSize)
               buf2 == Stored(kbd.buf, kbd.w, 1, kbd.sent, KbdWrap, KbdSize)
               sent2 == (kbd.sent + 1) % KbdWrap
    <3>1. kbd \in KbdRecords
      BY DEF Inv, TypeOK
    <3>2. /\ kbd.r \in 0 .. KbdSize - 1 /\ kbd.w \in 0 .. KbdSize - 1
          /\ kbd.got \in 0 .. KbdWrap - 1 /\ kbd.sent \in 0 .. KbdWrap - 1
          /\ kbd.buf \in [0 .. KbdSize - 1 -> 0 .. KbdWrap - 1]
      BY <3>1 DEF KbdRecords
    <3>3. Holds(kbd.buf, kbd.r, kbd.w, kbd.got, kbd.sent, KbdSize, KbdWrap)
      BY DEF Inv, KeysIntact, InOrder, Holds
    <3>4. 1 \in 1 .. Space(kbd.r, kbd.w, KbdSize)
      <4>1. Used(kbd.r, kbd.w, KbdSize) \in 0 .. KbdSize - 1
        BY <3>2, SizesFit, UsedIs, Zenon
      <4> QED BY <2>2, <4>1, SizesAssumption DEF Space
    <3>5. /\ w2 \in 0 .. KbdSize - 1 /\ sent2 \in 0 .. KbdWrap - 1
          /\ buf2 \in [0 .. KbdSize - 1 -> 0 .. KbdWrap - 1]
          /\ Holds(buf2, kbd.r, w2, kbd.got, sent2, KbdSize, KbdWrap)
      BY <3>2, <3>3, <3>4, SizesFit, WriteKeepsOrder, Zenon
    <3>6. kbd' = [kbd EXCEPT !.buf = buf2, !.w = w2, !.sent = sent2]
      BY <2>2 DEF Type
    <3> HIDE DEF w2, buf2, sent2
    <3>7. kbd' \in KbdRecords
      BY <3>1, <3>5, <3>6, Zenon DEF KbdRecords
    <3>8. /\ kbd'.r = kbd.r /\ kbd'.w = w2 /\ kbd'.got = kbd.got
          /\ kbd'.sent = sent2 /\ kbd'.buf = buf2
      BY <3>1, <3>6 DEF KbdRecords
    <3> QED BY <3>5, <3>7, <3>8, Zenon DEF InOrder, Holds
  <2> QED BY <2>1, <2>2
<1> QED BY <1>2, <1>3, <1>4, KeyStep DEF Type

\* Ctrl-D.
LEMMA CtrlDStep ==
  ASSUME Inv, CtrlD
  PROVE  Inv'
<1>1. {"KEY"} \in SUBSET SleepModes
  BY DEF SleepModes
<1>2. /\ mode' \in [TaskIds -> Modes] /\ call' \in [TaskIds -> Calls]
      /\ cut' \in [TaskIds -> BOOLEAN] /\ eof' \in BOOLEAN /\ kbd' \in KbdRecords
  BY <1>1, WokenFacts DEF Inv, TypeOK, CtrlD
<1>3. NoNewSleeper /\ \A u \in TaskIds : mode'[u] # "KEY"
  BY <1>1, WokenFacts DEF NoNewSleeper, CtrlD, Inv, SleepModes
<1>4. InOrder(kbd', KbdSize, KbdWrap)
  BY DEF CtrlD, Inv, KeysIntact
<1> QED BY <1>2, <1>3, <1>4, KeyStep DEF CtrlD

-----------------------------------------------------------------------------
(* Opening and closing.                                                    *)

\* The descriptors of pipe ends are files, and a closed one is not an end.
LEMMA EndFacts ==
  ASSUME NEW p \in Pipes
  PROVE  /\ \A end \in {"read", "write"} :
              PipeEnd(p, end) \in Files /\ PipeEnd(p, end) # Closed
              /\ PipeEnd(p, end) # ConsoleIn /\ PipeEnd(p, end) # ConsoleOut
         /\ Closed \in Files /\ ConsoleIn \in Files /\ ConsoleOut \in Files
         /\ PipeEnd(p, "read") # PipeEnd(p, "write")
BY SizesAssumption DEF PipeEnd, Files, Closed, ConsoleIn, ConsoleOut

LEMMA FilesTyped == Closed \in Files /\ ConsoleIn \in Files /\ ConsoleOut \in Files
BY DEF Files, Closed, ConsoleIn, ConsoleOut

\* A new pipe is a pipe, and its ring is in order.
LEMMA FreshFacts ==
  /\ FreshPipe \in PipeRecords /\ InOrder(FreshPipe, PipeSize, PipeWrap)
  /\ FreshPipe.live = FALSE /\ FreshPipe.readers = 0 /\ FreshPipe.writers = 0
<1>1. FreshPipe \in PipeRecords
  BY SizesAssumption DEF FreshPipe, PipeRecords, PipeWrap
<1>2. 0 \in 0 .. PipeSize - 1 /\ 0 \in 0 .. PipeWrap - 1
  BY SizesAssumption DEF PipeWrap
<1>3. Used(0, 0, PipeSize) = IF 0 <= 0 THEN 0 - 0 ELSE (0 + PipeSize) - 0
  BY <1>2, SizesFit, UsedIs, Zenon
<1>4. Used(0, 0, PipeSize) = 0
  BY <1>3
<1>5. (0 + 0) % PipeWrap = IF 0 + 0 < PipeWrap THEN 0 + 0 ELSE (0 + 0) - PipeWrap
  BY <1>2, SizesFit, SumIs, Zenon
<1>6. (0 + Used(0, 0, PipeSize)) % PipeWrap = 0
  BY <1>4, <1>5, SizesFit
<1> QED BY <1>1, <1>4, <1>6 DEF FreshPipe, InOrder

\* A step in which task t closes its slots D, which held these files, and wakes whom it must.
Closing(t, D, files) ==
  /\ DOMAIN files = D /\ \A i \in D : files[i] = fds[t][i]
  /\ fds' \in [TaskIds -> [Fds -> Files]]
  /\ \A u \in TaskIds, i \in Fds :
       fds'[u][i] = IF u = t /\ i \in D THEN Closed ELSE fds[u][i]
  /\ pipe' = [p \in Pipes |-> Uncounted(files, p)]
  /\ mode' \in [TaskIds -> Modes] /\ call' \in [TaskIds -> Calls]
  /\ cut' \in [TaskIds -> BOOLEAN] /\ mode'[t] \notin SleepModes
  /\ \A u \in TaskIds : mode'[u] \in SleepModes => mode[u] \notin ClosingWakes(files)
  /\ UNCHANGED <<kbd, eof>>

\* The files that are closed account for the ends that the tables lose.
LEMMA ClosedEnds ==
  ASSUME NEW t \in TaskIds, NEW D \in SUBSET Fds, NEW files, Closing(t, D, files),
         NEW p \in Pipes, NEW end \in {"read", "write"}
  PROVE  /\ Ends(files, p, end) \in Nat
         /\ Cardinality(HeldAt(fds', PipeEnd(p, end))) \in Nat
         /\ Cardinality(HeldAt(fds, PipeEnd(p, end))) \in Nat
         /\ Cardinality(HeldAt(fds, PipeEnd(p, end)))
              = Cardinality(HeldAt(fds', PipeEnd(p, end))) + Ends(files, p, end)
<1> DEFINE e == PipeEnd(p, end)
           now == fds
           next == fds'
<1>1. SameBut(now, next, t, D)
  BY SMTT(30) DEF Closing, SameBut
<1>2. In(next[t], D, e) = {}
  BY EndFacts DEF Closing, In
<1>3. Ends(files, p, end) = Cardinality(In(now[t], D, e))
  <2>1. {i \in DOMAIN files : files[i] = [to |-> p, end |-> end]} = In(now[t], D, e)
    BY DEF PipeEnd, Closing, In
  <2> QED BY <2>1, SMTT(30) DEF Ends
<1> HIDE DEF e, now, next
<1>4. More(now, next, t, D, e)
  BY <1>1, <1>2, OneRow
<1>5. /\ Cardinality(HeldAt(now, e)) \in Nat
      /\ Cardinality(HeldAt(next, e)) \in Nat
      /\ Ends(files, p, end) \in Nat
      /\ Cardinality(HeldAt(now, e)) = Cardinality(HeldAt(next, e)) + Ends(files, p, end)
  BY <1>3, <1>4 DEF More
<1> QED BY <1>5, SMTT(30) DEF e, now, next

\* Not all ends of a kind are closed.
LEMMA SomeLeft ==
  ASSUME NEW n \in Nat, NEW k \in Nat, n - k \in Nat, n > 0, ~ (k > 0 /\ n = k)
  PROVE  n - k # 0
OBVIOUS

\* file_close for the slots D of a task: the counts stay exact, nobody sleeps on for whom
\* there will be nothing, and the streams of the pipes that are left are untouched.
LEMMA ClosingStep ==
  ASSUME Inv, NEW t \in TaskIds, NEW D \in SUBSET Fds, NEW files, Closing(t, D, files),
         NoNewSleeper
  PROVE  Inv'
<1> DEFINE R == [p \in Pipes |-> Ends(files, p, "read")]
           W == [p \in Pipes |-> Ends(files, p, "write")]
<1>1. ASSUME NEW p \in Pipes
      PROVE  /\ R[p] \in Nat /\ W[p] \in Nat
             /\ pipe[p].readers - R[p] = Cardinality(HeldAt(fds', PipeEnd(p, "read")))
             /\ pipe[p].writers - W[p] = Cardinality(HeldAt(fds', PipeEnd(p, "write")))
             /\ pipe[p].readers - R[p] \in Nat /\ pipe[p].writers - W[p] \in Nat
  <2>1. /\ R[p] = Ends(files, p, "read") /\ W[p] = Ends(files, p, "write")
    OBVIOUS
  <2>2. Exact(pipe, fds, p)
    BY ExactCounts DEF Inv
  <2>3. R[p] \in Nat /\ pipe[p].readers = Cardinality(HeldAt(fds', PipeEnd(p, "read"))) + R[p]
        /\ Cardinality(HeldAt(fds', PipeEnd(p, "read"))) \in Nat
    BY <2>1, <2>2, ClosedEnds, SMTT(30) DEF Exact
  <2>4. W[p] \in Nat /\ pipe[p].writers = Cardinality(HeldAt(fds', PipeEnd(p, "write"))) + W[p]
        /\ Cardinality(HeldAt(fds', PipeEnd(p, "write"))) \in Nat
    BY <2>1, <2>2, ClosedEnds DEF Exact
  <2> HIDE DEF R, W
  <2> QED BY <2>3, <2>4
<1>2. ASSUME NEW p \in Pipes
      PROVE  \/ /\ pipe[p].live /\ pipe[p].readers - R[p] = 0 /\ pipe[p].writers - W[p] = 0
                /\ pipe'[p] = FreshPipe
             \/ /\ ~ (pipe[p].live /\ pipe[p].readers - R[p] = 0 /\ pipe[p].writers - W[p] = 0)
                /\ pipe'[p] = [pipe[p] EXCEPT !.readers = pipe[p].readers - R[p],
                                              !.writers = pipe[p].writers - W[p]]
  BY Zenon DEF Uncounted, Closing
<1> HIDE DEF R, W
<1>3. ASSUME NEW p \in Pipes
      PROVE  /\ pipe'[p] \in PipeRecords /\ InOrder(pipe'[p], PipeSize, PipeWrap)
             /\ pipe'[p].readers = pipe[p].readers - R[p]
             /\ pipe'[p].writers = pipe[p].writers - W[p]
             /\ pipe'[p].live <=>
                  pipe[p].live /\ ~ (pipe[p].readers - R[p] = 0 /\ pipe[p].writers - W[p] = 0)
             /\ pipe'[p].live => pipe'[p].r = pipe[p].r /\ pipe'[p].w = pipe[p].w
  <2>1. pipe[p] \in PipeRecords /\ InOrder(pipe[p], PipeSize, PipeWrap)
    BY DEF Inv, TypeOK, Streams
  <2>2. CASE pipe[p].live /\ pipe[p].readers - R[p] = 0 /\ pipe[p].writers - W[p] = 0
    BY <1>2, <2>2, FreshFacts, ZenonT(30)
  <2>3. CASE ~ (pipe[p].live /\ pipe[p].readers - R[p] = 0 /\ pipe[p].writers - W[p] = 0)
    <3>1. pipe'[p] = [pipe[p] EXCEPT !.readers = pipe[p].readers - R[p],
                                     !.writers = pipe[p].writers - W[p]]
      BY <1>2, <2>3, Zenon
    <3>2. pipe'[p] \in PipeRecords
      BY <1>1, <2>1, <3>1, Zenon DEF PipeRecords
    <3>3. /\ pipe'[p].readers = pipe[p].readers - R[p] /\ pipe'[p].writers = pipe[p].writers - W[p]
          /\ pipe'[p].live = pipe[p].live /\ pipe'[p].r = pipe[p].r /\ pipe'[p].w = pipe[p].w
          /\ pipe'[p].got = pipe[p].got /\ pipe'[p].sent = pipe[p].sent
          /\ pipe'[p].buf = pipe[p].buf
      BY <2>1, <3>1 DEF PipeRecords
    <3>4. InOrder(pipe'[p], PipeSize, PipeWrap)
      BY <2>1, <3>3, Zenon DEF InOrder
    <3>5. pipe[p].live \in BOOLEAN
      BY <2>1, SMTT(30) DEF PipeRecords
    <3> QED BY <2>3, <3>2, <3>3, <3>4, <3>5
  <2> QED BY <2>2, <2>3
<1>4. pipe' \in [Pipes -> PipeRecords]
  BY <1>3, SMTT(30) DEF Closing
<1>5. TypeOK' /\ Streams' /\ KeysIntact'
  BY <1>3, <1>4 DEF Closing, Inv, TypeOK, Streams, KeysIntact
<1>6. CountsExact'
  <2> SUFFICES ASSUME NEW p \in Pipes PROVE Exact(pipe', fds', p)
    BY ExactCounts, SMTT(30)
  <2>1. /\ pipe[p].live <=> pipe[p].readers # 0 \/ pipe[p].writers # 0
        /\ pipe[p].readers \in Nat /\ pipe[p].writers \in Nat /\ pipe[p].live \in BOOLEAN
    BY ExactCounts DEF Inv, Exact, TypeOK, PipeRecords
  <2>2. pipe'[p].live <=> pipe'[p].readers # 0 \/ pipe'[p].writers # 0
    BY <1>1, <1>3, <2>1, SMTT(30)
  <2> QED BY <1>1, <1>3, <2>2 DEF Exact
<1>7. Unborn'
  BY DEF Closing, Inv, Unborn, NoNewSleeper
<1>8. ASSUME NEW u \in TaskIds, mode'[u] \in SleepModes
      PROVE  /\ mode'[u] = mode[u] /\ call'[u] = call[u] /\ u # t
             /\ fds'[u][call'[u].fd] = fds[u][call[u].fd]
             /\ call[u].fd \in Fds /\ mode[u] \notin ClosingWakes(files)
  <2>1. mode'[u] = mode[u] /\ call'[u] = call[u] /\ u # t /\ call[u].fd \in Fds
    BY <1>8 DEF Closing, NoNewSleeper, Inv, TypeOK, Calls
  <2> QED BY <1>8, <2>1 DEF Closing
<1>9. HoldsItsEnd'
  BY <1>8 DEF Inv, HoldsItsEnd, SleepModes
<1>10. SleepersJustified'
  <2> SUFFICES ASSUME NEW u \in TaskIds, mode'[u] \in SleepModes
               PROVE  LET q == fds'[u][call'[u].fd].to
                      IN /\ mode'[u] = "PIPE_READ" =>
                              Used(pipe'[q].r, pipe'[q].w, PipeSize) = 0 /\ pipe'[q].writers > 0
                         /\ mode'[u] = "PIPE_WRITE" =>
                              Space(pipe'[q].r, pipe'[q].w, PipeSize) = 0 /\ pipe'[q].readers > 0
                         /\ mode'[u] = "KEY" => KbdUsed' = 0 /\ (eof' => call'[u].op = "readkey")
    BY Zenon DEF SleepersJustified, SleepModes, PipeUsed, PipeSpace
  <2> DEFINE q == fds[u][call[u].fd].to
  <2>1. /\ mode[u] \in SleepModes /\ mode[u] \notin ClosingWakes(files)
        /\ mode'[u] = mode[u] /\ call'[u] = call[u] /\ fds'[u][call'[u].fd].to = q
    BY <1>8, Zenon
  <2>2. CASE mode[u] = "PIPE_READ"
    <3>1. q \in Pipes /\ PipeUsed(q) = 0 /\ pipe[q].writers > 0
      BY <2>2, ZenonT(30) DEF Inv, HoldsItsEnd, SleepersJustified
    <3> HIDE DEF q
    <3>2. ~ (W[q] > 0 /\ pipe[q].writers = W[q])
      BY <2>1, <2>2, <3>1 DEF ClosingWakes, W
    <3>3. pipe[q].writers - W[q] \in Nat /\ pipe[q].writers - W[q] # 0 /\ W[q] \in Nat
          /\ pipe[q].writers \in Nat
      <4>1. pipe[q].writers \in Nat
        BY <3>1 DEF Inv, TypeOK, PipeRecords
      <4>2. pipe[q].writers - W[q] \in Nat /\ W[q] \in Nat
        BY <1>1, <3>1, Zenon
      <4> QED BY <3>1, <3>2, <4>1, <4>2, SomeLeft
    <3>4. pipe[q].live
      BY <3>1, <3>3, ExactCounts, SMTT(30) DEF Inv, Exact
    <3>5. pipe'[q].live /\ pipe'[q].writers > 0
      BY <1>3, <3>1, <3>3, <3>4, SMTT(30)
    <3>6. Used(pipe'[q].r, pipe'[q].w, PipeSize) = 0
      BY <1>3, <3>1, <3>5 DEF PipeUsed
    <3> QED BY <2>1, <2>2, <3>5, <3>6
  <2>3. CASE mode[u] = "PIPE_WRITE"
    <3>1. q \in Pipes /\ PipeSpace(q) = 0 /\ pipe[q].readers > 0
      BY <2>3, Zenon DEF Inv, HoldsItsEnd, SleepersJustified
    <3> HIDE DEF q
    <3>2. ~ (R[q] > 0 /\ pipe[q].readers = R[q])
      BY <2>1, <2>3, <3>1, Zenon DEF ClosingWakes, R
    <3>3. pipe[q].readers - R[q] \in Nat /\ pipe[q].readers - R[q] # 0 /\ R[q] \in Nat
          /\ pipe[q].readers \in Nat
      <4>1. pipe[q].readers \in Nat
        BY <3>1 DEF Inv, TypeOK, PipeRecords
      <4>2. pipe[q].readers - R[q] \in Nat /\ R[q] \in Nat
        BY <1>1, <3>1, ZenonT(30)
      <4> QED BY <3>1, <3>2, <4>1, <4>2, SomeLeft
    <3>4. pipe[q].live
      BY <3>1, <3>3, ExactCounts, SMTT(30) DEF Inv, Exact
    <3>5. pipe'[q].live /\ pipe'[q].readers > 0
      BY <1>3, <3>1, <3>3, <3>4, SMTT(30)
    <3>6. Space(pipe'[q].r, pipe'[q].w, PipeSize) = 0
      BY <1>3, <3>1, <3>5 DEF PipeSpace
    <3> QED BY <2>1, <2>3, <3>5, <3>6
  <2>4. CASE mode[u] = "KEY"
    BY <2>1, <2>4, Zenon DEF Closing, Inv, SleepersJustified, KbdUsed
  <2> QED BY <2>1, <2>2, <2>3, <2>4, Zenon DEF SleepModes
<1> QED BY <1>5, <1>6, <1>7, <1>9, <1>10 DEF Inv

\* Closing wakes readers and writers of pipes only.
LEMMA ClosingWakesSleepers == ASSUME NEW files PROVE ClosingWakes(files) \in SUBSET SleepModes
BY DEF ClosingWakes, SleepModes

\* SYS_CLOSE.
LEMMA SysCloseStep ==
  ASSUME Inv, NEW t \in TaskIds, NEW fd \in Fds, SysClose(t, fd)
  PROVE  Inv'
<1> DEFINE files == [i \in {fd} |-> fds[t][i]]
           D == {fd}
<1>1. /\ mode[t] = "awake" /\ fds' = [fds EXCEPT ![t][fd] = Closed]
      /\ pipe' = [p \in Pipes |-> Uncounted(files, p)]
      /\ mode' = Woken(mode, ClosingWakes(files))
      /\ UNCHANGED <<call, cut, kbd, eof>>
  BY DEF SysClose
<1>2. DOMAIN files = D /\ D \in SUBSET Fds /\ \A i \in D : files[i] = fds[t][i]
  BY SMTT(30)
<1> HIDE DEF files
<1>3. /\ mode' \in [TaskIds -> Modes] /\ call' \in [TaskIds -> Calls]
      /\ cut' \in [TaskIds -> BOOLEAN]
      /\ \A u \in TaskIds : mode'[u] \in SleepModes => mode'[u] = mode[u] /\ mode[u] \notin ClosingWakes(files)
      /\ \A u \in TaskIds : mode'[u] = "none" => mode[u] = "none"
  BY <1>1, ClosingWakesSleepers, WokenFacts DEF Inv, TypeOK
<1>4. NoNewSleeper /\ mode'[t] \notin SleepModes
  BY <1>1, <1>3 DEF NoNewSleeper, SleepModes
<1>5. /\ fds' \in [TaskIds -> [Fds -> Files]]
      /\ \A u \in TaskIds, i \in Fds :
           fds'[u][i] = IF u = t /\ i \in D THEN Closed ELSE fds[u][i]
  BY <1>1, FilesTyped DEF Inv, TypeOK
<1>6. D \in SUBSET Fds /\ Closing(t, D, files)
  BY <1>1, <1>2, <1>3, <1>4, <1>5 DEF Closing
<1> HIDE DEF D
<1> QED BY <1>4, <1>6, ClosingStep

\* task_exit, whether or not a parent is woken.
LEMMA ExitWakingStep ==
  ASSUME Inv, NEW t \in TaskIds, NEW parent \in SUBSET {"CHILD"}, ExitWaking(t, parent)
  PROVE  Inv'
<1> DEFINE files == fds[t]
<1>1. /\ mode[t] = "awake" /\ fds' = [fds EXCEPT ![t] = [fd \in Fds |-> Closed]]
      /\ pipe' = [p \in Pipes |-> Uncounted(files, p)]
      /\ mode' = [Woken(mode, ClosingWakes(files) \cup parent) EXCEPT ![t] = "exited"]
      /\ call' = [call EXCEPT ![t] = NoCall] /\ cut' = [cut EXCEPT ![t] = FALSE]
      /\ UNCHANGED <<kbd, eof>>
  BY DEF ExitWaking
<1>2. DOMAIN files = Fds /\ Fds \in SUBSET Fds /\ \A i \in Fds : files[i] = fds[t][i]
  BY DEF Inv, TypeOK
<1>3. /\ fds' \in [TaskIds -> [Fds -> Files]]
      /\ \A u \in TaskIds, i \in Fds :
           fds'[u][i] = IF u = t /\ i \in Fds THEN Closed ELSE fds[u][i]
  BY <1>1, FilesTyped DEF Inv, TypeOK
<1> HIDE DEF files
<1>4. /\ Woken(mode, ClosingWakes(files) \cup parent) \in [TaskIds -> Modes]
      /\ \A u \in TaskIds : LET m == Woken(mode, ClosingWakes(files) \cup parent)[u]
                            IN /\ m \in SleepModes => m = mode[u] /\ mode[u] \notin ClosingWakes(files)
                               /\ m = "none" => mode[u] = "none"
  <2>1. ClosingWakes(files) \cup parent \in SUBSET (SleepModes \cup {"CHILD"})
    BY ClosingWakesSleepers, Zenon
  <2> QED BY <2>1, WokenFacts DEF Inv
<1>5. /\ mode' \in [TaskIds -> Modes] /\ call' \in [TaskIds -> Calls]
      /\ cut' \in [TaskIds -> BOOLEAN]
  BY <1>1, <1>4, CallsTyped, Zenon DEF Inv, TypeOK, Modes
<1>6. /\ \A u \in TaskIds : mode'[u] \in SleepModes =>
           u # t /\ mode'[u] = mode[u] /\ mode[u] \notin ClosingWakes(files)
      /\ \A u \in TaskIds : mode'[u] = "none" => mode[u] = "none"
  BY <1>1, <1>4, Zenon DEF SleepModes
<1>7. NoNewSleeper /\ mode'[t] \notin SleepModes
  BY <1>1, <1>6, Zenon DEF NoNewSleeper, Inv, TypeOK
<1>8. Fds \in SUBSET Fds /\ Closing(t, Fds, files)
  BY <1>1, <1>2, <1>3, <1>5, <1>6, <1>7, Zenon DEF Closing
<1> QED BY <1>7, <1>8, ClosingStep, SMTT(30)

\* task_exit of a task whose parent is not in SYS_WAIT.
LEMMA ExitStep ==
  ASSUME Inv, NEW t \in TaskIds, Exit(t)
  PROVE  Inv'
BY ExitWakingStep DEF Exit

\* A pipe that some table leads to is live.
LEMMA HeldIsLive ==
  ASSUME Inv, NEW u \in TaskIds, NEW i \in Fds, NEW p \in Pipes, NEW end \in {"read", "write"},
         fds[u][i] = PipeEnd(p, end)
  PROVE  pipe[p].live
<1>1. <<u, i>> \in HeldAt(fds, PipeEnd(p, end))
  BY DEF HeldAt
<1>2. HeldAt(fds, PipeEnd(p, end)) # {}
  BY <1>1
<1>3. Cardinality(HeldAt(fds, PipeEnd(p, end))) # 0
  BY <1>2, EndsCounted
<1>4. Exact(pipe, fds, p)
  BY ExactCounts DEF Inv
<1> QED BY <1>3, <1>4 DEF Exact

\* A step in which the closed slots D of task t are filled.
Opening(t, D) ==
  /\ fds' \in [TaskIds -> [Fds -> Files]]
  /\ SameBut(fds', fds, t, D)
  /\ \A i \in D : fds[t][i] = Closed

\* The slots that are filled account for the ends that the tables gain.
LEMMA OpenedEnds ==
  ASSUME NEW t \in TaskIds, NEW D \in SUBSET Fds, Opening(t, D),
         NEW p \in Pipes, NEW end \in {"read", "write"}
  PROVE  More(fds', fds, t, D, PipeEnd(p, end))
<1> DEFINE e == PipeEnd(p, end)
           now == fds
           next == fds'
<1>1. SameBut(next, now, t, D)
  BY DEF Opening
<1>2. In(now[t], D, e) = {}
  BY EndFacts DEF Opening, In
<1> HIDE DEF e, now, next
<1>3. More(next, now, t, D, e)
  BY <1>1, <1>2, OneRow
<1> QED BY <1>3 DEF e, now, next

\* A task that sleeps is not disturbed by a pipe that only gains ends, or is not its own.
LEMMA SleepersKept ==
  ASSUME Inv, NoNewSleeper, pipe' \in [Pipes -> PipeRecords], UNCHANGED <<kbd, eof>>,
         \A u \in TaskIds : mode'[u] \in SleepModes => fds'[u] = fds[u],
         \A u \in TaskIds, q \in Pipes :
           mode'[u] \in SleepModes /\ fds[u][call[u].fd].to = q /\ pipe[q].live =>
             /\ pipe'[q].r = pipe[q].r /\ pipe'[q].w = pipe[q].w
             /\ pipe'[q].readers >= pipe[q].readers /\ pipe'[q].writers >= pipe[q].writers
  PROVE  HoldsItsEnd' /\ SleepersJustified'
<1>1. ASSUME NEW u \in TaskIds, mode'[u] \in SleepModes
      PROVE  /\ mode'[u] = mode[u] /\ call'[u] = call[u] /\ fds'[u] = fds[u]
             /\ fds'[u][call'[u].fd] = fds[u][call[u].fd]
  BY <1>1 DEF NoNewSleeper
<1>2. HoldsItsEnd'
  BY <1>1 DEF Inv, HoldsItsEnd, SleepModes
<1>3. SleepersJustified'
  <2> SUFFICES ASSUME NEW u \in TaskIds, mode'[u] \in SleepModes
               PROVE  LET q == fds'[u][call'[u].fd].to
                      IN /\ mode'[u] = "PIPE_READ" =>
                              Used(pipe'[q].r, pipe'[q].w, PipeSize) = 0 /\ pipe'[q].writers > 0
                         /\ mode'[u] = "PIPE_WRITE" =>
                              Space(pipe'[q].r, pipe'[q].w, PipeSize) = 0 /\ pipe'[q].readers > 0
                         /\ mode'[u] = "KEY" => KbdUsed' = 0 /\ (eof' => call'[u].op = "readkey")
    BY Zenon DEF SleepersJustified, SleepModes, PipeUsed, PipeSpace
  <2> DEFINE f == fds[u][call[u].fd]
             q == f.to
  <2>1. /\ mode'[u] = mode[u] /\ call'[u] = call[u] /\ fds'[u][call'[u].fd].to = q
        /\ call[u].fd \in Fds /\ f \in Files
    BY <1>1, Zenon DEF Inv, TypeOK, Calls
  <2>2. ASSUME q \in Pipes, f.end \in {"read", "write"}
        PROVE  /\ pipe'[q].r = pipe[q].r /\ pipe'[q].w = pipe[q].w
               /\ pipe'[q].readers >= pipe[q].readers /\ pipe'[q].writers >= pipe[q].writers
               /\ pipe'[q].readers \in Nat /\ pipe'[q].writers \in Nat
               /\ pipe[q].readers \in Nat /\ pipe[q].writers \in Nat
    <3>1. f = PipeEnd(q, f.end)
      BY <2>1, SMTT(30) DEF Files, PipeEnd
    <3>2. pipe[q].live
      <4>1. fds[u][call[u].fd] = PipeEnd(q, f.end)
        BY <3>1
      <4> HIDE DEF f, q
      <4> QED BY <2>1, <2>2, <4>1, HeldIsLive, Zenon
    <3>3. pipe[q] \in PipeRecords /\ pipe'[q] \in PipeRecords
      BY <2>2 DEF Inv, TypeOK
    <3> QED BY <2>2, <3>2, <3>3, ZenonT(30) DEF PipeRecords
  <2>3. CASE mode[u] = "PIPE_READ"
    <3>1. q \in Pipes /\ f.end = "read" /\ PipeUsed(q) = 0 /\ pipe[q].writers > 0
      BY <2>3, ZenonT(30) DEF Inv, HoldsItsEnd, SleepersJustified
    <3> HIDE DEF q, f
    <3>2. pipe'[q].writers > 0 /\ Used(pipe'[q].r, pipe'[q].w, PipeSize) = 0
      BY <2>2, <3>1, SMTT(30) DEF PipeUsed
    <3> QED BY <2>1, <2>3, <3>2
  <2>4. CASE mode[u] = "PIPE_WRITE"
    <3>1. q \in Pipes /\ f.end = "write" /\ PipeSpace(q) = 0 /\ pipe[q].readers > 0
      BY <2>4, ZenonT(30) DEF Inv, HoldsItsEnd, SleepersJustified
    <3> HIDE DEF q, f
    <3>2. pipe'[q].readers > 0 /\ Space(pipe'[q].r, pipe'[q].w, PipeSize) = 0
      BY <2>2, <3>1 DEF PipeSpace
    <3> QED BY <2>1, <2>4, <3>2
  <2>5. CASE mode[u] = "KEY"
    BY <2>1, <2>5, Zenon DEF Inv, SleepersJustified, KbdUsed
  <2>6. CASE mode[u] \notin SleepModes
    BY <2>1, <2>6, Zenon
  <2> QED BY <2>3, <2>4, <2>5, <2>6, Zenon DEF SleepModes
<1> QED BY <1>2, <1>3

\* New counts make a pipe record of a pipe record.
LEMMA Recounted ==
  ASSUME NEW rec \in PipeRecords, NEW m \in Nat, NEW n \in Nat
  PROVE  [rec EXCEPT !.readers = m, !.writers = n] \in PipeRecords
BY Zenon DEF PipeRecords

\* A pipe with ends stays one, whatever ends are added, and without ends it has none to copy.
LEMMA SameLife ==
  ASSUME NEW m \in Nat, NEW n \in Nat, NEW j \in Nat, NEW k \in Nat, NEW l,
         l <=> m # 0 \/ n # 0, ~ l => j = 0 /\ k = 0
  PROVE  l <=> m + j # 0 \/ n + k # 0
OBVIOUS

\* SYS_RUN: the child's copies of the caller's ends are counted.
LEMMA SysRunStep ==
  ASSUME Inv, NEW t \in TaskIds, NEW child \in TaskIds, NEW in \in Fds \cup {-1},
         NEW out \in Fds \cup {-1}, SysRun(t, child, in, out)
  PROVE  Inv'
<1> DEFINE files == [i \in {0, 1} |-> IF i = 0 THEN Inherited(t, in, ConsoleIn)
                                      ELSE Inherited(t, out, ConsoleOut)]
           D == {0, 1}
<1>1. /\ mode[child] = "none" /\ mode' = [mode EXCEPT ![child] = "awake"]
      /\ fds' = [fds EXCEPT ![child] = [fd \in Fds |-> IF fd \in D THEN files[fd] ELSE Closed]]
      /\ pipe' = [p \in Pipes |-> [pipe[p] EXCEPT !.readers = @ + Ends(files, p, "read"),
                                                  !.writers = @ + Ends(files, p, "write")]]
      /\ UNCHANGED <<call, cut, kbd, eof>>
  BY Zenon DEF SysRun
<1>2. D \in SUBSET Fds /\ 0 \in Fds /\ 1 \in Fds
  BY SizesAssumption DEF Fds
<1>3. fds \in [TaskIds -> [Fds -> Files]] /\ mode \in [TaskIds -> Modes]
      /\ pipe \in [Pipes -> PipeRecords]
  BY DEF Inv, TypeOK
<1>4. /\ DOMAIN files = D
      /\ \A i \in D : /\ files[i] \in Files
                      /\ \A p \in Pipes, end \in {"read", "write"} :
                           files[i] = PipeEnd(p, end) => \E j \in Fds : fds[t][j] = PipeEnd(p, end)
  BY <1>3, FilesTyped, EndFacts DEF Inherited
<1> HIDE DEF files, D
<1>5. /\ fds' \in [TaskIds -> [Fds -> Files]] /\ \A i \in D : fds'[child][i] = files[i]
      /\ \A u \in TaskIds : u # child => fds'[u] = fds[u]
      /\ \A i \in Fds : i \notin D => fds'[child][i] = Closed
  BY <1>1, <1>2, <1>3, <1>4, FilesTyped, Zenon
<1>6. \A i \in Fds : fds[child][i] = Closed
  BY <1>1, Zenon DEF Inv, Unborn
<1>7. Opening(child, D)
  BY <1>2, <1>5, <1>6 DEF Opening, SameBut
<1>8. ASSUME NEW p \in Pipes, NEW end \in {"read", "write"}
      PROVE  /\ Ends(files, p, end) \in Nat
             /\ Cardinality(HeldAt(fds', PipeEnd(p, end)))
                  = Cardinality(HeldAt(fds, PipeEnd(p, end))) + Ends(files, p, end)
             /\ ~ pipe[p].live => Ends(files, p, end) = 0
  <2>1. Ends(files, p, end) = Cardinality(In(fds'[child], D, PipeEnd(p, end)))
    <3>1. {i \in DOMAIN files : files[i] = [to |-> p, end |-> end]}
            = In(fds'[child], D, PipeEnd(p, end))
      BY <1>4, <1>5 DEF PipeEnd, In
    <3> QED BY <3>1, ZenonT(30) DEF Ends
  <2>2. More(fds', fds, child, D, PipeEnd(p, end))
    BY <1>2, <1>7, OpenedEnds, SMTT(30)
  <2>3. ASSUME ~ pipe[p].live PROVE In(fds'[child], D, PipeEnd(p, end)) = {}
    BY <1>4, <1>5, <2>3, HeldIsLive, SMTT(30) DEF In
  <2> QED BY <2>1, <2>2, <2>3, FS_EmptySet DEF More
<1>9. ASSUME NEW p \in Pipes
      PROVE  /\ pipe'[p] \in PipeRecords
             /\ pipe'[p].readers = pipe[p].readers + Ends(files, p, "read")
             /\ pipe'[p].writers = pipe[p].writers + Ends(files, p, "write")
             /\ pipe'[p].live = pipe[p].live /\ pipe'[p].r = pipe[p].r /\ pipe'[p].w = pipe[p].w
             /\ pipe'[p].got = pipe[p].got /\ pipe'[p].sent = pipe[p].sent
             /\ pipe'[p].buf = pipe[p].buf
  <2>1. pipe'[p] = [pipe[p] EXCEPT !.readers = pipe[p].readers + Ends(files, p, "read"),
                                   !.writers = pipe[p].writers + Ends(files, p, "write")]
    BY <1>1, Zenon
  <2>2. pipe[p] \in PipeRecords
    BY <1>3
  <2>3. Ends(files, p, "read") \in Nat /\ Ends(files, p, "write") \in Nat
    BY <1>8
  <2>4. pipe'[p] \in PipeRecords
    <3>1. pipe[p].readers \in Nat /\ pipe[p].writers \in Nat
      BY <2>2 DEF PipeRecords
    <3>2. /\ pipe[p].readers + Ends(files, p, "read") \in Nat
          /\ pipe[p].writers + Ends(files, p, "write") \in Nat
      BY <2>3, <3>1
    <3> QED BY <2>1, <2>2, <3>2, Recounted, ZenonT(30)
  <2>5. /\ pipe'[p].readers = pipe[p].readers + Ends(files, p, "read")
        /\ pipe'[p].writers = pipe[p].writers + Ends(files, p, "write")
        /\ pipe'[p].live = pipe[p].live /\ pipe'[p].r = pipe[p].r /\ pipe'[p].w = pipe[p].w
        /\ pipe'[p].got = pipe[p].got /\ pipe'[p].sent = pipe[p].sent
        /\ pipe'[p].buf = pipe[p].buf
    BY <2>1, <2>2 DEF PipeRecords
  <2> QED BY <2>4, <2>5
<1>10. pipe' \in [Pipes -> PipeRecords]
  BY <1>1, <1>9, Zenon
<1>11. TypeOK'
  BY <1>1, <1>3, <1>5, <1>10, Zenon DEF Inv, TypeOK, Modes
<1>12. Streams' /\ KeysIntact'
  <2>1. ASSUME NEW p \in Pipes PROVE InOrder(pipe'[p], PipeSize, PipeWrap)
    <3>1. InOrder(pipe[p], PipeSize, PipeWrap)
      BY DEF Inv, Streams
    <3> QED BY <1>9, <3>1, Zenon DEF InOrder
  <2> QED BY <1>1, <2>1, Zenon DEF Inv, Streams, KeysIntact
<1>13. CountsExact'
  <2> SUFFICES ASSUME NEW p \in Pipes PROVE Exact(pipe', fds', p)
    BY ExactCounts
  <2>1. Exact(pipe, fds, p) /\ pipe[p].readers \in Nat /\ pipe[p].writers \in Nat
    BY <1>3, ExactCounts DEF Inv, PipeRecords
  <2>2. /\ Ends(files, p, "read") \in Nat /\ Ends(files, p, "write") \in Nat
        /\ ~ pipe[p].live => Ends(files, p, "read") = 0 /\ Ends(files, p, "write") = 0
        /\ Cardinality(HeldAt(fds', PipeEnd(p, "read")))
             = Cardinality(HeldAt(fds, PipeEnd(p, "read"))) + Ends(files, p, "read")
        /\ Cardinality(HeldAt(fds', PipeEnd(p, "write")))
             = Cardinality(HeldAt(fds, PipeEnd(p, "write"))) + Ends(files, p, "write")
    BY <1>8
  <2>3. /\ pipe'[p].readers = pipe[p].readers + Ends(files, p, "read")
        /\ pipe'[p].writers = pipe[p].writers + Ends(files, p, "write")
        /\ pipe'[p].live = pipe[p].live
    BY <1>9
  <2>4. /\ pipe'[p].readers = Cardinality(HeldAt(fds', PipeEnd(p, "read")))
        /\ pipe'[p].writers = Cardinality(HeldAt(fds', PipeEnd(p, "write")))
    BY <2>1, <2>2, <2>3, Zenon DEF Exact
  <2>5. pipe[p].live <=> pipe[p].readers # 0 \/ pipe[p].writers # 0
    BY <2>1, ZenonT(30) DEF Exact
  <2>6. pipe[p].live <=> \/ pipe[p].readers + Ends(files, p, "read") # 0
                         \/ pipe[p].writers + Ends(files, p, "write") # 0
    BY <2>1, <2>2, <2>5, SameLife
  <2>7. pipe'[p].live <=> pipe'[p].readers # 0 \/ pipe'[p].writers # 0
    BY <2>3, <2>6, Zenon
  <2> QED BY <2>4, <2>7, Zenon DEF Exact
<1>14. NoNewSleeper /\ \A u \in TaskIds : mode'[u] \in SleepModes => u # child
  BY <1>1, <1>3, Zenon DEF NoNewSleeper, SleepModes
<1>15. Unborn'
  BY <1>1, <1>3, <1>5, ZenonT(30) DEF Inv, Unborn
<1>16. ASSUME NEW q \in Pipes
       PROVE  pipe'[q].readers >= pipe[q].readers /\ pipe'[q].writers >= pipe[q].writers
  <2>1. pipe[q].readers \in Nat /\ pipe[q].writers \in Nat
    BY <1>3 DEF PipeRecords
  <2>2. Ends(files, q, "read") \in Nat /\ Ends(files, q, "write") \in Nat
    BY <1>8
  <2> QED BY <1>9, <2>1, <2>2
<1>17. HoldsItsEnd' /\ SleepersJustified'
  <2>1. UNCHANGED <<kbd, eof>>
    BY <1>1, Zenon
  <2> QED BY <1>5, <1>9, <1>10, <1>14, <1>16, <2>1, SleepersKept, Zenon
<1> QED BY <1>11, <1>12, <1>13, <1>15, <1>17 DEF Inv

\* SYS_PIPE takes the two lowest closed slots.
LEMMA TwoSlots ==
  ASSUME NEW t \in TaskIds, Cardinality(FreeFds(t)) >= 2
  PROVE  LET rfd == Min(FreeFds(t))
             wfd == Min(FreeFds(t) \ {rfd})
         IN /\ rfd \in Fds /\ wfd \in Fds /\ rfd # wfd
            /\ fds[t][rfd] = Closed /\ fds[t][wfd] = Closed
<1> DEFINE S == FreeFds(t)
           rfd == Min(S)
           T == S \ {rfd}
           wfd == Min(T)
<1>1. S \in SUBSET Fds /\ S \in SUBSET Nat /\ T \in SUBSET Nat /\ IsFiniteSet(S)
  <2>1. S \in SUBSET Fds /\ S \in SUBSET Nat
    BY SizesAssumption DEF FreeFds, Fds
  <2> QED BY <2>1, Finite, FS_Subset
<1>2. S # {}
  BY FS_EmptySet
<1> HIDE DEF S
<1>3. rfd \in S
  BY <1>1, <1>2, NatMin
<1> HIDE DEF rfd
<1>4. T # {}
  <2> SUFFICES ASSUME T = {} PROVE FALSE
    OBVIOUS
  <2>1. S = {rfd}
    BY <1>3
  <2>2. Cardinality(S) = 1
    BY <2>1, FS_Singleton
  <2> QED BY <2>2 DEF S
<1> HIDE DEF T
<1>5. wfd \in T
  BY <1>1, <1>4, NatMin
<1> HIDE DEF wfd
<1>6. rfd \in S /\ wfd \in S /\ rfd # wfd
  BY <1>3, <1>5 DEF T
<1>7. rfd \in Fds /\ wfd \in Fds /\ fds[t][rfd] = Closed /\ fds[t][wfd] = Closed
  BY <1>6 DEF S, FreeFds
<1> QED BY <1>6, <1>7 DEF wfd, T, rfd, S

\* SYS_PIPE: nobody sleeps on the new pipe, and its two ends are counted.
LEMMA SysPipeStep ==
  ASSUME Inv, NEW t \in TaskIds, NEW p \in Pipes, SysPipe(t, p)
  PROVE  Inv'
<1> DEFINE rfd == Min(FreeFds(t))
           wfd == Min(FreeFds(t) \ {rfd})
           D == {rfd, wfd}
           new == [FreshPipe EXCEPT !.live = TRUE, !.readers = 1, !.writers = 1]
<1>1. /\ mode[t] = "awake" /\ ~ pipe[p].live /\ Cardinality(FreeFds(t)) >= 2
      /\ fds' = [fds EXCEPT ![t][rfd] = PipeEnd(p, "read"), ![t][wfd] = PipeEnd(p, "write")]
      /\ pipe' = [pipe EXCEPT ![p] = new]
      /\ UNCHANGED <<mode, call, cut, kbd, eof>>
  BY DEF SysPipe, PipeEnd
<1>2. /\ rfd \in Fds /\ wfd \in Fds /\ rfd # wfd
      /\ fds[t][rfd] = Closed /\ fds[t][wfd] = Closed
  BY <1>1, TwoSlots
<1> HIDE DEF rfd, wfd
<1>3. fds \in [TaskIds -> [Fds -> Files]] /\ pipe \in [Pipes -> PipeRecords]
      /\ mode \in [TaskIds -> Modes]
  BY DEF Inv, TypeOK
<1>4. PipeEnd(p, "read") \in Files /\ PipeEnd(p, "write") \in Files
  BY EndFacts
<1>5. /\ fds' \in [TaskIds -> [Fds -> Files]]
      /\ fds'[t][rfd] = PipeEnd(p, "read") /\ fds'[t][wfd] = PipeEnd(p, "write")
      /\ \A u \in TaskIds : u # t => fds'[u] = fds[u]
      /\ \A i \in Fds \ D : fds'[t][i] = fds[t][i]
  BY <1>1, <1>2, <1>3, <1>4, SMTT(30)
<1>6. D \in SUBSET Fds /\ Opening(t, D)
  BY <1>2, <1>5 DEF Opening, SameBut
<1>7. /\ new \in PipeRecords /\ InOrder(new, PipeSize, PipeWrap)
      /\ new.live = TRUE /\ new.readers = 1 /\ new.writers = 1
  <2>1. /\ new.live = TRUE /\ new.readers = 1 /\ new.writers = 1
        /\ new.r = FreshPipe.r /\ new.w = FreshPipe.w /\ new.got = FreshPipe.got
        /\ new.sent = FreshPipe.sent /\ new.buf = FreshPipe.buf
    BY DEF FreshPipe
  <2>2. new \in PipeRecords
    BY FreshFacts, Zenon DEF PipeRecords
  <2> HIDE DEF new
  <2>3. InOrder(new, PipeSize, PipeWrap)
    BY <2>1, FreshFacts, Zenon DEF InOrder
  <2> QED BY <2>1, <2>2, <2>3
<1> HIDE DEF new
<1>8. ASSUME NEW q \in Pipes, NEW end \in {"read", "write"}
      PROVE  /\ Cardinality(HeldAt(fds, PipeEnd(q, end))) \in Nat
             /\ Cardinality(HeldAt(fds', PipeEnd(q, end)))
                  = Cardinality(HeldAt(fds, PipeEnd(q, end))) + (IF q = p THEN 1 ELSE 0)
  <2>1. More(fds', fds, t, D, PipeEnd(q, end))
    BY <1>6, OpenedEnds, SMTT(30)
  <2>2. In(fds'[t], D, PipeEnd(q, end)) =
          IF q # p THEN {} ELSE IF end = "read" THEN {rfd} ELSE {wfd}
    BY <1>2, <1>5 DEF In, PipeEnd
  <2>3. Cardinality(In(fds'[t], D, PipeEnd(q, end))) = IF q = p THEN 1 ELSE 0
    BY <2>2, FS_EmptySet, FS_Singleton, Zenon
  <2> QED BY <2>1, <2>3 DEF More
<1>9. ASSUME NEW q \in Pipes
      PROVE  Exact(pipe', fds', q)
  <2>1. Exact(pipe, fds, q)
    BY ExactCounts DEF Inv
  <2>2. CASE q # p
    <3>1. pipe'[q] = pipe[q]
      BY <1>1, <1>3, <2>2, Zenon
    <3>2. /\ Cardinality(HeldAt(fds', PipeEnd(q, "read"))) = Cardinality(HeldAt(fds, PipeEnd(q, "read")))
          /\ Cardinality(HeldAt(fds', PipeEnd(q, "write"))) = Cardinality(HeldAt(fds, PipeEnd(q, "write")))
      BY <1>8, <2>2, SMTT(30)
    <3> QED BY <2>1, <3>1, <3>2, Zenon DEF Exact
  <2>3. CASE q = p
    <3>1. pipe'[q] = new
      BY <1>1, <1>3, <2>3, Zenon
    <3>2. /\ Cardinality(HeldAt(fds, PipeEnd(q, "read"))) = 0
          /\ Cardinality(HeldAt(fds, PipeEnd(q, "write"))) = 0
      BY <1>1, <2>1, <2>3 DEF Exact
    <3>3. /\ Cardinality(HeldAt(fds', PipeEnd(q, "read"))) = 1
          /\ Cardinality(HeldAt(fds', PipeEnd(q, "write"))) = 1
      BY <1>8, <2>3, <3>2
    <3> QED BY <1>7, <3>1, <3>3 DEF Exact
  <2> QED BY <2>2, <2>3
<1>10. CountsExact'
  BY <1>9, ExactCounts
<1>11. pipe' \in [Pipes -> PipeRecords] /\ \A q \in Pipes : pipe'[q] = IF q = p THEN new ELSE pipe[q]
  BY <1>1, <1>3, <1>7, ZenonT(30)
<1>12. TypeOK' /\ Streams' /\ KeysIntact'
  BY <1>1, <1>5, <1>7, <1>11, SMTT(30) DEF Inv, TypeOK, Streams, KeysIntact
<1>13. Unborn'
  BY <1>1, <1>5, SMTT(30) DEF Inv, Unborn
<1>14. NoNewSleeper /\ \A u \in TaskIds : mode'[u] \in SleepModes => fds'[u] = fds[u]
  BY <1>1, <1>5 DEF NoNewSleeper, SleepModes
<1>15. ASSUME NEW q \in Pipes, pipe[q].live
       PROVE  /\ pipe'[q].r = pipe[q].r /\ pipe'[q].w = pipe[q].w
              /\ pipe'[q].readers >= pipe[q].readers /\ pipe'[q].writers >= pipe[q].writers
  <2>1. pipe'[q] = pipe[q] /\ pipe[q].readers \in Nat /\ pipe[q].writers \in Nat
    BY <1>1, <1>3, <1>11, <1>15, ZenonT(30) DEF PipeRecords
  <2> QED BY <2>1
<1>16. HoldsItsEnd' /\ SleepersJustified'
  <2>1. UNCHANGED <<kbd, eof>>
    BY <1>1
  <2> QED BY <1>11, <1>14, <1>15, <2>1, SleepersKept
<1> QED BY <1>10, <1>12, <1>13, <1>16 DEF Inv

-----------------------------------------------------------------------------
(* The invariant, and what it gives.                                       *)

\* At boot there are no pipes, no keys and one task, with the console.
LEMMA InitInv == Init => Inv
<1> SUFFICES ASSUME Init PROVE Inv
  OBVIOUS
<1>1. TypeOK
  <2>1. /\ mode \in [TaskIds -> Modes] /\ cut \in [TaskIds -> BOOLEAN] /\ eof \in BOOLEAN
        /\ call \in [TaskIds -> Calls]
    BY CallsTyped, Zenon DEF Init, Modes
  <2>2. fds \in [TaskIds -> [Fds -> Files]]
    BY FilesTyped DEF Init
  <2>3. pipe \in [Pipes -> PipeRecords]
    BY FreshFacts DEF Init
  <2>4. kbd \in KbdRecords
    BY SizesAssumption DEF Init, KbdRecords, KbdWrap
  <2> QED BY <2>1, <2>2, <2>3, <2>4 DEF TypeOK
<1>2. Unborn
  <2> SUFFICES ASSUME NEW t \in TaskIds, mode[t] = "none", NEW fd \in Fds
               PROVE  fds[t][fd] = Closed
    BY DEF Unborn
  <2>1. t # 0
    BY DEF Init
  <2> QED BY <2>1, SMTT(30) DEF Init
<1>3. HoldsItsEnd /\ SleepersJustified
  BY DEF Init, HoldsItsEnd, SleepersJustified
<1>4. CountsExact
  <2> SUFFICES ASSUME NEW p \in Pipes PROVE Exact(pipe, fds, p)
    BY ExactCounts
  <2>1. ASSUME NEW end \in {"read", "write"} PROVE Cardinality(HeldAt(fds, PipeEnd(p, end))) = 0
    <3>1. ASSUME NEW u \in TaskIds, NEW i \in Fds PROVE fds[u][i] # PipeEnd(p, end)
      BY EndFacts DEF Init
    <3>2. HeldAt(fds, PipeEnd(p, end)) = {}
      BY <3>1 DEF HeldAt
    <3> QED BY <3>2, EndsCounted
  <2>2. pipe[p] = FreshPipe
    BY DEF Init
  <2> QED BY <2>1, <2>2, FreshFacts DEF Exact
<1>5. Streams
  BY FreshFacts DEF Init, Streams
<1>6. KeysIntact
  <2>1. kbd.r = 0 /\ kbd.w = 0 /\ kbd.got = 0 /\ kbd.sent = 0
    BY DEF Init
  <2>2. 0 \in 0 .. KbdSize - 1 /\ 0 \in 0 .. KbdWrap - 1
    BY SizesAssumption DEF KbdWrap
  <2>3. Used(0, 0, KbdSize) = IF 0 <= 0 THEN 0 - 0 ELSE (0 + KbdSize) - 0
    BY <2>2, SizesFit, UsedIs, Zenon
  <2>4. Used(0, 0, KbdSize) = 0
    BY <2>3
  <2>5. (0 + 0) % KbdWrap = IF 0 + 0 < KbdWrap THEN 0 + 0 ELSE (0 + 0) - KbdWrap
    BY <2>2, SizesFit, SumIs, Zenon
  <2>6. (0 + Used(0, 0, KbdSize)) % KbdWrap = 0
    BY <2>4, <2>5, SizesFit
  <2> QED BY <2>1, <2>4, <2>6 DEF KeysIntact, InOrder
<1> QED BY <1>1, <1>2, <1>3, <1>4, <1>5, <1>6 DEF Inv

\* Every system call keeps the invariant.
LEMMA TaskStepInv == Inv /\ TaskStep => Inv'
<1> SUFFICES ASSUME Inv, NEW t \in TaskIds,
                    \/ \E fd \in Fds, len \in IoLens :
                         PipeRead(t, fd, len) \/ PipeWrite(t, fd, len) \/ ConsoleRead(t, fd, len)
                    \/ SysReadkey(t)
                    \/ \E fd \in Fds : SysClose(t, fd)
                    \/ \E p \in Pipes : SysPipe(t, p)
                    \/ SysPipeFails(t)
                    \/ \E child \in TaskIds, in \in Fds \cup {-1}, out \in Fds \cup {-1} :
                         SysRun(t, child, in, out)
                    \/ Exit(t)
                    \/ Signal({t})
             PROVE  Inv'
  BY DEF TaskStep
<1>1. CASE \E fd \in Fds, len \in IoLens :
             PipeRead(t, fd, len) \/ PipeWrite(t, fd, len) \/ ConsoleRead(t, fd, len)
  BY <1>1, PipeReadStep, PipeWriteStep, ConsoleReadStep
<1>2. CASE SysReadkey(t)
  BY <1>2, SysReadkeyStep
<1>3. CASE \E fd \in Fds : SysClose(t, fd)
  BY <1>3, SysCloseStep
<1>4. CASE \E p \in Pipes : SysPipe(t, p)
  BY <1>4, SysPipeStep
<1>5. CASE SysPipeFails(t)
  BY <1>5, SysPipeFailsStep
<1>6. CASE \E child \in TaskIds, in \in Fds \cup {-1}, out \in Fds \cup {-1} :
             SysRun(t, child, in, out)
  <2>1. PICK child \in TaskIds, in \in Fds \cup {-1}, out \in Fds \cup {-1} :
          SysRun(t, child, in, out)
    BY <1>6
  <2> QED BY <2>1, SysRunStep
<1>7. CASE Exit(t)
  BY <1>7, ExitStep
<1>8. CASE Signal({t})
  BY <1>8, SignalStep
<1> QED BY <1>1, <1>2, <1>3, <1>4, <1>5, <1>6, <1>7, <1>8, SMTT(30)

-----------------------------------------------------------------------------
(* The modifiers of the keyboard, and the console with its readers.        *)

\* The flags say what the keys say.
Flags ==
  /\ shift_held \in BOOLEAN /\ ctrl_held \in BOOLEAN /\ caps_on \in BOOLEAN
  /\ shift_held <=> Shifts \cap (down \ let_go) # {}
  /\ ctrl_held <=> Ctrls \cap (down \ let_go) # {}

\* The inductive invariant of keyboard_callback: the event was decoded with these very flags.
KeyInv == Flags /\ TypedAsHeld

\* An event that is nothing says nothing.
LEMMA NothingTyped == event = Nothing => TypedAsHeld
BY DEF TypedAsHeld, Nothing

\* The flags are right before the first key: nothing is down.
LEMMA KeyInitFlags == KeyInit => KeyInv
<1> SUFFICES ASSUME KeyInit PROVE KeyInv
  OBVIOUS
<1>1. Flags
  BY Zenon DEF KeyInit, Flags
<1>2. TypedAsHeld
  BY NothingTyped DEF KeyInit
<1> QED
  BY <1>1, <1>2 DEF KeyInv

\* A make code keeps the flags right: keyboard_callback sets the flag of a modifier, whichever
\* of the two keys it came from, and leaves it alone for any other key.
LEMMA PressFlags ==
  ASSUME Flags, NEW k \in Keys, Press(k)
  PROVE  Flags'
<1>1. CASE k \in Shifts
  <2>1. shift_held' = TRUE /\ ctrl_held' = ctrl_held /\ caps_on' = caps_on
    BY <1>1 DEF Press, Shifts, Ctrls
  <2>2. down' = down \cup {k} /\ let_go' = let_go \ Shifts
    BY <1>1 DEF Press, Twins
  <2>3. k \in Shifts \cap (down' \ let_go')
    BY <1>1, <2>2
  <2>4. Ctrls \cap (down' \ let_go') = Ctrls \cap (down \ let_go)
    BY <1>1, <2>2 DEF Shifts, Ctrls
  <2> QED
    BY <2>1, <2>3, <2>4 DEF Flags
<1>2. CASE k \in Ctrls
  <2>1. ctrl_held' = TRUE /\ shift_held' = shift_held /\ caps_on' = caps_on
    BY <1>2 DEF Press, Shifts, Ctrls
  <2>2. down' = down \cup {k} /\ let_go' = let_go \ Ctrls
    BY <1>2 DEF Press, Twins, Shifts, Ctrls
  <2>3. k \in Ctrls \cap (down' \ let_go')
    BY <1>2, <2>2
  <2>4. Shifts \cap (down' \ let_go') = Shifts \cap (down \ let_go)
    BY <1>2, <2>2 DEF Shifts, Ctrls
  <2> QED
    BY <2>1, <2>3, <2>4 DEF Flags
<1>3. CASE k \notin Shifts \cup Ctrls
  <2>1. shift_held' = shift_held /\ ctrl_held' = ctrl_held /\ caps_on' \in BOOLEAN
    BY <1>3, Zenon DEF Press, Flags, Shifts, Ctrls
  <2>2. down' = down \cup {k} /\ let_go' = let_go
    BY <1>3 DEF Press, Twins
  <2>3. /\ Shifts \cap (down' \ let_go') = Shifts \cap (down \ let_go)
        /\ Ctrls \cap (down' \ let_go') = Ctrls \cap (down \ let_go)
    BY <1>3, <2>2
  <2> QED
    BY <2>1, <2>3 DEF Flags
<1> QED
  BY <1>1, <1>2, <1>3

\* What a make code is decoded to is what the keys held say: the flags do not change in the
\* step that uses them.
LEMMA PressTyped ==
  ASSUME Flags, NEW k \in Keys, Press(k)
  PROVE  TypedAsHeld'
<1>1. CASE event' = Nothing
  BY <1>1 DEF TypedAsHeld, Nothing
<1>2. CASE event' # Nothing
  <2>1. /\ k \notin Shifts \cup Ctrls
        /\ event' = Decoded(k)
        /\ caps_on' = caps_on /\ shift_held' = shift_held /\ ctrl_held' = ctrl_held
    BY <1>2 DEF Press
  <2>2. Flags'
    BY PressFlags
  <2>3. k \in down'
    BY DEF Press
  <2>4. CASE ctrl_held
    <3>1. \/ k = "c" /\ event'.kind = "interrupt"
          \/ k = "d" /\ event'.kind = "eof"
      BY <1>2, <2>1, <2>4 DEF Decoded, Event, Nothing
    <3>2. (Ctrls \cap (down \ let_go) # {})'
      BY <2>1, <2>2, <2>4 DEF Flags
    <3> QED
      BY <2>3, <3>1, <3>2 DEF TypedAsHeld
  <2>5. CASE ~ ctrl_held
    <3>1. event' = [kind |-> "char", key |-> k, shifted |-> UseShifted(k)]
      BY <1>2, <2>1, <2>5 DEF Decoded
    <3>2. ~ (Ctrls \cap (down \ let_go) # {})'
      BY <2>1, <2>2, <2>5 DEF Flags
    <3>3. shift_held = (Shifts \cap (down \ let_go) # {})'
      BY <2>1, <2>2 DEF Flags
    <3>4. event'.kind = "char" /\ event'.key = k /\ event'.shifted = UseShifted(k)
      BY <3>1
    <3>5. caps_on' = caps_on /\ caps_on \in BOOLEAN /\ shift_held \in BOOLEAN
      BY <2>1 DEF Flags
    <3>6. CASE k \in Letters
      <4>1. event'.shifted <=> (Shifts \cap (down \ let_go) # {})' # caps_on'
        BY <3>3, <3>4, <3>5, <3>6, Zenon DEF UseShifted
      <4> QED
        BY <3>2, <3>4, <3>6, <4>1 DEF TypedAsHeld
    <3>7. CASE k \notin Letters
      <4>1. event'.shifted <=> (Shifts \cap (down \ let_go) # {})'
        BY <3>3, <3>4, <3>7, Zenon DEF UseShifted
      <4> QED
        BY <3>2, <3>4, <3>7, <4>1 DEF TypedAsHeld
    <3> QED
      BY <3>6, <3>7
  <2> QED
    BY <2>4, <2>5
<1> QED
  BY <1>1, <1>2

\* A break code keeps the flags right: no modifier stays on when its keys are up.
LEMMA ReleaseFlags ==
  ASSUME Flags, NEW k \in Keys, Release(k)
  PROVE  Flags'
<1>1. CASE k \in Shifts
  <2>1. ~ shift_held' /\ ctrl_held' = ctrl_held /\ caps_on' = caps_on
    BY <1>1, Zenon DEF Release, Flags, Shifts, Ctrls
  <2>2. down' = down \ {k} /\ let_go' = (let_go \cup (down \cap Shifts)) \ {k}
    BY <1>1 DEF Release, Twins
  <2>3. Shifts \cap (down' \ let_go') = {}
    BY <2>2
  <2>4. Ctrls \cap (down' \ let_go') = Ctrls \cap (down \ let_go)
    BY <1>1, <2>2 DEF Shifts, Ctrls
  <2>5. shift_held' \in BOOLEAN
    BY DEF Release
  <2> QED
    BY <2>1, <2>3, <2>4, <2>5 DEF Flags
<1>2. CASE k \in Ctrls
  <2>1. ~ ctrl_held' /\ shift_held' = shift_held /\ caps_on' = caps_on
    BY <1>2, Zenon DEF Release, Flags, Shifts, Ctrls
  <2>2. down' = down \ {k} /\ let_go' = (let_go \cup (down \cap Ctrls)) \ {k}
    BY <1>2 DEF Release, Twins, Shifts, Ctrls
  <2>3. Ctrls \cap (down' \ let_go') = {}
    BY <2>2
  <2>4. Shifts \cap (down' \ let_go') = Shifts \cap (down \ let_go)
    BY <1>2, <2>2 DEF Shifts, Ctrls
  <2>5. ctrl_held' \in BOOLEAN
    BY DEF Release
  <2> QED
    BY <2>1, <2>3, <2>4, <2>5 DEF Flags
<1>3. CASE k \notin Shifts \cup Ctrls
  <2>1. shift_held' = shift_held /\ ctrl_held' = ctrl_held /\ caps_on' = caps_on
    BY <1>3 DEF Release, Flags
  <2>2. down' = down \ {k} /\ let_go' = let_go \ {k}
    BY <1>3 DEF Release, Twins
  <2>3. /\ Shifts \cap (down' \ let_go') = Shifts \cap (down \ let_go)
        /\ Ctrls \cap (down' \ let_go') = Ctrls \cap (down \ let_go)
    BY <1>3, <2>2
  <2> QED
    BY <2>1, <2>3 DEF Flags
<1> QED
  BY <1>1, <1>2, <1>3

\* A step that leaves the keyboard alone keeps the invariant.
LEMMA KeyStutter == KeyInv /\ UNCHANGED keyVars => KeyInv'
BY DEF KeyInv, Flags, TypedAsHeld, keyVars

\* Each step of a task, key press and key release keeps it.
LEMMA KeyNextStep == KeyInv /\ [ConsoleNext]_<<vars, keyVars>> => KeyInv'
<1> SUFFICES ASSUME KeyInv, [ConsoleNext]_<<vars, keyVars>> PROVE KeyInv'
  OBVIOUS
<1>1. CASE UNCHANGED keyVars
  BY <1>1, KeyStutter
<1>2. CASE KeyDown
  <2>1. PICK k \in Keys : Press(k)
    BY <1>2 DEF KeyDown
  <2> QED
    BY <2>1, PressFlags, PressTyped DEF KeyInv
<1>3. CASE KeyUp
  <2>1. PICK k \in Keys : Release(k)
    BY <1>3 DEF KeyUp
  <2>2. event' = Nothing
    BY <2>1 DEF Release
  <2>3. TypedAsHeld'
    BY <2>2 DEF TypedAsHeld, Nothing
  <2> QED
    BY <2>1, <2>3, ReleaseFlags DEF KeyInv
<1> QED
  BY <1>1, <1>2, <1>3 DEF ConsoleNext

\* Whatever keys are pressed and let go, in whatever order, and whatever tasks do in between,
\* keyboard_callback takes a key for what the modifiers that are down make of it.
THEOREM AlwaysTypedAsHeld == ConsoleSpec => []TypedAsHeld
<1>1. ConsoleInit => KeyInv
  BY KeyInitFlags DEF ConsoleInit
<1>2. KeyInv => TypedAsHeld
  BY DEF KeyInv
<1> QED
  BY <1>1, <1>2, KeyNextStep, PTL DEF ConsoleSpec

-----------------------------------------------------------------------------
(* The tasks that read it, and everything else on pipes and descriptors.   *)

\* So does every key, and a step of something else.
LEMMA ConsoleNextInv == Inv /\ [ConsoleNext]_<<vars, keyVars>> => Inv'
<1> SUFFICES ASSUME Inv, [ConsoleNext]_<<vars, keyVars>> PROVE Inv'
  OBVIOUS
<1>1. ASSUME UNCHANGED vars PROVE Inv'
  <2>1. UNCHANGED <<fds, pipe, kbd, eof>> /\ UNCHANGED <<mode, call, cut>>
    BY <1>1 DEF vars
  <2>2. mode' \in [TaskIds -> Modes] /\ call' \in [TaskIds -> Calls]
        /\ cut' \in [TaskIds -> BOOLEAN] /\ NoNewSleeper
    BY <2>1 DEF Inv, TypeOK, NoNewSleeper
  <2> QED BY <2>1, <2>2, OnlyWakes
<1>2. CASE TaskStep /\ UNCHANGED keyVars
  BY <1>2, TaskStepInv
<1>3. CASE KeyDown
  <2>1. Handled
    BY <1>3 DEF KeyDown
  <2> QED BY <1>1, <2>1, TypeStep, CtrlDStep, SignalStep DEF Handled
<1>4. CASE KeyUp
  BY <1>1, <1>4 DEF KeyUp
<1>5. CASE UNCHANGED <<vars, keyVars>>
  BY <1>1, <1>5
<1> QED BY <1>2, <1>3, <1>4, <1>5 DEF ConsoleNext

\* The inductive invariant holds throughout.
LEMMA InvHolds == ConsoleSpec => []Inv
<1>1. ConsoleInit => Inv
  BY InitInv DEF ConsoleInit
<1> QED BY <1>1, ConsoleNextInv, PTL DEF ConsoleSpec

\* Reference counting is exact for every number of tasks, pipes and descriptors: file_close,
\* SYS_PIPE and the inheritance of SYS_RUN never free a pipe that is in use, nor leak one.
THEOREM CountsAlwaysExact == ConsoleSpec => []CountsExact
<1>1. Inv => CountsExact
  BY DEF Inv
<1> QED BY <1>1, InvHolds, PTL

\* pipe_read, pipe_write and the console never sleep through the event they wait for,
\* whichever of read, write, close, exit, key press or signal comes when.
THEOREM NoWakeupLost == ConsoleSpec => []SleepersJustified
<1>1. Inv => SleepersJustified
  BY DEF Inv
<1> QED BY <1>1, InvHolds, PTL

\* pipe_read returns the bytes pipe_write accepted, in their order, for every buffer size.
THEOREM StreamsAlwaysIntact == ConsoleSpec => []StreamIntact
<1>1. Inv => StreamIntact
  BY DEF Inv, Streams, StreamIntact
<1> QED BY <1>1, InvHolds, PTL

\* The keyboard ring gives the characters it accepted, in their order, for every size.
THEOREM KeysAlwaysIntact == ConsoleSpec => []KeysIntact
<1>1. Inv => KeysIntact
  BY DEF Inv
<1> QED BY <1>1, InvHolds, PTL
=============================================================================
