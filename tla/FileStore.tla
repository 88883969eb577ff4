----------------------------- MODULE FileStore -----------------------------
(***************************************************************************)
(* What the file system promises: a map from names to whole contents, and  *)
(* each change to it is one step, whatever happens in the middle of it.    *)
(***************************************************************************)
CONSTANTS
  Names,      \* 8.3 names
  Contents,   \* what a file may hold
  Absent      \* what a name without a file maps to

VARIABLE files

\* The volume as it is handed over: no file.
Init == files = [n \in Names |-> Absent]

\* A file is created, or replaced whole.
Replace(n, f) == files' = [files EXCEPT ![n] = f]

\* A file is removed.
Remove(n) == files' = [files EXCEPT ![n] = Absent]

Next ==
  \E n \in Names : \/ \E f \in Contents : Replace(n, f)
                   \/ Remove(n)

Spec == Init /\ [][Next]_files
=============================================================================
