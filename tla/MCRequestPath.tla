--------------------------- MODULE MCRequestPath ---------------------------
(* RequestPath for TLC: one client whose requests two threads serve.       *)
EXTENDS RequestPath, TLC

CONSTANTS s1, s2    \* two memories that do not fit in the quota together

MCSize == [s \in Shm |-> IF s = s1 THEN 1 ELSE 2]

\* Contexts are interchangeable, and so are slots and threads.
Symmetry == Permutations(Context) \cup Permutations(Slot) \cup Permutations(Holder)

=============================================================================
