--------------------------- MODULE MCKeyRegistry ---------------------------
(* Small instances of the key registry.                                    *)
EXTENDS KeyRegistry, TLC

Symmetry == Permutations(Worker) \cup Permutations(Entry) \cup Permutations(Ref)
              \cup Permutations(Context) \cup Permutations(Slot)

=============================================================================
