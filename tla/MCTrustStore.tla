---------------------------- MODULE MCTrustStore ----------------------------
(* Small instances of the trust store.                                     *)
EXTENDS TrustStore, TLC

Gated == <<"conditional", "exclusive">>

Symmetry == Permutations(Worker) \cup Permutations(Cert) \cup Permutations(Crl)

=============================================================================
