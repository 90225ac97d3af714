-------------------------- MODULE MCPkcs11Handlers --------------------------
(* Small instances of the PKCS#11 handlers and their keys.                 *)
EXTENDS Pkcs11Handlers, TLC

Symmetry == Permutations(Session \ {Seed}) \cup Permutations(Handler)
              \cup Permutations(SessionKey)

=============================================================================
