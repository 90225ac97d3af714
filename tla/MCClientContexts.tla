-------------------------- MODULE MCClientContexts --------------------------
(***************************************************************************)
(* One context of any kind, and a second, random, context to move over it. *)
(***************************************************************************)
EXTENDS ClientContexts

MCKindsOf == <<{"mac", "hash", "cipher", "random"} \cup SignKinds \cup VerifyKinds, {"random"}>>
=============================================================================
