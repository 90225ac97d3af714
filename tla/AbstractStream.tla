---------------------------- MODULE AbstractStream ----------------------------
(***************************************************************************)
(* What a streaming context promises its client.  acc is the stream: None, *)
(* or the sequence of chunks accepted since the last Init.  reply is what  *)
(* the client was last told: the operation, the payload it sent, whether   *)
(* the call succeeded, and the result.  A call that is not reported as successful   *)
(* may or may not have taken effect.  Unspecified is a stream whose last   *)
(* Init failed halfway.                                                    *)
(***************************************************************************)
EXTENDS Sequences

CONSTANTS None, Unspecified, NoOut

VARIABLES acc, reply

IsStream == acc \notin {None, Unspecified}

Answered(ops, in, out) ==
    /\ reply'.op \in ops
    /\ reply'.ok => reply'.in = in /\ reply'.out = out

NotTold == reply'.ok = FALSE

Begin == /\ acc' = <<>>
         /\ Answered({"INIT"}, <<>>, NoOut)

\* An accepted chunk is appended, once and at the end.
Feed == /\ IsStream
        /\ acc' = acc \o reply'.in
        /\ Answered({"UPDATE"}, reply'.in, NoOut)

\* A result is the result of exactly the chunks accepted since Init, and
\* ends the stream.
Emit == /\ IsStream
        /\ acc' = None
        /\ Answered({"FINALIZE", "VERIFY"}, <<>>, acc)

\* A single-shot never interrupts a stream that has taken data.
Whole == /\ acc \in {None, <<>>}
         /\ acc' \in {None, acc}
         /\ Answered({"SS"}, reply'.in, reply'.in)

Drop == acc' = None /\ Answered({"RESET", "CLOSE"}, <<>>, NoOut)

\* Calls that do not touch the stream.
Ask == acc' = acc /\ Answered({"CREATE", "SIZE", "GENERATE"}, <<>>, NoOut)

\* A call that fails keeps the stream or loses it; it never alters it.
Refused == acc' \in {acc, None} /\ NotTold

\* An Init that fails after EVP accepted it leaves a stream nobody asked for.
HalfBegun == acc' = Unspecified /\ reply'.op = "INIT" /\ NotTold
Astray == acc = Unspecified /\ acc' \in {Unspecified, None}

Init == acc = None /\ reply = [op |-> "NONE", in |-> <<>>, ok |-> FALSE, out |-> NoOut]

Next == Begin \/ Feed \/ Emit \/ Whole \/ Drop \/ Ask \/ Refused \/ HalfBegun \/ Astray

Spec == Init /\ [][Next]_<<acc, reply>>
=============================================================================
