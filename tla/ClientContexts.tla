---------------------------- MODULE ClientContexts ----------------------------
(***************************************************************************)
(* The context objects of the client library (MacContextImpl and its       *)
(* siblings) and the daemon contexts behind them.  Every method of an      *)
(* object is one action: it acquires its buffers from the transcoder,      *)
(* sends one request, the daemon runs the executor of the context, and     *)
(* the reply is checked.  The library neither times out nor retries; the   *)
(* request may not be sent and the reply may be lost, and the client then  *)
(* sees the same error either way.  Objects move as C++ objects do.        *)
(***************************************************************************)
EXTENDS StreamExecutors, FiniteSets

CONSTANTS Objects,        \* the client's context variables
          Chunks,         \* pieces of payload
          MaxContexts,    \* bound on the contexts ever created
          MaxFed,         \* bound on the chunks given to one stream
          KindsOf,        \* the kinds the n-th context may have
          Closed, None, Unspecified

VARIABLES ctx,      \* the daemon's contexts: node id -> [kind, h] or Closed
          held,     \* m_context_id of every object, 0 after a move
          next,     \* the next node id
          closed,   \* how often CTX_CLOSE was executed for an id
          reply     \* what the last call told the client, and its context

vars == <<ctx, held, next, closed, reply>>

Ids == 1 .. MaxContexts
Live(c) == ctx[c] # Closed
Crashed == \E c \in Ids : Live(c) /\ ctx[c].h.ctx = "crashed"

\* A method's arguments: its payload, and whether the other buffer fits.
Arg(data, fits) == [data |-> data, fits |-> fits]
NoArg == Arg(<<>>, TRUE)
Messages == UNION {[1 .. n -> Chunks] : n \in 1 .. DigestLen}

Answer(c, op, data, ok, out) == [id |-> c, op |-> op, in |-> data, ok |-> ok, out |-> out]

(***************************************************************************)
(* A request.  NotSent: no buffer, no connection, or the daemon is gone.   *)
(***************************************************************************)
NotSent(c, op, data) ==
    /\ reply' = Answer(c, op, data, FALSE, NoOut)
    /\ UNCHANGED <<ctx, held, next, closed>>

SendRequest(c, op, arg) ==
    /\ ~Crashed
    /\ \E r \in Execute(ctx[c].kind, ctx[c].h, op, arg) :
          /\ ctx' = [ctx EXCEPT ![c].h = r.h]
          /\ reply' \in {Answer(c, op, arg.data, r.ok, r.out),
                        Answer(c, op, arg.data, FALSE, NoOut)}
    /\ UNCHANGED <<held, next, closed>>

Call(o, kinds, op, args) ==
    LET c == held[o] IN
    /\ c # 0
    /\ ctx[c].kind \in kinds
    /\ \E arg \in args : NotSent(c, op, arg.data) \/ SendRequest(c, op, arg)

\* Payload for an Update, while the stream is within the bound.
Pieces(o) == IF held[o] # 0 /\ Len(ctx[held[o]].h.fed) < MaxFed
             THEN {<<d>> : d \in Chunks} ELSE {}

(***************************************************************************)
(* CryptoContextImpl: the Create*Context factories.  ValidateOperationKey  *)
(* refuses a missing key on the client's side.  A context whose reply is   *)
(* lost stays in the daemon.                                               *)
(***************************************************************************)
CreateDaemonContext(o, k, pre, key) ==
    /\ ~Crashed
    /\ held[o] = 0
    /\ next <= MaxContexts
    /\ k \in KindsOf[next]
    /\ \E r \in CreateHandler(k, pre, key), delivered \in BOOLEAN :
          /\ next' = IF r.ok THEN next + 1 ELSE next
          /\ ctx' = IF r.ok THEN [ctx EXCEPT ![next] = [kind |-> k, h |-> r.h]] ELSE ctx
          /\ held' = IF r.ok /\ delivered THEN [held EXCEPT ![o] = next] ELSE held
          /\ reply' = Answer(next, "CREATE", <<>>, r.ok /\ delivered, NoOut)
    /\ UNCHANGED closed

CreateHashContext(o) == CreateDaemonContext(o, "hash", FALSE, "none")
CreateRandomContext(o) == CreateDaemonContext(o, "random", FALSE, "none")

ValidateOperationKey == {"wrong", "fits"}

CreateMacContext(o) ==
    \E key \in ValidateOperationKey : CreateDaemonContext(o, "mac", FALSE, key)
CreateCipherContext(o) ==
    \E key \in ValidateOperationKey : CreateDaemonContext(o, "cipher", FALSE, key)
CreateSignContext(o) ==
    \E key \in ValidateOperationKey, k \in SignKinds, pre \in BOOLEAN :
        CreateDaemonContext(o, k, pre, key)
CreateVerifySignatureContext(o) ==
    \E key \in ValidateOperationKey, k \in VerifyKinds, pre \in BOOLEAN :
        CreateDaemonContext(o, k, pre, key)

(***************************************************************************)
(* Methods.                                                                *)
(***************************************************************************)
MacInit(o) == Call(o, {"mac"}, "INIT", {NoArg})
MacUpdate(o) == Call(o, {"mac"}, "UPDATE", {Arg(d, TRUE) : d \in Pieces(o)})
MacFinalize(o) == Call(o, {"mac"}, "FINALIZE", {Arg(<<>>, f) : f \in BOOLEAN})
MacVerify(o) == Call(o, {"mac"}, "VERIFY", {Arg(<<>>, f) : f \in BOOLEAN})
MacReset(o) == Call(o, {"mac"}, "RESET", {NoArg})
MacGetMacSize(o) == Call(o, {"mac"}, "SIZE", {NoArg})

HashInit(o) == Call(o, {"hash"}, "INIT", {NoArg})
HashUpdate(o) == Call(o, {"hash"}, "UPDATE", {Arg(d, TRUE) : d \in Pieces(o)})
HashFinalize(o) == Call(o, {"hash"}, "FINALIZE", {Arg(<<>>, f) : f \in BOOLEAN})
HashSingleShot(o) == Call(o, {"hash"}, "SS", {Arg(m, f) : m \in Messages, f \in BOOLEAN})
HashContextReset(o) == Call(o, {"hash"}, "RESET", {NoArg})
HashGetDigestSize(o) == Call(o, {"hash"}, "SIZE", {NoArg})

CipherInit(o) == Call(o, {"cipher"}, "INIT", {Arg(<<>>, f) : f \in BOOLEAN})
CipherUpdate(o) == Call(o, {"cipher"}, "UPDATE", {Arg(d, f) : d \in Pieces(o), f \in BOOLEAN})
CipherFinalize(o) == Call(o, {"cipher"}, "FINALIZE", {Arg(<<>>, f) : f \in BOOLEAN})
CipherSingleShot(o) == Call(o, {"cipher"}, "SS", {Arg(m, f) : m \in Messages, f \in BOOLEAN})
CipherContextReset(o) == Call(o, {"cipher"}, "RESET", {NoArg})
CipherGetMaximumOutputSize(o) == Call(o, {"cipher"}, "SIZE", {Arg(<<>>, f) : f \in BOOLEAN})

SignInit(o) == Call(o, SignKinds, "INIT", {NoArg})
SignUpdate(o) == Call(o, SignKinds, "UPDATE", {Arg(d, TRUE) : d \in Pieces(o)})
SignFinalize(o) == Call(o, SignKinds, "FINALIZE", {Arg(<<>>, f) : f \in BOOLEAN})
SignSingleShot(o) == Call(o, SignKinds, "SS", {Arg(m, f) : m \in Messages, f \in BOOLEAN})
SignContextReset(o) == Call(o, SignKinds, "RESET", {NoArg})
SignGetSignatureSize(o) == Call(o, SignKinds, "SIZE", {NoArg})

VerifyInit(o) == Call(o, VerifyKinds, "INIT", {NoArg})
VerifyUpdate(o) == Call(o, VerifyKinds, "UPDATE", {Arg(d, TRUE) : d \in Pieces(o)})
VerifyFinalize(o) == Call(o, VerifyKinds, "FINALIZE", {Arg(<<>>, f) : f \in BOOLEAN})
VerifySingleShot(o) == Call(o, VerifyKinds, "SS", {Arg(m, f) : m \in Messages, f \in BOOLEAN})
VerifyContextReset(o) == Call(o, VerifyKinds, "RESET", {NoArg})

RandomGenerate(o) == Call(o, {"random"}, "GENERATE", {Arg(<<>>, f) : f \in BOOLEAN})
RandomSeed(o) == Call(o, {"random"}, "SEED", {NoArg})

(***************************************************************************)
(* Ownership: a destructor or a move assignment closes the object's own    *)
(* context, and a move leaves 0 behind.                                    *)
(***************************************************************************)
CloseContext(c) ==
    \/ UNCHANGED <<ctx, closed>>
    \/ /\ c # 0 /\ ~Crashed
       /\ ctx' = [ctx EXCEPT ![c] = Closed]
       /\ closed' = [closed EXCEPT ![c] = @ + 1]

Exchanged_Copied(h, o, p) == [h EXCEPT ![o] = h[p]]

Exchanged(h, o, p) == [h EXCEPT ![o] = h[p], ![p] = 0]

MoveConstruct(o, p) ==
    /\ held[o] = 0 /\ held[p] # 0
    /\ held' = Exchanged(held, o, p)
    /\ UNCHANGED <<ctx, next, closed, reply>>

MoveAssign(o, p) ==
    /\ o # p /\ held[o] # 0
    /\ CloseContext(held[o])
    /\ held' = Exchanged(held, o, p)
    /\ reply' = Answer(held[o], "CLOSE", <<>>, FALSE, NoOut)
    /\ UNCHANGED next

Destroy(o) ==
    /\ held[o] # 0
    /\ CloseContext(held[o])
    /\ held' = [held EXCEPT ![o] = 0]
    /\ reply' = Answer(held[o], "CLOSE", <<>>, FALSE, NoOut)
    /\ UNCHANGED next

Init == /\ ctx = [c \in Ids |-> Closed]
        /\ held = [o \in Objects |-> 0]
        /\ next = 1
        /\ closed = [c \in Ids |-> 0]
        /\ reply = Answer(0, "NONE", <<>>, FALSE, NoOut)

Create(o) == \/ CreateHashContext(o) \/ CreateMacContext(o) \/ CreateCipherContext(o)
             \/ CreateSignContext(o) \/ CreateVerifySignatureContext(o)
             \/ CreateRandomContext(o)

MacMethod(o) == \/ MacInit(o) \/ MacUpdate(o) \/ MacFinalize(o) \/ MacVerify(o)
                \/ MacReset(o) \/ MacGetMacSize(o)
HashMethod(o) == \/ HashInit(o) \/ HashUpdate(o) \/ HashFinalize(o) \/ HashSingleShot(o)
                 \/ HashContextReset(o) \/ HashGetDigestSize(o)
CipherMethod(o) == \/ CipherInit(o) \/ CipherUpdate(o) \/ CipherFinalize(o)
                   \/ CipherSingleShot(o) \/ CipherContextReset(o)
                   \/ CipherGetMaximumOutputSize(o)
SignMethod(o) == \/ SignInit(o) \/ SignUpdate(o) \/ SignFinalize(o) \/ SignSingleShot(o)
                 \/ SignContextReset(o) \/ SignGetSignatureSize(o)
VerifyMethod(o) == \/ VerifyInit(o) \/ VerifyUpdate(o) \/ VerifyFinalize(o)
                   \/ VerifySingleShot(o) \/ VerifyContextReset(o)
RandomMethod(o) == RandomGenerate(o) \/ RandomSeed(o)

Next == \/ \E o \in Objects : \/ Create(o) \/ MacMethod(o) \/ HashMethod(o)
                              \/ CipherMethod(o) \/ SignMethod(o) \/ VerifyMethod(o)
                              \/ RandomMethod(o) \/ Destroy(o)
        \/ \E o, p \in Objects : MoveConstruct(o, p) \/ MoveAssign(o, p)

Spec == Init /\ [][Next]_vars

(***************************************************************************)
(* The first context as an abstract stream.  The data is in the EVP        *)
(* context, or in the collected digest; an ECDSA handler without a context *)
(* refuses to touch its digest, an RSA-PSS handler does not look.          *)
(***************************************************************************)
AccOf(k, h) ==
    CASE h.st = IDLE -> None
      [] h.st # IDLE /\ h.pre -> IF h.ctx = "null" /\ k \in {"ecdsa_sign", "ecdsa_verify"}
                                THEN None ELSE h.buf
      [] h.st # IDLE /\ ~h.pre -> CASE h.ctx = "ready" -> h.fed
                                    [] h.ctx = "loose" -> Unspecified
                                    [] OTHER -> None

acc1 == IF Live(1) THEN AccOf(ctx[1].kind, ctx[1].h) ELSE None
reply1 == IF reply.id = 1 THEN [op |-> reply.op, in |-> reply.in, ok |-> reply.ok, out |-> reply.out]
                          ELSE [op |-> "NONE", in |-> <<>>, ok |-> FALSE, out |-> NoOut]

Stream == INSTANCE AbstractStream WITH acc <- acc1, reply <- reply1

\* Every context is a stream: whatever EVP calls fail, buffers are too small
\* and replies are lost, a result reported to the client is the result of
\* exactly the chunks the daemon accepted since the last successful Init,
\* and a single-shot never interrupts a stream that has taken data
\* (executors, handlers and Update/Finalize/SingleShot of the client).
StreamRefinement == Stream!Spec

\* The outcomes of Init, Update(m), Finalize on a handler.
Stretch(k, h, m) ==
    Then(Execute(k, h, "INIT", NoArg), LAMBDA g :
    Then(Execute(k, g, "UPDATE", Arg(m, TRUE)), LAMBDA f :
         Execute(k, f, "FINALIZE", NoArg)))

HasResult(S, m) ==
    /\ \E o \in S : o.ok
    /\ \A o \in S : o.ok => o.out = m

Streaming == {"mac", "hash", "cipher", "ecdsa_sign", "rsa_sign", "ecdsa_verify", "rsa_verify"}

\* No history of failures wedges a context that still has its key: a Reset
\* that succeeds, and an Init wherever the EVP context is still there, make
\* it a stream again, whose result is that of the new data only (Reset and
\* Init of the handlers; i_streaming_context.hpp asks this of both).
AlwaysRecoverable ==
    \A c \in Ids : Live(c) =>
        LET k == ctx[c].kind h == ctx[c].h IN
        k \in Streaming /\ (k = "hash" \/ h.key = "fits") /\ h.ctx # "crashed" =>
            \E m \in [1 .. DigestLen -> Chunks] :
                /\ HasResult(Then(Execute(k, h, "RESET", NoArg),
                                   LAMBDA g : Stretch(k, g, m)), m)
                /\ h.ctx # "null" => HasResult(Stretch(k, h, m), m)

\* A daemon context is held by at most one client object, an object never
\* holds a closed one, and no context is closed twice (move constructor,
\* move assignment and destructor of the context classes).
OneOwner ==
    /\ \A o, p \in Objects : o # p /\ held[o] = held[p] => held[o] = 0
    /\ \A o \in Objects : held[o] # 0 => Live(held[o])
    /\ \A c \in Ids : closed[c] <= 1
=============================================================================
