--------------------------- MODULE OpenSslHandlers ---------------------------
(***************************************************************************)
(* The stream handlers of the OpenSSL provider, and the two post-quantum   *)
(* signature handlers of the IAV Primula provider, as operators: a method  *)
(* of a handler maps the handler's state to the set of its possible        *)
(* outcomes.  A handler is a record                                        *)
(*   st    m_state, the stream state the executors read and write,         *)
(*   ctx   the EVP context: "null", "raw" (allocated, not initialised),    *)
(*         "ready", "loose" (a signature context whose padding could not   *)
(*         be configured) or "bad" (a failed EVP call left it unusable),   *)
(*   fed   the chunks the EVP context has absorbed since it was readied,   *)
(*   buf   m_prehashed_data / m_buffer, the digest collected so far,       *)
(*   pre   m_prehashed, the input mode of a signature context,             *)
(*   key   the key in m_init_params: "none", "wrong" (another provider,    *)
(*         type, size or curve) or "fits".                                 *)
(* Payloads are sequences of chunks; a result is the sequence it was       *)
(* computed over.  Sizes are abstracted to whether the buffer or tag given *)
(* has the size the handler asks for ("fits").                             *)
(***************************************************************************)
EXTENDS Naturals, Sequences

CONSTANTS DigestLen,    \* chunks in a digest of the context's hash algorithm
          NoOut         \* the result of an operation that produces none

ASSUME DigestLenAssumption == DigestLen \in Nat \ {0}

IDLE == "IDLE"
INITIALIZED == "STREAM_INITIALIZED"
ACTIVE == "STREAM_ACTIVE"

(***************************************************************************)
(* Outcomes and how they combine.                                          *)
(***************************************************************************)
Fail(h) == [ok |-> FALSE, h |-> h, out |-> NoOut]
Ok(h) == [ok |-> TRUE, h |-> h, out |-> NoOut]
Gives(h, m) == [ok |-> TRUE, h |-> h, out |-> m]

Then(S, F(_)) == UNION {IF o.ok THEN F(o.h) ELSE {o} : o \in S}
OnOk(S, F(_)) == {IF o.ok THEN [o EXCEPT !.h = F(@)] ELSE o : o \in S}
OnFail(S, F(_)) == {IF o.ok THEN o ELSE [o EXCEPT !.h = F(@)] : o \in S}
Either(S, F(_)) == {[o EXCEPT !.h = F(@)] : o \in S}
Refuse(cond, h, S) == IF cond THEN {Fail(h)} ELSE S

Idle(h) == [h EXCEPT !.st = IDLE]
Cleared(h) == [h EXCEPT !.buf = <<>>]
Freed(h) == [h EXCEPT !.ctx = "null", !.fed = <<>>]
Unbound(h) == [h EXCEPT !.key = "none"]

(***************************************************************************)
(* The EVP calls, as the handlers use them.  Any of them may fail.  A      *)
(* failed call leaves the context as it was or unusable until the next     *)
(* initialisation; a finished context may still hold what it absorbed.     *)
(***************************************************************************)
EvpNew(h) == {Ok([h EXCEPT !.ctx = "raw", !.fed = <<>>]), Fail(Freed(h))}

EvpInit(h) == {Ok([h EXCEPT !.ctx = "ready", !.fed = <<>>]),
               Fail(h), Fail([h EXCEPT !.ctx = "bad"])}

EvpUpdate(h, d) ==
    IF h.ctx \in {"ready", "loose"}
    THEN {Ok([h EXCEPT !.fed = @ \o d]), Fail(h), Fail([h EXCEPT !.ctx = "bad"])}
    ELSE {Fail(h)}

EvpFinal(h) ==
    IF h.ctx \in {"ready", "loose"}
    THEN {Gives(h, h.fed), Gives([h EXCEPT !.ctx = "bad"], h.fed),
          Fail([h EXCEPT !.ctx = "bad"])}
    ELSE {Fail(h)}

\* A one-call EVP operation over a whole message, or one that takes the
\* message from the handler rather than from the context.
EvpWhole(h, m) == {Gives(h, m), Fail(h)}

(***************************************************************************)
(* HMAC.                                                                   *)
(***************************************************************************)
HmacCleanupContext(h) == Freed(h)

\* A context without a key is accepted, and stays idle.
HmacInitializeContext(h) ==
    Then(EvpNew(HmacCleanupContext(Idle(h))),
         LAMBDA g : {CASE g.key = "none"  -> Ok(g)
                       [] g.key = "wrong" -> Fail(g)
                       [] g.key = "fits"  -> Ok([g EXCEPT !.st = INITIALIZED])})

HmacReset(h) == HmacInitializeContext(h)

HmacInitMac_Once(h) ==
    Refuse(h.ctx = "null" \/ h.key = "none" \/ h.st = IDLE, h, EvpInit(h))

HmacInitMac(h) == Refuse(h.ctx = "null" \/ h.key = "none", h, EvpInit(h))

HmacUpdateMac(h, d) == Refuse(h.ctx = "null" \/ h.st = IDLE, h, EvpUpdate(h, d))

HmacFinalizeMacInternal(h, fits) ==
    Refuse(h.ctx = "null" \/ ~fits, h, OnOk(EvpFinal(h), Idle))

HmacFinalizeMac(h, finalDataToMac, fits) ==
    Then(IF finalDataToMac = <<>> THEN {Ok(h)} ELSE HmacUpdateMac(h, finalDataToMac),
         LAMBDA g : HmacFinalizeMacInternal(g, fits))

HmacVerifyMac(h, fits) == Refuse(~fits, h, HmacFinalizeMacInternal(h, TRUE))

(***************************************************************************)
(* Hash.  Every failure of an EVP call on the stream frees the context.    *)
(***************************************************************************)
CleanupStreamContext(h) == Freed(h)

HashInitializeContext(h) == {Ok(Idle(h))}

HashReset(h) == {Ok(Idle(CleanupStreamContext(h)))}

HashInitHash(h) ==
    Then(IF h.ctx = "null" THEN EvpNew(h) ELSE {Ok(h)},
         LAMBDA g : OnFail(EvpInit(g), LAMBDA f : Idle(CleanupStreamContext(f))))

HashUpdateHash(h, d) ==
    Refuse(h.ctx = "null", h,
           OnFail(EvpUpdate(h, d), LAMBDA f : Idle(CleanupStreamContext(f))))

\* An undersized buffer leaves the stream open for another Finalize.
HashFinalizeHash(h, fits) ==
    Refuse(h.ctx = "null" \/ ~fits, h,
           OnOk(OnFail(EvpFinal(h), LAMBDA f : Idle(CleanupStreamContext(f))),
                CleanupStreamContext))

HashSingleShotHash(h, m, fits) == Refuse(~fits, h, EvpWhole(h, m))

(***************************************************************************)
(* Cipher.                                                                 *)
(***************************************************************************)
CipherCleanupContext(h) == Freed(h)

\* Direction and padding are those the context was created with.
ScoreCipherInitializeContext(h) == Idle(h)

\* Refused when the size would overflow.
GetMaxOutputSize(h, fits) == Refuse(~fits, h, {Ok(h)})

CipherInitializeContext(h) ==
    Then(EvpNew(CipherCleanupContext(ScoreCipherInitializeContext(h))),
         LAMBDA g : IF g.key = "fits" THEN {Ok(Idle(g))} ELSE {Fail(Unbound(g))})

CipherReset(h) == CipherInitializeContext(h)

\* EVP is initialised before its padding is set: when that second call
\* fails, the context is a fresh stream though InitCipher reports an error.
CipherInitCipher(h, fits) ==
    Refuse(h.ctx = "null" \/ h.key = "none" \/ ~fits, h,
           Then(EvpInit(h), LAMBDA g : {Ok(g), Fail(g)}))

CipherUpdateCipher(h, d, fits) == Refuse(h.ctx = "null" \/ ~fits, h, EvpUpdate(h, d))

\* A last block that does not fit ends the stream like a padding error does.
CipherFinalizeCipher(h, fits) ==
    Refuse(h.ctx = "null", h,
           Either(IF fits THEN EvpFinal(h) ELSE {Fail(o.h) : o \in EvpFinal(h)}, Idle))

CipherSingleShotCipher(h, m, fits) ==
    Then(CipherInitCipher(h, TRUE), LAMBDA g :
    Then(CipherUpdateCipher(g, m, fits), LAMBDA f : CipherFinalizeCipher(f, fits)))

-----------------------------------------------------------------------------
(* The signature handlers: ECDSA, RSA-PSS and Ed25519 of the OpenSSL       *)
(* provider, which share the Stream helper of signature_common, and the    *)
(* ML-DSA handlers of the IAV Primula provider.  In prehashed mode the     *)
(* client streams the digest itself, which the handler collects in buf.    *)

\* What an EVP call does with a null context it does not check for: the
\* daemon crashes.
Crash(h) == [ok |-> FALSE, h |-> [h EXCEPT !.ctx = "crashed"], out |-> NoOut]

(***************************************************************************)
(* signature_common: the EVP context and the bound key of a signature      *)
(* handler.  A Bind that fails forgets the key.                            *)
(***************************************************************************)
StreamFree(h) == Freed(h)

StreamBind(h) ==
    IF h.key # "fits" THEN {Fail(Unbound(StreamFree(h)))}
                      ELSE OnFail(EvpNew(StreamFree(h)), Unbound)

StreamRestart(h) == EvpNew(StreamFree(h))

StreamKeyIsNull(h) == h.key = "none"

\* ConfigureRsaPssContext: on failure EVP keeps its default padding.
ConfigureRsaPssContext(h) == {Ok(h), Fail([h EXCEPT !.ctx = "loose"])}

\* Appending to the collected digest; more than a digest is refused.
Collect(h, d) ==
    Refuse(Len(h.buf) + Len(d) > DigestLen, h, {Ok([h EXCEPT !.buf = @ \o d])})

Complete(h) == Len(h.buf) = DigestLen

(***************************************************************************)
(* ECDSA.                                                                  *)
(***************************************************************************)
EcdsaSignInitializeContext(h) == OnOk(StreamBind(Idle(h)), LAMBDA g : Idle(Cleared(g)))

EcdsaSignReset(h) == EcdsaSignInitializeContext(h)

EcdsaInitSign(h) ==
    Refuse(StreamKeyIsNull(h), h,
           Then(StreamRestart(h),
                LAMBDA g : IF g.pre THEN {Ok(Cleared(g))} ELSE EvpInit(g)))

EcdsaUpdateSign(h, d) ==
    Refuse(h.ctx = "null", h, IF h.pre THEN Collect(h, d) ELSE EvpUpdate(h, d))

\* The fixed-length form of a signature that EVP made; it may fail, and the
\* signature is lost.
DerToP1363(o) == {o, Fail(o.h)}

EmitP1363(S) == UNION {DerToP1363(o) : o \in S}

\* A failed EVP_PKEY_sign keeps the digest collected, a wrong length drops it.
EcdsaFinalizeSign(h, fits) ==
    Refuse(h.ctx = "null" \/ ~fits, h,
           EmitP1363(Either(IF h.pre
                            THEN IF Complete(h) THEN OnOk(EvpWhole(h, h.buf), Cleared)
                                                ELSE {Fail(Cleared(h))}
                            ELSE EvpFinal(h), Idle)))

EcdsaSingleShotSign(h, m, fits) ==
    Refuse(~fits, h,
           Then(EcdsaInitSign(h), LAMBDA g :
                CASE ~g.pre -> EmitP1363(EvpWhole(g, m))
                  [] g.pre /\ Len(m) # DigestLen -> {Fail(Idle(g))}
                  [] g.pre /\ Len(m) = DigestLen ->
                         EcdsaFinalizeSign([g EXCEPT !.buf = m], fits)))

\* The verify handler repeats the sign handler up to its finalisers.
EcdsaVerifyInitializeContext(h) == EcdsaSignInitializeContext(h)

EcdsaVerifyReset(h) == EcdsaVerifyInitializeContext(h)

EcdsaInitVerify(h) == EcdsaInitSign(h)

EcdsaUpdateVerify(h, d) == EcdsaUpdateSign(h, d)

\* A signature of another length is malformed; one of the right length may
\* still fail to be re-encoded.
P1363ToDer(h, fits) == Refuse(~fits, h, {Ok(h), Fail(h)})

\* Unlike a short output buffer, a malformed signature ends the stream.
EcdsaFinalizeVerify(h, fits) ==
    Refuse(h.ctx = "null", h,
           Either(Then(P1363ToDer(h, fits), LAMBDA g :
                       IF g.pre THEN Either(Refuse(~Complete(g), g, EvpWhole(g, g.buf)), Cleared)
                                ELSE EvpFinal(g)), Idle))

EcdsaSingleShotVerify(h, m, fits) ==
    Then(P1363ToDer(h, fits), LAMBDA f :
    Then(EcdsaInitVerify(f), LAMBDA g :
         CASE ~g.pre -> EvpWhole(g, m)
           [] g.pre /\ Len(m) # DigestLen -> {Fail(Idle(g))}
           [] g.pre /\ Len(m) = DigestLen -> EcdsaFinalizeVerify([g EXCEPT !.buf = m], fits)))

(***************************************************************************)
(* RSA-PSS.  The mode is taken from the parameters before Bind, and the    *)
(* finalisers do not look at the context.                                  *)
(***************************************************************************)
RsaPssSignInitializeContext(h) ==
    OnOk(StreamBind([Idle(h) EXCEPT !.pre = @ /\ h.key # "none"]),
         LAMBDA g : Idle(Cleared(g)))

RsaPssSignReset(h) == RsaPssSignInitializeContext(h)

RsaPssInitializeSignContext(h) ==
    Then(StreamRestart(h), LAMBDA g :
         Refuse(StreamKeyIsNull(g), g,
                IF g.pre THEN {Ok(Cleared(g))}
                ELSE Then(OnOk(EvpInit(g), Cleared), ConfigureRsaPssContext)))

RsaPssInitSign(h) == RsaPssInitializeSignContext(h)

RsaPssUpdateSign(h, d) ==
    Refuse(h.ctx = "null", h, IF h.pre THEN Collect(h, d) ELSE EvpUpdate(h, d))

RsaPssFinalizeSign(h, fits) ==
    Refuse(~fits, h,
           Either(CASE h.pre /\ Complete(h)  -> EvpWhole(h, h.buf)
                    [] h.pre /\ ~Complete(h) -> {Fail(h)}
                    [] ~h.pre -> IF h.ctx = "null" THEN {Crash(h)} ELSE EvpFinal(h),
                  LAMBDA g : Idle(Cleared(g))))

RsaPssSingleShotSign(h, m, fits) ==
    Refuse(~fits, h,
           Then(RsaPssInitializeSignContext(h), LAMBDA g :
                CASE ~g.pre -> Either(EvpWhole(g, m), Idle)
                  [] g.pre /\ Len(m) # DigestLen -> {Fail(Idle(g))}
                  [] g.pre /\ Len(m) = DigestLen ->
                         RsaPssFinalizeSign([g EXCEPT !.buf = m], fits)))

RsaPssVerifyInitializeContext(h) == RsaPssSignInitializeContext(h)

RsaPssVerifyReset(h) == RsaPssVerifyInitializeContext(h)

RsaPssInitializeVerifyContext(h) == RsaPssInitializeSignContext(h)

RsaPssInitVerify(h) == RsaPssInitializeVerifyContext(h)

RsaPssUpdateVerify(h, d) == RsaPssUpdateSign(h, d)

\* A signature of the wrong size (CheckSignature) leaves the stream open.
RsaPssFinalizeVerify(h, fits) == RsaPssFinalizeSign(h, fits)

RsaPssSingleShotVerify(h, m, fits) == RsaPssSingleShotSign(h, m, fits)

(***************************************************************************)
(* Ed25519 and ML-DSA sign and verify whole messages only.                 *)
(***************************************************************************)
Ed25519SignInitializeContext(h) == Refuse(h.pre, Idle(h), OnOk(StreamBind(Idle(h)), Idle))

Ed25519SignReset(h) == Ed25519SignInitializeContext(h)

\* InitSign, UpdateSign and FinalizeSign.
Ed25519StreamedSign(h) == {Fail(h)}

Ed25519SingleShotSign(h, m, fits) ==
    Refuse(~fits, h,
           Then(StreamRestart(h), LAMBDA g :
                Refuse(StreamKeyIsNull(g), g,
                       Then(EvpInit(g), LAMBDA f : Either(EvpWhole(f, m), Idle)))))

Ed25519VerifyInitializeContext(h) == Ed25519SignInitializeContext(h)

Ed25519VerifyReset(h) == Ed25519VerifyInitializeContext(h)

\* InitVerify, UpdateVerify and FinalizeVerify.
Ed25519StreamedVerify(h) == {Fail(h)}

Ed25519SingleShotVerify(h, m, fits) == Ed25519SingleShotSign(h, m, fits)

\* m_key is set here and nowhere else; Reset is the base class's.
PrimulaSignInitializeContext(h) == Refuse(h.key # "fits", Unbound(Idle(h)), {Ok(Idle(h))})

PrimulaSingleShotSign(h, m, fits) == Refuse(h.key = "none" \/ ~fits, h, EvpWhole(h, m))

PrimulaVerifyInitializeContext(h) == Refuse(h.key # "fits", Unbound(Idle(h)), {Ok(Idle(h))})

PrimulaSingleShotVerify(h, m, fits) == Refuse(h.key = "none" \/ ~fits, h, EvpWhole(h, m))
=============================================================================
