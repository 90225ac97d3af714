--------------------------- MODULE StreamExecutors ---------------------------
(***************************************************************************)
(* The operation executors, one per kind of context, over the handlers.    *)
(* An executor checks the operation against the stream state, calls the    *)
(* handler and then moves the stream state.  arg is the request: the       *)
(* payload, and whether the other buffer (output, tag, signature, IV) has  *)
(* the size the handler asks for.                                          *)
(***************************************************************************)
EXTENDS OpenSslHandlers

SetState(o, st) == IF o.ok THEN [o EXCEPT !.h.st = st] ELSE o

(***************************************************************************)
(* handler_utils::ValidateStreamOperationSequence: the stream state an     *)
(* operation leads to, as a set that is empty when it is out of sequence.  *)
(***************************************************************************)
ValidateStreamOperationSequence(st, op, finalizeWithoutUpdate) ==
    CASE op = "INIT" -> {INITIALIZED}
      [] op = "UPDATE" -> {ACTIVE : s \in {st} \ {IDLE}}
      [] op = "FINALIZE" -> {IDLE : s \in {st} \cap ({ACTIVE} \cup
                                 IF finalizeWithoutUpdate THEN {INITIALIZED} ELSE {})}

\* Each executor's ValidateStreamTransition: only hashes and signatures may
\* be finalized before an update.
MacTransition(h, op) == ValidateStreamOperationSequence(h.st, op, FALSE)
CipherTransition(h, op) == ValidateStreamOperationSequence(h.st, op, FALSE)
HashTransition(h, op) == ValidateStreamOperationSequence(h.st, op, TRUE)
SignTransition(h, op) == ValidateStreamOperationSequence(h.st, op, TRUE)
VerifyTransition(h, op) == ValidateStreamOperationSequence(h.st, op, TRUE)

\* Call the handler and on success enter the next stream state, if there is one.
Streamed(h, next, S) ==
    IF next = {} THEN {Fail(h)} ELSE {SetState(o, n) : o \in S, n \in next}

\* A single-shot that ends the stream whatever its outcome.
EndsStream_Interrupts(h, S) == Either(S, Idle)

EndsStream(h, S) == Refuse(h.st = ACTIVE, h, Either(S, Idle))

(***************************************************************************)
(* The executors.                                                          *)
(***************************************************************************)
\* The sizes are those of the algorithm, whatever the state of the stream.
MacSize(h) == {Ok(h)}
DigestSize(h) == {Ok(h)}

\* Here fits says that the size of the input and a block more is a size.
ExecuteGetMaxOutputSize(h, arg) == GetMaxOutputSize(h, arg.fits)

MacExecuteVerify(h, arg) == Refuse(h.st = IDLE, h, OnOk(HmacVerifyMac(h, arg.fits), Idle))

\* ExecuteInit, ExecuteUpdate and ExecuteFinalize, without final data.
MacExecuteStreaming(h, op, arg) ==
    Streamed(h, MacTransition(h, op),
             CASE op = "INIT" -> HmacInitMac(h)
               [] op = "UPDATE" -> HmacUpdateMac(h, arg.data)
               [] op = "FINALIZE" -> HmacFinalizeMac(h, <<>>, arg.fits))

MacExecute(h, op, arg) ==
    CASE op = "SIZE" -> MacSize(h)
      [] op = "RESET" -> HmacReset(h)
      [] op = "VERIFY" -> MacExecuteVerify(h, arg)
      [] OTHER -> MacExecuteStreaming(h, op, arg)

HashExecuteSingleShot(h, arg) ==
    Refuse(h.st # IDLE, h, HashSingleShotHash(h, arg.data, arg.fits))

HashExecuteStreaming(h, op, arg) ==
    Streamed(h, HashTransition(h, op),
             CASE op = "INIT" -> HashInitHash(h)
               [] op = "UPDATE" -> HashUpdateHash(h, arg.data)
               [] op = "FINALIZE" -> HashFinalizeHash(h, arg.fits))

HashExecute(h, op, arg) ==
    CASE op = "SIZE" -> DigestSize(h)
      [] op = "RESET" -> HashReset(h)
      [] op = "SS" -> HashExecuteSingleShot(h, arg)
      [] OTHER -> HashExecuteStreaming(h, op, arg)

\* The initialization vector, the input and the output buffer.
CipherExecuteSingleShot(h, arg) == EndsStream(h, CipherSingleShotCipher(h, arg.data, arg.fits))

CipherExecuteStreaming(h, op, arg) ==
    Streamed(h, CipherTransition(h, op),
             CASE op = "INIT" -> CipherInitCipher(h, arg.fits)
               [] op = "UPDATE" -> CipherUpdateCipher(h, arg.data, arg.fits)
               [] op = "FINALIZE" -> CipherFinalizeCipher(h, arg.fits))

CipherExecute(h, op, arg) ==
    CASE op = "SIZE" -> ExecuteGetMaxOutputSize(h, arg)
      [] op = "RESET" -> CipherReset(h)
      [] op = "SS" -> CipherExecuteSingleShot(h, arg)
      [] OTHER -> CipherExecuteStreaming(h, op, arg)

\* The virtual methods of a signature handler; the base class refuses the
\* streaming ones a handler does not override.
SignReset(k, h) ==
    CASE k = "ecdsa_sign" -> EcdsaSignReset(h)
      [] k = "rsa_sign" -> RsaPssSignReset(h)
      [] k = "ed25519_sign" -> Ed25519SignReset(h)
      [] k = "mldsa_sign" -> {Ok(Idle(h))}

InitSign(k, h) == CASE k = "ecdsa_sign" -> EcdsaInitSign(h)
                    [] k = "rsa_sign" -> RsaPssInitSign(h)
                    [] k = "ed25519_sign" -> Ed25519StreamedSign(h)
                    [] OTHER -> {Fail(h)}

UpdateSign(k, h, d) == CASE k = "ecdsa_sign" -> EcdsaUpdateSign(h, d)
                         [] k = "rsa_sign" -> RsaPssUpdateSign(h, d)
                         [] k = "ed25519_sign" -> Ed25519StreamedSign(h)
                         [] OTHER -> {Fail(h)}

FinalizeSign(k, h, fits) == CASE k = "ecdsa_sign" -> EcdsaFinalizeSign(h, fits)
                              [] k = "rsa_sign" -> RsaPssFinalizeSign(h, fits)
                              [] k = "ed25519_sign" -> Ed25519StreamedSign(h)
                              [] OTHER -> {Fail(h)}

SingleShotSign(k, h, m, fits) ==
    CASE k = "ecdsa_sign" -> EcdsaSingleShotSign(h, m, fits)
      [] k = "rsa_sign" -> RsaPssSingleShotSign(h, m, fits)
      [] k = "ed25519_sign" -> Ed25519SingleShotSign(h, m, fits)
      [] k = "mldsa_sign" -> PrimulaSingleShotSign(h, m, fits)

SignExecuteStreaming(k, h, op, arg) ==
    Streamed(h, SignTransition(h, op),
             CASE op = "INIT" -> InitSign(k, h)
               [] op = "UPDATE" -> UpdateSign(k, h, arg.data)
               [] op = "FINALIZE" -> FinalizeSign(k, h, arg.fits))

SignExecute(k, h, op, arg) ==
    CASE op = "SIZE" -> {Ok(h)}
      [] op = "RESET" -> SignReset(k, h)
      [] op = "SS" -> EndsStream(h, SingleShotSign(k, h, arg.data, arg.fits))
      [] OTHER -> SignExecuteStreaming(k, h, op, arg)

VerifyReset(k, h) ==
    CASE k = "ecdsa_verify" -> EcdsaVerifyReset(h)
      [] k = "rsa_verify" -> RsaPssVerifyReset(h)
      [] k = "ed25519_verify" -> Ed25519VerifyReset(h)
      [] k = "mldsa_verify" -> {Ok(Idle(h))}

InitVerify(k, h) == CASE k = "ecdsa_verify" -> EcdsaInitVerify(h)
                      [] k = "rsa_verify" -> RsaPssInitVerify(h)
                      [] k = "ed25519_verify" -> Ed25519StreamedVerify(h)
                      [] OTHER -> {Fail(h)}

UpdateVerify(k, h, d) == CASE k = "ecdsa_verify" -> EcdsaUpdateVerify(h, d)
                           [] k = "rsa_verify" -> RsaPssUpdateVerify(h, d)
                           [] k = "ed25519_verify" -> Ed25519StreamedVerify(h)
                           [] OTHER -> {Fail(h)}

FinalizeVerify(k, h, fits) == CASE k = "ecdsa_verify" -> EcdsaFinalizeVerify(h, fits)
                                [] k = "rsa_verify" -> RsaPssFinalizeVerify(h, fits)
                                [] k = "ed25519_verify" -> Ed25519StreamedVerify(h)
                                [] OTHER -> {Fail(h)}

SingleShotVerify(k, h, m, fits) ==
    CASE k = "ecdsa_verify" -> EcdsaSingleShotVerify(h, m, fits)
      [] k = "rsa_verify" -> RsaPssSingleShotVerify(h, m, fits)
      [] k = "ed25519_verify" -> Ed25519SingleShotVerify(h, m, fits)
      [] k = "mldsa_verify" -> PrimulaSingleShotVerify(h, m, fits)

VerifyExecuteStreaming(k, h, op, arg) ==
    Streamed(h, VerifyTransition(h, op),
             CASE op = "INIT" -> InitVerify(k, h)
               [] op = "UPDATE" -> UpdateVerify(k, h, arg.data)
               [] op = "FINALIZE" -> FinalizeVerify(k, h, arg.fits))

VerifyExecute(k, h, op, arg) ==
    CASE op = "RESET" -> VerifyReset(k, h)
      [] op = "SS" -> EndsStream(h, SingleShotVerify(k, h, arg.data, arg.fits))
      [] OTHER -> VerifyExecuteStreaming(k, h, op, arg)

\* RAND_bytes may fail, in which case the buffer is wiped; seeding is refused.
GenerateRandom(h) == {Ok(h), Fail(h)}
SeedRandom(h) == {Fail(h)}

RandomExecute(h, op, arg) ==
    CASE op = "GENERATE" -> Refuse(~arg.fits, h, GenerateRandom(h))
      [] op = "SEED" -> SeedRandom(h)

(***************************************************************************)
(* The handler factories: InitializeContext of a new handler.              *)
(***************************************************************************)
NewHandler(pre, key) ==
    [st |-> IDLE, ctx |-> "null", fed |-> <<>>, buf |-> <<>>, pre |-> pre, key |-> key]

SignKinds == {"ecdsa_sign", "rsa_sign", "ed25519_sign", "mldsa_sign"}
VerifyKinds == {"ecdsa_verify", "rsa_verify", "ed25519_verify", "mldsa_verify"}

CreateSignHandler(k, h) ==
    CASE k = "ecdsa_sign" -> EcdsaSignInitializeContext(h)
      [] k = "rsa_sign" -> RsaPssSignInitializeContext(h)
      [] k = "ed25519_sign" -> Ed25519SignInitializeContext(h)
      [] k = "mldsa_sign" -> PrimulaSignInitializeContext(h)

CreateVerifyHandler(k, h) ==
    CASE k = "ecdsa_verify" -> EcdsaVerifyInitializeContext(h)
      [] k = "rsa_verify" -> RsaPssVerifyInitializeContext(h)
      [] k = "ed25519_verify" -> Ed25519VerifyInitializeContext(h)
      [] k = "mldsa_verify" -> PrimulaVerifyInitializeContext(h)

CreateHandler(k, pre, key) ==
    LET h == NewHandler(pre, key) IN
    CASE k = "mac" -> HmacInitializeContext(h)
      [] k = "hash" -> HashInitializeContext(h)
      [] k = "cipher" -> CipherInitializeContext(h)
      [] k = "random" -> {Ok(h)}
      [] k \in SignKinds -> CreateSignHandler(k, h)
      [] k \in VerifyKinds -> CreateVerifyHandler(k, h)

Execute(k, h, op, arg) ==
    CASE k = "mac" -> MacExecute(h, op, arg)
      [] k = "hash" -> HashExecute(h, op, arg)
      [] k = "cipher" -> CipherExecute(h, op, arg)
      [] k = "random" -> RandomExecute(h, op, arg)
      [] k \in SignKinds -> SignExecute(k, h, op, arg)
      [] k \in VerifyKinds -> VerifyExecute(k, h, op, arg)
=============================================================================
