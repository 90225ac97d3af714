---------------------------- MODULE KeyRequests ----------------------------
(***************************************************************************)
(* A key-management call on its way: what KeyManagementContextImpl puts    *)
(* into the request, what key_mgmt_request_parser.hpp reads out of it, and *)
(* the checks of KeyManagementExecutor around the key factory.             *)
(*                                                                         *)
(* A request is a sequence of typed parameters: the daemon finds each one  *)
(* by position and type, and an optional one is there or not.  As in       *)
(* KeyMaterial a set holds the value or, empty, stands for an error.       *)
(***************************************************************************)
EXTENDS KeyMaterial

Str(v) == [type |-> "string", value |-> v]
U32(v) == [type |-> "uint32", value |-> v]
U64(v) == [type |-> "uint64", value |-> v]
In(v)  == [type |-> "in", value |-> v]
Out    == [type |-> "out", value |-> 0]

----------------------------------------------------------------------------
(* The client: the parameters are validated, then written in order.        *)

GenerateKeyRequest(g) ==
    <<Str(g.alg), U32(g.perms)>> \o IF g.pub.set THEN <<U32(g.pub.ops)>> ELSE <<>>

ImportKeyRequest(i) ==
    IF i.data.form # "empty" /\ i.perms \subseteq Op
    THEN {<<Str(i.alg), U32(i.perms), U32(i.format), In(i.data)>>} ELSE {}

\* type is the ResourceType of the id that the guard gave the application.
ExportKeyRequest(type, key, format) ==
    IF type = "key" THEN {<<U64(key), U32(format), Out>>} ELSE {}

EncapsulateKeyRequest(type, key, alg) ==
    IF type = "key" THEN {<<Str(alg), U64(key), Out>>} ELSE {}

DecapsulateKeyRequest(type, key, alg) ==
    IF type = "key" THEN {<<Str(alg), U64(key), In("ciphertext")>>} ELSE {}

----------------------------------------------------------------------------
(* The parser; parameter 0 of the code is request[1] here.                 *)

Parameter(type, request, i) ==
    IF i <= Len(request) /\ request[i].type = type THEN {request[i].value} ELSE {}

ExtractAlgorithm(request, i) == {v \in Parameter("string", request, i) : v # ""}

\* Missing, of another type or out of range: not set.
ExtractOptionalPermissions(request, i) ==
    LET found == {v \in Parameter("uint32", request, i) : v \subseteq Op} IN
    IF found = {} THEN Unset ELSE Set(CHOOSE v \in found : TRUE)

ExtractDataBuffer(request, i) == Parameter("in", request, i)

ExtractFormatOrDefault(request, i) ==
    IF Len(request) < i THEN {"der"} ELSE Parameter("uint32", request, i) \cap {"der", "pem", "raw"}

BuildImportRequest(request) ==
    {[alg |-> alg, data |-> data, format |-> format,
      perms |-> ValueOrAll(ExtractOptionalPermissions(request, 2))] :
        alg \in UNION {GetAlgorithmDescriptor(n) : n \in ExtractAlgorithm(request, 1)},
        data \in ExtractDataBuffer(request, 4),
        format \in ExtractFormatOrDefault(request, 3)}

BuildGenerationRequest(request) ==
    {[alg |-> alg, perms |-> ValueOrAll(ExtractOptionalPermissions(request, 2)),
      pub |-> ExtractOptionalPermissions(request, 3)] :
        alg \in UNION {GetAlgorithmDescriptor(n) : n \in ExtractAlgorithm(request, 1)}}

----------------------------------------------------------------------------
(* The executor on a context of provider p.  h is the handle of the key    *)
(* that AcquireKeyForOperation gave, and the result the handle to register *)
(* or the half of the key that goes out.                                   *)

HandleGenerate(p, request) == UNION {GenerateKey(p, g) : g \in BuildGenerationRequest(request)}

\* What RegisterOutput demands of a key before it is registered.
OutputOf(p, hs) == {h \in hs : h.provider = p}

\* Four parameters, the permissions among them, and a key that has exactly those.
HandleImport(p, request) ==
    IF Len(request) # 4 \/ ~ExtractOptionalPermissions(request, 2).set THEN {}
    ELSE UNION {{h \in OutputOf(p, ImportKey(p, i)) :
                    /\ h.alg = i.alg
                    /\ i.perms = IF h.kind = "public" THEN ValueOrAll(h.pub) ELSE h.perms} :
                    i \in BuildImportRequest(request)}

\* AcquireKeyForOperation: the context's provider made the key and it grants the
\* operation.
MayUse(p, h, op, format) == h.provider = p /\ Permitted(h, op, format)

\* The algorithm of the request must be that of the key.
KemAlgorithm(h, request) ==
    {alg \in UNION {GetAlgorithmDescriptor(n) : n \in ExtractAlgorithm(request, 1)} :
        Len(request) = 3 /\ h.alg = alg}

IsKemSecret(h) == h.kind = "shared" /\ h.perms = {"derive"} /\ ~h.asym

HandleEncapsulateKey(p, h, request) ==
    IF ~MayUse(p, h, "agree", "none") \/ h.kind # "public" THEN {}
    ELSE UNION {{s \in OutputOf(p, EncapsulateKey(h, alg)) : IsKemSecret(s)} :
                   alg \in KemAlgorithm(h, request)}

HandleDecapsulateKey(p, h, request) ==
    IF ~MayUse(p, h, "agree", "none") \/ h.kind # "private" THEN {}
    ELSE UNION {{s \in OutputOf(p, DecapsulateKey(h, alg)) : IsKemSecret(s)} :
                   alg \in KemAlgorithm(h, request)}

\* The raw form of anything but an EC key is what the handler exports.
HandleExportKey(p, h, request) ==
    UNION {IF ~MayUse(p, h, "export", format) THEN {}
           ELSE IF format = "raw" /\ h.alg.type # "ecc" THEN HandlerExport(h)
           ELSE FactoryExportKey(h, format) : format \in ExtractFormatOrDefault(request, 2)}

=============================================================================
