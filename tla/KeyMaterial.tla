---------------------------- MODULE KeyMaterial ----------------------------
(***************************************************************************)
(* What a key is and who may do what with it: the permissions              *)
(* (api/types/key.hpp), the rows of the algorithm catalog, the handle of a *)
(* key (daemon/key_management/interfaces/key_types.hpp), and the key       *)
(* factories of the three providers, as functions from requests to handles.*)
(*                                                                         *)
(* A call that may fail gives a set: {h} is success with h, {} an error.   *)
(* Key bytes are left out: of data to import the model keeps the encoding, *)
(* the half and the type that are in it (none: no key, as a point that is  *)
(* not on its curve), and whether its size, modulus or curve is that of    *)
(* the algorithm (fits); of an exported key it keeps whether the bytes are *)
(* the secret or the public half.                                          *)
(***************************************************************************)
EXTENDS Integers, Sequences, TLC

\* KeyOperationPermission: the bits; kNone is {}, kAll is Op.
Op == {"encrypt", "decrypt", "wrap", "unwrap", "sign", "verify", "mac", "agree",
       "derive", "export", "import"}

HasPermission(granted, required) == required \subseteq granted

\* std::optional<KeyOperationPermission>.
Unset == [set |-> FALSE, ops |-> {}]
Set(ops) == [set |-> TRUE, ops |-> ops]
ValueOrAll(p) == IF p.set THEN p.ops ELSE Op

----------------------------------------------------------------------------
(* The algorithm catalog: one row of each kind that the code tells apart.  *)

Row(name, category, type) == [name |-> name, category |-> category, type |-> type]

Catalog == {
    Row("SHA256", "hash", "none"),
    Row("HMAC-SHA256", "mac", "secret"),
    Row("AES-256", "key", "aes"),
    Row("AES-256-CBC", "cipher", "aes"),
    Row("ECDSA-P256", "key", "ecc"),
    Row("ECDSA-P256-SHA256", "signature", "ecc"),
    Row("RSA-2048", "key", "rsa"),
    Row("RSA-PSS-2048-SHA256", "signature", "rsa"),
    Row("Ed25519", "signature", "ed25519"),
    Row("ML-DSA-44", "signature", "mldsa"),
    Row("ML-KEM-512", "key", "mlkem")}

GetAlgorithmDescriptor(name) == {row \in Catalog : row.name = name}

LookupPqcAlgorithm(alg) == alg.type \in {"mldsa", "mlkem"}

\* Does the row label a key, which then has a size?
LookupKeySize(alg) ==
    \/ LookupPqcAlgorithm(alg)
    \/ alg.type # "none" /\ (alg.category = "signature" => alg.type = "ed25519")

----------------------------------------------------------------------------
(* The handle of a key, and the permissions that govern an operation.      *)

Handle(provider, alg, perms, pub, asym, kind) ==
    [provider |-> provider, alg |-> alg, perms |-> perms, pub |-> pub,
     asym |-> asym, kind |-> kind]

PublicHalfOperations == {"verify", "encrypt", "wrap"}

\* The public half's set governs what needs only the public half: the raw
\* export of an EC key gives the public point.
GrantedPermissionsFor(h, required, format) ==
    LET exportsEcPoint == required = {"export"} /\ format = "raw" /\ h.alg.type = "ecc"
    IN IF \/ h.kind = "public"
          \/ h.asym /\ (HasPermission(PublicHalfOperations, required) \/ exportsEcPoint)
       THEN ValueOrAll(h.pub)
       ELSE h.perms

Permitted(h, op, format) ==
    HasPermission(GrantedPermissionsFor(h, {op}, format), {op})

----------------------------------------------------------------------------
(* OpenSslKeyFactory and OpenSslKeyHandler.                                *)

ShapeOf(alg) ==
    CASE alg.type = "ecc" -> "ec"
      [] alg.type = "rsa" /\ alg.category = "key" -> "rsa"
      [] alg.type = "ed25519" -> "ed25519"
      [] alg.type \in {"mldsa", "mlkem"} -> "unsupported"
      [] OTHER -> "symmetric"

MakeHandle(alg, perms, asym) == Handle("openssl", alg, perms, Unset, asym, "unspecified")

GenerateAsymmetricKey(req) ==
    {[MakeHandle(req.alg, req.perms, TRUE) EXCEPT !.pub = req.pub]}

\* The curve of an EC row and the modulus of an RSA row are supported.
GenerateEcKey(req) == GenerateAsymmetricKey(req)

GenerateRsaKey(req) == GenerateAsymmetricKey(req)

GenerateEd25519Key(req) == GenerateAsymmetricKey(req)

OpenSslGenerateKey(req) ==
    CASE ShapeOf(req.alg) = "ec" -> GenerateEcKey(req)
      [] ShapeOf(req.alg) = "rsa" -> GenerateRsaKey(req)
      [] ShapeOf(req.alg) = "ed25519" -> GenerateEd25519Key(req)
      [] ShapeOf(req.alg) = "unsupported" -> {}
      [] OTHER -> IF LookupKeySize(req.alg) THEN {MakeHandle(req.alg, req.perms, FALSE)} ELSE {}

\* Only DER, and all of it; a private key is tried first.
ParseDerKey(req) ==
    IF req.format = "der" /\ req.data.form = "der" THEN {req.data} ELSE {}

\* Faulty variant: nothing is said about the public half.
CreateImportedAsymmetricKey_NoPublic(req, parsed) ==
    [MakeHandle(req.alg, IF parsed.half = "private" THEN req.perms ELSE {}, TRUE)
        EXCEPT !.kind = parsed.half]

\* A public key has no private half to permit anything for.
CreateImportedAsymmetricKey(req, parsed) ==
    [MakeHandle(req.alg, IF parsed.half = "private" THEN req.perms ELSE {}, TRUE)
        EXCEPT !.kind = parsed.half, !.pub = Set(req.perms)]

\* The type and the modulus must be the row's.
ImportRsaKey(req) ==
    {CreateImportedAsymmetricKey(req, k) :
        k \in {d \in ParseDerKey(req) : d.type = "rsa" /\ d.fits}}

ImportEd25519Key(req) ==
    {CreateImportedAsymmetricKey(req, k) : k \in {d \in ParseDerKey(req) : d.type = "ed25519"}}

\* The point must be on the curve.
BuildEcPublicKeyFromRawPoint(point) == {k \in {point} : k.type = "ecc"}

\* An uncompressed point of the right length.
ImportRawEcPublicKey(req) ==
    IF req.data.form = "point" /\ req.data.fits
    THEN {[MakeHandle(req.alg, {}, TRUE) EXCEPT !.kind = k.half, !.pub = Set(req.perms)] :
             k \in BuildEcPublicKeyFromRawPoint(req.data)}
    ELSE {}

ImportEcKey(req) ==
    IF req.format = "raw"
    THEN ImportRawEcPublicKey(req)
    ELSE {CreateImportedAsymmetricKey(req, k) :
             k \in {d \in ParseDerKey(req) : d.type = "ecc" /\ d.fits}}

\* A symmetric key is the bytes as they are.
OpenSslImportKey(req) ==
    CASE ShapeOf(req.alg) = "ec" -> ImportEcKey(req)
      [] ShapeOf(req.alg) = "rsa" -> ImportRsaKey(req)
      [] ShapeOf(req.alg) = "ed25519" -> ImportEd25519Key(req)
      [] ShapeOf(req.alg) = "unsupported" -> {}
      [] OTHER -> {MakeHandle(req.alg, req.perms, FALSE)}

CheckRawEcExport(h, format) ==
    /\ format = "raw"
    /\ h.asym /\ h.alg.type = "ecc"
    /\ HasPermission(ValueOrAll(h.pub), {"export"})

\* ExportKey, and GetExportKeySize likewise: the uncompressed public point.
OpenSslExportKey(h, format) == IF CheckRawEcExport(h, format) THEN {"public"} ELSE {}

OpenSslHandlerExport(h) ==
    IF HasPermission(h.perms, {"export"}) /\ ~h.asym THEN {"secret"} ELSE {}

----------------------------------------------------------------------------
(* IavPrimulaKeyFactory and its two key handlers.                          *)

PrimulaGenerateKey(req) ==
    IF LookupPqcAlgorithm(req.alg)
    THEN {Handle("primula", req.alg, req.perms, req.pub, TRUE, "private")} ELSE {}

\* A raw public key of the algorithm's size, and nothing else.
PrimulaImportKey(req) ==
    IF req.format = "raw" /\ LookupPqcAlgorithm(req.alg) /\ req.data.form = "bytes" /\ req.data.fits
    THEN {Handle("primula", req.alg, {}, Set(req.perms), TRUE, "public")} ELSE {}

\* IavPrimulaKeyHandler::Export gives the public key; IavPrimulaSharedSecretHandler::Export nothing.
PrimulaHandlerExport(h) ==
    IF h.kind # "shared" /\ HasPermission(IF h.asym THEN ValueOrAll(h.pub) ELSE h.perms, {"export"})
    THEN {"public"} ELSE {}

ValidateKemKey(h, alg, kind) ==
    /\ h.provider = "primula" /\ h.alg = alg /\ h.kind = kind
    /\ HasPermission(IF kind = "public" THEN ValueOrAll(h.pub) ELSE h.perms, {"agree"})

GetKemCiphertextSize(h, alg) == alg.type = "mlkem" /\ ValidateKemKey(h, alg, "public")

\* IavPrimulaSharedSecretHandler: a secret that can only be derived from.
SharedSecret ==
    Handle("primula", Row("KEM-SHARED-SECRET", "key", "secret"), {"derive"}, Unset, FALSE, "shared")

EncapsulateKey(h, alg) == IF GetKemCiphertextSize(h, alg) THEN {SharedSecret} ELSE {}

DecapsulateKey(h, alg) ==
    IF alg.type = "mlkem" /\ ValidateKemKey(h, alg, "private") THEN {SharedSecret} ELSE {}

----------------------------------------------------------------------------
(* Pkcs11KeyFactory, Pkcs11KeyStore and Pkcs11KeyHandler.                  *)

LookupAlgorithm(alg) == alg.type \in {"secret", "aes"}

\* Pkcs11KeyStore::Register and RegisterTokenObject: whatever is behind it, one
\* set of permissions.
Register(alg, perms) == Handle("pkcs11", alg, perms, Unset, FALSE, "unspecified")

Pkcs11GenerateKey(req) ==
    IF LookupAlgorithm(req.alg) THEN {Register(req.alg, req.perms)} ELSE {}

Pkcs11ImportKey(req) ==
    IF LookupAlgorithm(req.alg) THEN {Register(req.alg, req.perms)} ELSE {}

----------------------------------------------------------------------------
(* IKeyFactory and IKeyHandler: the provider's own, or the default.        *)

GenerateKey(p, req) ==
    CASE p = "openssl" -> OpenSslGenerateKey(req)
      [] p = "primula" -> PrimulaGenerateKey(req)
      [] p = "pkcs11" -> Pkcs11GenerateKey(req)

ImportKey(p, req) ==
    CASE p = "openssl" -> OpenSslImportKey(req)
      [] p = "primula" -> PrimulaImportKey(req)
      [] p = "pkcs11" -> Pkcs11ImportKey(req)

\* The defaults of IKeyFactory refuse what a provider does not override.
FactoryExportKey(h, format) == IF h.provider = "openssl" THEN OpenSslExportKey(h, format) ELSE {}

\* Pkcs11KeyHandler::Export always refuses.
HandlerExport(h) ==
    CASE h.provider = "openssl" -> OpenSslHandlerExport(h)
      [] h.provider = "primula" -> PrimulaHandlerExport(h)
      [] h.provider = "pkcs11" -> {}

=============================================================================
