---------------------------- MODULE CryptokiState ----------------------------
(***************************************************************************)
(* The state of the PKCS#11 token library (score/cryptoki/pkcs11): the     *)
(* sessions, the tokens of the slots, the object store, and the file that  *)
(* keeps the token objects.  The calls of the application's threads are in *)
(* CryptokiSessions, CryptokiObjects and CryptokiOperations; a call is one *)
(* step per critical section, so that calls interleave where the code      *)
(* releases a lock.  Key material, labels, templates beyond the attributes *)
(* below, return codes and the profile objects are left out.               *)
(***************************************************************************)
EXTENDS TokenPins, FiniteSetsExt, Functions, Sequences, TLC

CONSTANTS
    Threads,        \* of the applications
    Slots,          \* registry::slot_ids
    Applications    \* what the applications ask of the library

\* What a template says of a boolean attribute.
Attribute == {"true", "false", "absent"}

\* An application: its threads, the calls they make, with what templates, mechanisms and
\* PINs, and the bounds on the sessions a process ever opens, the object handles ever given
\* out and the operations active at once.
ASSUME ApplicationsOK ==
    \A a \in Applications :
        /\ a.threads \subseteq Threads /\ a.pins \subseteq Pins
        /\ a.templates \subseteq [token : Attribute, private : BOOLEAN, sensitive : Attribute,
                                  extractable : Attribute,
                                  may : SUBSET {"wrap", "unwrap", "derive"}]
        /\ {a.maxSessions, a.maxHandles, a.maxActive} \subseteq Nat

VARIABLES
    app,            \* the application, one and the same in a behaviour
    up,             \* GLOBAL holds a GlobalState
    sessions, nextSession,
    tokens,
    objects, nextHandle,
    disk,           \* the StoredState in the file, NoFile before the first save
    call,           \* the call each thread is in
    promised,       \* token objects the application was told of, not destroyed since
    dirty,          \* a save failed and none has succeeded since
    cut             \* sessions closed while another call used them

vars == <<app, up, sessions, nextSession, tokens, objects, nextHandle, disk, call,
          promised, dirty, cut>>

storeVars == <<objects, nextHandle, promised>>
sessionVars == <<sessions, nextSession, cut>>
lifeVars == <<app, up, disk, dirty>>

NoFile == [none |-> "file"]
NoSession == 0
NoCtx == [none |-> "context"]
Idle == [op |-> "Idle"]

Empty == [h \in {} |-> NoSession]

\* HashMap::insert
Insert(map, key, value) ==
    [k \in DOMAIN map \cup {key} |-> IF k = key THEN value ELSE map[k]]

Kinds == {"sign", "verify", "encrypt", "decrypt", "digest", "find", "msg_encrypt", "msg_decrypt"}
-----------------------------------------------------------------------------
(* session.rs *)

OpenSessions(slot) == {s \in DOMAIN sessions : sessions[s].slot = slot}

\* The login state of some session of the slot, whichever the map yields first.
LoginStatesForSlot(slot) ==
    IF OpenSessions(slot) = {} THEN {"NotLoggedIn"}
    ELSE {sessions[s].login : s \in OpenSessions(slot)}

HasRoSessionsOnSlot(slot) == \E s \in OpenSessions(slot) : ~sessions[s].rw

LoginAllSessionsOnSlot(slot, state) ==
    [s \in DOMAIN sessions |->
        IF sessions[s].slot = slot THEN [sessions[s] EXCEPT !.login = state] ELSE sessions[s]]

ReleaseFindContextsOnSlot(slot) ==
    [s \in DOMAIN sessions |->
        IF sessions[s].slot = slot THEN [sessions[s] EXCEPT !.ops["find"] = NoCtx] ELSE sessions[s]]

\* Session::new; `uses` counts the uses of always-authenticate keys since the last login for one.
NewSession(slot, rw, login) ==
    [slot |-> slot, rw |-> rw, login |-> login, authed |-> FALSE,
     ops |-> [k \in Kinds |-> NoCtx], uses |-> 0]

LoggedIn(s) == sessions[s].login # "NotLoggedIn"

\* require_context_auth: the flag is checked here, and cleared when the operation is done.
RequireContextAuth(s, obj) == obj.alwaysAuth => sessions[s].authed
-----------------------------------------------------------------------------
(* object_store.rs *)

IsSessionObject(obj) == ~obj.token

TokenObjects(store) == Restrict(store, {h \in DOMAIN store : store[h].token})

\* KeyObject::new from a template; the audit fields start FALSE.  Two history fields the
\* code does not have record how the value, or that of the key it comes from, left the token,
\* and whether it was derived.
NewObject(slot, type, template) ==
    [slot |-> slot, type |-> type, token |-> template.token = "true", private |-> template.private,
     owner |-> NoSession, sensitive |-> template.sensitive,
     extractable |-> template.extractable, may |-> template.may,
     alwaysSensitive |-> FALSE, neverExtractable |-> FALSE, alwaysAuth |-> FALSE,
     left |-> {}, derived |-> FALSE]

\* StoredObject keeps the attributes; the fields beside them come back as KeyObject::new sets them.
Stored(obj) ==
    [obj EXCEPT !.alwaysSensitive = FALSE, !.neverExtractable = FALSE, !.alwaysAuth = FALSE,
                !.left = {}]

\* persist_if_needed reads the store under its lock from the snapshot to the end of the save.
StoreLocked == \E t \in Threads : call[t].op # "Idle" /\ call[t].at = "save"

Snapshot ==
    [objects |-> [h \in DOMAIN TokenObjects(objects) |-> Stored(objects[h])],
     tokens |-> tokens, nextHandle |-> nextHandle]

StoredObjects == IF disk = NoFile THEN Empty ELSE disk.objects

RestoredHandle_IgnoresFile == 1

\* load_persisted_objects: the counter passes every handle that comes back.
RestoredHandle ==
    IF disk = NoFile THEN nextHandle
    ELSE Max({disk.nextHandle} \cup {h + 1 : h \in DOMAIN disk.objects})

RestoredTokens ==
    IF disk = NoFile THEN [slot \in Slots |-> NewDefaultToken] ELSE disk.tokens
-----------------------------------------------------------------------------
(* Calls *)

Enabled(name) == up /\ name \in app.calls

Free(t, name) == Enabled(name) /\ t \in app.threads /\ call[t] = Idle

At(t, op, at) == call[t].op = op /\ call[t].at = at

\* The call goes on at another step, or returns; a call on a closed session returns an error.
Goto(t, at) == call' = [call EXCEPT ![t].at = at]
Return(t) == call' = [call EXCEPT ![t] = Idle]
OnSession(t) == call[t].s \in DOMAIN sessions

\* The sessions that calls of the other threads are using.
InUseByOthers(t) ==
    {call[u].s : u \in {v \in Threads \ {t} : call[v].op # "Idle" /\ "s" \in DOMAIN call[v]}}
-----------------------------------------------------------------------------
(* Which mechanisms the calls accept and which of them the backend         *)
(* computes for a key (pkcs11/backend and the Init calls).  The names are  *)
(* the CKM_ and KeyType names of the code.                                 *)

\* The mechanisms C_SignInit and C_VerifyInit let pass.
SignInitMechanisms ==
    {"RSA_PKCS", "SHA1_RSA_PKCS", "SHA256_RSA_PKCS", "SHA384_RSA_PKCS", "SHA512_RSA_PKCS",
     "RSA_PKCS_PSS", "SHA1_RSA_PKCS_PSS", "SHA256_RSA_PKCS_PSS", "SHA384_RSA_PKCS_PSS",
     "SHA512_RSA_PKCS_PSS", "ECDSA", "ECDSA_SHA256", "EDDSA",
     "SHA256_HMAC", "SHA384_HMAC", "SHA512_HMAC"}

RsaSignatures ==
    {"RSA_PKCS", "MD5_RSA_PKCS", "SHA1_RSA_PKCS", "SHA256_RSA_PKCS", "SHA384_RSA_PKCS",
     "SHA512_RSA_PKCS", "SHA256_RSA_PKCS_PSS", "SHA384_RSA_PKCS_PSS", "SHA512_RSA_PKCS_PSS"}

EcSignatures == {"ECDSA", "ECDSA_SHA256", "ECDSA_SHA384", "ECDSA_SHA512"}

Hmacs == {"SHA256_HMAC", "SHA384_HMAC", "SHA512_HMAC"}

\* backend::sign
Signs(type) ==
    CASE type = "RsaPrivate"    -> RsaSignatures
      [] type = "EcPrivate"     -> EcSignatures
      [] type = "EdPrivate"     -> {"EDDSA"}
      [] type = "GenericSecret" -> Hmacs
      [] OTHER                  -> {}

\* encrypt_symmetric and decrypt_symmetric; block_cipher_crypt computes the first six.
SymmetricCiphers ==
    {"DES_ECB", "DES_CBC", "DES3_ECB", "DES3_CBC", "AES_ECB", "AES_CBC",
     "AES_CBC_PAD", "AES_GCM", "CHACHA20_POLY1305"}

\* A one-shot call dispatches on the mechanism; Final knows the symmetric ciphers only.
Ciphers(oneShot) ==
    SymmetricCiphers \cup IF oneShot THEN {"RSA_PKCS", "RSA_PKCS_OAEP"} ELSE {}

MessageMechanisms == {"AES_GCM", "CHACHA20_POLY1305"}

DigestMechanisms ==
    {"MD5", "SHA_1", "SHA256", "SHA384", "SHA512", "SHA3_256", "SHA3_384", "SHA3_512"}

\* The pairs and secrets the generate calls make, by mechanism.
KeyPairTypes ==
    [RSA_PKCS_KEY_PAIR_GEN   |-> <<"RsaPublic", "RsaPrivate">>,
     EC_KEY_PAIR_GEN         |-> <<"EcPublic", "EcPrivate">>,
     EC_EDWARDS_KEY_PAIR_GEN |-> <<"EdPublic", "EdPrivate">>]

SecretTypes ==
    [AES_KEY_GEN            |-> "AesSecret",
     CHACHA20_KEY_GEN       |-> "ChaCha20Secret",
     DES_KEY_GEN            |-> "GenericSecret",
     DES3_KEY_GEN           |-> "GenericSecret",
     GENERIC_SECRET_KEY_GEN |-> "GenericSecret"]
=============================================================================
