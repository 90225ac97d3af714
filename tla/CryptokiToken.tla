---------------------------- MODULE CryptokiToken ----------------------------
(***************************************************************************)
(* The PKCS#11 token library score/cryptoki as a whole: threads of an      *)
(* application make the calls of the modules it extends, the process may   *)
(* end at any moment, and saves of the store file may fail.  The           *)
(* properties are about what lasts (the token objects), what is owned (the *)
(* session objects), who is logged in, and what one confirmation of a key  *)
(* permits.                                                                *)
(***************************************************************************)
EXTENDS CryptokiOperations

Init ==
    /\ app \in Applications
    /\ up = FALSE
    /\ sessions = Empty /\ nextSession = 1 /\ cut = {}
    /\ tokens = [slot \in Slots |-> NewDefaultToken]
    /\ objects = Empty /\ nextHandle = 1 /\ promised = Empty
    /\ disk = NoFile /\ dirty = FALSE
    /\ call = [t \in Threads |-> Idle]

Users == {"SO", "USER"}
Booleans == {"true", "false"}
PairMechanisms == app.mechanisms \cap DOMAIN KeyPairTypes
SecretMechanisms == app.mechanisms \cap DOMAIN SecretTypes
CreatableTypes == {"RsaPublic", "RsaPrivate", "AesSecret", "GenericSecret"}

Persisting(t) == PersistSnapshot(t) \/ PersistSave(t)

Library(t) ==
    \/ \E slot \in Slots, pin \in app.pins : C_InitToken(t, slot, pin)
    \/ InitTokenPin(t)
    \/ InitTokenWipe(t)

Sessions(t) ==
    \/ \E s \in DOMAIN sessions : C_CloseSession(t, s)
    \/ CloseSessionPurge(t)
    \/ \E slot \in Slots : C_CloseAllSessions(t, slot)
    \/ CloseAllPurge(t)

Logins(t) ==
    \/ \E name \in LoginCalls, s \in DOMAIN sessions, user \in Users, pin \in app.pins :
          C_Login(t, name, s, user, pin)
    \/ LoginPin(t) \/ LoginClear(t) \/ LoginAll(t)
    \/ \E name \in LoginCalls, s \in DOMAIN sessions, pin \in app.pins :
          C_LoginContext(t, name, s, pin)
    \/ ContextPin(t) \/ ContextArm(t)
    \/ \E s \in DOMAIN sessions : C_Logout(t, s)
    \/ LogoutRelease(t) \/ LogoutDestroy(t) \/ LogoutAll(t)
    \/ \E s \in DOMAIN sessions, pin \in app.pins : C_InitPIN(t, s, pin)
    \/ \E s \in DOMAIN sessions, old, new \in app.pins : C_SetPIN(t, s, old, new)
    \/ ChangePinStep(t) \/ SetPinClear(t)

Objects(t) ==
    \/ \E s \in DOMAIN sessions, mech \in PairMechanisms, pub, priv \in app.templates,
          auth \in BOOLEAN : C_GenerateKeyPair(t, s, mech, pub, priv, auth)
    \/ \E s \in DOMAIN sessions, mech \in SecretMechanisms, tm \in app.templates :
          C_GenerateKey(t, s, mech, tm)
    \/ \E s \in DOMAIN sessions, type \in CreatableTypes, tm \in app.templates :
          C_CreateObject(t, s, type, tm)
    \/ StoreObject(t)
    \/ \E s \in DOMAIN sessions, h \in DOMAIN objects, attr \in {"sensitive", "extractable"},
          value \in Booleans : C_SetAttributeValue(t, s, h, attr, value)
    \/ SetAttribute(t)
    \/ \E s \in DOMAIN sessions, h \in DOMAIN objects : C_GetAttributeValue(t, s, h)
    \/ \E s \in DOMAIN sessions, h \in DOMAIN objects, tm \in app.templates :
          \/ C_CopyObject(t, s, h, tm)
          \/ C_UnwrapKey(t, s, h, tm)
          \/ C_DeriveKey(t, s, h, tm)
    \/ \E s \in DOMAIN sessions, w, h \in DOMAIN objects : C_WrapKey(t, s, w, h)
    \/ UseBase(t) \/ WrapKey(t) \/ BurnTicket(t)
    \/ \E s \in DOMAIN sessions, h \in DOMAIN objects : C_DestroyObject(t, s, h)
    \/ DestroyCheck(t) \/ DestroyRemove(t)

Operations(t) ==
    \/ \E s \in DOMAIN sessions, mech \in app.mechanisms, h \in DOMAIN objects :
          \/ C_SignInit(t, s, mech, h) \/ C_VerifyInit(t, s, mech, h)
          \/ C_EncryptInit(t, s, mech, h) \/ C_DecryptInit(t, s, mech, h)
          \/ C_MessageEncryptInit(t, s, mech, h) \/ C_MessageDecryptInit(t, s, mech, h)
    \/ \E s \in DOMAIN sessions, kind \in PrivateKinds, oneShot, lengthOnly \in BOOLEAN :
          UseKey(t, s, kind, oneShot, lengthOnly)
    \/ UseAuth(t) \/ UseEngine(t) \/ UseSettle(t)
    \/ \E s \in DOMAIN sessions :
          \/ C_Verify(t, s) \/ C_Encrypt(t, s) \/ C_SessionCancel(t, s)
          \/ C_MessageFinal(t, s, "msg_encrypt") \/ C_MessageFinal(t, s, "msg_decrypt")
          \/ C_DigestInit(t, s) \/ C_DigestUpdate(t, s)
          \/ C_Digest(t, s, "single") \/ C_Digest(t, s, "multi")
          \/ C_FindObjectsInit(t, s) \/ C_FindObjects(t, s) \/ C_FindObjectsFinal(t, s)
    \/ \E s \in DOMAIN sessions, h \in DOMAIN objects : C_DigestKey(t, s, h)
    \/ VerifyTake(t) \/ DigestWritten(t) \/ DigestKeyBack(t)
    \/ FindSearch(t) \/ FindPut(t)

Next ==
    \/ C_Initialize \/ C_Finalize \/ Crash
    \/ \E slot \in Slots, rw \in BOOLEAN : C_OpenSession(slot, rw)
    \/ \E t \in Threads :
          Persisting(t) \/ Library(t) \/ Sessions(t) \/ Logins(t) \/ Objects(t) \/ Operations(t)

Spec == Init /\ [][Next]_vars
-----------------------------------------------------------------------------
(* Properties *)

Keeps(store) ==
    \A h \in DOMAIN promised : h \in DOMAIN store /\ Stored(store[h]) = promised[h]

\* A token object whose creation or change was saved stays, with the attributes it had then,
\* until a call destroys or changes it: in the store while the library is up, and in the
\* file across finalization, crash and restart unless the last save failed.  Saves of two
\* threads (persist_if_needed) and handles given out after a restart must not undo each other.
TokenObjectsDurable ==
    /\ up => Keeps(objects)
    /\ ~dirty => Keeps(StoredObjects)

\* A session object has an open session that owns it, or one whose closing is about to
\* destroy it; only a call that was using the session when it was closed may leave one behind.
SessionObjectsOwned ==
    \A h \in {k \in DOMAIN objects : IsSessionObject(objects[k])} :
        \/ objects[h].owner \in (DOMAIN sessions) \cup cut
        \/ \E t \in Threads :
              \/ At(t, "C_CloseSession", "purge") /\ call[t].s = objects[h].owner
              \/ At(t, "C_CloseAllSessions", "purge") /\ call[t].slot = objects[h].slot

\* All sessions of a slot agree on who is logged in, whatever opens, logs in and logs out
\* meanwhile, so that "the login state of any session" (login_state_for_slot) is well defined.
LoginUniform ==
    \A s1, s2 \in DOMAIN sessions :
        sessions[s1].slot = sessions[s2].slot => sessions[s1].login = sessions[s2].login

\* Each context-specific login lets an always-authenticate key be used once: signing,
\* decrypting, unwrapping and deriving all clear the flag they were permitted by.
OneUsePerLogin == \A s \in DOMAIN sessions : sessions[s].uses <= 1

\* A key that claims CKA_ALWAYS_SENSITIVE was never read, and one that claims
\* CKA_NEVER_EXTRACTABLE neither read nor wrapped, nor was the key it was copied from before
\* the copy: across changes of the attributes, copies and restarts.  Derived keys are the
\* exception NeverExtractableMeansNever shows.
AuditFieldsHonest ==
    \A h \in DOMAIN objects : ~objects[h].derived =>
        /\ objects[h].alwaysSensitive => "read" \notin objects[h].left
        /\ objects[h].neverExtractable => objects[h].left = {}

\* What the comment on the field says of every key: "has never been extractable since
\* creation".  C_DeriveKey copies the field from the base key even when the template of the
\* derived key makes it extractable.
NeverExtractableMeansNever ==
    \A h \in DOMAIN objects : objects[h].neverExtractable => objects[h].extractable # "true"

\* The SO PIN is locked exactly when its failures reached the limit, in memory and in the
\* file, and no counter passes it: re-initialisation, PIN changes and restarts included.
LockoutConsistent ==
    LET Consistent(tok) ==
            /\ (tok.state = "ReadOnly") = (tok.soFailures = MaxPinFailures)
            /\ tok.soFailures <= MaxPinFailures /\ tok.userFailures <= MaxPinFailures
    IN \A slot \in Slots :
          Consistent(tokens[slot]) /\ (disk # NoFile => Consistent(disk.tokens[slot]))
=============================================================================
