------------------------- MODULE CryptokiOperations -------------------------
(***************************************************************************)
(* The operations a session carries out (sign_verify.rs,                   *)
(* encrypt_decrypt.rs, digest.rs, message_encrypt_decrypt.rs, the find     *)
(* calls, C_SessionCancel): the context each Init call leaves in the       *)
(* session and what the calls that follow make of it.  Data, signatures    *)
(* and the accumulated parts are left out; an engine may fail whenever it  *)
(* is called.  A call uses a session no other thread is in.                *)
(***************************************************************************)
EXTENDS CryptokiObjects

Alone(t, name, s) ==
    Free(t, name) /\ s \in DOMAIN sessions /\ s \notin InUseByOthers(t)

Ctx(s, kind) == sessions[s].ops[kind]

ActiveContexts ==
    {sk \in (DOMAIN sessions) \X Kinds : sessions[sk[1]].ops[sk[2]] # NoCtx}

RoomForContext == Cardinality(ActiveContexts) < app.maxActive

\* One critical section: the context is set and the confirmation as given.
PutContext(s, kind, ctx, authed) ==
    /\ sessions' = [sessions EXCEPT ![s].ops[kind] = ctx, ![s].authed = authed]
    /\ UNCHANGED <<nextSession, cut, lifeVars, tokens, storeVars>>

KeyContext(mech, h) == [mech |-> mech, key |-> h]
-----------------------------------------------------------------------------
(* Init calls.  The key is looked up when it is used, not here. *)

C_SignInit(t, s, mech, h) ==
    /\ Alone(t, "C_Sign", s) /\ RoomForContext
    /\ mech \in SignInitMechanisms /\ Ctx(s, "sign") = NoCtx
    /\ PutContext(s, "sign", KeyContext(mech, h), FALSE) /\ UNCHANGED call

C_VerifyInit(t, s, mech, h) ==
    /\ Alone(t, "C_Verify", s) /\ RoomForContext
    /\ mech \in SignInitMechanisms /\ Ctx(s, "verify") = NoCtx
    /\ PutContext(s, "verify", KeyContext(mech, h), sessions[s].authed) /\ UNCHANGED call

C_EncryptInit(t, s, mech, h) ==
    /\ Alone(t, "C_Encrypt", s) /\ RoomForContext /\ Ctx(s, "encrypt") = NoCtx
    /\ PutContext(s, "encrypt", KeyContext(mech, h), sessions[s].authed) /\ UNCHANGED call

C_DecryptInit(t, s, mech, h) ==
    /\ Alone(t, "C_Decrypt", s) /\ RoomForContext /\ Ctx(s, "decrypt") = NoCtx
    /\ PutContext(s, "decrypt", KeyContext(mech, h), FALSE) /\ UNCHANGED call

C_MessageEncryptInit(t, s, mech, h) ==
    /\ Alone(t, "C_Message", s) /\ RoomForContext
    /\ mech \in MessageMechanisms /\ Ctx(s, "msg_encrypt") = NoCtx
    /\ PutContext(s, "msg_encrypt", KeyContext(mech, h), sessions[s].authed) /\ UNCHANGED call

C_MessageDecryptInit(t, s, mech, h) ==
    /\ Alone(t, "C_Message", s) /\ RoomForContext
    /\ mech \in MessageMechanisms /\ Ctx(s, "msg_decrypt") = NoCtx
    /\ PutContext(s, "msg_decrypt", KeyContext(mech, h), sessions[s].authed) /\ UNCHANGED call

C_DigestInit(t, s) ==
    /\ Alone(t, "C_Digest", s) /\ RoomForContext
    /\ app.mechanisms \cap DigestMechanisms # {} /\ Ctx(s, "digest") = NoCtx
    /\ PutContext(s, "digest", [mode |-> "fresh"], sessions[s].authed) /\ UNCHANGED call
-----------------------------------------------------------------------------
(* C_Sign, C_SignFinal, C_Decrypt and C_DecryptFinal *)

PrivateKinds == {"sign", "decrypt"}

UsingCall(at, s, kind, oneShot, lengthOnly, ctx) ==
    [op |-> "Use", at |-> at, s |-> s, kind |-> kind, oneShot |-> oneShot,
     lengthOnly |-> lengthOnly, ctx |-> ctx, always |-> FALSE]

\* The context is taken out of the session.
UseKey(t, s, kind, oneShot, lengthOnly) ==
    /\ Alone(t, IF kind = "sign" THEN "C_Sign" ELSE "C_Decrypt", s)
    /\ Ctx(s, kind) # NoCtx
    /\ call' = [call EXCEPT ![t] = UsingCall("auth", s, kind, oneShot, lengthOnly, Ctx(s, kind))]
    /\ PutContext(s, kind, NoCtx, sessions[s].authed)

UseAuth(t) ==
    /\ At(t, "Use", "auth")
    /\ IF /\ call[t].ctx.key \in DOMAIN objects /\ OnSession(t)
          /\ RequireContextAuth(call[t].s, objects[call[t].ctx.key])
       THEN Goto(t, "engine") ELSE Return(t)
    /\ UNCHANGED <<lifeVars, sessionVars, tokens, storeVars>>

\* What the backend computes with the key of the context.
Computes(c) ==
    c.ctx.mech \in IF c.kind = "sign" THEN Signs(objects[c.ctx.key].type) ELSE Ciphers(c.oneShot)

UseEngine(t) ==
    /\ At(t, "Use", "engine")
    /\ \/ /\ call[t].ctx.key \in DOMAIN objects /\ Computes(call[t])
          /\ call' = [call EXCEPT ![t].at = "settle",
                                  ![t].always = objects[call[t].ctx.key].alwaysAuth]
       \/ Return(t)
    /\ UNCHANGED <<lifeVars, sessionVars, tokens, storeVars>>

UseSettle_KeepsTicket(t) ==
    /\ At(t, "Use", "settle")
    /\ LET c == call[t]
       IN sessions' = IF ~OnSession(t) THEN sessions
                      ELSE IF c.lengthOnly THEN [sessions EXCEPT ![c.s].ops[c.kind] = c.ctx]
                      ELSE [sessions EXCEPT ![c.s].uses = IF c.always THEN @ + 1 ELSE @]
    /\ Return(t)
    /\ UNCHANGED <<lifeVars, nextSession, cut, tokens, storeVars>>

\* A length query puts the context back; a result uses up the confirmation.
UseSettle(t) ==
    /\ At(t, "Use", "settle")
    /\ LET c == call[t]
       IN sessions' = IF ~OnSession(t) THEN sessions
                      ELSE IF c.lengthOnly THEN [sessions EXCEPT ![c.s].ops[c.kind] = c.ctx]
                      ELSE [sessions EXCEPT ![c.s].authed = FALSE,
                                            ![c.s].uses = IF c.always THEN @ + 1 ELSE @]
    /\ Return(t)
    /\ UNCHANGED <<lifeVars, nextSession, cut, tokens, storeVars>>
-----------------------------------------------------------------------------
(* Verify, encrypt *)

\* An RSA signature of the wrong length is refused before the context is taken.
C_Verify(t, s) ==
    /\ Alone(t, "C_Verify", s)
    /\ Ctx(s, "verify") # NoCtx /\ Ctx(s, "verify").key \in DOMAIN objects
    /\ call' = [call EXCEPT ![t] = [op |-> "C_Verify", at |-> "take", s |-> s]]
    /\ UNCHANGED <<lifeVars, sessionVars, tokens, storeVars>>

VerifyTake(t) ==
    /\ At(t, "C_Verify", "take")
    /\ IF OnSession(t) THEN sessions' = [sessions EXCEPT ![call[t].s].ops["verify"] = NoCtx]
       ELSE UNCHANGED sessions
    /\ Return(t)
    /\ UNCHANGED <<lifeVars, nextSession, cut, tokens, storeVars>>

\* C_Encrypt and C_EncryptFinal: the context does not come back, not even for a length query.
C_Encrypt(t, s) ==
    /\ Alone(t, "C_Encrypt", s) /\ Ctx(s, "encrypt") # NoCtx
    /\ PutContext(s, "encrypt", NoCtx, sessions[s].authed) /\ UNCHANGED call

C_MessageFinal(t, s, kind) ==
    /\ Alone(t, "C_Message", s)
    /\ PutContext(s, kind, NoCtx, sessions[s].authed) /\ UNCHANGED call

\* C_SessionCancel leaves the contexts of the message calls.
C_SessionCancel(t, s) ==
    /\ Alone(t, "C_SessionCancel", s)
    /\ sessions' = [sessions EXCEPT ![s].ops = [k \in Kinds |->
                       IF k \in {"msg_encrypt", "msg_decrypt"} THEN @[k] ELSE NoCtx]]
    /\ UNCHANGED <<lifeVars, nextSession, cut, tokens, storeVars, call>>
-----------------------------------------------------------------------------
(* Digest: one part or many, never both *)

Digesting(mode) == [mode |-> mode]

\* C_Digest and C_DigestFinal; the context goes when the two modes are mixed.
C_Digest(t, s, mode) ==
    /\ Alone(t, "C_Digest", s) /\ Ctx(s, "digest") # NoCtx
    /\ IF Ctx(s, "digest").mode \in {"fresh", mode}
       THEN /\ PutContext(s, "digest", Digesting(mode), sessions[s].authed)
            /\ call' = [call EXCEPT ![t] = [op |-> "C_Digest", at |-> "written", s |-> s]]
       ELSE PutContext(s, "digest", NoCtx, sessions[s].authed) /\ UNCHANGED call

\* The digest was written, or there was only a length query, too small a buffer or a failure.
DigestWritten(t) ==
    /\ At(t, "C_Digest", "written")
    /\ \/ sessions' = IF OnSession(t) THEN [sessions EXCEPT ![call[t].s].ops["digest"] = NoCtx]
                      ELSE sessions
       \/ UNCHANGED sessions
    /\ Return(t)
    /\ UNCHANGED <<lifeVars, nextSession, cut, tokens, storeVars>>

C_DigestUpdate(t, s) ==
    /\ Alone(t, "C_Digest", s) /\ Ctx(s, "digest") # NoCtx /\ Ctx(s, "digest").mode # "single"
    /\ PutContext(s, "digest", Digesting("multi"), sessions[s].authed) /\ UNCHANGED call

\* C_DigestKey takes the context out; it comes back if the operation is in parts.
C_DigestKey(t, s, h) ==
    /\ Alone(t, "C_DigestKey", s) /\ Ctx(s, "digest") # NoCtx /\ h \in DOMAIN objects
    /\ call' = [call EXCEPT ![t] = [op |-> "C_DigestKey", at |-> "back", s |-> s,
                                    ctx |-> Ctx(s, "digest")]]
    /\ PutContext(s, "digest", NoCtx, sessions[s].authed)

DigestKeyBack(t) ==
    /\ At(t, "C_DigestKey", "back")
    /\ IF OnSession(t) /\ call[t].ctx.mode # "single"
       THEN sessions' = [sessions EXCEPT ![call[t].s].ops["digest"] = Digesting("multi")]
       ELSE UNCHANGED sessions
    /\ Return(t)
    /\ UNCHANGED <<lifeVars, nextSession, cut, tokens, storeVars>>
-----------------------------------------------------------------------------
(* Find *)

\* The login state is read first, then the store, then the session is changed.
C_FindObjectsInit(t, s) ==
    /\ Alone(t, "C_Find", s) /\ RoomForContext
    /\ call' = [call EXCEPT ![t] = [op |-> "C_Find", at |-> "search", s |-> s,
                                    slot |-> sessions[s].slot, loggedIn |-> LoggedIn(s),
                                    found |-> {}]]
    /\ UNCHANGED <<lifeVars, sessionVars, tokens, storeVars>>

FindSearch(t) ==
    /\ At(t, "C_Find", "search")
    /\ call' = [call EXCEPT ![t].at = "put",
                            ![t].found = {h \in DOMAIN objects :
                                /\ objects[h].slot = call[t].slot
                                /\ call[t].loggedIn \/ ~objects[h].private}]
    /\ UNCHANGED <<lifeVars, sessionVars, tokens, storeVars>>

FindPut(t) ==
    /\ At(t, "C_Find", "put")
    /\ sessions' = IF OnSession(t) /\ Ctx(call[t].s, "find") = NoCtx
                   THEN [sessions EXCEPT ![call[t].s].ops["find"] = [left |-> call[t].found]]
                   ELSE sessions
    /\ Return(t)
    /\ UNCHANGED <<lifeVars, nextSession, cut, tokens, storeVars>>

\* The next results, in the order of a hash map; the index passes them.
C_FindObjects(t, s) ==
    /\ Alone(t, "C_Find", s) /\ Ctx(s, "find") # NoCtx
    /\ \E given \in SUBSET Ctx(s, "find").left :
          PutContext(s, "find", [left |-> Ctx(s, "find").left \ given], sessions[s].authed)
    /\ UNCHANGED call

C_FindObjectsFinal(t, s) ==
    /\ Alone(t, "C_Find", s)
    /\ PutContext(s, "find", NoCtx, sessions[s].authed) /\ UNCHANGED call
=============================================================================
