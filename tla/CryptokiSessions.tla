-------------------------- MODULE CryptokiSessions --------------------------
(***************************************************************************)
(* The life of the library, its sessions, the logins and the PINs          *)
(* (lifecycle_and_slot_token.rs, session_and_login.rs, session_user.rs),   *)
(* and the writing of the store file, which the calls share.  Reads of one *)
(* map that follow each other without a write between them are one step.   *)
(***************************************************************************)
EXTENDS CryptokiState

-----------------------------------------------------------------------------
(* Persistence *)

\* What a call that was at `save` does next: the next of its steps, or nothing.
AfterSave(t) ==
    IF call[t].after = "return" THEN Return(t)
    ELSE IF call[t].after = "persist"
    THEN call' = [call EXCEPT ![t].at = "snapshot", ![t].after = "return"]
    ELSE Goto(t, call[t].after)

PersistSnapshot(t) ==
    /\ call[t].op # "Idle" /\ call[t].at = "snapshot"
    /\ call' = [call EXCEPT ![t].at = "save", ![t].snap = Snapshot]
    /\ UNCHANGED <<lifeVars, sessionVars, tokens, storeVars>>

\* save_state replaces the file in one rename; its failure is logged and nothing more.
\* The objects of the call are now promised to last, until a later call removes them.
PersistSave(t) ==
    /\ call[t].op # "Idle" /\ call[t].at = "save"
    /\ \/ disk' = call[t].snap /\ dirty' = FALSE
       \/ /\ dirty' = (dirty \/ StoredObjects # Snapshot.objects)
          /\ UNCHANGED disk
    /\ LET told == DOMAIN promised \cup (call[t].tells \cap DOMAIN objects)
       IN promised' = [h \in told |-> Stored(objects[h])]
    /\ AfterSave(t)
    /\ UNCHANGED <<app, up, sessionVars, tokens, objects, nextHandle>>
-----------------------------------------------------------------------------
(* The library *)

C_Initialize ==
    /\ ~up
    /\ up' = TRUE
    /\ objects' = StoredObjects
    /\ nextHandle' = RestoredHandle
    /\ tokens' = RestoredTokens
    /\ UNCHANGED <<app, sessionVars, disk, call, promised, dirty>>

\* GlobalState::shutdown; an application finalizes when none of its threads is in a call.
C_Finalize ==
    /\ Enabled("C_Finalize") /\ \A t \in Threads : call[t] = Idle
    /\ up' = FALSE
    /\ \/ disk' = Snapshot /\ promised' = promised
       \/ disk' = disk /\ promised' = StoredObjects
    /\ sessions' = Empty /\ objects' = Empty /\ cut' = {} /\ dirty' = FALSE
    /\ UNCHANGED <<app, nextSession, tokens, nextHandle, call>>

\* The process ends at any moment; what was not saved is lost.
Crash ==
    /\ up /\ "Crash" \in app.calls
    /\ up' = FALSE
    /\ sessions' = Empty /\ objects' = Empty /\ cut' = {} /\ dirty' = FALSE
    /\ nextSession' = 1 /\ nextHandle' = 1
    /\ call' = [t \in Threads |-> Idle]
    /\ promised' = IF dirty THEN StoredObjects ELSE promised
    /\ UNCHANGED <<app, tokens, disk>>

C_InitToken(t, slot, pin) ==
    /\ Free(t, "C_InitToken")
    /\ OpenSessions(slot) = {}
    /\ call' = [call EXCEPT ![t] = [op |-> "C_InitToken", at |-> "pin", slot |-> slot,
                                    pin |-> pin, tells |-> {}, snap |-> NoFile,
                                    after |-> "persist"]]
    /\ UNCHANGED <<lifeVars, sessionVars, tokens, storeVars>>

InitTokenPin(t) ==
    /\ At(t, "C_InitToken", "pin")
    /\ LET r == InitToken(tokens[call[t].slot], call[t].pin)
       IN /\ tokens' = [tokens EXCEPT ![call[t].slot] = r.tok]
          /\ IF r.ok THEN Goto(t, "wipe") ELSE Return(t)
    /\ UNCHANGED <<lifeVars, sessionVars, storeVars>>

\* clear_objects_for_slot, which saves; the call then saves once more.
InitTokenWipe(t) ==
    /\ At(t, "C_InitToken", "wipe") /\ ~StoreLocked
    /\ LET kept == {h \in DOMAIN objects : objects[h].slot # call[t].slot}
       IN /\ objects' = Restrict(objects, kept)
          /\ promised' = Restrict(promised, kept \cap DOMAIN promised)
    /\ Goto(t, "snapshot")
    /\ UNCHANGED <<lifeVars, sessionVars, tokens, nextHandle>>
-----------------------------------------------------------------------------
(* Sessions *)

C_OpenSession_FreshLogin(slot, rw) ==
    /\ Enabled("C_OpenSession") /\ nextSession <= app.maxSessions
    /\ sessions' = Insert(sessions, nextSession, NewSession(slot, rw, "NotLoggedIn"))
    /\ nextSession' = nextSession + 1
    /\ UNCHANGED <<lifeVars, tokens, storeVars, call, cut>>

\* open_session, under the write lock of the sessions.
C_OpenSession(slot, rw) ==
    /\ Enabled("C_OpenSession") /\ nextSession <= app.maxSessions
    /\ \E login \in LoginStatesForSlot(slot) :
          /\ login = "SoLoggedIn" => rw
          /\ sessions' = Insert(sessions, nextSession, NewSession(slot, rw, login))
    /\ nextSession' = nextSession + 1
    /\ UNCHANGED <<lifeVars, tokens, storeVars, call, cut>>

C_CloseSession(t, s) ==
    /\ Free(t, "C_CloseSession") /\ s \in DOMAIN sessions
    /\ sessions' = Restrict(sessions, DOMAIN sessions \ {s})
    /\ cut' = cut \cup ({s} \cap InUseByOthers(t))
    /\ call' = [call EXCEPT ![t] = [op |-> "C_CloseSession", at |-> "purge", s |-> s]]
    /\ UNCHANGED <<lifeVars, nextSession, tokens, storeVars>>

CloseSessionPurge_KeepsObjects(t) ==
    /\ At(t, "C_CloseSession", "purge") /\ ~StoreLocked
    /\ Return(t)
    /\ UNCHANGED <<lifeVars, sessionVars, tokens, storeVars>>

\* destroy_objects_for_session
CloseSessionPurge(t) ==
    /\ At(t, "C_CloseSession", "purge") /\ ~StoreLocked
    /\ objects' = Restrict(objects, {h \in DOMAIN objects : objects[h].owner # call[t].s})
    /\ Return(t)
    /\ UNCHANGED <<lifeVars, sessionVars, tokens, nextHandle, promised>>

C_CloseAllSessions(t, slot) ==
    /\ Free(t, "C_CloseAllSessions")
    /\ sessions' = Restrict(sessions, DOMAIN sessions \ OpenSessions(slot))
    /\ cut' = cut \cup (OpenSessions(slot) \cap InUseByOthers(t))
    /\ call' = [call EXCEPT ![t] = [op |-> "C_CloseAllSessions", at |-> "purge", slot |-> slot]]
    /\ UNCHANGED <<lifeVars, nextSession, tokens, storeVars>>

\* destroy_session_objects_for_slot
CloseAllPurge(t) ==
    /\ At(t, "C_CloseAllSessions", "purge") /\ ~StoreLocked
    /\ objects' = Restrict(objects, {h \in DOMAIN objects :
                      objects[h].slot # call[t].slot \/ ~IsSessionObject(objects[h])})
    /\ Return(t)
    /\ UNCHANGED <<lifeVars, sessionVars, tokens, nextHandle, promised>>
-----------------------------------------------------------------------------
(* Logins, logout and the PIN calls.  C_LoginUser differs from C_Login in  *)
(* two places: it leaves the context-specific flag of the session alone,   *)
(* and a context-specific login asks for no active operation.              *)

LoginCalls == {"C_Login", "C_LoginUser"}

LoggedInAs(user) == IF user = "SO" THEN "SoLoggedIn" ELSE "UserLoggedIn"

\* The slot has no login yet, and for the SO no read-only session.
C_Login(t, name, s, user, pin) ==
    /\ Free(t, name) /\ s \in DOMAIN sessions
    /\ "NotLoggedIn" \in LoginStatesForSlot(sessions[s].slot)
    /\ user = "SO" => ~HasRoSessionsOnSlot(sessions[s].slot)
    /\ call' = [call EXCEPT ![t] = [op |-> name, at |-> "pin", s |-> s,
                                    slot |-> sessions[s].slot, user |-> user, pin |-> pin]]
    /\ UNCHANGED <<lifeVars, sessionVars, tokens, storeVars>>

LoginPin(t) ==
    /\ call[t].op \in LoginCalls /\ call[t].at = "pin"
    /\ LET tok == tokens[call[t].slot]
           r   == VerifyPin(tok, call[t].user, call[t].pin)
       IN IF call[t].user = "USER" /\ tok.userPin = NoPin
          THEN Return(t) /\ UNCHANGED tokens
          ELSE /\ tokens' = [tokens EXCEPT ![call[t].slot] = r.tok]
               /\ IF ~r.ok THEN Return(t)
                  ELSE Goto(t, IF call[t].op = "C_Login" THEN "clear" ELSE "login")
    /\ UNCHANGED <<lifeVars, sessionVars, storeVars>>

LoginClear(t) ==
    /\ At(t, "C_Login", "clear")
    /\ IF OnSession(t)
       THEN sessions' = [sessions EXCEPT ![call[t].s].authed = FALSE] /\ Goto(t, "login")
       ELSE UNCHANGED sessions /\ Return(t)
    /\ UNCHANGED <<lifeVars, nextSession, cut, tokens, storeVars>>

\* login_all_sessions_on_slot: every session of the token, opened since the check or before.
LoginAll(t) ==
    /\ call[t].op \in LoginCalls /\ call[t].at = "login"
    /\ sessions' = LoginAllSessionsOnSlot(call[t].slot, LoggedInAs(call[t].user))
    /\ Return(t)
    /\ UNCHANGED <<lifeVars, nextSession, cut, tokens, storeVars>>

\* CKU_CONTEXT_SPECIFIC: the user, already logged in, confirms one operation.
C_LoginContext(t, name, s, pin) ==
    /\ Free(t, name) /\ s \in DOMAIN sessions
    /\ "UserLoggedIn" \in LoginStatesForSlot(sessions[s].slot)
    /\ call' = [call EXCEPT ![t] = [op |-> name, at |-> "context", s |-> s,
                                    slot |-> sessions[s].slot, pin |-> pin]]
    /\ UNCHANGED <<lifeVars, sessionVars, tokens, storeVars>>

ContextPin(t) ==
    /\ call[t].op \in LoginCalls /\ call[t].at = "context"
    /\ IF VerifyUserPinNoLockout(tokens[call[t].slot], call[t].pin)
       THEN Goto(t, "arm") ELSE Return(t)
    /\ UNCHANGED <<lifeVars, sessionVars, tokens, storeVars>>

ConfirmableOps == {"sign", "decrypt", "encrypt", "msg_decrypt", "msg_encrypt"}

ContextArm(t) ==
    /\ call[t].op \in LoginCalls /\ call[t].at = "arm"
    /\ IF /\ OnSession(t)
          /\ call[t].op = "C_Login" =>
                \E k \in ConfirmableOps : sessions[call[t].s].ops[k] # NoCtx
       THEN sessions' = [sessions EXCEPT ![call[t].s].authed = TRUE, ![call[t].s].uses = 0]
       ELSE UNCHANGED sessions
    /\ Return(t)
    /\ UNCHANGED <<lifeVars, nextSession, cut, tokens, storeVars>>
-----------------------------------------------------------------------------
C_Logout(t, s) ==
    /\ Free(t, "C_Logout") /\ s \in DOMAIN sessions
    /\ LoginStatesForSlot(sessions[s].slot) # {"NotLoggedIn"}
    /\ call' = [call EXCEPT ![t] = [op |-> "C_Logout", at |-> "release", s |-> s,
                                    slot |-> sessions[s].slot]]
    /\ UNCHANGED <<lifeVars, sessionVars, tokens, storeVars>>

LogoutRelease(t) ==
    /\ At(t, "C_Logout", "release")
    /\ sessions' = ReleaseFindContextsOnSlot(call[t].slot)
    /\ Goto(t, "destroy")
    /\ UNCHANGED <<lifeVars, nextSession, cut, tokens, storeVars>>

\* destroy_private_session_objects
LogoutDestroy(t) ==
    /\ At(t, "C_Logout", "destroy") /\ ~StoreLocked
    /\ objects' = Restrict(objects, {h \in DOMAIN objects :
                      \/ objects[h].slot # call[t].slot
                      \/ ~IsSessionObject(objects[h])
                      \/ ~objects[h].private})
    /\ Goto(t, "logout")
    /\ UNCHANGED <<lifeVars, sessionVars, tokens, nextHandle, promised>>

LogoutAll(t) ==
    /\ At(t, "C_Logout", "logout")
    /\ sessions' = LoginAllSessionsOnSlot(call[t].slot, "NotLoggedIn")
    /\ Return(t)
    /\ UNCHANGED <<lifeVars, nextSession, cut, tokens, storeVars>>
-----------------------------------------------------------------------------
PinCall(name, s, user, old, new, after) ==
    [op |-> name, at |-> "pin", s |-> s, slot |-> sessions[s].slot, user |-> user,
     old |-> old, new |-> new, tells |-> {}, snap |-> NoFile, after |-> after]

C_InitPIN(t, s, pin) ==
    /\ Free(t, "C_InitPIN") /\ s \in DOMAIN sessions
    /\ sessions[s].rw /\ sessions[s].login = "SoLoggedIn"
    /\ call' = [call EXCEPT ![t] = PinCall("C_InitPIN", s, "USER", NoPin, pin, "return")]
    /\ UNCHANGED <<lifeVars, sessionVars, tokens, storeVars>>

C_SetPIN(t, s, old, new) ==
    /\ Free(t, "C_SetPIN") /\ s \in DOMAIN sessions
    /\ sessions[s].rw
    /\ LET user == IF sessions[s].login = "SoLoggedIn" THEN "SO" ELSE "USER"
       IN call' = [call EXCEPT ![t] = PinCall("C_SetPIN", s, user, old, new, "clear")]
    /\ UNCHANGED <<lifeVars, sessionVars, tokens, storeVars>>

\* Under the lock of the token; a PIN that was changed is saved before the call returns.
ChangePinStep(t) ==
    /\ call[t].op \in {"C_InitPIN", "C_SetPIN"} /\ call[t].at = "pin"
    /\ LET c == call[t]
           r == IF c.op = "C_InitPIN" THEN InitPin(tokens[c.slot], c.new)
                ELSE ChangePin(tokens[c.slot], c.user, c.old, c.new)
       IN /\ tokens' = [tokens EXCEPT ![c.slot] = r.tok]
          /\ IF r.ok THEN Goto(t, "snapshot") ELSE Return(t)
    /\ UNCHANGED <<lifeVars, sessionVars, storeVars>>

SetPinClear(t) ==
    /\ At(t, "C_SetPIN", "clear")
    /\ IF OnSession(t) THEN sessions' = [sessions EXCEPT ![call[t].s].authed = FALSE]
       ELSE UNCHANGED sessions
    /\ Return(t)
    /\ UNCHANGED <<lifeVars, nextSession, cut, tokens, storeVars>>
=============================================================================
