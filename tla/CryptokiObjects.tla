--------------------------- MODULE CryptokiObjects ---------------------------
(***************************************************************************)
(* The calls of the token library that make, copy, change and destroy      *)
(* objects (keys_objects_attributes_find.rs, key_wrap_derive.rs,           *)
(* C_CopyObject) and the attribute policy.  Every call that makes objects  *)
(* works through `todo`, the objects it still has to store.  An attribute  *)
(* of a template is "true", "false" or "absent"; `may` holds the usage     *)
(* attributes that are TRUE.  A template changes one attribute per         *)
(* C_SetAttributeValue, and never CKA_TOKEN.                               *)
(***************************************************************************)
EXTENDS CryptokiSessions

Or(value, default) == IF value = "absent" THEN default ELSE value

\* The session exists, and is read-write when the new object is to stay on the token.
MayMake(s, token) == s \in DOMAIN sessions /\ (token => sessions[s].rw)

\* A generated secret or private key: sensitive and unextractable unless the template says so.
GeneratedKey(slot, type, template, auth) ==
    LET t == [template EXCEPT !.sensitive = Or(@, "true"), !.extractable = Or(@, "false")]
    IN [NewObject(slot, type, t) EXCEPT
           !.alwaysSensitive = (t.sensitive = "true"),
           !.neverExtractable = (t.extractable = "false"),
           !.alwaysAuth = auth]

\* `base`: the key an unwrap or a derivation uses; such a call ends with clearing the flag.
MakingCall(name, at, s, todo, base) ==
    [op |-> name, at |-> at, s |-> s, todo |-> todo, base |-> base,
     tells |-> {}, snap |-> NoFile, after |-> "return"]

NoBase == 0

StartMaking(t, name, s, todo) ==
    /\ Free(t, name) /\ nextHandle <= app.maxHandles
    /\ call' = [call EXCEPT ![t] = MakingCall(name, "store", s, todo, NoBase)]
    /\ UNCHANGED <<lifeVars, sessionVars, tokens, storeVars>>

C_GenerateKeyPair(t, s, mech, pub, priv, auth) ==
    /\ MayMake(s, "true" \in {pub.token, priv.token})
    /\ LET slot == sessions[s].slot
       IN StartMaking(t, "C_GenerateKeyPair", s,
              <<NewObject(slot, KeyPairTypes[mech][1], pub),
                GeneratedKey(slot, KeyPairTypes[mech][2], priv, auth)>>)

C_GenerateKey(t, s, mech, template) ==
    /\ MayMake(s, template.token = "true")
    /\ StartMaking(t, "C_GenerateKey", s,
           <<GeneratedKey(sessions[s].slot, SecretTypes[mech], template, FALSE)>>)

C_CreateObject(t, s, type, template) ==
    /\ MayMake(s, template.token = "true")
    /\ StartMaking(t, "C_CreateObject", s, <<NewObject(sessions[s].slot, type, template)>>)

\* next_handle and store_object: a session object belongs to the session, a token object is saved.
StoreObject(t) ==
    /\ call[t].op # "Idle" /\ call[t].at = "store" /\ ~StoreLocked
    /\ LET c    == call[t]
           h    == nextHandle
           obj  == [Head(c.todo) EXCEPT !.owner = IF Head(c.todo).token THEN NoSession ELSE c.s]
           next == IF Len(c.todo) > 1 THEN "store" ELSE IF c.base # NoBase THEN "burn" ELSE "return"
           rest == [c EXCEPT !.todo = Tail(@)]
       IN /\ objects' = Insert(objects, h, obj)
          /\ nextHandle' = h + 1
          /\ call' = [call EXCEPT ![t] =
                IF obj.token THEN [rest EXCEPT !.at = "snapshot", !.tells = {h}, !.after = next]
                ELSE IF next = "return" THEN Idle
                ELSE [rest EXCEPT !.at = next]]
    /\ UNCHANGED <<lifeVars, sessionVars, tokens, promised>>
-----------------------------------------------------------------------------
(* attribute_policy.rs *)

\* One-way: CKA_SENSITIVE only becomes TRUE, CKA_EXTRACTABLE only FALSE.
ValidateAttributeChange(attr, old, new) ==
    CASE attr = "sensitive"   -> ~(old = "true" /\ new = "false")
      [] attr = "extractable" -> ~(old = "false" /\ new = "true")

\* The attribute is written and the audit fields follow it.
ChangeAttribute(obj, attr, value) ==
    IF attr = "sensitive"
    THEN [obj EXCEPT !.sensitive = value,
                     !.alwaysSensitive = @ /\ value # "false"]
    ELSE [obj EXCEPT !.extractable = value,
                     !.neverExtractable = @ /\ value # "true"]

\* The secret parts of a key are readable if it is extractable and not sensitive.
CheckAttributeAccess(obj) ==
    \/ obj.type \in {"RsaPublic", "EcPublic", "EdPublic"}
    \/ obj.sensitive # "true" /\ obj.extractable = "true"

\* Reading CKA_VALUE; the other attributes are read as they are.
C_GetAttributeValue(t, s, h) ==
    /\ Free(t, "C_GetAttributeValue") /\ s \in DOMAIN sessions /\ h \in DOMAIN objects
    /\ objects[h].slot = sessions[s].slot /\ CheckAttributeAccess(objects[h])
    /\ objects' = [objects EXCEPT ![h].left = @ \cup {"read"}]
    /\ UNCHANGED <<lifeVars, sessionVars, tokens, nextHandle, promised, call>>

C_SetAttributeValue(t, s, h, attr, value) ==
    /\ Free(t, "C_SetAttributeValue") /\ s \in DOMAIN sessions /\ sessions[s].rw
    /\ call' = [call EXCEPT ![t] =
           [op |-> "C_SetAttributeValue", at |-> "set", s |-> s, key |-> h, attr |-> attr,
            value |-> value, tells |-> {}, snap |-> NoFile, after |-> "return"]]
    /\ UNCHANGED <<lifeVars, sessionVars, tokens, storeVars>>

SetAttribute(t) ==
    /\ At(t, "C_SetAttributeValue", "set") /\ ~StoreLocked
    /\ LET c == call[t]
           h == c.key
       IN IF h \in DOMAIN objects /\ ValidateAttributeChange(c.attr, objects[h][c.attr], c.value)
          THEN /\ objects' = [objects EXCEPT ![h] = ChangeAttribute(@, c.attr, c.value)]
               /\ promised' = Restrict(promised, DOMAIN promised \ {h})
               /\ IF objects[h].token
                  THEN call' = [call EXCEPT ![t].at = "snapshot", ![t].tells = {h}]
                  ELSE Return(t)
          ELSE Return(t) /\ UNCHANGED <<objects, promised>>
    /\ UNCHANGED <<lifeVars, sessionVars, tokens, nextHandle>>
-----------------------------------------------------------------------------
CopyOf_RecomputesAudit(src, template) ==
    [src EXCEPT
        !.token = (Or(template.token, IF src.token THEN "true" ELSE "false") = "true"),
        !.sensitive = Or(template.sensitive, @), !.extractable = Or(template.extractable, @),
        !.alwaysSensitive = (Or(template.sensitive, src.sensitive) = "true"),
        !.neverExtractable = (Or(template.extractable, src.extractable) = "false"),
        !.alwaysAuth = FALSE]

\* C_CopyObject: the copy keeps the audit fields of its source, whatever the template changes.
CopyOf(src, template) ==
    [src EXCEPT
        !.token = (Or(template.token, IF src.token THEN "true" ELSE "false") = "true"),
        !.sensitive = Or(template.sensitive, @), !.extractable = Or(template.extractable, @),
        !.alwaysAuth = FALSE]

C_CopyObject(t, s, h, template) ==
    /\ s \in DOMAIN sessions /\ h \in DOMAIN objects
    /\ objects[h].slot = sessions[s].slot
    /\ \A attr \in {"sensitive", "extractable"} :
          template[attr] # "absent" =>
             ValidateAttributeChange(attr, objects[h][attr], template[attr])
    /\ MayMake(s, CopyOf(objects[h], template).token)
    /\ StartMaking(t, "C_CopyObject", s, <<CopyOf(objects[h], template)>>)
-----------------------------------------------------------------------------
(* key_wrap_derive.rs *)

\* CKA_UNWRAP or CKA_DERIVE, and the confirmation of an always-authenticate key, under one lock.
StartWithBase(t, name, use, s, h, template, obj) ==
    /\ Free(t, name) /\ nextHandle <= app.maxHandles
    /\ MayMake(s, template.token = "true") /\ h \in DOMAIN objects
    /\ use \in objects[h].may /\ RequireContextAuth(s, objects[h])
    /\ call' = [call EXCEPT ![t] = MakingCall(name, "use", s, <<obj>>, h)]
    /\ UNCHANGED <<lifeVars, sessionVars, tokens, storeVars>>

C_UnwrapKey(t, s, h, template) ==
    /\ s \in DOMAIN sessions /\ h \in DOMAIN objects /\ objects[h].slot = sessions[s].slot
    /\ StartWithBase(t, "C_UnwrapKey", "unwrap", s, h, template,
                     NewObject(sessions[s].slot, "AesSecret", template))

\* The derived key takes over the audit fields of its base key, whatever its template says;
\* the base key may be of another slot.
C_DeriveKey(t, s, h, template) ==
    /\ s \in DOMAIN sessions /\ h \in DOMAIN objects
    /\ LET base == objects[h]
       IN StartWithBase(t, "C_DeriveKey", "derive", s, h, template,
              [NewObject(sessions[s].slot, "AesSecret", template) EXCEPT
                  !.alwaysSensitive = base.alwaysSensitive,
                  !.neverExtractable = base.neverExtractable,
                  !.left = base.left, !.derived = TRUE])

\* The engine reads the base key, which another call may have destroyed meanwhile.
UseBase(t) ==
    /\ call[t].op \in {"C_UnwrapKey", "C_DeriveKey"} /\ call[t].at = "use"
    /\ IF call[t].base \in DOMAIN objects
       THEN /\ Goto(t, "store")
            /\ sessions' = IF ~OnSession(t) \/ ~objects[call[t].base].alwaysAuth THEN sessions
                           ELSE [sessions EXCEPT ![call[t].s].uses = @ + 1]
       ELSE Return(t) /\ UNCHANGED sessions
    /\ UNCHANGED <<lifeVars, nextSession, cut, tokens, storeVars>>

\* The checks, each under a lock of its own; CKA_WRAP_WITH_TRUSTED is left out.
C_WrapKey(t, s, w, h) ==
    /\ Free(t, "C_WrapKey") /\ s \in DOMAIN sessions
    /\ {w, h} \subseteq DOMAIN objects
    /\ objects[w].slot = sessions[s].slot /\ "wrap" \in objects[w].may
    /\ objects[h].slot = sessions[s].slot /\ objects[h].extractable = "true"
    /\ call' = [call EXCEPT ![t] = [op |-> "C_WrapKey", at |-> "wrap", s |-> s, base |-> w,
                                    key |-> h]]
    /\ UNCHANGED <<lifeVars, sessionVars, tokens, storeVars>>

\* The keys are fetched again for the engine; a query for the length gives nothing out.
WrapKey(t) ==
    /\ At(t, "C_WrapKey", "wrap")
    /\ \/ /\ {call[t].base, call[t].key} \subseteq DOMAIN objects
          /\ objects' = [objects EXCEPT ![call[t].key].left = @ \cup {"wrapped"}]
          /\ Goto(t, "burn")
       \/ Return(t) /\ UNCHANGED objects
    /\ UNCHANGED <<lifeVars, sessionVars, tokens, nextHandle, promised>>

\* The confirmation is used up.
BurnTicket(t) ==
    /\ call[t].op \in {"C_UnwrapKey", "C_DeriveKey", "C_WrapKey"} /\ call[t].at = "burn"
    /\ IF OnSession(t) THEN sessions' = [sessions EXCEPT ![call[t].s].authed = FALSE]
       ELSE UNCHANGED sessions
    /\ Return(t)
    /\ UNCHANGED <<lifeVars, nextSession, cut, tokens, storeVars>>
-----------------------------------------------------------------------------
C_DestroyObject(t, s, h) ==
    /\ Free(t, "C_DestroyObject") /\ s \in DOMAIN sessions
    /\ call' = [call EXCEPT ![t] =
           [op |-> "C_DestroyObject", at |-> "check", s |-> s, slot |-> sessions[s].slot,
            loggedIn |-> LoggedIn(s), key |-> h, tells |-> {}, snap |-> NoFile,
            after |-> "return"]]
    /\ UNCHANGED <<lifeVars, sessionVars, tokens, storeVars>>

DestroyCheck(t) ==
    /\ At(t, "C_DestroyObject", "check")
    /\ LET c == call[t]
       IN IF /\ c.key \in DOMAIN objects
             /\ objects[c.key].token => (OnSession(t) /\ sessions[c.s].rw)
             /\ objects[c.key].slot = c.slot
             /\ objects[c.key].private => c.loggedIn
          THEN Goto(t, "remove") ELSE Return(t)
    /\ UNCHANGED <<lifeVars, sessionVars, tokens, storeVars>>

\* destroy_object: only a token object that goes is worth a save.
DestroyRemove(t) ==
    /\ At(t, "C_DestroyObject", "remove") /\ ~StoreLocked
    /\ LET h == call[t].key
       IN /\ objects' = Restrict(objects, DOMAIN objects \ {h})
          /\ promised' = Restrict(promised, DOMAIN promised \ {h})
          /\ IF h \in DOMAIN objects /\ objects[h].token THEN Goto(t, "snapshot") ELSE Return(t)
    /\ UNCHANGED <<lifeVars, sessionVars, tokens, nextHandle>>
=============================================================================
