------------------------ MODULE CryptokiTokenProofs ------------------------
(***************************************************************************)
(* Theorems about the PKCS#11 token library, for any applications, any     *)
(* number of threads, slots, sessions and objects, and any interleaving of *)
(* calls, failed saves, crashes and restarts: saved objects last, session  *)
(* objects have an owner, the sessions of a slot agree on the login, and   *)
(* the audit fields and the PIN lockout are honest.                        *)
(*                                                                         *)
(* The argument: a step is quiet (it leaves the store and the set of       *)
(* sessions alone), changes or removes objects, adds one, closes or opens  *)
(* sessions, or saves or restores the store; one lemma per kind says that  *)
(* it keeps the invariant, and one per call that its steps are of a kind.  *)
(***************************************************************************)
EXTENDS CryptokiToken, TLAPS

\* Most steps are first-order; SMT is cited for those about numbers.
USE ZenonT(30)

-----------------------------------------------------------------------------
(* The inductive invariant *)

Fun(f) == f = [x \in DOMAIN f |-> f[x]]

Fields(r, names) == Fun(r) /\ names \subseteq DOMAIN r

SessionFields == {"slot", "rw", "login", "authed", "ops", "uses"}

ObjectFields ==
    {"slot", "type", "token", "private", "owner", "sensitive", "extractable", "may",
     "alwaysSensitive", "neverExtractable", "alwaysAuth", "left", "derived"}

TokenFields == {"state", "soPin", "userPin", "soFailures", "userFailures"}

Public == {"RsaPublic", "EcPublic", "EdPublic"}

\* While a claim about the past of a key is made, its present attribute forbids what
\* would belie it; a key with claims is never one whose value anybody may read.
Honest(obj) ==
    ~obj.derived =>
        /\ obj.alwaysSensitive =>
              obj.sensitive = "true" /\ "read" \notin obj.left /\ obj.type \notin Public
        /\ obj.neverExtractable =>
              obj.extractable = "false" /\ obj.left = {} /\ obj.type \notin Public

ObjectOK(obj) == Fields(obj, ObjectFields) /\ Honest(obj)

TokenOK(tok) ==
    /\ Fields(tok, TokenFields)
    /\ tok.soFailures \in Nat /\ tok.soFailures <= MaxPinFailures
    /\ tok.userFailures \in Nat /\ tok.userFailures <= MaxPinFailures
    /\ tok.state = "ReadOnly" <=> tok.soFailures = MaxPinFailures

TokensOK(toks) ==
    toks = [slot \in Slots |-> toks[slot]] /\ \A slot \in Slots : TokenOK(toks[slot])

\* What a file may hold: token objects as they are stored, below the counter.
FileOK(file) ==
    /\ file # NoFile /\ TokensOK(file.tokens)
    /\ file.nextHandle \in Nat
    /\ Fun(file.objects)
    /\ \A h \in DOMAIN file.objects :
          /\ h \in Nat /\ h < file.nextHandle
          /\ ObjectOK(file.objects[h]) /\ file.objects[h].token
          /\ file.objects[h].owner = NoSession /\ Stored(file.objects[h]) = file.objects[h]

MakingOps ==
    {"C_GenerateKeyPair", "C_GenerateKey", "C_CreateObject", "C_CopyObject", "C_UnwrapKey",
     "C_DeriveKey"}

SavingOps ==
    MakingOps \cup {"C_InitToken", "C_InitPIN", "C_SetPIN", "C_SetAttributeValue",
                    "C_DestroyObject"}

\* The objects a call still has to store, one or two of them at first.
TodoOK(todo) ==
    /\ \/ todo = <<>>
       \/ todo = <<todo[1]>>
       \/ todo = <<todo[1], todo[2]>>
    /\ \A i \in DOMAIN todo : ObjectOK(todo[i])

\* Which calls are at the steps they share, and with what fields.
CallShape(c) ==
    /\ Fields(c, {"op"})
    /\ c.op # "Idle" => "at" \in DOMAIN c
    /\ c.op \in SavingOps =>
          /\ {"tells", "snap", "after"} \subseteq DOMAIN c
          /\ c.after \in {"return", "persist", "clear", "store", "burn"}
          /\ c.after = "store" => c.op \in MakingOps
    /\ c.op # "Idle" /\ c.at \in {"snapshot", "save"} => c.op \in SavingOps
    /\ c.op # "Idle" /\ c.at = "store" => c.op \in MakingOps
    /\ c.op \in MakingOps =>
          /\ {"s", "todo"} \subseteq DOMAIN c /\ TodoOK(c.todo)
          /\ c.todo = <<>> =>
                /\ c.at \notin {"use", "store"}
                /\ c.at \in {"snapshot", "save"} => c.after # "store"
    /\ c.op = "C_CloseSession" => "s" \in DOMAIN c /\ c.s # NoSession
    /\ c.op = "C_SetAttributeValue" /\ c.at = "set" =>
          c.attr \in {"sensitive", "extractable"} /\ c.value \in Booleans

\* What a call knows of the session it makes objects for, of the key it wraps, and of the
\* objects it is about to promise; what it saves is the store as it is.
CallCurrent(c) ==
    /\ c.op # "Idle" => up
    /\ c.op \in MakingOps =>
          /\ c.s \in Nat /\ c.s < nextSession /\ c.s \in DOMAIN sessions \cup cut
          /\ c.s \in DOMAIN sessions =>
                \A i \in DOMAIN c.todo : c.todo[i].slot = sessions[c.s].slot
    /\ c.op = "C_WrapKey" /\ c.at = "wrap" =>
          /\ c.key \in Nat /\ c.key < nextHandle
          /\ c.key \in DOMAIN objects =>
                objects[c.key].derived \/ ~objects[c.key].neverExtractable
    /\ c.op \in SavingOps =>
          \A h \in c.tells :
             /\ h \in Nat /\ h < nextHandle
             /\ h \in DOMAIN objects => objects[h].token
    /\ c.op # "Idle" /\ c.at = "save" =>
          FileOK(c.snap) /\ c.snap.objects = Snapshot.objects

CallsOK ==
    /\ call = [t \in Threads |-> call[t]]
    /\ \A t \in Threads : CallShape(call[t]) /\ CallCurrent(call[t])

LifeOK ==
    /\ app \in Applications /\ up \in BOOLEAN /\ dirty \in BOOLEAN /\ (dirty => up)
    /\ nextSession \in Nat \ {0} /\ nextHandle \in Nat
    /\ TokensOK(tokens) /\ (disk # NoFile => FileOK(disk))

SessionsOK ==
    /\ Fun(sessions)
    /\ \A s \in DOMAIN sessions :
          s \in Nat \ {0} /\ s < nextSession /\ Fields(sessions[s], SessionFields)

ObjectsOK ==
    /\ Fun(objects)
    /\ \A h \in DOMAIN objects :
          /\ h \in Nat /\ h < nextHandle /\ ObjectOK(objects[h])
          /\ objects[h].token => objects[h].owner = NoSession

\* A session object was made on the slot of its owner.
OwnersOK ==
    \A h \in DOMAIN objects : IsSessionObject(objects[h]) =>
        /\ objects[h].owner \in Nat /\ objects[h].owner < nextSession
        /\ objects[h].owner \in DOMAIN sessions =>
              objects[h].slot = sessions[objects[h].owner].slot

\* The call is about to destroy the object, because its session was closed.
Destroys(c, obj) ==
    \/ c.op = "C_CloseSession" /\ c.at = "purge" /\ c.s = obj.owner
    \/ c.op = "C_CloseAllSessions" /\ c.at = "purge" /\ c.slot = obj.slot

Owned(obj) ==
    obj.owner \in DOMAIN sessions \cup cut \/ \E t \in Threads : Destroys(call[t], obj)

AllOwned == \A h \in DOMAIN objects : IsSessionObject(objects[h]) => Owned(objects[h])

\* Only token objects are promised.
PromisesOK ==
    /\ Fun(promised)
    /\ up => \A h \in DOMAIN promised \cap DOMAIN objects : objects[h].token

TokenInv ==
    /\ LifeOK /\ SessionsOK /\ ObjectsOK /\ OwnersOK /\ CallsOK /\ PromisesOK
    /\ AllOwned /\ LoginUniform /\ TokenObjectsDurable

-----------------------------------------------------------------------------
(* What a call knows stays true while others work *)

\* Sessions and objects keep their names: a handle that was given out stands for what it
\* stood for, or for nothing.
SessionFrame ==
    /\ up => up'
    /\ nextSession' \in Nat /\ nextSession <= nextSession'
    /\ \A s \in DOMAIN sessions' : s < nextSession =>
          s \in DOMAIN sessions /\ sessions'[s].slot = sessions[s].slot

\* What an object keeps for its life.
Kin(new, old) ==
    /\ new.token = old.token /\ new.owner = old.owner /\ new.slot = old.slot
    /\ new.derived = old.derived
    /\ new.neverExtractable => old.neverExtractable

ObjectFrame ==
    /\ nextHandle' \in Nat /\ nextHandle <= nextHandle'
    /\ \A h \in DOMAIN objects' : h < nextHandle =>
          h \in DOMAIN objects /\ Kin(objects'[h], objects[h])

SameSnapshot == Snapshot'.objects = Snapshot.objects

\* The session of a call that makes objects is open, or was cut off while in use.
KeepsSession(c) == c.op \in MakingOps => c.s \in DOMAIN sessions' \cup cut'

LEMMA CurrentKept ==
    ASSUME LifeOK, NEW c, CallCurrent(c), KeepsSession(c), SessionFrame, ObjectFrame,
           c.op # "Idle" /\ c.at = "save" => SameSnapshot
    PROVE  CallCurrent(c)'
<1>n. nextSession \in Nat /\ nextSession' \in Nat /\ nextSession <= nextSession'
      /\ nextHandle \in Nat /\ nextHandle' \in Nat /\ nextHandle <= nextHandle'
  BY DEF LifeOK, SessionFrame, ObjectFrame
<1>1. ASSUME c.op \in MakingOps
      PROVE  /\ c.s \in Nat /\ c.s < nextSession' /\ c.s \in DOMAIN sessions' \cup cut'
             /\ c.s \in DOMAIN sessions' =>
                   \A i \in DOMAIN c.todo : c.todo[i].slot = sessions'[c.s].slot
  <2>1. c.s \in Nat /\ c.s < nextSession /\ c.s \in DOMAIN sessions' \cup cut'
    BY <1>1 DEF CallCurrent, KeepsSession
  <2>2. c.s < nextSession'
    BY <2>1, <1>n, SMT
  <2>3. ASSUME c.s \in DOMAIN sessions'
        PROVE  \A i \in DOMAIN c.todo : c.todo[i].slot = sessions'[c.s].slot
    <3>1. c.s \in DOMAIN sessions /\ sessions'[c.s].slot = sessions[c.s].slot
      BY <2>1, <2>3 DEF SessionFrame
    <3> QED BY <3>1, <1>1 DEF CallCurrent
  <2> QED BY <2>1, <2>2, <2>3
<1>2. ASSUME c.op = "C_WrapKey", c.at = "wrap"
      PROVE  /\ c.key \in Nat /\ c.key < nextHandle'
             /\ c.key \in DOMAIN objects' =>
                   objects'[c.key].derived \/ ~objects'[c.key].neverExtractable
  <2>1. /\ c.key \in Nat /\ c.key < nextHandle
        /\ c.key \in DOMAIN objects => objects[c.key].derived \/ ~objects[c.key].neverExtractable
    BY <1>2 DEF CallCurrent
  <2>2. c.key < nextHandle'
    BY <2>1, <1>n, SMT
  <2>3. c.key \in DOMAIN objects' =>
           c.key \in DOMAIN objects /\ Kin(objects'[c.key], objects[c.key])
    BY <2>1 DEF ObjectFrame
  <2> QED BY <2>1, <2>2, <2>3 DEF Kin
<1>3. ASSUME c.op \in SavingOps, NEW h \in c.tells
      PROVE  h \in Nat /\ h < nextHandle' /\ (h \in DOMAIN objects' => objects'[h].token)
  <2>1. h \in Nat /\ h < nextHandle /\ (h \in DOMAIN objects => objects[h].token)
    BY <1>3 DEF CallCurrent
  <2>2. h < nextHandle'
    BY <2>1, <1>n, SMT
  <2>3. h \in DOMAIN objects' => h \in DOMAIN objects /\ Kin(objects'[h], objects[h])
    BY <2>1 DEF ObjectFrame
  <2> QED BY <2>1, <2>2, <2>3 DEF Kin
<1>4. c.op # "Idle" /\ c.at = "save" => FileOK(c.snap) /\ c.snap.objects = Snapshot'.objects
  BY DEF CallCurrent, SameSnapshot
<1>5. c.op # "Idle" => up'
  BY DEF CallCurrent, SessionFrame
<1> QED BY <1>1, <1>2, <1>3, <1>4, <1>5 DEF CallCurrent

\* One thread's call becomes d; the others go on.
LEMMA CallsKept ==
    ASSUME LifeOK, CallsOK, NEW t \in Threads, NEW d, call' = [call EXCEPT ![t] = d],
           CallShape(d), CallCurrent(d)', SessionFrame, ObjectFrame,
           \A u \in Threads \ {t} : KeepsSession(call[u]),
           StoreLocked => SameSnapshot
    PROVE  CallsOK'
<1>1. call' = [u \in Threads |-> IF u = t THEN d ELSE call[u]]
  BY DEF CallsOK
<1>2. call' = [u \in Threads |-> call'[u]]
  BY <1>1
<1>3. ASSUME NEW u \in Threads PROVE CallShape(call'[u]) /\ CallCurrent(call[u])'
  <2>1. CASE u = t
    BY <2>1, <1>1
  <2>2. CASE u # t
    <3>1. PICK c : c = call[u]
      OBVIOUS
    <3>2. call'[u] = c
      BY <2>2, <1>1, <3>1
    <3>3. CallShape(c) /\ CallCurrent(c) /\ KeepsSession(c)
      BY <3>1, <2>2 DEF CallsOK
    <3>4. c.op # "Idle" /\ c.at = "save" => SameSnapshot
      BY <3>1 DEF StoreLocked
    <3>5. CallCurrent(c)'
      BY <3>3, <3>4, CurrentKept
    <3> QED BY <3>2, <3>3, <3>5
  <2> QED BY <2>1, <2>2
<1> QED BY <1>2, <1>3 DEF CallsOK

-----------------------------------------------------------------------------
(* Steps that leave the store, the file and the set of sessions alone *)

SameSessions ==
    /\ Fun(sessions') /\ DOMAIN sessions' = DOMAIN sessions
    /\ \A s \in DOMAIN sessions :
          Fields(sessions'[s], SessionFields) /\ sessions'[s].slot = sessions[s].slot

Closing(c) == c.op \in {"C_CloseSession", "C_CloseAllSessions"} /\ c.at = "purge"

QuietStep(t, d) ==
    /\ UNCHANGED <<lifeVars, nextSession, cut, storeVars>>
    /\ SameSessions /\ LoginUniform' /\ TokensOK(tokens')
    /\ call' = [call EXCEPT ![t] = d]
    /\ CallShape(d) /\ CallCurrent(d)
    /\ Closing(call[t]) => d = call[t]

LEMMA QuietKeeps ==
    ASSUME TokenInv, NEW t \in Threads, NEW d, QuietStep(t, d)
    PROVE  TokenInv'
<1>u. /\ UNCHANGED <<app, up, disk, dirty, nextSession, cut, objects, nextHandle, promised>>
      /\ Fun(sessions') /\ DOMAIN sessions' = DOMAIN sessions
      /\ \A s \in DOMAIN sessions :
            Fields(sessions'[s], SessionFields) /\ sessions'[s].slot = sessions[s].slot
      /\ LoginUniform' /\ TokensOK(tokens') /\ call' = [call EXCEPT ![t] = d]
      /\ CallShape(d) /\ CallCurrent(d) /\ (Closing(call[t]) => d = call[t])
  BY DEF QuietStep, lifeVars, storeVars, SameSessions
<1>i. LifeOK /\ SessionsOK /\ ObjectsOK /\ OwnersOK /\ CallsOK /\ PromisesOK
      /\ AllOwned /\ TokenObjectsDurable
  BY DEF TokenInv
<1>n. nextSession \in Nat /\ nextHandle \in Nat
  BY <1>i DEF LifeOK
<1>1. LifeOK'
  BY <1>u, <1>i DEF LifeOK
<1>2. SessionsOK'
  BY <1>u, <1>i DEF SessionsOK
<1>3. ObjectsOK' /\ PromisesOK' /\ TokenObjectsDurable'
  BY <1>u, <1>i DEF ObjectsOK, PromisesOK, TokenObjectsDurable, Keeps, StoredObjects
<1>4. OwnersOK'
  BY <1>u, <1>i DEF OwnersOK
<1>5. CallsOK'
  <2>1. nextSession' \in Nat /\ nextSession <= nextSession' /\ nextHandle' \in Nat /\ nextHandle <= nextHandle'
    BY <1>n, <1>u, SMT
  <2>2. SessionFrame
    BY <2>1, <1>u DEF SessionFrame
  <2>3. ObjectFrame
    BY <2>1, <1>u DEF ObjectFrame, Kin
  <2>4. SameSnapshot
    BY <1>u DEF SameSnapshot, Snapshot, TokenObjects
  <2>5. ASSUME NEW c, CallCurrent(c) PROVE KeepsSession(c)
    BY <2>5, <1>u DEF KeepsSession, CallCurrent
  <2>6. \A u \in Threads : CallCurrent(call[u])
    BY <1>i DEF CallsOK
  <2>7. \A u \in Threads \ {t} : KeepsSession(call[u])
    <3> TAKE u \in Threads \ {t}
    <3>1. PICK c : c = call[u]
      OBVIOUS
    <3> QED BY <3>1, <2>5, <2>6
  <2>8. CallCurrent(d)'
    BY <1>u, <1>i, <2>2, <2>3, <2>4, <2>5, CurrentKept
  <2> QED BY <1>u, <1>i, <2>2, <2>3, <2>4, <2>7, <2>8, CallsKept
<1>6. AllOwned'
  <2>1. ASSUME NEW u \in Threads, NEW o, Destroys(call[u], o) PROVE Destroys(call'[u], o)
    <3>1. Closing(call[u])
      BY <2>1 DEF Destroys, Closing
    <3>2. call'[u] = call[u]
      BY <3>1, <1>u, <1>i DEF CallsOK
    <3> QED BY <2>1, <3>2
  <2> SUFFICES ASSUME NEW h \in DOMAIN objects, IsSessionObject(objects[h])
               PROVE  \/ objects[h].owner \in (DOMAIN sessions) \cup cut
                      \/ \E u \in Threads : Destroys(call'[u], objects[h])
    BY <1>u DEF AllOwned, Owned, IsSessionObject
  <2>2. PICK o : o = objects[h]
    OBVIOUS
  <2>3. o.owner \in DOMAIN sessions \cup cut \/ \E u \in Threads : Destroys(call[u], o)
    BY <1>i, <2>2 DEF AllOwned, Owned
  <2> QED BY <2>1, <2>2, <2>3
<1> QED BY <1>1, <1>2, <1>3, <1>4, <1>5, <1>6, <1>u DEF TokenInv

-----------------------------------------------------------------------------
(* Steps that change or remove objects *)

\* P are the objects that stay promised.
StoreStep(t, d, P) ==
    /\ UNCHANGED <<lifeVars, sessionVars, tokens, nextHandle>>
    /\ Fun(objects') /\ DOMAIN objects' \subseteq DOMAIN objects
    /\ \A h \in DOMAIN objects' : Kin(objects'[h], objects[h]) /\ ObjectOK(objects'[h])
    /\ P \subseteq DOMAIN promised /\ promised' = Restrict(promised, P)
    /\ \A h \in P \cap DOMAIN objects :
          h \in DOMAIN objects' /\ Stored(objects'[h]) = Stored(objects[h])
    /\ StoreLocked => SameSnapshot
    /\ call' = [call EXCEPT ![t] = d]
    /\ CallShape(d) /\ CallCurrent(d) /\ (d.op = "Idle" \/ d.at # "save")
    /\ \A h \in DOMAIN objects' : ~objects'[h].token => ~Destroys(call[t], objects'[h])

LEMMA StoreKeeps ==
    ASSUME TokenInv, NEW t \in Threads, NEW d, NEW P, StoreStep(t, d, P)
    PROVE  TokenInv'
<1>u. /\ UNCHANGED <<app, up, disk, dirty, sessions, nextSession, cut, tokens, nextHandle>>
      /\ Fun(objects') /\ DOMAIN objects' \subseteq DOMAIN objects
      /\ \A h \in DOMAIN objects' : Kin(objects'[h], objects[h]) /\ ObjectOK(objects'[h])
      /\ P \subseteq DOMAIN promised /\ promised' = [h \in P |-> promised[h]]
      /\ \A h \in P \cap DOMAIN objects :
            h \in DOMAIN objects' /\ Stored(objects'[h]) = Stored(objects[h])
      /\ StoreLocked => SameSnapshot
      /\ call' = [call EXCEPT ![t] = d]
      /\ CallShape(d) /\ CallCurrent(d) /\ (d.op = "Idle" \/ d.at # "save")
      /\ \A h \in DOMAIN objects' : ~objects'[h].token => ~Destroys(call[t], objects'[h])
  BY DEF StoreStep, lifeVars, sessionVars, Restrict
<1>i. LifeOK /\ SessionsOK /\ ObjectsOK /\ OwnersOK /\ CallsOK /\ PromisesOK
      /\ AllOwned /\ LoginUniform /\ TokenObjectsDurable
  BY DEF TokenInv
<1>n. nextSession \in Nat /\ nextHandle \in Nat
  BY <1>i DEF LifeOK
<1>1. LifeOK' /\ SessionsOK' /\ LoginUniform'
  BY <1>u, <1>i DEF LifeOK, SessionsOK, LoginUniform
<1>2. ObjectsOK'
  BY <1>u, <1>i DEF ObjectsOK, Kin
<1>3. OwnersOK'
  BY <1>u, <1>i DEF OwnersOK, Kin, IsSessionObject
<1>4. PromisesOK'
  <2>1. Fun(promised')
    BY <1>u DEF Fun
  <2>2. ASSUME up, NEW h \in DOMAIN promised' \cap DOMAIN objects' PROVE objects'[h].token
    BY <2>2, <1>u, <1>i DEF PromisesOK, Kin
  <2> QED BY <2>1, <2>2, <1>u DEF PromisesOK
<1>5. TokenObjectsDurable'
  <2>1. ASSUME up, NEW h \in P PROVE h \in DOMAIN objects' /\ Stored(objects'[h]) = promised'[h]
    <3>1. h \in DOMAIN objects /\ Stored(objects[h]) = promised[h]
      BY <2>1, <1>u, <1>i DEF TokenObjectsDurable, Keeps
    <3> QED BY <3>1, <1>u
  <2>2. ASSUME ~dirty, NEW h \in P
        PROVE  h \in DOMAIN StoredObjects /\ Stored(StoredObjects[h]) = promised'[h]
    BY <2>2, <1>u, <1>i DEF TokenObjectsDurable, Keeps
  <2>3. StoredObjects' = StoredObjects
    BY <1>u DEF StoredObjects
  <2>4. DOMAIN promised' = P
    BY <1>u
  <2> QED BY <2>1, <2>2, <2>3, <2>4, <1>u DEF TokenObjectsDurable, Keeps
<1>6. CallsOK'
  <2>1. nextSession' \in Nat /\ nextSession <= nextSession' /\ nextHandle' \in Nat /\ nextHandle <= nextHandle'
    BY <1>n, <1>u, SMT
  <2>2. SessionFrame
    BY <2>1, <1>u DEF SessionFrame
  <2>3. ObjectFrame
    BY <2>1, <1>u DEF ObjectFrame
  <2>5. ASSUME NEW c, CallCurrent(c) PROVE KeepsSession(c)
    BY <2>5, <1>u DEF KeepsSession, CallCurrent
  <2>6. \A u \in Threads : CallCurrent(call[u])
    BY <1>i DEF CallsOK
  <2>7. \A u \in Threads \ {t} : KeepsSession(call[u])
    <3> TAKE u \in Threads \ {t}
    <3>1. PICK c : c = call[u]
      OBVIOUS
    <3> QED BY <3>1, <2>5, <2>6
  <2>8. CallCurrent(d)'
    BY <1>u, <1>i, <2>2, <2>3, <2>5, CurrentKept
  <2> QED BY <1>u, <1>i, <2>2, <2>3, <2>7, <2>8, CallsKept
<1>7. AllOwned'
  <2> SUFFICES ASSUME NEW h \in DOMAIN objects', ~objects'[h].token
               PROVE  \/ objects'[h].owner \in (DOMAIN sessions) \cup cut
                      \/ \E u \in Threads : Destroys(call'[u], objects'[h])
    BY <1>u DEF AllOwned, Owned, IsSessionObject
  <2>2. PICK o : o = objects'[h]
    OBVIOUS
  <2>3. o.owner = objects[h].owner /\ o.slot = objects[h].slot /\ ~objects[h].token
    BY <2>2, <1>u DEF Kin
  <2>4. o.owner \in DOMAIN sessions \cup cut \/ \E u \in Threads : Destroys(call[u], o)
    BY <1>i, <1>u, <2>3 DEF AllOwned, Owned, Destroys, IsSessionObject
  <2>5. ASSUME NEW u \in Threads, Destroys(call[u], o) PROVE Destroys(call'[u], o)
    <3>1. u # t
      BY <2>5, <2>2, <1>u
    <3> QED BY <3>1, <2>5, <1>u, <1>i DEF CallsOK
  <2> QED BY <2>2, <2>4, <2>5
<1> QED BY <1>1, <1>2, <1>3, <1>4, <1>5, <1>6, <1>7 DEF TokenInv

-----------------------------------------------------------------------------
(* Sessions come and go *)

LEMMA OpenKeeps ==
    ASSUME TokenInv, NEW slot \in Slots, NEW rw \in BOOLEAN, C_OpenSession(slot, rw)
    PROVE  TokenInv'
<1>1. PICK login \in LoginStatesForSlot(slot) :
         sessions' = Insert(sessions, nextSession, NewSession(slot, rw, login))
  BY DEF C_OpenSession
<1>u. /\ UNCHANGED <<app, up, disk, dirty, tokens, objects, nextHandle, promised, call, cut>>
      /\ nextSession' = nextSession + 1
  BY DEF C_OpenSession, lifeVars, storeVars
<1>i. LifeOK /\ SessionsOK /\ ObjectsOK /\ OwnersOK /\ CallsOK /\ PromisesOK
      /\ AllOwned /\ LoginUniform /\ TokenObjectsDurable
  BY DEF TokenInv
<1>n. nextSession \in Nat \ {0} /\ nextHandle \in Nat
  BY <1>i DEF LifeOK
<1>m. nextSession' \in Nat \ {0} /\ nextSession < nextSession' /\ nextSession <= nextSession'
      /\ nextHandle <= nextHandle
      /\ \A s \in Nat : s < nextSession => s < nextSession' /\ s # nextSession
  BY <1>n, <1>u, SMT
<1> DEFINE new == NewSession(slot, rw, login)
<1>2. /\ Fields(new, SessionFields) /\ new.slot = slot /\ new.login = login
  BY DEF NewSession, Fields, Fun, SessionFields
<1> HIDE DEF new
<1>3. nextSession \notin DOMAIN sessions
  BY <1>i, <1>m, <1>n DEF SessionsOK
<1>4. /\ DOMAIN sessions' = DOMAIN sessions \cup {nextSession} /\ Fun(sessions')
      /\ sessions'[nextSession] = new
      /\ \A s \in DOMAIN sessions : sessions'[s] = sessions[s]
  <2>1. sessions' = [s \in DOMAIN sessions \cup {nextSession} |->
                       IF s = nextSession THEN new ELSE sessions[s]]
    BY <1>1 DEF new, Insert
  <2> QED BY <2>1, <1>3 DEF Fun
<1>5. LifeOK'
  BY <1>u, <1>i, <1>m DEF LifeOK
<1>6. SessionsOK'
  BY <1>2, <1>4, <1>i, <1>m, <1>n DEF SessionsOK
<1>7. ObjectsOK' /\ PromisesOK' /\ TokenObjectsDurable'
  BY <1>u, <1>i DEF ObjectsOK, PromisesOK, TokenObjectsDurable, Keeps, StoredObjects
<1>8. OwnersOK'
  BY <1>u, <1>i, <1>m, <1>4 DEF OwnersOK, IsSessionObject
<1>9. CallsOK'
  <2>2. SessionFrame
    <3>1. \A s \in DOMAIN sessions' : s < nextSession => s \in DOMAIN sessions
      BY <1>4, <1>n, SMT
    <3> QED BY <3>1, <1>m, <1>4, <1>u DEF SessionFrame
  <2>3. ObjectFrame
    BY <1>n, <1>m, <1>u DEF ObjectFrame, Kin
  <2>4. SameSnapshot
    BY <1>u DEF SameSnapshot, Snapshot, TokenObjects
  <2>5. ASSUME NEW c, CallCurrent(c) PROVE CallCurrent(c)'
    <3>1. KeepsSession(c)
      BY <2>5, <1>u, <1>4 DEF KeepsSession, CallCurrent
    <3> QED BY <3>1, <2>2, <2>3, <2>4, <2>5, <1>i, CurrentKept
  <2>6. ASSUME NEW u \in Threads PROVE CallShape(call'[u]) /\ CallCurrent(call[u])'
    <3>1. PICK c : c = call[u]
      OBVIOUS
    <3> QED BY <3>1, <2>5, <1>u, <1>i DEF CallsOK
  <2> QED BY <2>6, <1>u, <1>i DEF CallsOK
<1>10. AllOwned'
  BY <1>u, <1>i, <1>4 DEF AllOwned, Owned, IsSessionObject
<1>11. LoginUniform'
  <2>1. ASSUME NEW s \in DOMAIN sessions, sessions[s].slot = slot PROVE sessions[s].login = login
    <3>1. s \in OpenSessions(slot)
      BY <2>1 DEF OpenSessions
    <3>2. PICK r \in OpenSessions(slot) : login = sessions[r].login
      BY <3>1, <1>1 DEF LoginStatesForSlot
    <3> QED BY <2>1, <3>2, <1>i DEF LoginUniform, OpenSessions
  <2> QED BY <2>1, <1>2, <1>4, <1>i DEF LoginUniform
<1> QED BY <1>5, <1>6, <1>7, <1>8, <1>9, <1>10, <1>11 DEF TokenInv

\* The sessions Z are closed, and the call destroys what they own.
CloseStep(t, d, Z) ==
    /\ UNCHANGED <<lifeVars, nextSession, tokens, storeVars>>
    /\ Z \subseteq DOMAIN sessions
    /\ sessions' = Restrict(sessions, DOMAIN sessions \ Z)
    /\ cut' = cut \cup (Z \cap InUseByOthers(t))
    /\ call' = [call EXCEPT ![t] = d]
    /\ CallShape(d) /\ d.op \notin SavingOps \cup {"C_WrapKey"} /\ d.at # "save"
    /\ call[t] = Idle /\ up
    /\ \A h \in DOMAIN objects :
          ~objects[h].token /\ objects[h].owner \in Z => Destroys(d, objects[h])

LEMMA CloseKeeps ==
    ASSUME TokenInv, NEW t \in Threads, NEW d, NEW Z, CloseStep(t, d, Z)
    PROVE  TokenInv'
<1>u. /\ UNCHANGED <<app, up, disk, dirty, nextSession, tokens, objects, nextHandle, promised>>
      /\ Z \subseteq DOMAIN sessions
      /\ sessions' = [s \in DOMAIN sessions \ Z |-> sessions[s]]
      /\ cut' = cut \cup (Z \cap InUseByOthers(t))
      /\ call' = [call EXCEPT ![t] = d] /\ call[t] = Idle /\ up
      /\ CallShape(d) /\ d.op \notin SavingOps \cup {"C_WrapKey"} /\ d.at # "save"
      /\ \A h \in DOMAIN objects :
            ~objects[h].token /\ objects[h].owner \in Z => Destroys(d, objects[h])
  BY DEF CloseStep, lifeVars, storeVars, Restrict
<1>i. LifeOK /\ SessionsOK /\ ObjectsOK /\ OwnersOK /\ CallsOK /\ PromisesOK
      /\ AllOwned /\ LoginUniform /\ TokenObjectsDurable
  BY DEF TokenInv
<1>n. nextSession \in Nat \ {0} /\ nextHandle \in Nat
      /\ nextSession <= nextSession /\ nextHandle <= nextHandle
  <2>1. nextSession \in Nat \ {0} /\ nextHandle \in Nat
    BY <1>i DEF LifeOK
  <2> QED BY <2>1, SMT
<1>4. /\ DOMAIN sessions' = DOMAIN sessions \ Z /\ Fun(sessions')
      /\ \A s \in DOMAIN sessions' : s \in DOMAIN sessions /\ sessions'[s] = sessions[s]
  BY <1>u DEF Fun
<1>5. LifeOK'
  BY <1>u, <1>i DEF LifeOK
<1>6. SessionsOK' /\ LoginUniform'
  BY <1>4, <1>u, <1>i DEF SessionsOK, LoginUniform
<1>7. ObjectsOK' /\ PromisesOK' /\ TokenObjectsDurable'
  BY <1>u, <1>i DEF ObjectsOK, PromisesOK, TokenObjectsDurable, Keeps, StoredObjects
<1>8. OwnersOK'
  BY <1>u, <1>i, <1>4 DEF OwnersOK, IsSessionObject
<1>9. CallsOK'
  <2>2. SessionFrame
    BY <1>4, <1>n, <1>u DEF SessionFrame
  <2>3. ObjectFrame
    BY <1>n, <1>u DEF ObjectFrame, Kin
  <2>4. SameSnapshot
    BY <1>u DEF SameSnapshot, Snapshot, TokenObjects
  <2>5. ASSUME NEW u \in Threads \ {t} PROVE KeepsSession(call[u])
    <3> SUFFICES ASSUME call[u].op \in MakingOps PROVE call[u].s \in DOMAIN sessions' \cup cut'
      BY DEF KeepsSession
    <3>1. call[u].s \in DOMAIN sessions \cup cut /\ "s" \in DOMAIN call[u] /\ call[u].op # "Idle"
      BY <1>i DEF CallsOK, CallCurrent, CallShape, MakingOps
    <3>2. call[u].s \in InUseByOthers(t)
      BY <3>1 DEF InUseByOthers
    <3> QED BY <3>1, <3>2, <1>4, <1>u
  <2>6. CallCurrent(d)'
    BY <1>u DEF CallCurrent, SavingOps
  <2> QED BY <1>u, <1>i, <2>2, <2>3, <2>4, <2>5, <2>6, CallsKept
<1>10. AllOwned'
  <2> SUFFICES ASSUME NEW h \in DOMAIN objects, ~objects[h].token
               PROVE  \/ objects[h].owner \in (DOMAIN sessions') \cup cut'
                      \/ \E u \in Threads : Destroys(call'[u], objects[h])
    BY <1>u DEF AllOwned, Owned, IsSessionObject
  <2>2. PICK o : o = objects[h]
    OBVIOUS
  <2>3. o.owner \in DOMAIN sessions \cup cut \/ \E u \in Threads : Destroys(call[u], o)
    BY <1>i, <2>2 DEF AllOwned, Owned, IsSessionObject
  <2>4. ASSUME NEW u \in Threads, Destroys(call[u], o) PROVE Destroys(call'[u], o)
    <3>1. u # t
      <4>1. Idle.op = "Idle"
        BY DEF Idle
      <4> QED BY <4>1, <2>4, <1>u DEF Destroys
    <3> QED BY <3>1, <2>4, <1>u, <1>i DEF CallsOK
  <2>5. CASE o.owner \in Z
    <3>1. call'[t] = d
      BY <1>u, <1>i DEF CallsOK
    <3> QED BY <3>1, <2>2, <2>5, <1>u
  <2> QED BY <2>2, <2>3, <2>4, <2>5, <1>4, <1>u
<1> QED BY <1>5, <1>6, <1>7, <1>8, <1>9, <1>10 DEF TokenInv

-----------------------------------------------------------------------------
(* Objects are made and saved *)

\* What is written of an object.
LEMMA StoredForm ==
    ASSUME NEW o, Fields(o, ObjectFields)
    PROVE  /\ Fields(Stored(o), ObjectFields)
           /\ Stored(o).token = o.token /\ Stored(o).owner = o.owner
           /\ Stored(o).alwaysSensitive = FALSE /\ Stored(o).neverExtractable = FALSE
           /\ Stored(Stored(o)) = Stored(o)
<1> DEFINE reset == {"alwaysSensitive", "neverExtractable", "alwaysAuth", "left"}
           value(f) == IF f = "left" THEN {} ELSE FALSE
<1>1. ASSUME NEW r, Fields(r, ObjectFields)
      PROVE  Stored(r) = [f \in DOMAIN r |-> IF f \in reset THEN value(f) ELSE r[f]]
  BY <1>1 DEF Stored, Fields, Fun, ObjectFields
<1>2. Stored(o) = [f \in DOMAIN o |-> IF f \in reset THEN value(f) ELSE o[f]]
  BY <1>1
<1>3. Fields(Stored(o), ObjectFields)
  BY <1>2 DEF Fields, Fun
<1>4. Stored(Stored(o)) = [f \in DOMAIN o |-> IF f \in reset THEN value(f) ELSE Stored(o)[f]]
  BY <1>1, <1>2, <1>3
<1>5. Stored(Stored(o)) = Stored(o)
  BY <1>2, <1>4
<1>6. ObjectFields \subseteq DOMAIN o
  BY DEF Fields
<1> QED BY <1>2, <1>3, <1>5, <1>6 DEF ObjectFields

LEMMA StoredOK ==
    ASSUME NEW o, ObjectOK(o)
    PROVE  /\ ObjectOK(Stored(o)) /\ Stored(o).token = o.token /\ Stored(o).owner = o.owner
           /\ Stored(Stored(o)) = Stored(o)
<1>1. Fields(o, ObjectFields)
  BY DEF ObjectOK
<1>2. Honest(Stored(o))
  BY <1>1, StoredForm DEF Honest
<1> QED BY <1>1, <1>2, StoredForm DEF ObjectOK

LEMMA SnapshotForm ==
    /\ Snapshot.objects = [h \in {k \in DOMAIN objects : objects[k].token} |-> Stored(objects[h])]
    /\ Snapshot.tokens = tokens /\ Snapshot.nextHandle = nextHandle
<1>1. DOMAIN TokenObjects(objects) = {k \in DOMAIN objects : objects[k].token}
  BY DEF TokenObjects, Restrict
<1> QED BY <1>1 DEF Snapshot

LEMMA SnapshotOK ==
    ASSUME LifeOK, ObjectsOK
    PROVE  FileOK(Snapshot)
<1>1. PICK S : S = Snapshot
  OBVIOUS
<1>2. S.objects = [h \in {k \in DOMAIN objects : objects[k].token} |-> Stored(objects[h])]
  BY <1>1, SnapshotForm
<1>3. S.tokens = tokens /\ S.nextHandle = nextHandle
  BY <1>1, SnapshotForm
<1>4. Fun(S.objects)
  BY <1>2 DEF Fun
<1>5. ASSUME NEW h \in DOMAIN S.objects
      PROVE  /\ h \in Nat /\ h < nextHandle /\ ObjectOK(S.objects[h]) /\ S.objects[h].token
             /\ S.objects[h].owner = NoSession /\ Stored(S.objects[h]) = S.objects[h]
  <2>1. h \in DOMAIN objects /\ objects[h].token /\ S.objects[h] = Stored(objects[h])
    BY <1>2
  <2>2. h \in Nat /\ h < nextHandle /\ ObjectOK(objects[h]) /\ objects[h].owner = NoSession
    BY <2>1 DEF ObjectsOK
  <2>3. PICK o : o = objects[h]
    OBVIOUS
  <2> QED BY <2>1, <2>2, <2>3, StoredOK
<1>6. S # NoFile
  <2>1. DOMAIN Snapshot = {"objects", "tokens", "nextHandle"} /\ DOMAIN NoFile = {"none"}
    BY DEF Snapshot, NoFile
  <2> QED BY <2>1, <1>1
<1> QED BY <1>1, <1>3, <1>4, <1>5, <1>6 DEF FileOK, LifeOK

LEMMA SnapshotKeeps ==
    ASSUME TokenInv, NEW t \in Threads, PersistSnapshot(t)
    PROVE  TokenInv'
<1>1. PICK c : c = call[t]
  OBVIOUS
<1>2. PICK S : S = Snapshot
  OBVIOUS
<1>3. PICK d : d = [c EXCEPT !.at = "save", !.snap = S]
  OBVIOUS
<1>4. c.op # "Idle" /\ c.at = "snapshot" /\ call' = [call EXCEPT ![t].at = "save", ![t].snap = S]
  BY <1>1, <1>2 DEF PersistSnapshot
<1>5. CallShape(c) /\ CallCurrent(c) /\ call = [u \in Threads |-> call[u]]
  BY <1>1 DEF TokenInv, CallsOK
<1>6. call' = [call EXCEPT ![t] = d]
  BY <1>1, <1>3, <1>4, <1>5
<1>7. c.op \in SavingOps /\ {"op", "at", "tells", "snap", "after"} \subseteq DOMAIN c /\ Fun(c)
  BY <1>4, <1>5 DEF CallShape, Fields
<1>8. /\ Fun(d) /\ DOMAIN d = DOMAIN c /\ d.at = "save" /\ d.snap = S
      /\ \A f \in DOMAIN c : f \notin {"at", "snap"} => d[f] = c[f]
  BY <1>3, <1>7 DEF Fun
<1>9. d.op = c.op /\ d.tells = c.tells /\ d.after = c.after
  BY <1>7, <1>8
<1>10. ASSUME c.op \in MakingOps PROVE {"s", "todo"} \subseteq DOMAIN c /\ d.s = c.s /\ d.todo = c.todo
  <2>1. {"s", "todo"} \subseteq DOMAIN c
    BY <1>5, <1>10 DEF CallShape
  <2> QED BY <2>1, <1>8
<1>11. CallShape(d)
  BY <1>4, <1>5, <1>7, <1>8, <1>9, <1>10 DEF CallShape, Fields, SavingOps, MakingOps
<1>12. CallCurrent(d)
  <2>1. FileOK(S)
    BY <1>2, SnapshotOK DEF TokenInv
  <2> QED BY <2>1, <1>2, <1>5, <1>8, <1>9, <1>10 DEF CallCurrent
<1>13. QuietStep(t, d)
  <2>1. UNCHANGED <<lifeVars, sessionVars, tokens, storeVars>>
    BY DEF PersistSnapshot
  <2>2. SameSessions /\ LoginUniform' /\ TokensOK(tokens')
    BY <2>1 DEF sessionVars, SameSessions, TokenInv, SessionsOK, LoginUniform, LifeOK
  <2>3. ~Closing(call[t])
    BY <1>1, <1>4 DEF Closing
  <2> QED BY <2>1, <2>2, <2>3, <1>6, <1>11, <1>12 DEF QuietStep, sessionVars
<1> QED BY <1>13, QuietKeeps

\* Storing the first of the objects a call makes leaves the others.
LEMMA TodoStep ==
    ASSUME NEW todo, TodoOK(todo), todo # <<>>
    PROVE  /\ 1 \in DOMAIN todo /\ Head(todo) = todo[1] /\ ObjectOK(Head(todo))
           /\ TodoOK(Tail(todo))
           /\ \A i \in DOMAIN Tail(todo) : \E j \in DOMAIN todo : Tail(todo)[i] = todo[j]
           /\ Len(todo) > 1 => Tail(todo) # <<>>
<1>1. ASSUME NEW a, todo = <<a>>
      PROVE  /\ 1 \in DOMAIN todo /\ Head(todo) = todo[1] /\ Tail(todo) = <<>>
             /\ ~(Len(todo) > 1)
  BY <1>1, SMT
<1>2. ASSUME NEW a, NEW b, todo = <<a, b>>
      PROVE  /\ 1 \in DOMAIN todo /\ 2 \in DOMAIN todo /\ Head(todo) = todo[1]
             /\ Tail(todo) = <<b>> /\ todo[2] = b
  BY <1>2, SMT
<1>3. ASSUME NEW b PROVE DOMAIN <<b>> = {1} /\ <<b>>[1] = b /\ <<b>> # <<>>
  BY SMT
<1>4. DOMAIN << >> = {}
  BY SMT
<1>5. CASE todo = <<todo[1]>>
  <2>1. PICK a : a = todo[1]
    OBVIOUS
  <2>2. /\ 1 \in DOMAIN todo /\ Head(todo) = todo[1] /\ Tail(todo) = <<>> /\ ~(Len(todo) > 1)
    BY <1>1, <1>5, <2>1
  <2> QED BY <2>2, <1>4 DEF TodoOK
<1>6. CASE todo = <<todo[1], todo[2]>>
  <2>1. PICK a, b : a = todo[1] /\ b = todo[2]
    OBVIOUS
  <2>2. todo = <<a, b>>
    BY <1>6, <2>1
  <2>3. /\ 1 \in DOMAIN todo /\ 2 \in DOMAIN todo /\ Head(todo) = todo[1]
        /\ Tail(todo) = <<b>> /\ todo[2] = b
    BY <1>2, <2>2
  <2>4. TodoOK(<<b>>)
    BY <2>3, <1>3 DEF TodoOK
  <2> QED BY <2>3, <2>4, <1>3 DEF TodoOK
<1> QED BY <1>5, <1>6 DEF TodoOK

\* What a call becomes when it has stored an object.
NextMaking(c) ==
    IF Len(c.todo) > 1 THEN "store" ELSE IF c.base # NoBase THEN "burn" ELSE "return"

AfterStoring(c, h, token) ==
    LET rest == [c EXCEPT !.todo = Tail(@)]
    IN IF token THEN [rest EXCEPT !.at = "snapshot", !.tells = {h}, !.after = NextMaking(c)]
       ELSE IF NextMaking(c) = "return" THEN Idle
       ELSE [rest EXCEPT !.at = NextMaking(c)]

MadeFrom(d, c, h, token) ==
    /\ CallShape(d) /\ (d.op = "Idle" \/ d.at \in {"snapshot", "store", "burn"})
    /\ d.op # "Idle" =>
          /\ d.op = c.op /\ d.s = c.s /\ d.todo = Tail(c.todo)
          /\ d.tells = IF token THEN {h} ELSE c.tells

LEMMA MakingStep ==
    ASSUME NEW c, CallShape(c), c.op # "Idle", c.at = "store", NEW h, NEW token, NEW d,
           d = AfterStoring(c, h, token)
    PROVE  MadeFrom(d, c, h, token)
<1> DEFINE next == NextMaking(c)
<1>1. /\ c.op \in MakingOps /\ c.op \in SavingOps /\ TodoOK(c.todo) /\ c.todo # <<>>
      /\ {"op", "at", "s", "todo", "tells", "snap", "after"} \subseteq DOMAIN c /\ Fun(c)
      /\ c.after \in {"return", "persist", "clear", "store", "burn"}
  BY DEF CallShape, Fields, SavingOps
<1>2. TodoOK(Tail(c.todo)) /\ (Len(c.todo) > 1 => Tail(c.todo) # <<>>)
  BY <1>1, TodoStep
<1>3. next \in {"store", "burn", "return"} /\ (next = "store" => Tail(c.todo) # <<>>)
  BY <1>2 DEF NextMaking
<1>4. PICK r : r = [c EXCEPT !.todo = Tail(c.todo)]
  OBVIOUS
<1>5. /\ Fun(r) /\ DOMAIN r = DOMAIN c /\ r.todo = Tail(c.todo)
      /\ r.op = c.op /\ r.at = c.at /\ r.s = c.s /\ r.tells = c.tells /\ r.after = c.after
  BY <1>1, <1>4 DEF Fun
<1>6. ASSUME NEW e, Fun(e), DOMAIN e = DOMAIN c, e.op = c.op, e.todo = Tail(c.todo),
             e.after \in {"return", "persist", "clear", "store", "burn"},
             \/ e.at = "snapshot" /\ (e.after = "store" => Tail(c.todo) # <<>>)
             \/ e.at = "store" /\ Tail(c.todo) # <<>>
             \/ e.at = "burn"
      PROVE  CallShape(e)
  BY <1>1, <1>2, <1>6 DEF CallShape, Fields, MakingOps, SavingOps
<1>7. CASE token
  <2>a. d = [r EXCEPT !.at = "snapshot", !.tells = {h}, !.after = next]
    BY <1>4, <1>7 DEF AfterStoring
  <2>1. d = [f \in DOMAIN c |-> IF f = "after" THEN next ELSE IF f = "tells" THEN {h}
                               ELSE IF f = "at" THEN "snapshot" ELSE r[f]]
    BY <2>a, <1>5 DEF Fun
  <2>2. /\ Fun(d) /\ DOMAIN d = DOMAIN c /\ d.at = "snapshot" /\ d.tells = {h} /\ d.after = next
        /\ d.op = c.op /\ d.s = c.s /\ d.todo = Tail(c.todo)
    BY <2>1, <1>1, <1>5 DEF Fun
  <2>3. CallShape(d)
    BY <2>2, <1>3, <1>6
  <2> QED BY <2>2, <2>3, <1>7 DEF MadeFrom
<1>8. CASE ~token /\ next = "return"
  <2>1. d = Idle
    BY <1>8 DEF AfterStoring
  <2>2. CallShape(Idle) /\ Idle.op = "Idle"
    BY DEF Idle, CallShape, Fields, Fun, SavingOps, MakingOps
  <2> QED BY <2>1, <2>2 DEF MadeFrom
<1>9. CASE ~token /\ next # "return"
  <2>1. d = [r EXCEPT !.at = next]
    BY <1>4, <1>9 DEF AfterStoring
  <2>2. /\ Fun(d) /\ DOMAIN d = DOMAIN c /\ d.at = next /\ d.tells = c.tells /\ d.after = c.after
        /\ d.op = c.op /\ d.s = c.s /\ d.todo = Tail(c.todo)
    BY <2>1, <1>1, <1>5 DEF Fun
  <2>3. CallShape(d)
    BY <2>2, <1>1, <1>3, <1>6, <1>9
  <2> QED BY <2>2, <2>3, <1>3, <1>9 DEF MadeFrom
<1> QED BY <1>7, <1>8, <1>9

LEMMA StoreObjectKeeps ==
    ASSUME TokenInv, NEW t \in Threads, StoreObject(t)
    PROVE  TokenInv'
<1>1. PICK c : c = call[t]
  OBVIOUS
<1>2. PICK h : h = nextHandle
  OBVIOUS
<1>3. PICK obj : obj = [Head(c.todo) EXCEPT !.owner = IF Head(c.todo).token THEN NoSession ELSE c.s]
  OBVIOUS
<1>4. PICK token : token = obj.token
  OBVIOUS
<1>5. PICK d : d = AfterStoring(c, h, token)
  OBVIOUS
<1>u. /\ c.op # "Idle" /\ c.at = "store" /\ ~StoreLocked
      /\ objects' = Insert(objects, h, obj) /\ nextHandle' = h + 1
      /\ call' = [call EXCEPT ![t] = d]
      /\ UNCHANGED <<app, up, disk, dirty, sessions, nextSession, cut, tokens, promised>>
  BY <1>1, <1>2, <1>3, <1>4, <1>5 DEF StoreObject, lifeVars, sessionVars, AfterStoring, NextMaking
<1>i. LifeOK /\ SessionsOK /\ ObjectsOK /\ OwnersOK /\ CallsOK /\ PromisesOK
      /\ AllOwned /\ LoginUniform /\ TokenObjectsDurable
  BY DEF TokenInv
<1>c. CallShape(c) /\ CallCurrent(c)
  BY <1>1, <1>i DEF CallsOK
<1>n. nextSession \in Nat /\ h \in Nat /\ nextHandle' \in Nat /\ nextHandle <= nextHandle'
      /\ h < nextHandle' /\ nextSession <= nextSession
      /\ \A k \in Nat : k < nextHandle => k < nextHandle' /\ k # h
  <2>1. nextSession \in Nat /\ nextHandle \in Nat
    BY <1>i DEF LifeOK
  <2> QED BY <2>1, <1>2, <1>u, SMT
<1>6. /\ c.op \in MakingOps /\ TodoOK(c.todo) /\ c.todo # <<>>
      /\ c.s \in Nat /\ c.s < nextSession /\ c.s \in DOMAIN sessions \cup cut
      /\ c.s \in DOMAIN sessions => \A i \in DOMAIN c.todo : c.todo[i].slot = sessions[c.s].slot
  BY <1>c, <1>u DEF CallShape, CallCurrent
<1>7. /\ 1 \in DOMAIN c.todo /\ Head(c.todo) = c.todo[1] /\ ObjectOK(Head(c.todo))
      /\ \A i \in DOMAIN Tail(c.todo) : \E j \in DOMAIN c.todo : Tail(c.todo)[i] = c.todo[j]
  BY <1>6, TodoStep
<1>8. PICK first : first = Head(c.todo)
  OBVIOUS
<1>9. /\ Fields(obj, ObjectFields)
      /\ obj.owner = IF first.token THEN NoSession ELSE c.s
      /\ \A f \in ObjectFields : f # "owner" => obj[f] = first[f]
  BY <1>3, <1>7, <1>8 DEF ObjectOK, Fields, Fun, ObjectFields
<1>10. /\ ObjectOK(obj) /\ obj.token = first.token
       /\ obj.token => obj.owner = NoSession
       /\ ~obj.token =>
             /\ obj.owner \in Nat /\ obj.owner < nextSession /\ obj.owner \in DOMAIN sessions \cup cut
             /\ obj.owner \in DOMAIN sessions => obj.slot = sessions[obj.owner].slot
  <2>1. /\ obj.token = first.token /\ obj.slot = first.slot /\ obj.derived = first.derived
        /\ obj.alwaysSensitive = first.alwaysSensitive /\ obj.sensitive = first.sensitive
        /\ obj.left = first.left /\ obj.type = first.type
        /\ obj.neverExtractable = first.neverExtractable /\ obj.extractable = first.extractable
    BY <1>9 DEF ObjectFields
  <2>2. Honest(obj)
    BY <2>1, <1>7, <1>8 DEF ObjectOK, Honest
  <2>3. c.s \in DOMAIN sessions => first.slot = sessions[c.s].slot
    BY <1>6, <1>7, <1>8
  <2> QED BY <2>1, <2>2, <2>3, <1>6, <1>9 DEF ObjectOK
<1>11. h \notin DOMAIN objects
  BY <1>i, <1>n, <1>2 DEF ObjectsOK
<1>12. /\ DOMAIN objects' = DOMAIN objects \cup {h} /\ Fun(objects') /\ objects'[h] = obj
       /\ \A k \in DOMAIN objects : objects'[k] = objects[k]
  BY <1>u, <1>11 DEF Insert, Fun
<1>13. LifeOK' /\ SessionsOK' /\ LoginUniform'
  BY <1>u, <1>i, <1>n DEF LifeOK, SessionsOK, LoginUniform
<1>14. ObjectsOK'
  BY <1>12, <1>10, <1>i, <1>n DEF ObjectsOK
<1>15. OwnersOK'
  BY <1>12, <1>10, <1>i, <1>u DEF OwnersOK, IsSessionObject
<1>16. TokenObjectsDurable'
  BY <1>12, <1>11, <1>i, <1>u DEF TokenObjectsDurable, Keeps, StoredObjects
<1>17. PromisesOK'
  <2>1. ASSUME up PROVE DOMAIN promised \subseteq DOMAIN objects
    BY <2>1, <1>i DEF TokenObjectsDurable, Keeps
  <2>2. ASSUME up, NEW k \in DOMAIN promised \cap DOMAIN objects' PROVE objects'[k].token
    BY <2>1, <2>2, <1>12, <1>i DEF PromisesOK
  <2> QED BY <2>2, <1>u, <1>i DEF PromisesOK
<1>18. CallsOK'
  <2>1. SessionFrame
    BY <1>n, <1>u DEF SessionFrame
  <2>2. ObjectFrame
    <3>1. ASSUME NEW k \in DOMAIN objects', k < nextHandle PROVE k \in DOMAIN objects
      <4>1. k # h
        BY <3>1, <1>n, <1>2, SMT
      <4> QED BY <4>1, <3>1, <1>12
    <3> QED BY <3>1, <1>12, <1>n DEF ObjectFrame, Kin
  <2>3. ASSUME NEW e, CallCurrent(e) PROVE KeepsSession(e)
    BY <2>3, <1>u DEF KeepsSession, CallCurrent
  <2>4. CallCurrent(c)'
    BY <2>1, <2>2, <2>3, <1>c, <1>i, <1>u, CurrentKept
  <2>5. /\ CallShape(d) /\ (d.op = "Idle" \/ d.at \in {"snapshot", "store", "burn"})
        /\ d.op # "Idle" =>
              /\ d.op = c.op /\ d.s = c.s /\ d.todo = Tail(c.todo)
              /\ d.tells = IF obj.token THEN {h} ELSE c.tells
    <3>1. CallShape(c) /\ c.op # "Idle" /\ c.at = "store"
      BY <1>c, <1>u
    <3>2. MadeFrom(d, c, h, token)
      BY <1>5, <3>1, MakingStep
    <3> QED BY <1>4, <3>2 DEF MadeFrom
  <2>6. CallCurrent(d)'
    <3>1. CASE d.op = "Idle"
      BY <3>1 DEF CallCurrent, MakingOps, SavingOps
    <3>2. CASE d.op # "Idle"
      <4>1. /\ d.op = c.op /\ d.s = c.s /\ d.todo = Tail(c.todo) /\ d.at # "save" /\ d.at # "wrap"
            /\ d.tells = IF obj.token THEN {h} ELSE c.tells
        BY <2>5, <3>2
      <4>2. \A k \in d.tells : k \in Nat /\ k < nextHandle' /\ (k \in DOMAIN objects' => objects'[k].token)
        <5>1. CASE obj.token
          BY <5>1, <4>1, <1>n, <1>12
        <5>2. CASE ~obj.token
          BY <5>2, <4>1, <2>4, <1>6 DEF CallCurrent, SavingOps
        <5> QED BY <5>1, <5>2
      <4>3. c.s \in DOMAIN sessions' =>
               \A i \in DOMAIN Tail(c.todo) : Tail(c.todo)[i].slot = sessions'[c.s].slot
        BY <1>6, <1>7, <1>u
      <4>4. c.s \in Nat /\ c.s < nextSession' /\ c.s \in DOMAIN sessions' \cup cut'
        BY <1>6, <1>u
      <4>5. d.op # "C_WrapKey"
        BY <4>1, <1>6 DEF MakingOps
      <4>6. up'
        BY <1>c, <1>u DEF CallCurrent
      <4> QED BY <4>1, <4>2, <4>3, <4>4, <4>5, <4>6 DEF CallCurrent
    <3> QED BY <3>1, <3>2
  <2>7. \A u \in Threads \ {t} : KeepsSession(call[u])
    <3> TAKE u \in Threads \ {t}
    <3>1. PICK e : e = call[u]
      OBVIOUS
    <3>2. CallCurrent(e)
      BY <3>1, <1>i DEF CallsOK
    <3> QED BY <3>1, <3>2, <2>3
  <2> QED BY <1>u, <1>i, <2>1, <2>2, <2>5, <2>6, <2>7, CallsKept
<1>19. AllOwned'
  <2>1. ASSUME NEW u \in Threads, NEW o, Destroys(call[u], o) PROVE Destroys(call'[u], o)
    <3>1. u # t
      BY <2>1, <1>1, <1>u DEF Destroys
    <3> QED BY <3>1, <2>1, <1>u, <1>i DEF CallsOK
  <2> SUFFICES ASSUME NEW k \in DOMAIN objects', ~objects'[k].token
               PROVE  \/ objects'[k].owner \in (DOMAIN sessions) \cup cut
                      \/ \E u \in Threads : Destroys(call'[u], objects'[k])
    BY <1>u DEF AllOwned, Owned, IsSessionObject
  <2>2. CASE k = h
    BY <2>2, <1>10, <1>12
  <2>3. CASE k # h
    <3>1. k \in DOMAIN objects
      BY <2>3, <1>12
    <3>2. PICK o : o = objects[k]
      OBVIOUS
    <3>3. objects'[k] = o
      BY <3>1, <3>2, <1>12
    <3>4. o.owner \in DOMAIN sessions \cup cut \/ \E u \in Threads : Destroys(call[u], o)
      BY <1>i, <3>1, <3>2, <3>3 DEF AllOwned, Owned, IsSessionObject
    <3> QED BY <2>1, <3>3, <3>4
  <2> QED BY <2>2, <2>3
<1> QED BY <1>13, <1>14, <1>15, <1>16, <1>17, <1>18, <1>19 DEF TokenInv

\* What a call becomes when its save is over.
AfterSaving(c) ==
    IF c.after = "return" THEN Idle
    ELSE IF c.after = "persist" THEN [c EXCEPT !.at = "snapshot", !.after = "return"]
    ELSE [c EXCEPT !.at = c.after]

GoesOn(d, c) ==
    /\ CallShape(d) /\ (d.op = "Idle" \/ d.at \notin {"save", "wrap"})
    /\ d.op # "Idle" => d.op = c.op
    /\ d.op \in SavingOps => d.tells = c.tells
    /\ d.op \in MakingOps => d.s = c.s /\ d.todo = c.todo

LEMMA IdleShape == CallShape(Idle) /\ Idle.op = "Idle" /\ CallCurrent(Idle)
<1>1. Idle.op = "Idle"
  BY DEF Idle
<1>2. CallShape(Idle)
  BY DEF Idle, CallShape, Fields, Fun, SavingOps, MakingOps
<1> QED BY <1>1, <1>2 DEF CallCurrent, SavingOps, MakingOps

LEMMA SavingStep ==
    ASSUME NEW c, CallShape(c), c.op # "Idle", c.at = "save", NEW d, d = AfterSaving(c)
    PROVE  GoesOn(d, c)
<1>1. /\ c.op \in SavingOps /\ {"op", "at", "tells", "snap", "after"} \subseteq DOMAIN c /\ Fun(c)
      /\ c.after \in {"return", "persist", "clear", "store", "burn"}
      /\ c.after = "store" => c.op \in MakingOps
      /\ c.op \in MakingOps => {"s", "todo"} \subseteq DOMAIN c /\ TodoOK(c.todo)
      /\ c.op \in MakingOps /\ c.after = "store" => c.todo # <<>>
  BY DEF CallShape, Fields
<1>2. CASE c.after = "return"
  <2>1. d = Idle
    BY <1>2 DEF AfterSaving
  <2> QED BY <2>1, IdleShape DEF GoesOn, SavingOps, MakingOps
<1>3. CASE c.after = "persist"
  <2>1. d = [c EXCEPT !.at = "snapshot", !.after = "return"]
    BY <1>3 DEF AfterSaving
  <2>2. /\ Fun(d) /\ DOMAIN d = DOMAIN c /\ d.at = "snapshot" /\ d.after = "return"
        /\ \A f \in DOMAIN c : f \notin {"at", "after"} => d[f] = c[f]
    BY <2>1, <1>1 DEF Fun
  <2>3. d.op = c.op /\ d.tells = c.tells
        /\ (c.op \in MakingOps => d.s = c.s /\ d.todo = c.todo)
    BY <2>2, <1>1
  <2>4. CallShape(d)
    BY <2>2, <2>3, <1>1 DEF CallShape, Fields, SavingOps, MakingOps
  <2> QED BY <2>2, <2>3, <2>4, <1>1 DEF GoesOn
<1>4. CASE c.after \in {"clear", "store", "burn"}
  <2>1. d = [c EXCEPT !.at = c.after]
    BY <1>4 DEF AfterSaving
  <2>2. /\ Fun(d) /\ DOMAIN d = DOMAIN c /\ d.at = c.after
        /\ \A f \in DOMAIN c : f # "at" => d[f] = c[f]
    BY <2>1, <1>1 DEF Fun
  <2>3. d.op = c.op /\ d.tells = c.tells /\ d.after = c.after
        /\ (c.op \in MakingOps => d.s = c.s /\ d.todo = c.todo)
    BY <2>2, <1>1
  <2>4. CallShape(d)
    BY <2>2, <2>3, <1>1, <1>4 DEF CallShape, Fields, SavingOps, MakingOps
  <2> QED BY <2>2, <2>3, <2>4, <1>1, <1>4 DEF GoesOn
<1> QED BY <1>1, <1>2, <1>3, <1>4

\* A call that goes on knows what it knew.
LEMMA GoesOnCurrent ==
    ASSUME NEW c, NEW d, CallCurrent(c), GoesOn(d, c), c.op # "Idle"
    PROVE  CallCurrent(d)
<1>1. CASE d.op = "Idle"
  BY <1>1 DEF CallCurrent, SavingOps, MakingOps
<1>2. CASE d.op # "Idle"
  <2>1. /\ d.op = c.op /\ d.at \notin {"save", "wrap"}
        /\ (d.op \in SavingOps => d.tells = c.tells)
        /\ (d.op \in MakingOps => d.s = c.s /\ d.todo = c.todo)
    BY <1>2 DEF GoesOn
  <2> QED BY <2>1, <1>2 DEF CallCurrent
<1> QED BY <1>1, <1>2

\* A save, successful or not, keeps the promises: what it writes is the store as it is.
LEMMA SaveKeeps ==
    ASSUME TokenInv, NEW t \in Threads, PersistSave(t)
    PROVE  TokenInv'
<1>1. PICK c : c = call[t]
  OBVIOUS
<1>2. PICK d : d = AfterSaving(c)
  OBVIOUS
<1>3. PICK told : told = DOMAIN promised \cup (c.tells \cap DOMAIN objects)
  OBVIOUS
<1>i. LifeOK /\ SessionsOK /\ ObjectsOK /\ OwnersOK /\ CallsOK /\ PromisesOK
      /\ AllOwned /\ LoginUniform /\ TokenObjectsDurable
  BY DEF TokenInv
<1>u. /\ c.op # "Idle" /\ c.at = "save"
      /\ \/ disk' = c.snap /\ dirty' = FALSE
         \/ dirty' = (dirty \/ StoredObjects # Snapshot.objects) /\ disk' = disk
      /\ promised' = [h \in told |-> Stored(objects[h])]
      /\ UNCHANGED <<app, up, sessions, nextSession, cut, tokens, objects, nextHandle>>
  BY <1>1, <1>3 DEF PersistSave, sessionVars
<1>4. call' = [call EXCEPT ![t] = d]
  <2>1. AfterSave(t) /\ call = [u \in Threads |-> call[u]]
    BY <1>i DEF PersistSave, CallsOK
  <2>2. CASE c.after = "return"
    BY <2>1, <2>2, <1>1, <1>2 DEF AfterSave, AfterSaving, Return
  <2>3. CASE c.after # "return" /\ c.after = "persist"
    <3>1. call' = [call EXCEPT ![t].at = "snapshot", ![t].after = "return"]
      BY <2>1, <2>3, <1>1 DEF AfterSave
    <3>2. d = [c EXCEPT !.at = "snapshot", !.after = "return"]
      BY <2>3, <1>2 DEF AfterSaving
    <3> QED BY <3>1, <3>2, <2>1, <1>1
  <2>4. CASE c.after # "return" /\ c.after # "persist"
    BY <2>1, <2>4, <1>1, <1>2 DEF AfterSave, AfterSaving, Goto
  <2> QED BY <2>2, <2>3, <2>4
<1>c. CallShape(c) /\ CallCurrent(c)
  BY <1>1, <1>i DEF CallsOK
<1>5. /\ c.op \in SavingOps /\ up /\ FileOK(c.snap) /\ c.snap.objects = Snapshot.objects
      /\ \A h \in c.tells \cap DOMAIN objects : objects[h].token
  BY <1>c, <1>u DEF CallShape, CallCurrent
<1>6. ASSUME NEW h \in told
      PROVE  /\ h \in DOMAIN objects /\ objects[h].token /\ promised'[h] = Stored(objects[h])
             /\ h \in DOMAIN Snapshot.objects /\ Snapshot.objects[h] = Stored(objects[h])
             /\ Stored(Stored(objects[h])) = Stored(objects[h])
  <2>2. h \in DOMAIN objects /\ objects[h].token
    BY <1>3, <1>5, <1>6, <1>i DEF TokenObjectsDurable, Keeps, PromisesOK
  <2>3. h \in DOMAIN Snapshot.objects /\ Snapshot.objects[h] = Stored(objects[h])
    BY <2>2, SnapshotForm
  <2>4. PICK o : o = objects[h]
    OBVIOUS
  <2>5. ObjectOK(o)
    BY <2>2, <2>4, <1>i DEF ObjectsOK
  <2> QED BY <2>2, <2>3, <2>4, <2>5, <1>u, StoredOK
<1>7. ASSUME ~dirty' PROVE StoredObjects' = Snapshot.objects
  <2>1. CASE disk' = c.snap
    <3>1. disk' # NoFile /\ disk'.objects = Snapshot.objects
      BY <2>1, <1>5 DEF FileOK
    <3> QED BY <3>1 DEF StoredObjects
  <2>2. CASE dirty' = (dirty \/ StoredObjects # Snapshot.objects) /\ disk' = disk
    <3>1. StoredObjects = Snapshot.objects
      BY <2>2, <1>7
    <3> QED BY <3>1, <2>2 DEF StoredObjects
  <2> QED BY <2>1, <2>2, <1>u
<1>8. TokenObjectsDurable'
  <2>1. DOMAIN promised' = told
    BY <1>u
  <2>2. \A h \in told : h \in DOMAIN objects' /\ Stored(objects'[h]) = promised'[h]
    BY <1>6, <1>u
  <2>3. ASSUME ~dirty', NEW h \in told
        PROVE  h \in DOMAIN StoredObjects' /\ Stored(StoredObjects'[h]) = promised'[h]
    BY <2>3, <1>6, <1>7
  <2> QED BY <2>1, <2>2, <2>3 DEF TokenObjectsDurable, Keeps
<1>9. PromisesOK'
  <2>1. Fun(promised') /\ DOMAIN promised' = told
    BY <1>u DEF Fun
  <2> QED BY <2>1, <1>6, <1>u DEF PromisesOK
<1>10. LifeOK'
  <2>1. dirty' \in BOOLEAN
    BY <1>u, <1>i DEF LifeOK
  <2>2. disk' # NoFile => FileOK(disk')
    BY <1>u, <1>5, <1>i DEF LifeOK
  <2> QED BY <2>1, <2>2, <1>5, <1>u, <1>i DEF LifeOK
<1>11. SessionsOK' /\ ObjectsOK' /\ OwnersOK' /\ LoginUniform'
  BY <1>u, <1>i DEF SessionsOK, ObjectsOK, OwnersOK, LoginUniform
<1>12. GoesOn(d, c)
  BY <1>2, <1>c, <1>u, SavingStep
<1>13. CallsOK'
  <2>0. nextSession \in Nat /\ nextHandle \in Nat
    BY <1>i DEF LifeOK
  <2>1. nextSession' \in Nat /\ nextSession <= nextSession' /\ nextHandle' \in Nat /\ nextHandle <= nextHandle'
    BY <2>0, <1>u, SMT
  <2>2. SessionFrame
    BY <2>1, <1>u DEF SessionFrame
  <2>3. ObjectFrame
    BY <2>1, <1>u DEF ObjectFrame, Kin
  <2>4. SameSnapshot
    BY <1>u DEF SameSnapshot, Snapshot, TokenObjects
  <2>5. ASSUME NEW e, CallCurrent(e) PROVE KeepsSession(e)
    BY <2>5, <1>u DEF KeepsSession, CallCurrent
  <2>6. \A u \in Threads \ {t} : KeepsSession(call[u])
    <3> TAKE u \in Threads \ {t}
    <3>1. PICK e : e = call[u]
      OBVIOUS
    <3>2. CallCurrent(e)
      BY <3>1, <1>i DEF CallsOK
    <3> QED BY <3>1, <3>2, <2>5
  <2>7. CallShape(d) /\ CallCurrent(d)
    <3>1. CallCurrent(d)
      BY <1>12, <1>c, <1>u, GoesOnCurrent
    <3> QED BY <3>1, <1>12 DEF GoesOn
  <2>8. CallCurrent(d)'
    BY <2>2, <2>3, <2>4, <2>5, <2>7, <1>i, CurrentKept
  <2> QED BY <1>4, <1>i, <2>2, <2>3, <2>4, <2>6, <2>7, <2>8, CallsKept
<1>14. AllOwned'
  <2>1. ASSUME NEW u \in Threads, NEW o, Destroys(call[u], o) PROVE Destroys(call'[u], o)
    <3>1. u # t
      BY <2>1, <1>1, <1>u DEF Destroys
    <3> QED BY <3>1, <2>1, <1>4, <1>i DEF CallsOK
  <2> SUFFICES ASSUME NEW h \in DOMAIN objects, ~objects[h].token
               PROVE  \/ objects[h].owner \in (DOMAIN sessions) \cup cut
                      \/ \E u \in Threads : Destroys(call'[u], objects[h])
    BY <1>u DEF AllOwned, Owned, IsSessionObject
  <2>2. PICK o : o = objects[h]
    OBVIOUS
  <2>3. o.owner \in DOMAIN sessions \cup cut \/ \E u \in Threads : Destroys(call[u], o)
    BY <1>i, <2>2 DEF AllOwned, Owned, IsSessionObject
  <2> QED BY <2>1, <2>2, <2>3
<1> QED BY <1>8, <1>9, <1>10, <1>11, <1>13, <1>14 DEF TokenInv

-----------------------------------------------------------------------------
(* The library starts and ends *)

\* The counter read from a file passes the handles in it.
LEMMA RestoredAbove ==
    ASSUME LifeOK
    PROVE  /\ RestoredHandle \in Nat
           /\ \A h \in DOMAIN StoredObjects : h < RestoredHandle
<1>1. CASE disk = NoFile
  <2>1. RestoredHandle = nextHandle /\ StoredObjects = Empty
    BY <1>1 DEF RestoredHandle, StoredObjects
  <2>2. DOMAIN Empty = {}
    BY DEF Empty
  <2> QED BY <2>1, <2>2 DEF LifeOK
<1>2. CASE disk # NoFile
  <2>1. PICK n : n = disk.nextHandle
    OBVIOUS
  <2>2. PICK D : D = DOMAIN disk.objects
    OBVIOUS
  <2>3. n \in Nat /\ \A h \in D : h \in Nat /\ h < n
    BY <1>2, <2>1, <2>2 DEF LifeOK, FileOK
  <2>4. PICK S : S = {n} \cup {h + 1 : h \in D}
    OBVIOUS
  <2>5. \A x \in S : x \in Nat /\ n >= x
    BY <2>3, <2>4, SMT
  <2>6. n \in S /\ \A x \in S : n >= x
    BY <2>4, <2>5
  <2>7. Max(S) \in S /\ \A x \in S : Max(S) >= x
    BY <2>6 DEF Max
  <2>8. Max(S) = n
    <3>1. PICK m : m = Max(S)
      OBVIOUS
    <3>2. m \in Nat /\ n >= m /\ m >= n
      BY <3>1, <2>5, <2>6, <2>7
    <3> QED BY <3>1, <3>2, <2>3, SMT
  <2>9. RestoredHandle = Max(S) /\ StoredObjects = disk.objects
    BY <1>2, <2>1, <2>2, <2>4 DEF RestoredHandle, StoredObjects
  <2> QED BY <2>2, <2>3, <2>8, <2>9
<1> QED BY <1>1, <1>2

\* What comes back from the file are token objects as they were stored.
LEMMA StoredObjectsOK ==
    ASSUME LifeOK
    PROVE  /\ Fun(StoredObjects)
           /\ \A h \in DOMAIN StoredObjects :
                 /\ h \in Nat /\ ObjectOK(StoredObjects[h]) /\ StoredObjects[h].token
                 /\ StoredObjects[h].owner = NoSession
                 /\ Stored(StoredObjects[h]) = StoredObjects[h]
<1>1. CASE disk = NoFile
  <2>1. StoredObjects = Empty
    BY <1>1 DEF StoredObjects
  <2>2. DOMAIN Empty = {} /\ Fun(Empty)
    BY DEF Empty, Fun
  <2> QED BY <2>1, <2>2
<1>2. CASE disk # NoFile
  BY <1>2 DEF StoredObjects, LifeOK, FileOK
<1> QED BY <1>1, <1>2

LEMMA DefaultTokens == TokensOK([slot \in Slots |-> NewDefaultToken])
<1>1. TokenOK(NewDefaultToken)
  <2>1. /\ NewDefaultToken.soFailures = 0 /\ NewDefaultToken.userFailures = 0
        /\ NewDefaultToken.state = "ReadWrite" /\ Fields(NewDefaultToken, TokenFields)
    BY DEF NewDefaultToken, Fields, Fun, TokenFields
  <2>2. MaxPinFailures \in Nat \ {0}
    BY PinsOK
  <2>3. 0 \in Nat /\ 0 <= MaxPinFailures /\ 0 # MaxPinFailures
    BY <2>2, SMT
  <2> QED BY <2>1, <2>3 DEF TokenOK
<1> QED BY <1>1 DEF TokensOK

LEMMA InitializeKeeps ==
    ASSUME TokenInv, C_Initialize
    PROVE  TokenInv'
<1>i. LifeOK /\ SessionsOK /\ CallsOK /\ PromisesOK /\ LoginUniform /\ TokenObjectsDurable
  BY DEF TokenInv
<1>u. /\ ~up /\ up' = TRUE /\ objects' = StoredObjects /\ nextHandle' = RestoredHandle
      /\ tokens' = RestoredTokens
      /\ UNCHANGED <<app, sessions, nextSession, cut, disk, call, promised, dirty>>
  BY DEF C_Initialize, sessionVars
<1>1. /\ RestoredHandle \in Nat /\ \A h \in DOMAIN StoredObjects : h < RestoredHandle
      /\ Fun(StoredObjects)
      /\ \A h \in DOMAIN StoredObjects :
            /\ h \in Nat /\ ObjectOK(StoredObjects[h]) /\ StoredObjects[h].token
            /\ StoredObjects[h].owner = NoSession
            /\ Stored(StoredObjects[h]) = StoredObjects[h]
  BY <1>i, RestoredAbove, StoredObjectsOK
<1>2. TokensOK(RestoredTokens)
  BY <1>i, DefaultTokens DEF RestoredTokens, LifeOK, FileOK
<1>3. LifeOK'
  BY <1>1, <1>2, <1>u, <1>i DEF LifeOK
<1>4. SessionsOK' /\ LoginUniform'
  BY <1>u, <1>i DEF SessionsOK, LoginUniform
<1>5. ObjectsOK'
  BY <1>1, <1>u DEF ObjectsOK
<1>6. OwnersOK' /\ AllOwned'
  BY <1>1, <1>u DEF OwnersOK, AllOwned, IsSessionObject
<1>7. PromisesOK'
  BY <1>1, <1>u, <1>i DEF PromisesOK
<1>8. StoredObjects' = StoredObjects
  BY <1>u DEF StoredObjects
<1>9. TokenObjectsDurable'
  <2>1. ~dirty
    BY <1>u, <1>i DEF LifeOK
  <2> QED BY <2>1, <1>8, <1>u, <1>i DEF TokenObjectsDurable, Keeps
<1>10. CallsOK'
  <2>1. \A t \in Threads : call[t].op = "Idle" /\ CallShape(call[t])
    BY <1>u, <1>i DEF CallsOK, CallCurrent
  <2>2. call = [t \in Threads |-> call[t]]
    BY <1>i DEF CallsOK
  <2>3. ASSUME NEW t \in Threads PROVE CallCurrent(call[t])'
    BY <2>1, <1>u DEF CallCurrent, SavingOps, MakingOps
  <2> QED BY <2>1, <2>2, <2>3, <1>u DEF CallsOK
<1> QED BY <1>3, <1>4, <1>5, <1>6, <1>7, <1>9, <1>10 DEF TokenInv

\* Nothing but the file, the promises and the counters outlives the process.
LEMMA EmptyState ==
    ASSUME sessions' = Empty, objects' = Empty, \A t \in Threads : call'[t] = Idle,
           call' = [t \in Threads |-> call'[t]]
    PROVE  SessionsOK' /\ ObjectsOK' /\ OwnersOK' /\ AllOwned' /\ LoginUniform' /\ CallsOK'
<1>1. DOMAIN Empty = {} /\ Fun(Empty)
  BY DEF Empty, Fun
<1>2. ASSUME NEW t \in Threads PROVE CallShape(call'[t]) /\ CallCurrent(call[t])'
  <2>1. CallShape(Idle) /\ Idle.op = "Idle"
    BY IdleShape
  <2> QED BY <2>1 DEF CallCurrent, SavingOps, MakingOps
<1> QED BY <1>1, <1>2
        DEF SessionsOK, ObjectsOK, OwnersOK, AllOwned, IsSessionObject, LoginUniform, CallsOK

LEMMA FinalizeKeeps ==
    ASSUME TokenInv, C_Finalize
    PROVE  TokenInv'
<1>i. LifeOK /\ ObjectsOK /\ CallsOK /\ PromisesOK /\ TokenObjectsDurable
  BY DEF TokenInv
<1>u. /\ up /\ up' = FALSE /\ \A t \in Threads : call[t] = Idle
      /\ \/ disk' = Snapshot /\ promised' = promised
         \/ disk' = disk /\ promised' = StoredObjects
      /\ sessions' = Empty /\ objects' = Empty /\ cut' = {} /\ dirty' = FALSE
      /\ UNCHANGED <<app, nextSession, tokens, nextHandle, call>>
  BY DEF C_Finalize, Enabled
<1>1. SessionsOK' /\ ObjectsOK' /\ OwnersOK' /\ AllOwned' /\ LoginUniform' /\ CallsOK'
  <2>1. call' = [t \in Threads |-> call'[t]] /\ \A t \in Threads : call'[t] = Idle
    BY <1>u, <1>i DEF CallsOK
  <2> QED BY <2>1, <1>u, EmptyState
<1>2. FileOK(Snapshot)
  BY <1>i, SnapshotOK
<1>3. LifeOK'
  BY <1>2, <1>u, <1>i DEF LifeOK
<1>4. CASE disk' = Snapshot /\ promised' = promised
  <2>1. StoredObjects' = Snapshot.objects
    BY <1>2, <1>4 DEF StoredObjects, FileOK
  <2>2. ASSUME NEW h \in DOMAIN promised
        PROVE  h \in DOMAIN Snapshot.objects /\ Stored(Snapshot.objects[h]) = promised[h]
    <3>1. h \in DOMAIN objects /\ Stored(objects[h]) = promised[h] /\ objects[h].token
      BY <1>u, <1>i DEF TokenObjectsDurable, Keeps, PromisesOK
    <3>2. h \in DOMAIN Snapshot.objects /\ Snapshot.objects[h] = Stored(objects[h])
      BY <3>1, SnapshotForm
    <3>3. PICK o : o = objects[h]
      OBVIOUS
    <3>4. Stored(Stored(o)) = Stored(o)
      BY <3>1, <3>3, <1>i, StoredOK DEF ObjectsOK
    <3> QED BY <3>1, <3>2, <3>3, <3>4
  <2>3. TokenObjectsDurable'
    BY <2>1, <2>2, <1>4, <1>u DEF TokenObjectsDurable, Keeps
  <2>4. PromisesOK'
    BY <1>4, <1>u, <1>i DEF PromisesOK
  <2> QED BY <2>3, <2>4, <1>1, <1>3 DEF TokenInv
<1>5. CASE disk' = disk /\ promised' = StoredObjects
  <2>1. StoredObjects' = StoredObjects
    BY <1>5 DEF StoredObjects
  <2>2. /\ Fun(StoredObjects)
        /\ \A h \in DOMAIN StoredObjects : Stored(StoredObjects[h]) = StoredObjects[h]
    BY <1>i, StoredObjectsOK
  <2>3. TokenObjectsDurable'
    BY <2>1, <2>2, <1>5, <1>u DEF TokenObjectsDurable, Keeps
  <2>4. PromisesOK'
    BY <2>2, <1>5, <1>u DEF PromisesOK
  <2> QED BY <2>3, <2>4, <1>1, <1>3 DEF TokenInv
<1> QED BY <1>4, <1>5, <1>u

LEMMA CrashKeeps ==
    ASSUME TokenInv, Crash
    PROVE  TokenInv'
<1>i. LifeOK /\ PromisesOK /\ TokenObjectsDurable
  BY DEF TokenInv
<1>u. /\ up' = FALSE /\ sessions' = Empty /\ objects' = Empty /\ cut' = {} /\ dirty' = FALSE
      /\ nextSession' = 1 /\ nextHandle' = 1
      /\ call' = [t \in Threads |-> Idle]
      /\ promised' = IF dirty THEN StoredObjects ELSE promised
      /\ UNCHANGED <<app, tokens, disk>>
  BY DEF Crash
<1>1. SessionsOK' /\ ObjectsOK' /\ OwnersOK' /\ AllOwned' /\ LoginUniform' /\ CallsOK'
  <2>1. call' = [t \in Threads |-> call'[t]] /\ \A t \in Threads : call'[t] = Idle
    BY <1>u
  <2> QED BY <2>1, <1>u, EmptyState
<1>2. LifeOK'
  <2>1. 1 \in Nat \ {0}
    BY SMT
  <2> QED BY <2>1, <1>u, <1>i DEF LifeOK
<1>3. StoredObjects' = StoredObjects
  BY <1>u DEF StoredObjects
<1>4. /\ Fun(StoredObjects)
      /\ \A h \in DOMAIN StoredObjects : Stored(StoredObjects[h]) = StoredObjects[h]
  BY <1>i, StoredObjectsOK
<1>5. TokenObjectsDurable'
  <2>1. CASE dirty
    BY <2>1, <1>3, <1>4, <1>u DEF TokenObjectsDurable, Keeps
  <2>2. CASE ~dirty
    BY <2>2, <1>3, <1>u, <1>i DEF TokenObjectsDurable, Keeps
  <2> QED BY <2>1, <2>2
<1>6. PromisesOK'
  BY <1>4, <1>u, <1>i DEF PromisesOK
<1> QED BY <1>1, <1>2, <1>5, <1>6 DEF TokenInv

LEMMA InitKeeps == Init => TokenInv
<1> SUFFICES ASSUME Init PROVE TokenInv
  OBVIOUS
<1>u. /\ app \in Applications /\ up = FALSE
      /\ sessions = Empty /\ nextSession = 1 /\ cut = {}
      /\ tokens = [slot \in Slots |-> NewDefaultToken]
      /\ objects = Empty /\ nextHandle = 1 /\ promised = Empty
      /\ disk = NoFile /\ dirty = FALSE
      /\ call = [t \in Threads |-> Idle]
  BY DEF Init
<1>1. DOMAIN Empty = {} /\ Fun(Empty)
  BY DEF Empty, Fun
<1>2. ASSUME NEW t \in Threads PROVE CallShape(call[t]) /\ CallCurrent(call[t])
  <2>1. call[t] = Idle
    BY <1>u
  <2> QED BY <2>1, IdleShape
<1>3. CallsOK
  BY <1>2, <1>u DEF CallsOK
<1>4. LifeOK
  <2>1. 1 \in Nat \ {0}
    BY SMT
  <2> QED BY <2>1, <1>u, DefaultTokens DEF LifeOK
<1>5. SessionsOK /\ ObjectsOK /\ OwnersOK /\ AllOwned /\ LoginUniform
  BY <1>1, <1>u DEF SessionsOK, ObjectsOK, OwnersOK, AllOwned, IsSessionObject, LoginUniform
<1>6. PromisesOK /\ TokenObjectsDurable
  BY <1>1, <1>u DEF PromisesOK, TokenObjectsDurable, Keeps
<1> QED BY <1>3, <1>4, <1>5, <1>6 DEF TokenInv

-----------------------------------------------------------------------------
(* What the steps of a call make of the call and of its session *)

\* The session keeps its slot and its login.
Touched(q, r) == Fun(q) /\ DOMAIN q = DOMAIN r /\ q.slot = r.slot /\ q.login = r.login

LEMMA Untouched ==
    ASSUME TokenInv, UNCHANGED sessions
    PROVE  SameSessions /\ LoginUniform'
BY DEF TokenInv, SessionsOK, SameSessions, LoginUniform

LEMMA OneTouched ==
    ASSUME TokenInv, NEW s \in DOMAIN sessions, NEW q, Touched(q, sessions[s]),
           sessions' = [sessions EXCEPT ![s] = q]
    PROVE  SameSessions /\ LoginUniform'
<1>1. /\ Fun(sessions) /\ \A r \in DOMAIN sessions : Fields(sessions[r], SessionFields)
      /\ LoginUniform
  BY DEF TokenInv, SessionsOK
<1>2. sessions' = [r \in DOMAIN sessions |-> IF r = s THEN q ELSE sessions[r]]
  BY <1>1 DEF Fun
<1>3. Fields(q, SessionFields) /\ q.slot = sessions[s].slot /\ q.login = sessions[s].login
  BY <1>1 DEF Touched, Fields
<1>4. /\ Fun(sessions') /\ DOMAIN sessions' = DOMAIN sessions
      /\ \A r \in DOMAIN sessions :
            /\ Fields(sessions'[r], SessionFields)
            /\ sessions'[r].slot = sessions[r].slot /\ sessions'[r].login = sessions[r].login
  BY <1>1, <1>2, <1>3 DEF Fun
<1>5. SameSessions
  BY <1>4 DEF SameSessions
<1>6. LoginUniform'
  <2>1. ASSUME NEW a \in DOMAIN sessions, NEW b \in DOMAIN sessions,
               sessions'[a].slot = sessions'[b].slot
        PROVE  sessions'[a].login = sessions'[b].login
    <3>1. sessions[a].slot = sessions[b].slot
      BY <2>1, <1>4
    <3>2. sessions[a].login = sessions[b].login
      BY <3>1, <1>1 DEF LoginUniform
    <3> QED BY <3>2, <1>4
  <2> QED BY <2>1, <1>4 DEF LoginUniform
<1> QED BY <1>5, <1>6

\* The fields the operations write.
LEMMA TouchAuthed ==
    ASSUME NEW r, Fields(r, SessionFields), NEW x
    PROVE  Touched([r EXCEPT !.authed = x], r)
BY DEF Fields, Fun, SessionFields, Touched

LEMMA TouchUses ==
    ASSUME NEW r, Fields(r, SessionFields), NEW x
    PROVE  Touched([r EXCEPT !.uses = x], r)
BY DEF Fields, Fun, SessionFields, Touched

LEMMA TouchOps ==
    ASSUME NEW r, Fields(r, SessionFields), NEW x
    PROVE  Touched([r EXCEPT !.ops = x], r)
BY DEF Fields, Fun, SessionFields, Touched

LEMMA TouchAuthedUses ==
    ASSUME NEW r, Fields(r, SessionFields), NEW x, NEW y
    PROVE  Touched([r EXCEPT !.authed = x, !.uses = y], r)
BY DEF Fields, Fun, SessionFields, Touched

LEMMA TouchOpsAuthed ==
    ASSUME NEW r, Fields(r, SessionFields), NEW x, NEW y
    PROVE  Touched([r EXCEPT !.ops = x, !.authed = y], r)
BY DEF Fields, Fun, SessionFields, Touched

\* One critical section of the sessions map.
LEMMA PutContextTouches ==
    ASSUME TokenInv, NEW s \in DOMAIN sessions, NEW kind, NEW ctx, NEW authed,
           PutContext(s, kind, ctx, authed)
    PROVE  SameSessions /\ LoginUniform'
<1>1. sessions' = [sessions EXCEPT ![s].ops[kind] = ctx, ![s].authed = authed]
  BY DEF PutContext
<1>2. PICK q : q = [sessions[s] EXCEPT !.ops = [sessions[s].ops EXCEPT ![kind] = ctx], !.authed = authed]
  OBVIOUS
<1>3. Fun(sessions) /\ Fields(sessions[s], SessionFields)
  BY DEF TokenInv, SessionsOK
<1>4. sessions' = [sessions EXCEPT ![s] = q]
  BY <1>1, <1>2, <1>3 DEF Fun
<1>5. Touched(q, sessions[s])
  BY <1>2, <1>3, TouchOpsAuthed
<1> QED BY <1>4, <1>5, OneTouched

\* A call that moves to a step of its own.
LEMMA MovesOn ==
    ASSUME NEW c, CallShape(c), c.op # "Idle", NEW x, x \notin {"save", "wrap", "set", "use"},
           x = "snapshot" => c.op \in SavingOps \ MakingOps,
           x = "store" => c.op \in MakingOps /\ c.at = "use",
           NEW d, d = [c EXCEPT !.at = x]
    PROVE  GoesOn(d, c)
<1>1. Fun(c) /\ {"op", "at"} \subseteq DOMAIN c
  BY DEF CallShape, Fields
<1>2. /\ Fun(d) /\ DOMAIN d = DOMAIN c /\ d.at = x /\ d.op = c.op
      /\ \A f \in DOMAIN c : f # "at" => d[f] = c[f]
  BY <1>1 DEF Fun
<1>3. c.op \in SavingOps => d.tells = c.tells /\ d.after = c.after
  BY <1>2 DEF CallShape
<1>4. c.op \in MakingOps => d.s = c.s /\ d.todo = c.todo
  BY <1>2 DEF CallShape
<1>5. c.op = "C_CloseSession" => d.s # NoSession
  <2>1. ASSUME c.op = "C_CloseSession" PROVE c.s # NoSession /\ "s" \in DOMAIN c
    BY <2>1 DEF CallShape
  <2> QED BY <2>1, <1>2
<1>6. CallShape(d)
  BY <1>1, <1>2, <1>3, <1>4, <1>5 DEF CallShape, Fields, SavingOps
<1> QED BY <1>2, <1>3, <1>4, <1>6 DEF GoesOn

-----------------------------------------------------------------------------
(* The quiet steps, by what becomes of the call *)

\* A step that leaves everything but its call, and perhaps a session and a token, alone.
QuietVars ==
    /\ UNCHANGED <<lifeVars, nextSession, cut, storeVars>>
    /\ SameSessions /\ LoginUniform' /\ TokensOK(tokens')

LEMMA StillQuiet ==
    ASSUME TokenInv, UNCHANGED <<lifeVars, sessionVars, tokens, storeVars>>
    PROVE  QuietVars
<1>1. SameSessions /\ LoginUniform'
  BY Untouched DEF sessionVars
<1>2. TokensOK(tokens')
  BY DEF TokenInv, LifeOK
<1> QED BY <1>1, <1>2 DEF QuietVars, sessionVars

LEMMA QuietTouch ==
    ASSUME TokenInv, UNCHANGED <<lifeVars, nextSession, cut, tokens, storeVars>>,
           SameSessions, LoginUniform'
    PROVE  QuietVars
<1>1. TokensOK(tokens')
  BY DEF TokenInv, LifeOK
<1> QED BY <1>1 DEF QuietVars

LEMMA QuietCall ==
    ASSUME TokenInv, NEW t \in Threads, QuietVars, UNCHANGED call
    PROVE  TokenInv'
<1>1. PICK d : d = call[t]
  OBVIOUS
<1>2. CallShape(d) /\ CallCurrent(d) /\ call' = [call EXCEPT ![t] = d]
  BY <1>1 DEF TokenInv, CallsOK
<1>3. QuietStep(t, d)
  BY <1>1, <1>2 DEF QuietStep, QuietVars
<1> QED BY <1>3, QuietKeeps

LEMMA QuietReturn ==
    ASSUME TokenInv, NEW t \in Threads, QuietVars, Return(t), ~Closing(call[t])
    PROVE  TokenInv'
<1>1. PICK d : d = Idle
  OBVIOUS
<1>2. CallShape(d) /\ CallCurrent(d)
  BY <1>1, IdleShape
<1>3. QuietStep(t, d)
  BY <1>1, <1>2 DEF QuietStep, QuietVars, Return
<1> QED BY <1>3, QuietKeeps

LEMMA QuietGoto ==
    ASSUME TokenInv, NEW t \in Threads, QuietVars, NEW x, Goto(t, x), ~Closing(call[t]),
           call[t].op # "Idle", x \notin {"save", "wrap", "set", "use"},
           x = "snapshot" => call[t].op \in SavingOps \ MakingOps,
           x = "store" => call[t].op \in MakingOps /\ call[t].at = "use"
    PROVE  TokenInv'
<1>1. PICK c : c = call[t]
  OBVIOUS
<1>2. PICK d : d = [c EXCEPT !.at = x]
  OBVIOUS
<1>3. CallShape(c) /\ CallCurrent(c) /\ call = [u \in Threads |-> call[u]]
  BY <1>1 DEF TokenInv, CallsOK
<1>4. GoesOn(d, c)
  BY <1>1, <1>2, <1>3, MovesOn
<1>5. CallCurrent(d)
  BY <1>1, <1>3, <1>4, GoesOnCurrent
<1>6. call' = [call EXCEPT ![t] = d]
  BY <1>1, <1>2, <1>3 DEF Goto
<1>7. QuietStep(t, d)
  BY <1>4, <1>5, <1>6 DEF QuietStep, QuietVars, GoesOn
<1> QED BY <1>7, QuietKeeps

\* A thread begins a call.
LEMMA QuietStart ==
    ASSUME TokenInv, NEW t \in Threads, QuietVars, NEW d, call' = [call EXCEPT ![t] = d],
           call[t] = Idle, CallShape(d), CallCurrent(d)
    PROVE  TokenInv'
<1>1. ~Closing(call[t])
  BY IdleShape DEF Closing
<1>2. QuietStep(t, d)
  BY <1>1 DEF QuietStep, QuietVars
<1> QED BY <1>2, QuietKeeps

\* A call that neither makes, saves, wraps nor closes anything.
LEMMA PlainCall ==
    ASSUME NEW d, Fields(d, {"op", "at"}), up, d.at \notin {"snapshot", "save", "store"},
           d.op \notin SavingOps \cup {"C_CloseSession", "C_WrapKey"}
    PROVE  CallShape(d) /\ CallCurrent(d)
BY DEF CallShape, CallCurrent, Fields, SavingOps

\* A call that saves at its end.
LEMMA SavingCall ==
    ASSUME NEW d, Fields(d, {"op", "at", "tells", "snap", "after"}), up,
           d.at \notin {"snapshot", "save", "store"},
           d.op \in SavingOps \ MakingOps,
           d.op = "C_SetAttributeValue" => d.attr \in {"sensitive", "extractable"} /\ d.value \in Booleans,
           d.tells = {}, d.after \in {"return", "persist", "clear"}
    PROVE  CallShape(d) /\ CallCurrent(d)
BY DEF CallShape, CallCurrent, Fields, SavingOps, MakingOps

LEMMA StartPlain ==
    ASSUME TokenInv, NEW t \in Threads, QuietVars, NEW d, call' = [call EXCEPT ![t] = d],
           call[t] = Idle, Fields(d, {"op", "at"}), up, d.at \notin {"snapshot", "save", "store"},
           d.op \notin SavingOps \cup {"C_CloseSession", "C_WrapKey"}
    PROVE  TokenInv'
<1>1. CallShape(d) /\ CallCurrent(d)
  BY PlainCall
<1> QED BY <1>1, QuietStart

-----------------------------------------------------------------------------
(* Operations *)

LEMMA PutQuiet ==
    ASSUME TokenInv, NEW s \in DOMAIN sessions, NEW kind, NEW ctx, NEW authed,
           PutContext(s, kind, ctx, authed)
    PROVE  QuietVars
<1>1. SameSessions /\ LoginUniform'
  BY PutContextTouches
<1>2. UNCHANGED <<lifeVars, nextSession, cut, tokens, storeVars>>
  BY DEF PutContext
<1> QED BY <1>1, <1>2, QuietTouch

LEMMA PutKeeps ==
    ASSUME TokenInv, NEW t \in Threads, NEW s \in DOMAIN sessions, NEW kind, NEW ctx, NEW authed,
           PutContext(s, kind, ctx, authed), UNCHANGED call
    PROVE  TokenInv'
BY PutQuiet, QuietCall

\* The steps that write one context of the session of the call.
LEMMA OpsQuiet ==
    ASSUME TokenInv, NEW s \in DOMAIN sessions, NEW kind, NEW ctx,
           sessions' = [sessions EXCEPT ![s].ops[kind] = ctx],
           UNCHANGED <<lifeVars, nextSession, cut, tokens, storeVars>>
    PROVE  QuietVars
<1>1. PICK q : q = [sessions[s] EXCEPT !.ops = [sessions[s].ops EXCEPT ![kind] = ctx]]
  OBVIOUS
<1>2. Fun(sessions) /\ Fields(sessions[s], SessionFields)
  BY DEF TokenInv, SessionsOK
<1>3. sessions' = [sessions EXCEPT ![s] = q]
  BY <1>1, <1>2 DEF Fun
<1>4. Touched(q, sessions[s])
  BY <1>1, <1>2, TouchOps
<1> QED BY <1>3, <1>4, OneTouched, QuietTouch

LEMMA AuthedQuiet ==
    ASSUME TokenInv, NEW s \in DOMAIN sessions, NEW x,
           sessions' = [sessions EXCEPT ![s].authed = x],
           UNCHANGED <<lifeVars, nextSession, cut, tokens, storeVars>>
    PROVE  QuietVars
<1>1. PICK q : q = [sessions[s] EXCEPT !.authed = x]
  OBVIOUS
<1>2. Fun(sessions) /\ Fields(sessions[s], SessionFields)
  BY DEF TokenInv, SessionsOK
<1>3. sessions' = [sessions EXCEPT ![s] = q]
  BY <1>1, <1>2 DEF Fun
<1>4. Touched(q, sessions[s])
  BY <1>1, <1>2, TouchAuthed
<1> QED BY <1>3, <1>4, OneTouched, QuietTouch

LEMMA AuthedUsesQuiet ==
    ASSUME TokenInv, NEW s \in DOMAIN sessions, NEW x, NEW y,
           sessions' = [sessions EXCEPT ![s].authed = x, ![s].uses = y],
           UNCHANGED <<lifeVars, nextSession, cut, tokens, storeVars>>
    PROVE  QuietVars
<1>1. PICK q : q = [sessions[s] EXCEPT !.authed = x, !.uses = y]
  OBVIOUS
<1>2. Fun(sessions) /\ Fields(sessions[s], SessionFields)
  BY DEF TokenInv, SessionsOK
<1>3. sessions' = [sessions EXCEPT ![s] = q]
  BY <1>1, <1>2 DEF Fun
<1>4. Touched(q, sessions[s])
  BY <1>1, <1>2, TouchAuthedUses
<1> QED BY <1>3, <1>4, OneTouched, QuietTouch

LEMMA UsesQuiet ==
    ASSUME TokenInv, NEW s \in DOMAIN sessions, NEW x,
           sessions' = [sessions EXCEPT ![s].uses = x],
           UNCHANGED <<lifeVars, nextSession, cut, tokens, storeVars>>
    PROVE  QuietVars
<1>1. PICK q : q = [sessions[s] EXCEPT !.uses = x]
  OBVIOUS
<1>2. Fun(sessions) /\ Fields(sessions[s], SessionFields)
  BY DEF TokenInv, SessionsOK
<1>3. sessions' = [sessions EXCEPT ![s] = q]
  BY <1>1, <1>2 DEF Fun
<1>4. Touched(q, sessions[s])
  BY <1>1, <1>2, TouchUses
<1> QED BY <1>3, <1>4, OneTouched, QuietTouch

LEMMA SessionStill ==
    ASSUME TokenInv, sessions' = sessions, UNCHANGED <<lifeVars, nextSession, cut, tokens, storeVars>>
    PROVE  QuietVars
BY Untouched, QuietTouch

\* The Init calls, and the calls that are one critical section.
LEMMA InitCallsKeep ==
    ASSUME TokenInv, NEW t \in Threads, NEW s \in DOMAIN sessions,
           \/ \E mech \in app.mechanisms, h \in DOMAIN objects :
                 \/ C_SignInit(t, s, mech, h) \/ C_VerifyInit(t, s, mech, h)
                 \/ C_EncryptInit(t, s, mech, h) \/ C_DecryptInit(t, s, mech, h)
                 \/ C_MessageEncryptInit(t, s, mech, h) \/ C_MessageDecryptInit(t, s, mech, h)
           \/ C_DigestInit(t, s) \/ C_Encrypt(t, s) \/ C_DigestUpdate(t, s)
           \/ C_MessageFinal(t, s, "msg_encrypt") \/ C_MessageFinal(t, s, "msg_decrypt")
           \/ C_FindObjects(t, s) \/ C_FindObjectsFinal(t, s)
    PROVE  TokenInv'
<1>1. UNCHANGED call /\ \E kind, ctx, authed : PutContext(s, kind, ctx, authed)
  <2>1. ASSUME NEW mech, NEW h,
               \/ C_SignInit(t, s, mech, h) \/ C_VerifyInit(t, s, mech, h)
               \/ C_EncryptInit(t, s, mech, h) \/ C_DecryptInit(t, s, mech, h)
               \/ C_MessageEncryptInit(t, s, mech, h) \/ C_MessageDecryptInit(t, s, mech, h)
        PROVE  UNCHANGED call /\ \E kind, ctx, authed : PutContext(s, kind, ctx, authed)
    BY <2>1 DEF C_SignInit, C_VerifyInit, C_EncryptInit, C_DecryptInit, C_MessageEncryptInit,
                C_MessageDecryptInit
  <2>2. ASSUME \/ C_DigestInit(t, s) \/ C_Encrypt(t, s) \/ C_DigestUpdate(t, s)
               \/ C_MessageFinal(t, s, "msg_encrypt") \/ C_MessageFinal(t, s, "msg_decrypt")
               \/ C_FindObjectsFinal(t, s)
        PROVE  UNCHANGED call /\ \E kind, ctx, authed : PutContext(s, kind, ctx, authed)
    BY <2>2 DEF C_DigestInit, C_Encrypt, C_DigestUpdate, C_MessageFinal, C_FindObjectsFinal
  <2>3. ASSUME C_FindObjects(t, s)
        PROVE  UNCHANGED call /\ \E kind, ctx, authed : PutContext(s, kind, ctx, authed)
    BY <2>3 DEF C_FindObjects
  <2> QED BY <2>1, <2>2, <2>3
<1>2. PICK kind, ctx, authed : PutContext(s, kind, ctx, authed)
  BY <1>1
<1> QED BY <1>1, <1>2, PutKeeps

\* A call of the operations: neither it nor what it becomes has to do with objects.
LEMMA PlainKeeps ==
    ASSUME TokenInv, NEW t \in Threads, QuietVars, NEW d, call' = [call EXCEPT ![t] = d],
           ~Closing(call[t]), Fields(d, {"op", "at"}), up,
           d.at \notin {"snapshot", "save", "store"},
           d.op \notin SavingOps \cup {"C_CloseSession", "C_WrapKey"}
    PROVE  TokenInv'
<1>1. CallShape(d) /\ CallCurrent(d)
  BY PlainCall
<1>2. QuietStep(t, d)
  BY <1>1 DEF QuietStep, QuietVars
<1> QED BY <1>2, QuietKeeps

LEMMA BusyCall ==
    ASSUME TokenInv, NEW t \in Threads, call[t].op # "Idle"
    PROVE  /\ up /\ Fields(call[t], {"op", "at"}) /\ CallShape(call[t])
           /\ call = [u \in Threads |-> call[u]]
BY DEF TokenInv, CallsOK, CallCurrent, CallShape, Fields

\* C_Sign, C_SignFinal, C_Decrypt and C_DecryptFinal.
LEMMA UseKeeps ==
    ASSUME TokenInv, NEW t \in Threads,
           \/ \E s \in DOMAIN sessions, kind \in PrivateKinds, oneShot, lengthOnly \in BOOLEAN :
                 UseKey(t, s, kind, oneShot, lengthOnly)
           \/ UseAuth(t) \/ UseEngine(t) \/ UseSettle(t)
    PROVE  TokenInv'
<1>1. ASSUME NEW s \in DOMAIN sessions, NEW kind \in PrivateKinds, NEW oneShot \in BOOLEAN,
             NEW lengthOnly \in BOOLEAN, UseKey(t, s, kind, oneShot, lengthOnly)
      PROVE  TokenInv'
  <2>1. PICK d : d = UsingCall("auth", s, kind, oneShot, lengthOnly, Ctx(s, kind))
    OBVIOUS
  <2>2. /\ call[t] = Idle /\ up /\ call' = [call EXCEPT ![t] = d]
        /\ PutContext(s, kind, NoCtx, sessions[s].authed)
    BY <1>1, <2>1 DEF UseKey, Alone, Free, Enabled
  <2>3. QuietVars
    BY <2>2, PutQuiet
  <2>4. Fields(d, {"op", "at"}) /\ d.op = "Use" /\ d.at = "auth"
    BY <2>1 DEF UsingCall, Fields, Fun
  <2>5. d.op \notin SavingOps \cup {"C_CloseSession", "C_WrapKey"}
    BY <2>4 DEF SavingOps, MakingOps
  <2> QED BY <2>2, <2>3, <2>4, <2>5, StartPlain
<1>2. ASSUME UseAuth(t) PROVE TokenInv'
  <2>1. /\ call[t].op = "Use" /\ UNCHANGED <<lifeVars, sessionVars, tokens, storeVars>>
        /\ Goto(t, "engine") \/ Return(t)
    BY <1>2 DEF UseAuth, At
  <2>2. QuietVars /\ ~Closing(call[t])
    BY <2>1, StillQuiet DEF Closing
  <2> QED BY <2>1, <2>2, QuietGoto, QuietReturn
<1>3. ASSUME UseEngine(t) PROVE TokenInv'
  <2>1. /\ call[t].op = "Use" /\ UNCHANGED <<lifeVars, sessionVars, tokens, storeVars>>
        /\ \/ \E always : call' = [call EXCEPT ![t].at = "settle", ![t].always = always]
           \/ Return(t)
    BY <1>3 DEF UseEngine, At
  <2>2. QuietVars /\ ~Closing(call[t])
    BY <2>1, StillQuiet DEF Closing
  <2>3. ASSUME NEW always, call' = [call EXCEPT ![t].at = "settle", ![t].always = always]
        PROVE  TokenInv'
    <3>1. PICK d : d = [call[t] EXCEPT !.at = "settle", !.always = always]
      OBVIOUS
    <3>2. /\ up /\ Fields(call[t], {"op", "at"}) /\ call = [u \in Threads |-> call[u]]
      BY <2>1, BusyCall
    <3>3. call' = [call EXCEPT ![t] = d]
      BY <2>3, <3>1, <3>2
    <3>4. Fields(d, {"op", "at"}) /\ d.op = "Use" /\ d.at = "settle"
      BY <2>1, <3>1, <3>2 DEF Fields, Fun
    <3>5. d.op \notin SavingOps \cup {"C_CloseSession", "C_WrapKey"}
      BY <3>4 DEF SavingOps, MakingOps
    <3> QED BY <2>2, <3>2, <3>3, <3>4, <3>5, PlainKeeps
  <2> QED BY <2>1, <2>2, <2>3, QuietReturn
<1>4. ASSUME UseSettle(t) PROVE TokenInv'
  <2>1. /\ call[t].op = "Use" /\ Return(t)
        /\ UNCHANGED <<lifeVars, nextSession, cut, tokens, storeVars>>
    BY <1>4 DEF UseSettle, At
  <2>2. QuietVars
    <3>1. CASE ~OnSession(t)
      <4>1. sessions' = sessions
        BY <1>4, <3>1 DEF UseSettle
      <4> QED BY <4>1, <2>1, SessionStill
    <3>2. CASE OnSession(t) /\ call[t].lengthOnly
      <4>1. /\ sessions' = [sessions EXCEPT ![call[t].s].ops[call[t].kind] = call[t].ctx]
            /\ call[t].s \in DOMAIN sessions
        BY <1>4, <3>2 DEF UseSettle, OnSession
      <4>2. PICK s, kind, ctx : s = call[t].s /\ kind = call[t].kind /\ ctx = call[t].ctx
        OBVIOUS
      <4>3. s \in DOMAIN sessions /\ sessions' = [sessions EXCEPT ![s].ops[kind] = ctx]
        BY <4>1, <4>2
      <4> QED BY <4>3, <2>1, OpsQuiet
    <3>3. CASE OnSession(t) /\ ~call[t].lengthOnly
      <4>1. /\ sessions' = [sessions EXCEPT ![call[t].s].authed = FALSE,
                                ![call[t].s].uses = IF call[t].always THEN @ + 1 ELSE @]
            /\ call[t].s \in DOMAIN sessions
        BY <1>4, <3>3 DEF UseSettle, OnSession
      <4>2. PICK s : s = call[t].s
        OBVIOUS
      <4>3. PICK y : y = IF call[t].always THEN sessions[s].uses + 1 ELSE sessions[s].uses
        OBVIOUS
      <4>4. s \in DOMAIN sessions /\ Fun(sessions) /\ Fields(sessions[s], SessionFields)
        BY <4>1, <4>2 DEF TokenInv, SessionsOK
      <4>5. sessions' = [sessions EXCEPT ![s].authed = FALSE, ![s].uses = y]
        BY <4>1, <4>2, <4>3, <4>4 DEF Fields, Fun, SessionFields
      <4> QED BY <4>4, <4>5, <2>1, AuthedUsesQuiet
    <3> QED BY <3>1, <3>2, <3>3
  <2>3. ~Closing(call[t])
    BY <2>1 DEF Closing
  <2> QED BY <2>1, <2>2, <2>3, QuietReturn
<1> QED BY <1>1, <1>2, <1>3, <1>4

\* Verify, digest and find calls, and C_SessionCancel.
LEMMA StartOperation ==
    ASSUME TokenInv, NEW t \in Threads, NEW s \in DOMAIN sessions,
           \/ C_Verify(t, s) \/ C_FindObjectsInit(t, s)
           \/ C_Digest(t, s, "single") \/ C_Digest(t, s, "multi")
           \/ \E h \in DOMAIN objects : C_DigestKey(t, s, h)
    PROVE  TokenInv'
<1>1. ASSUME NEW d, Fields(d, {"op", "at"}), d.op \in {"C_Verify", "C_Digest", "C_DigestKey", "C_Find"},
             d.at \in {"take", "written", "back", "search"}, call[t] = Idle, up, QuietVars,
             call' = [call EXCEPT ![t] = d]
      PROVE  TokenInv'
  <2>1. d.op \notin SavingOps \cup {"C_CloseSession", "C_WrapKey"} /\ d.at \notin {"snapshot", "save", "store"}
    BY <1>1 DEF SavingOps, MakingOps
  <2> QED BY <1>1, <2>1, StartPlain
<1>2. CASE C_Verify(t, s)
  <2>1. PICK d : d = [op |-> "C_Verify", at |-> "take", s |-> s]
    OBVIOUS
  <2>2. /\ call[t] = Idle /\ up /\ call' = [call EXCEPT ![t] = d]
        /\ UNCHANGED <<lifeVars, sessionVars, tokens, storeVars>>
    BY <1>2, <2>1 DEF C_Verify, Alone, Free, Enabled
  <2>3. Fields(d, {"op", "at"}) /\ d.op = "C_Verify" /\ d.at = "take"
    BY <2>1 DEF Fields, Fun
  <2> QED BY <2>2, <2>3, <1>1, StillQuiet
<1>3. CASE C_FindObjectsInit(t, s)
  <2>1. PICK d : d = [op |-> "C_Find", at |-> "search", s |-> s,
                      slot |-> sessions[s].slot, loggedIn |-> LoggedIn(s), found |-> {}]
    OBVIOUS
  <2>2. /\ call[t] = Idle /\ up /\ call' = [call EXCEPT ![t] = d]
        /\ UNCHANGED <<lifeVars, sessionVars, tokens, storeVars>>
    BY <1>3, <2>1 DEF C_FindObjectsInit, Alone, Free, Enabled
  <2>3. Fields(d, {"op", "at"}) /\ d.op = "C_Find" /\ d.at = "search"
    BY <2>1 DEF Fields, Fun
  <2> QED BY <2>2, <2>3, <1>1, StillQuiet
<1>4. ASSUME NEW mode, C_Digest(t, s, mode) PROVE TokenInv'
  <2>1. PICK d : d = [op |-> "C_Digest", at |-> "written", s |-> s]
    OBVIOUS
  <2>2. /\ call[t] = Idle /\ up /\ \E ctx : PutContext(s, "digest", ctx, sessions[s].authed)
        /\ call' = [call EXCEPT ![t] = d] \/ UNCHANGED call
    BY <1>4, <2>1 DEF C_Digest, Alone, Free, Enabled
  <2>3. Fields(d, {"op", "at"}) /\ d.op = "C_Digest" /\ d.at = "written"
    BY <2>1 DEF Fields, Fun
  <2>4. PICK ctx : PutContext(s, "digest", ctx, sessions[s].authed)
    BY <2>2
  <2>5. QuietVars
    BY <2>4, PutQuiet
  <2>6. CASE UNCHANGED call
    BY <2>5, <2>6, QuietCall
  <2>7. CASE call' = [call EXCEPT ![t] = d]
    BY <2>2, <2>3, <2>5, <2>7, <1>1
  <2> QED BY <2>2, <2>6, <2>7
<1>5. ASSUME NEW h, C_DigestKey(t, s, h) PROVE TokenInv'
  <2>1. PICK d : d = [op |-> "C_DigestKey", at |-> "back", s |-> s, ctx |-> Ctx(s, "digest")]
    OBVIOUS
  <2>2. /\ call[t] = Idle /\ up /\ PutContext(s, "digest", NoCtx, sessions[s].authed)
        /\ call' = [call EXCEPT ![t] = d]
    BY <1>5, <2>1 DEF C_DigestKey, Alone, Free, Enabled
  <2>3. Fields(d, {"op", "at"}) /\ d.op = "C_DigestKey" /\ d.at = "back"
    BY <2>1 DEF Fields, Fun
  <2>4. QuietVars
    BY <2>2, PutQuiet
  <2> QED BY <2>2, <2>3, <2>4, <1>1
<1> QED BY <1>2, <1>3, <1>4, <1>5

LEMMA EndOperation ==
    ASSUME TokenInv, NEW t \in Threads,
           VerifyTake(t) \/ DigestWritten(t) \/ DigestKeyBack(t) \/ FindPut(t)
    PROVE  TokenInv'
<1>1. /\ call[t].op \in {"C_Verify", "C_Digest", "C_DigestKey", "C_Find"} /\ Return(t)
      /\ UNCHANGED <<lifeVars, nextSession, cut, tokens, storeVars>>
      /\ \/ sessions' = sessions
         \/ \E kind, ctx : /\ call[t].s \in DOMAIN sessions
                           /\ sessions' = [sessions EXCEPT ![call[t].s].ops[kind] = ctx]
  BY DEF VerifyTake, DigestWritten, DigestKeyBack, FindPut, At, OnSession
<1>2. QuietVars
  <2>1. CASE sessions' = sessions
    BY <2>1, <1>1, SessionStill
  <2>2. CASE \E kind, ctx : /\ call[t].s \in DOMAIN sessions
                            /\ sessions' = [sessions EXCEPT ![call[t].s].ops[kind] = ctx]
    <3>1. PICK kind, ctx : /\ call[t].s \in DOMAIN sessions
                           /\ sessions' = [sessions EXCEPT ![call[t].s].ops[kind] = ctx]
      BY <2>2
    <3>2. PICK s : s = call[t].s
      OBVIOUS
    <3>3. s \in DOMAIN sessions /\ sessions' = [sessions EXCEPT ![s].ops[kind] = ctx]
      BY <3>1, <3>2
    <3> QED BY <3>3, <1>1, OpsQuiet
  <2> QED BY <2>1, <2>2, <1>1
<1>3. ~Closing(call[t])
  BY <1>1 DEF Closing
<1> QED BY <1>1, <1>2, <1>3, QuietReturn

LEMMA FindSearchKeeps ==
    ASSUME TokenInv, NEW t \in Threads, FindSearch(t)
    PROVE  TokenInv'
<1>1. PICK found : call' = [call EXCEPT ![t].at = "put", ![t].found = found]
  BY DEF FindSearch
<1>2. call[t].op = "C_Find" /\ UNCHANGED <<lifeVars, sessionVars, tokens, storeVars>>
  BY DEF FindSearch, At
<1>3. QuietVars /\ ~Closing(call[t])
  BY <1>2, StillQuiet DEF Closing
<1>4. PICK d : d = [call[t] EXCEPT !.at = "put", !.found = found]
  OBVIOUS
<1>5. up /\ Fields(call[t], {"op", "at"}) /\ call = [u \in Threads |-> call[u]]
  BY <1>2, BusyCall
<1>6. call' = [call EXCEPT ![t] = d]
  BY <1>1, <1>4, <1>5
<1>7. Fields(d, {"op", "at"}) /\ d.op = "C_Find" /\ d.at = "put"
  BY <1>2, <1>4, <1>5 DEF Fields, Fun
<1>8. d.op \notin SavingOps \cup {"C_CloseSession", "C_WrapKey"}
  BY <1>7 DEF SavingOps, MakingOps
<1> QED BY <1>3, <1>5, <1>6, <1>7, <1>8, PlainKeeps

LEMMA SessionCancelKeeps ==
    ASSUME TokenInv, NEW t \in Threads, NEW s \in DOMAIN sessions, C_SessionCancel(t, s)
    PROVE  TokenInv'
<1>1. PICK ops : ops = [k \in Kinds |-> IF k \in {"msg_encrypt", "msg_decrypt"}
                                        THEN sessions[s].ops[k] ELSE NoCtx]
  OBVIOUS
<1>2. PICK q : q = [sessions[s] EXCEPT !.ops = ops]
  OBVIOUS
<1>3. Fun(sessions) /\ Fields(sessions[s], SessionFields)
  BY DEF TokenInv, SessionsOK
<1>4. sessions' = [sessions EXCEPT ![s] = q]
  BY <1>1, <1>2, <1>3 DEF C_SessionCancel, Fun
<1>5. Touched(q, sessions[s])
  BY <1>2, <1>3, TouchOps
<1>6. UNCHANGED <<lifeVars, nextSession, cut, tokens, storeVars>> /\ UNCHANGED call
  BY DEF C_SessionCancel
<1>7. QuietVars
  BY <1>4, <1>5, <1>6, OneTouched, QuietTouch
<1> QED BY <1>6, <1>7, QuietCall

LEMMA OperationsKeep ==
    ASSUME TokenInv, NEW t \in Threads, Operations(t)
    PROVE  TokenInv'
<1>1. ASSUME NEW s \in DOMAIN sessions, NEW mech \in app.mechanisms, NEW h \in DOMAIN objects,
             \/ C_SignInit(t, s, mech, h) \/ C_VerifyInit(t, s, mech, h)
             \/ C_EncryptInit(t, s, mech, h) \/ C_DecryptInit(t, s, mech, h)
             \/ C_MessageEncryptInit(t, s, mech, h) \/ C_MessageDecryptInit(t, s, mech, h)
      PROVE  TokenInv'
  BY <1>1, InitCallsKeep
<1>2. ASSUME NEW s \in DOMAIN sessions,
             \/ C_DigestInit(t, s) \/ C_Encrypt(t, s) \/ C_DigestUpdate(t, s)
             \/ C_MessageFinal(t, s, "msg_encrypt") \/ C_MessageFinal(t, s, "msg_decrypt")
             \/ C_FindObjects(t, s) \/ C_FindObjectsFinal(t, s)
      PROVE  TokenInv'
  BY <1>2, InitCallsKeep
<1>3. ASSUME NEW s \in DOMAIN sessions,
             \/ C_Verify(t, s) \/ C_FindObjectsInit(t, s)
             \/ C_Digest(t, s, "single") \/ C_Digest(t, s, "multi")
             \/ \E h \in DOMAIN objects : C_DigestKey(t, s, h)
      PROVE  TokenInv'
  BY <1>3, StartOperation
<1>4. ASSUME NEW s \in DOMAIN sessions, C_SessionCancel(t, s) PROVE TokenInv'
  BY <1>4, SessionCancelKeeps
<1>5. ASSUME \/ \E s \in DOMAIN sessions, kind \in PrivateKinds, oneShot, lengthOnly \in BOOLEAN :
                   UseKey(t, s, kind, oneShot, lengthOnly)
             \/ UseAuth(t) \/ UseEngine(t) \/ UseSettle(t)
      PROVE  TokenInv'
  BY <1>5, UseKeeps
<1>6. ASSUME VerifyTake(t) \/ DigestWritten(t) \/ DigestKeyBack(t) \/ FindPut(t) PROVE TokenInv'
  BY <1>6, EndOperation
<1>7. ASSUME FindSearch(t) PROVE TokenInv'
  BY <1>7, FindSearchKeeps
<1> QED BY <1>1, <1>2, <1>3, <1>4, <1>5, <1>6, <1>7 DEF Operations


-----------------------------------------------------------------------------
(* PINs *)

\* What an operation on the PINs leaves is a token again; one that succeeded on the SO PIN
\* found the token unlocked.
LEMMA InitTokenOK ==
    ASSUME NEW tok, TokenOK(tok), NEW pin
    PROVE  TokenOK(InitToken(tok, pin).tok)
<1>1. PICK n : n = [state |-> "ReadWrite", soPin |-> pin, userPin |-> NoPin,
                    soFailures |-> 0, userFailures |-> 0]
  OBVIOUS
<1>2. Fields(n, TokenFields) /\ n.state = "ReadWrite" /\ n.soFailures = 0 /\ n.userFailures = 0
  BY <1>1 DEF Fields, Fun, TokenFields
<1>3. 0 \in Nat /\ 0 <= MaxPinFailures /\ 0 # MaxPinFailures
  BY PinsOK, SMT
<1>4. TokenOK(n)
  BY <1>2, <1>3 DEF TokenOK
<1>5. InitToken(tok, pin).tok = n \/ InitToken(tok, pin).tok = tok
  BY <1>1 DEF InitToken, PinResult
<1> QED BY <1>4, <1>5

LEMMA UserPinOK ==
    ASSUME NEW tok, TokenOK(tok), NEW pin
    PROVE  TokenOK([tok EXCEPT !.userPin = pin, !.userFailures = 0])
<1>1. PICK n : n = [tok EXCEPT !.userPin = pin, !.userFailures = 0]
  OBVIOUS
<1>2. /\ Fields(n, TokenFields) /\ n.state = tok.state /\ n.soFailures = tok.soFailures
      /\ n.userFailures = 0
  BY <1>1 DEF TokenOK, Fields, Fun, TokenFields
<1>3. 0 \in Nat /\ 0 <= MaxPinFailures
  BY PinsOK, SMT
<1>4. TokenOK(n)
  BY <1>2, <1>3 DEF TokenOK
<1> QED BY <1>1, <1>4

LEMMA SoPinOK ==
    ASSUME NEW tok, TokenOK(tok), tok.state # "ReadOnly", NEW pin
    PROVE  TokenOK([tok EXCEPT !.soPin = pin, !.soFailures = 0])
<1>1. PICK n : n = [tok EXCEPT !.soPin = pin, !.soFailures = 0]
  OBVIOUS
<1>2. /\ Fields(n, TokenFields) /\ n.state = tok.state /\ n.soFailures = 0
      /\ n.userFailures = tok.userFailures
  BY <1>1 DEF TokenOK, Fields, Fun, TokenFields
<1>3. 0 \in Nat /\ 0 <= MaxPinFailures /\ 0 # MaxPinFailures
  BY PinsOK, SMT
<1>4. TokenOK(n)
  BY <1>2, <1>3 DEF TokenOK
<1> QED BY <1>1, <1>4

LEMMA SetPinOK ==
    ASSUME NEW tok, TokenOK(tok), NEW user, user = "SO" => tok.state # "ReadOnly", NEW pin
    PROVE  TokenOK(SetPin(tok, user, pin).tok)
<1>1. CASE user = "SO"
  <2>1. PICK n : n = [tok EXCEPT !.soPin = pin, !.soFailures = 0]
    OBVIOUS
  <2>2. TokenOK(n)
    BY <1>1, <2>1, SoPinOK
  <2>3. SetPin(tok, user, pin).tok = tok \/ SetPin(tok, user, pin).tok = n
    BY <1>1, <2>1 DEF SetPin, PinResult
  <2> QED BY <2>2, <2>3
<1>2. CASE user # "SO"
  <2>1. PICK n : n = [tok EXCEPT !.userPin = pin, !.userFailures = 0]
    OBVIOUS
  <2>2. TokenOK(n)
    BY <2>1, UserPinOK
  <2>3. SetPin(tok, user, pin).tok = tok \/ SetPin(tok, user, pin).tok = n
    BY <1>2, <2>1 DEF SetPin, PinResult
  <2> QED BY <2>2, <2>3
<1> QED BY <1>1, <1>2

LEMMA InitPinOK ==
    ASSUME NEW tok, TokenOK(tok), NEW pin
    PROVE  TokenOK(InitPin(tok, pin).tok)
<1>1. PICK n : n = [tok EXCEPT !.userPin = pin, !.userFailures = 0]
  OBVIOUS
<1>2. TokenOK(n)
  BY <1>1, UserPinOK
<1>3. InitPin(tok, pin).tok = tok \/ InitPin(tok, pin).tok = n
  BY <1>1 DEF InitPin, PinResult
<1> QED BY <1>2, <1>3

LEMMA VerifySoPinOK ==
    ASSUME NEW tok, TokenOK(tok), NEW pin
    PROVE  /\ TokenOK(VerifySoPin(tok, pin).tok)
           /\ VerifySoPin(tok, pin).ok => VerifySoPin(tok, pin).tok.state # "ReadOnly"
<1>0. Fields(tok, TokenFields) /\ tok.soFailures \in Nat /\ tok.soFailures <= MaxPinFailures
  BY DEF TokenOK
<1>1. CASE tok.state = "ReadOnly"
  BY <1>1 DEF VerifySoPin, PinResult
<1>2. CASE tok.state # "ReadOnly" /\ tok.soPin = pin
  <2>1. PICK n : n = [tok EXCEPT !.soFailures = 0]
    OBVIOUS
  <2>2. /\ Fields(n, TokenFields) /\ n.state = tok.state /\ n.soFailures = 0
        /\ n.userFailures = tok.userFailures
    BY <2>1, <1>0 DEF Fields, Fun, TokenFields
  <2>3. 0 \in Nat /\ 0 <= MaxPinFailures /\ 0 # MaxPinFailures
    BY PinsOK, SMT
  <2>4. TokenOK(n)
    BY <1>2, <2>2, <2>3 DEF TokenOK
  <2>5. VerifySoPin(tok, pin).tok = n
    BY <1>2, <2>1 DEF VerifySoPin, PinResult
  <2> QED BY <2>2, <2>4, <2>5, <1>2
<1>3. CASE tok.state # "ReadOnly" /\ tok.soPin # pin
  <2>0. PICK k : k = tok.soFailures + 1
    OBVIOUS
  <2>1. PICK n : n = [tok EXCEPT !.soFailures = k,
                                 !.state = IF k >= MaxPinFailures THEN "ReadOnly" ELSE tok.state]
    OBVIOUS
  <2>2. /\ Fields(n, TokenFields) /\ n.soFailures = k /\ n.userFailures = tok.userFailures
        /\ n.state = IF k >= MaxPinFailures THEN "ReadOnly" ELSE tok.state
    BY <2>1, <1>0 DEF Fields, Fun, TokenFields
  <2>3. tok.soFailures # MaxPinFailures
    BY <1>3 DEF TokenOK
  <2>4. k \in Nat /\ k <= MaxPinFailures /\ (k >= MaxPinFailures <=> k = MaxPinFailures)
    BY <2>0, <2>3, <1>0, PinsOK, SMT
  <2>5. TokenOK(n)
    BY <1>3, <2>2, <2>4 DEF TokenOK
  <2>6. VerifySoPin(tok, pin).tok = n /\ ~VerifySoPin(tok, pin).ok
    BY <1>3, <2>0, <2>1 DEF VerifySoPin, PinResult
  <2> QED BY <2>5, <2>6
<1> QED BY <1>1, <1>2, <1>3

LEMMA VerifyUserPinOK ==
    ASSUME NEW tok, TokenOK(tok), NEW pin
    PROVE  TokenOK(VerifyUserPin(tok, pin).tok)
<1>0. Fields(tok, TokenFields) /\ tok.userFailures \in Nat /\ tok.userFailures <= MaxPinFailures
  BY DEF TokenOK
<1>1. ASSUME NEW k, k \in Nat, k <= MaxPinFailures PROVE TokenOK([tok EXCEPT !.userFailures = k])
  <2>1. PICK n : n = [tok EXCEPT !.userFailures = k]
    OBVIOUS
  <2>2. /\ Fields(n, TokenFields) /\ n.state = tok.state /\ n.soFailures = tok.soFailures
        /\ n.userFailures = k
    BY <2>1, <1>0 DEF Fields, Fun, TokenFields
  <2> QED BY <1>1, <2>1, <2>2 DEF TokenOK
<1>2. CASE tok.userFailures >= MaxPinFailures
  BY <1>2 DEF VerifyUserPin, PinResult
<1>3. CASE ~(tok.userFailures >= MaxPinFailures)
  <2>0. PICK k : k = tok.userFailures + 1
    OBVIOUS
  <2>1. k \in Nat /\ k <= MaxPinFailures /\ 0 \in Nat /\ 0 <= MaxPinFailures
    BY <1>0, <1>3, <2>0, PinsOK, SMT
  <2>2. VerifyUserPin(tok, pin).tok \in {[tok EXCEPT !.userFailures = 0], [tok EXCEPT !.userFailures = k]}
    BY <1>3, <2>0 DEF VerifyUserPin, PinResult
  <2> QED BY <2>1, <2>2, <1>1
<1> QED BY <1>2, <1>3

LEMMA VerifyPinOK ==
    ASSUME NEW tok, TokenOK(tok), NEW user, NEW pin
    PROVE  /\ TokenOK(VerifyPin(tok, user, pin).tok)
           /\ user = "SO" /\ VerifyPin(tok, user, pin).ok =>
                 VerifyPin(tok, user, pin).tok.state # "ReadOnly"
BY VerifySoPinOK, VerifyUserPinOK DEF VerifyPin

LEMMA ChangePinOK ==
    ASSUME NEW tok, TokenOK(tok), NEW user, NEW old, NEW new
    PROVE  TokenOK(ChangePin(tok, user, old, new).tok)
<1>1. PICK first : first = VerifyPin(tok, user, old)
  OBVIOUS
<1>2. PICK second : second = VerifyPin(first.tok, user, new)
  OBVIOUS
<1>3. TokenOK(first.tok) /\ (user = "SO" /\ first.ok => first.tok.state # "ReadOnly")
  BY <1>1, VerifyPinOK
<1>4. TokenOK(second.tok) /\ (user = "SO" /\ second.ok => second.tok.state # "ReadOnly")
  BY <1>2, <1>3, VerifyPinOK
<1>5. ChangePin(tok, user, old, new) =
         IF first.ok THEN SetPin(first.tok, user, new)
         ELSE IF user = "SO" THEN first
         ELSE IF second.ok THEN SetPin(second.tok, user, new)
         ELSE second
  BY <1>1, <1>2 DEF ChangePin
<1>6. first.ok => TokenOK(SetPin(first.tok, user, new).tok)
  BY <1>3, SetPinOK
<1>7. second.ok => TokenOK(SetPin(second.tok, user, new).tok)
  BY <1>4, SetPinOK
<1> QED BY <1>3, <1>4, <1>5, <1>6, <1>7

\* A slot's token is replaced.
LEMMA TokenQuiet ==
    ASSUME TokenInv, NEW slot, NEW tok, slot \in Slots => TokenOK(tok),
           tokens' = [tokens EXCEPT ![slot] = tok],
           UNCHANGED <<lifeVars, sessionVars, storeVars>>
    PROVE  QuietVars
<1>1. SameSessions /\ LoginUniform'
  BY Untouched DEF sessionVars
<1>2. TokensOK(tokens)
  BY DEF TokenInv, LifeOK
<1>3. tokens' = [q \in Slots |-> IF q = slot THEN tok ELSE tokens[q]]
  BY <1>2 DEF TokensOK
<1>4. TokensOK(tokens')
  BY <1>2, <1>3 DEF TokensOK
<1> QED BY <1>1, <1>4 DEF QuietVars, sessionVars


-----------------------------------------------------------------------------
(* Logins, logout and the PIN calls *)

LEMMA StartLogin ==
    ASSUME TokenInv, NEW t \in Threads, NEW s \in DOMAIN sessions, NEW pin,
           \/ \E name \in LoginCalls, user \in Users : C_Login(t, name, s, user, pin)
           \/ \E name \in LoginCalls : C_LoginContext(t, name, s, pin)
           \/ C_Logout(t, s)
    PROVE  TokenInv'
<1>1. ASSUME NEW d, Fields(d, {"op", "at"}), d.op \in LoginCalls \cup {"C_Logout"},
             d.at \in {"pin", "context", "release"},
             call[t] = Idle, up, call' = [call EXCEPT ![t] = d],
             UNCHANGED <<lifeVars, sessionVars, tokens, storeVars>>
      PROVE  TokenInv'
  <2>1. d.op \notin SavingOps \cup {"C_CloseSession", "C_WrapKey"} /\ d.at \notin {"snapshot", "save", "store"}
    BY <1>1 DEF LoginCalls, SavingOps, MakingOps
  <2> QED BY <1>1, <2>1, StillQuiet, StartPlain
<1>2. ASSUME NEW name \in LoginCalls, NEW user \in Users, C_Login(t, name, s, user, pin)
      PROVE  TokenInv'
  <2>1. PICK d : d = [op |-> name, at |-> "pin", s |-> s, slot |-> sessions[s].slot,
                      user |-> user, pin |-> pin]
    OBVIOUS
  <2>2. Fields(d, {"op", "at"}) /\ d.op = name /\ d.at = "pin"
    BY <2>1 DEF Fields, Fun
  <2>3. /\ call[t] = Idle /\ up /\ call' = [call EXCEPT ![t] = d]
        /\ UNCHANGED <<lifeVars, sessionVars, tokens, storeVars>>
    BY <1>2, <2>1 DEF C_Login, Free, Enabled
  <2> QED BY <2>2, <2>3, <1>1
<1>3. ASSUME NEW name \in LoginCalls, C_LoginContext(t, name, s, pin)
      PROVE  TokenInv'
  <2>1. PICK d : d = [op |-> name, at |-> "context", s |-> s, slot |-> sessions[s].slot,
                      pin |-> pin]
    OBVIOUS
  <2>2. Fields(d, {"op", "at"}) /\ d.op = name /\ d.at = "context"
    BY <2>1 DEF Fields, Fun
  <2>3. /\ call[t] = Idle /\ up /\ call' = [call EXCEPT ![t] = d]
        /\ UNCHANGED <<lifeVars, sessionVars, tokens, storeVars>>
    BY <1>3, <2>1 DEF C_LoginContext, Free, Enabled
  <2> QED BY <2>2, <2>3, <1>1
<1>4. ASSUME C_Logout(t, s) PROVE TokenInv'
  <2>1. PICK d : d = [op |-> "C_Logout", at |-> "release", s |-> s, slot |-> sessions[s].slot]
    OBVIOUS
  <2>2. Fields(d, {"op", "at"}) /\ d.op = "C_Logout" /\ d.at = "release"
    BY <2>1 DEF Fields, Fun
  <2>3. /\ call[t] = Idle /\ up /\ call' = [call EXCEPT ![t] = d]
        /\ UNCHANGED <<lifeVars, sessionVars, tokens, storeVars>>
    BY <1>4, <2>1 DEF C_Logout, Free, Enabled
  <2> QED BY <2>2, <2>3, <1>1
<1> QED BY <1>2, <1>3, <1>4

LEMMA LoginPinKeeps ==
    ASSUME TokenInv, NEW t \in Threads, LoginPin(t)
    PROVE  TokenInv'
<1>1. PICK slot, user, pin : slot = call[t].slot /\ user = call[t].user /\ pin = call[t].pin
  OBVIOUS
<1>2. PICK r : r = VerifyPin(tokens[slot], user, pin)
  OBVIOUS
<1>3. /\ call[t].op \in LoginCalls
      /\ \/ Return(t) /\ UNCHANGED tokens
         \/ /\ tokens' = [tokens EXCEPT ![slot] = r.tok]
            /\ Return(t) \/ Goto(t, "clear") \/ Goto(t, "login")
      /\ UNCHANGED <<lifeVars, sessionVars, storeVars>>
  BY <1>1, <1>2 DEF LoginPin
<1>4. call[t].op # "Idle" /\ ~Closing(call[t])
  BY <1>3 DEF LoginCalls, Closing
<1>5. slot \in Slots => TokenOK(r.tok)
  BY <1>2, VerifyPinOK DEF TokenInv, LifeOK, TokensOK
<1>6. QuietVars
  BY <1>3, <1>5, TokenQuiet, StillQuiet
<1>7. CASE Return(t)
  BY <1>4, <1>6, <1>7, QuietReturn
<1>8. ASSUME NEW x \in {"clear", "login"}, Goto(t, x) PROVE TokenInv'
  BY <1>4, <1>6, <1>8, QuietGoto
<1> QED BY <1>3, <1>7, <1>8

LEMMA ChangePinKeeps ==
    ASSUME TokenInv, NEW t \in Threads, ChangePinStep(t)
    PROVE  TokenInv'
<1>1. PICK c : c = call[t]
  OBVIOUS
<1>2. PICK r : r = IF c.op = "C_InitPIN" THEN InitPin(tokens[c.slot], c.new)
                   ELSE ChangePin(tokens[c.slot], c.user, c.old, c.new)
  OBVIOUS
<1>3. /\ call[t].op \in {"C_InitPIN", "C_SetPIN"}
      /\ tokens' = [tokens EXCEPT ![c.slot] = r.tok]
      /\ Goto(t, "snapshot") \/ Return(t)
      /\ UNCHANGED <<lifeVars, sessionVars, storeVars>>
  BY <1>1, <1>2 DEF ChangePinStep
<1>4. call[t].op # "Idle" /\ ~Closing(call[t]) /\ call[t].op \in SavingOps \ MakingOps
  BY <1>3 DEF Closing, SavingOps, MakingOps
<1>5. c.slot \in Slots => TokenOK(r.tok)
  <2>1. ASSUME c.slot \in Slots PROVE TokenOK(tokens[c.slot])
    BY <2>1 DEF TokenInv, LifeOK, TokensOK
  <2> QED BY <1>2, <2>1, InitPinOK, ChangePinOK
<1>6. QuietVars
  BY <1>3, <1>5, TokenQuiet
<1>7. CASE Return(t)
  BY <1>4, <1>6, <1>7, QuietReturn
<1>8. CASE Goto(t, "snapshot")
  BY <1>4, <1>6, <1>8, QuietGoto
<1> QED BY <1>3, <1>7, <1>8

LEMMA InitTokenPinKeeps ==
    ASSUME TokenInv, NEW t \in Threads, InitTokenPin(t)
    PROVE  TokenInv'
<1>1. PICK slot, r : slot = call[t].slot /\ r = InitToken(tokens[slot], call[t].pin)
  OBVIOUS
<1>3. /\ call[t].op = "C_InitToken"
      /\ tokens' = [tokens EXCEPT ![slot] = r.tok]
      /\ Goto(t, "wipe") \/ Return(t)
      /\ UNCHANGED <<lifeVars, sessionVars, storeVars>>
  BY <1>1 DEF InitTokenPin, At
<1>4. call[t].op # "Idle" /\ ~Closing(call[t])
  BY <1>3 DEF Closing
<1>5. slot \in Slots => TokenOK(r.tok)
  BY <1>1, InitTokenOK DEF TokenInv, LifeOK, TokensOK
<1>6. QuietVars
  BY <1>3, <1>5, TokenQuiet
<1>7. CASE Return(t)
  BY <1>4, <1>6, <1>7, QuietReturn
<1>8. CASE Goto(t, "wipe")
  BY <1>4, <1>6, <1>8, QuietGoto
<1> QED BY <1>3, <1>7, <1>8

\* The calls that change a PIN, or start a token anew, save at their end.
LEMMA StartPinCall ==
    ASSUME TokenInv, NEW t \in Threads,
           \/ \E slot \in Slots, pin \in app.pins : C_InitToken(t, slot, pin)
           \/ \E s \in DOMAIN sessions, pin \in app.pins : C_InitPIN(t, s, pin)
           \/ \E s \in DOMAIN sessions, old, new \in app.pins : C_SetPIN(t, s, old, new)
    PROVE  TokenInv'
<1>1. ASSUME NEW d, Fields(d, {"op", "at", "tells", "snap", "after"}), d.at = "pin",
             d.op \in {"C_InitToken", "C_InitPIN", "C_SetPIN"}, d.tells = {},
             d.after \in {"return", "persist", "clear"},
             call[t] = Idle, up, call' = [call EXCEPT ![t] = d],
             UNCHANGED <<lifeVars, sessionVars, tokens, storeVars>>
      PROVE  TokenInv'
  <2>1. /\ d.op \in SavingOps \ MakingOps /\ d.op # "C_SetAttributeValue"
        /\ d.at \notin {"snapshot", "save", "store"}
    BY <1>1 DEF SavingOps, MakingOps
  <2>2. CallShape(d) /\ CallCurrent(d)
    BY <1>1, <2>1, SavingCall
  <2> QED BY <1>1, <2>2, StillQuiet, QuietStart
<1>2. ASSUME NEW slot \in Slots, NEW pin \in app.pins, C_InitToken(t, slot, pin) PROVE TokenInv'
  <2>1. PICK d : d = [op |-> "C_InitToken", at |-> "pin", slot |-> slot, pin |-> pin,
                      tells |-> {}, snap |-> NoFile, after |-> "persist"]
    OBVIOUS
  <2>2. /\ Fields(d, {"op", "at", "tells", "snap", "after"}) /\ d.at = "pin"
        /\ d.op = "C_InitToken" /\ d.tells = {} /\ d.after = "persist"
    BY <2>1 DEF Fields, Fun
  <2>3. /\ call[t] = Idle /\ up /\ call' = [call EXCEPT ![t] = d]
        /\ UNCHANGED <<lifeVars, sessionVars, tokens, storeVars>>
    BY <1>2, <2>1 DEF C_InitToken, Free, Enabled
  <2> QED BY <2>2, <2>3, <1>1
<1>3. ASSUME NEW name \in {"C_InitPIN", "C_SetPIN"}, NEW after \in {"return", "clear"},
             NEW s, NEW user, NEW old, NEW new, Free(t, name),
             call' = [call EXCEPT ![t] = PinCall(name, s, user, old, new, after)],
             UNCHANGED <<lifeVars, sessionVars, tokens, storeVars>>
      PROVE  TokenInv'
  <2>1. PICK d : d = PinCall(name, s, user, old, new, after)
    OBVIOUS
  <2>2. /\ Fields(d, {"op", "at", "tells", "snap", "after"}) /\ d.at = "pin"
        /\ d.op = name /\ d.tells = {} /\ d.after = after
    BY <2>1 DEF PinCall, Fields, Fun
  <2>3. call[t] = Idle /\ up /\ call' = [call EXCEPT ![t] = d]
    BY <1>3, <2>1 DEF Free, Enabled
  <2> QED BY <2>2, <2>3, <1>1, <1>3
<1>4. ASSUME NEW s \in DOMAIN sessions, NEW pin \in app.pins, C_InitPIN(t, s, pin) PROVE TokenInv'
  BY <1>4, <1>3 DEF C_InitPIN
<1>5. ASSUME NEW s \in DOMAIN sessions, NEW old \in app.pins, NEW new \in app.pins,
             C_SetPIN(t, s, old, new)
      PROVE  TokenInv'
  BY <1>5, <1>3 DEF C_SetPIN
<1> QED BY <1>2, <1>4, <1>5

\* Steps that clear or set the confirmation of the call's session.
LEMMA ConfirmationKeeps ==
    ASSUME TokenInv, NEW t \in Threads,
           LoginClear(t) \/ ContextArm(t) \/ SetPinClear(t) \/ BurnTicket(t)
    PROVE  TokenInv'
<1>1. PICK s : s = call[t].s
  OBVIOUS
<1>2. /\ call[t].op \in LoginCalls \cup {"C_SetPIN", "C_UnwrapKey", "C_DeriveKey", "C_WrapKey"}
      /\ Return(t) \/ Goto(t, "login")
      /\ UNCHANGED <<lifeVars, nextSession, cut, tokens, storeVars>>
      /\ \/ sessions' = sessions
         \/ s \in DOMAIN sessions /\ sessions' = [sessions EXCEPT ![s].authed = FALSE]
         \/ s \in DOMAIN sessions /\ sessions' = [sessions EXCEPT ![s].authed = TRUE, ![s].uses = 0]
  BY <1>1 DEF LoginClear, ContextArm, SetPinClear, BurnTicket, At, OnSession, LoginCalls
<1>3. call[t].op # "Idle" /\ ~Closing(call[t])
  BY <1>2 DEF LoginCalls, Closing
<1>4. QuietVars
  BY <1>2, SessionStill, AuthedQuiet, AuthedUsesQuiet
<1>5. CASE Return(t)
  BY <1>3, <1>4, <1>5, QuietReturn
<1>6. CASE Goto(t, "login")
  BY <1>3, <1>4, <1>6, QuietGoto
<1> QED BY <1>2, <1>5, <1>6

LEMMA ContextPinKeeps ==
    ASSUME TokenInv, NEW t \in Threads, ContextPin(t)
    PROVE  TokenInv'
<1>1. /\ call[t].op \in LoginCalls /\ (Goto(t, "arm") \/ Return(t))
      /\ UNCHANGED <<lifeVars, sessionVars, tokens, storeVars>>
  BY DEF ContextPin
<1>2. call[t].op # "Idle" /\ ~Closing(call[t]) /\ QuietVars
  BY <1>1, StillQuiet DEF LoginCalls, Closing
<1>3. CASE Return(t)
  BY <1>2, <1>3, QuietReturn
<1>4. CASE Goto(t, "arm")
  BY <1>2, <1>4, QuietGoto
<1> QED BY <1>1, <1>3, <1>4

LEMMA UniformAgain ==
    ASSUME DOMAIN sessions' = DOMAIN sessions,
           \A a, b \in DOMAIN sessions :
              sessions'[a].slot = sessions'[b].slot => sessions'[a].login = sessions'[b].login
    PROVE  LoginUniform'
BY DEF LoginUniform

\* All sessions of a slot take the new login at once.
LEMMA AllLoggedIn ==
    ASSUME TokenInv, NEW slot, NEW state, sessions' = LoginAllSessionsOnSlot(slot, state),
           UNCHANGED <<lifeVars, nextSession, cut, tokens, storeVars>>
    PROVE  QuietVars
<1>1. /\ Fun(sessions) /\ \A r \in DOMAIN sessions : Fields(sessions[r], SessionFields)
      /\ LoginUniform
  BY DEF TokenInv, SessionsOK
<1>2. sessions' = [s \in DOMAIN sessions |->
                      IF sessions[s].slot = slot THEN [sessions[s] EXCEPT !.login = state]
                      ELSE sessions[s]]
  BY DEF LoginAllSessionsOnSlot
<1>3. ASSUME NEW r \in DOMAIN sessions
      PROVE  /\ Fields(sessions'[r], SessionFields) /\ sessions'[r].slot = sessions[r].slot
             /\ sessions'[r].login = IF sessions[r].slot = slot THEN state ELSE sessions[r].login
  <2>1. PICK q : q = [sessions[r] EXCEPT !.login = state]
    OBVIOUS
  <2>2. Fields(q, SessionFields) /\ q.slot = sessions[r].slot /\ q.login = state
    BY <2>1, <1>1 DEF Fields, Fun, SessionFields
  <2> QED BY <1>1, <1>2, <2>1, <2>2
<1>4. Fun(sessions') /\ DOMAIN sessions' = DOMAIN sessions
  BY <1>2 DEF Fun
<1>5. SameSessions
  BY <1>3, <1>4 DEF SameSessions
<1>6. LoginUniform'
  <2>1. ASSUME NEW a \in DOMAIN sessions, NEW b \in DOMAIN sessions,
               sessions'[a].slot = sessions'[b].slot
        PROVE  sessions'[a].login = sessions'[b].login
    <3>1. sessions[a].slot = sessions[b].slot
      BY <2>1, <1>3
    <3>2. sessions[a].login = sessions[b].login
      BY <3>1, <1>1 DEF LoginUniform
    <3> QED BY <3>1, <3>2, <1>3
  <2>2. \A a, b \in DOMAIN sessions :
           sessions'[a].slot = sessions'[b].slot => sessions'[a].login = sessions'[b].login
    BY <2>1
  <2> QED BY <2>2, <1>4, UniformAgain
<1> QED BY <1>5, <1>6, QuietTouch

LEMMA LoginAllKeeps ==
    ASSUME TokenInv, NEW t \in Threads, LoginAll(t) \/ LogoutAll(t)
    PROVE  TokenInv'
<1>1. PICK state : sessions' = LoginAllSessionsOnSlot(call[t].slot, state)
  BY DEF LoginAll, LogoutAll
<1>2. /\ call[t].op \in LoginCalls \cup {"C_Logout"} /\ Return(t)
      /\ UNCHANGED <<lifeVars, nextSession, cut, tokens, storeVars>>
  BY DEF LoginAll, LogoutAll, At
<1>3. QuietVars /\ ~Closing(call[t])
  BY <1>1, <1>2, AllLoggedIn DEF Closing, LoginCalls
<1> QED BY <1>2, <1>3, QuietReturn

LEMMA LogoutReleaseKeeps ==
    ASSUME TokenInv, NEW t \in Threads, LogoutRelease(t)
    PROVE  TokenInv'
<1>1. /\ Fun(sessions) /\ \A r \in DOMAIN sessions : Fields(sessions[r], SessionFields)
      /\ LoginUniform
  BY DEF TokenInv, SessionsOK
<1>2. /\ call[t].op = "C_Logout" /\ Goto(t, "destroy")
      /\ UNCHANGED <<lifeVars, nextSession, cut, tokens, storeVars>>
  BY DEF LogoutRelease, At
<1>3. PICK slot : slot = call[t].slot
  OBVIOUS
<1>4. sessions' = [s \in DOMAIN sessions |->
                      IF sessions[s].slot = slot THEN [sessions[s] EXCEPT !.ops["find"] = NoCtx]
                      ELSE sessions[s]]
  BY <1>3 DEF LogoutRelease, ReleaseFindContextsOnSlot
<1>5. ASSUME NEW r \in DOMAIN sessions
      PROVE  /\ Fields(sessions'[r], SessionFields) /\ sessions'[r].slot = sessions[r].slot
             /\ sessions'[r].login = sessions[r].login
  <2>1. PICK q : q = [sessions[r] EXCEPT !.ops["find"] = NoCtx]
    OBVIOUS
  <2>2. Fields(q, SessionFields) /\ q.slot = sessions[r].slot /\ q.login = sessions[r].login
    BY <2>1, <1>1 DEF Fields, Fun, SessionFields
  <2> QED BY <1>1, <1>4, <2>1, <2>2
<1>6. Fun(sessions') /\ DOMAIN sessions' = DOMAIN sessions
  BY <1>4 DEF Fun
<1>7. SameSessions
  BY <1>5, <1>6 DEF SameSessions
<1>8. LoginUniform'
  <2>1. ASSUME NEW a \in DOMAIN sessions, NEW b \in DOMAIN sessions,
               sessions'[a].slot = sessions'[b].slot
        PROVE  sessions'[a].login = sessions'[b].login
    <3>1. sessions[a].slot = sessions[b].slot
      BY <2>1, <1>5
    <3>2. sessions[a].login = sessions[b].login
      BY <3>1, <1>1 DEF LoginUniform
    <3> QED BY <3>2, <1>5
  <2> QED BY <2>1, <1>6 DEF LoginUniform
<1>9. QuietVars /\ call[t].op # "Idle" /\ ~Closing(call[t])
  BY <1>2, <1>7, <1>8, QuietTouch DEF Closing
<1> QED BY <1>2, <1>9, QuietGoto


-----------------------------------------------------------------------------
(* Steps that remove objects *)

\* The objects K and the promises P stay.
Removes(K, P) ==
    /\ UNCHANGED <<lifeVars, sessionVars, tokens, nextHandle>>
    /\ K \subseteq DOMAIN objects /\ objects' = Restrict(objects, K) /\ ~StoreLocked
    /\ P \subseteq DOMAIN promised /\ promised' = Restrict(promised, P)
    /\ P \cap DOMAIN objects \subseteq K

LEMMA RemoveStep ==
    ASSUME TokenInv, NEW t \in Threads, NEW K, NEW P, Removes(K, P),
           NEW d, call' = [call EXCEPT ![t] = d],
           CallShape(d), CallCurrent(d), d.op = "Idle" \/ d.at # "save",
           \A h \in K : ~objects[h].token => ~Destroys(call[t], objects[h])
    PROVE  TokenInv'
<1>1. /\ UNCHANGED <<lifeVars, sessionVars, tokens, nextHandle>>
      /\ K \subseteq DOMAIN objects /\ objects' = [h \in K |-> objects[h]] /\ ~StoreLocked
      /\ P \subseteq DOMAIN promised /\ promised' = Restrict(promised, P)
      /\ P \cap DOMAIN objects \subseteq K
  BY DEF Removes, Restrict
<1>2. \A h \in DOMAIN objects : ObjectOK(objects[h])
  BY DEF TokenInv, ObjectsOK
<1>3. /\ Fun(objects') /\ DOMAIN objects' = K /\ \A h \in K : objects'[h] = objects[h]
  BY <1>1 DEF Fun
<1>4. \A h \in DOMAIN objects' : Kin(objects'[h], objects[h]) /\ ObjectOK(objects'[h])
  BY <1>1, <1>2, <1>3 DEF Kin
<1>5. \A h \in P \cap DOMAIN objects : h \in DOMAIN objects' /\ Stored(objects'[h]) = Stored(objects[h])
  BY <1>1, <1>3
<1>6. \A h \in DOMAIN objects' : ~objects'[h].token => ~Destroys(call[t], objects'[h])
  BY <1>3
<1>7. StoreStep(t, d, P)
  BY <1>1, <1>3, <1>4, <1>5, <1>6 DEF StoreStep
<1> QED BY <1>7, StoreKeeps

LEMMA RemoveReturn ==
    ASSUME TokenInv, NEW t \in Threads, NEW K, NEW P, Removes(K, P), Return(t),
           \A h \in K : ~objects[h].token => ~Destroys(call[t], objects[h])
    PROVE  TokenInv'
<1>1. PICK d : d = Idle
  OBVIOUS
<1>2. CallShape(d) /\ CallCurrent(d) /\ d.op = "Idle" /\ call' = [call EXCEPT ![t] = d]
  BY <1>1, IdleShape DEF Return
<1> QED BY <1>2, RemoveStep

LEMMA RemoveGoto ==
    ASSUME TokenInv, NEW t \in Threads, NEW K, NEW P, Removes(K, P), NEW x, Goto(t, x),
           ~Closing(call[t]), call[t].op # "Idle", x \notin {"save", "wrap", "set", "use", "store"},
           x = "snapshot" => call[t].op \in SavingOps \ MakingOps
    PROVE  TokenInv'
<1>1. PICK c : c = call[t]
  OBVIOUS
<1>2. PICK d : d = [c EXCEPT !.at = x]
  OBVIOUS
<1>3. CallShape(c) /\ CallCurrent(c) /\ call = [u \in Threads |-> call[u]]
  BY <1>1 DEF TokenInv, CallsOK
<1>4. GoesOn(d, c)
  BY <1>1, <1>2, <1>3, MovesOn
<1>5. CallCurrent(d)
  BY <1>1, <1>3, <1>4, GoesOnCurrent
<1>6. call' = [call EXCEPT ![t] = d]
  BY <1>1, <1>2, <1>3 DEF Goto
<1>7. \A h \in K : ~Destroys(call[t], objects[h])
  BY DEF Destroys, Closing
<1>8. d.op = "Idle" \/ d.at # "save"
  BY <1>4 DEF GoesOn
<1> QED BY <1>4, <1>5, <1>6, <1>7, <1>8, RemoveStep DEF GoesOn

LEMMA LogoutDestroyKeeps ==
    ASSUME TokenInv, NEW t \in Threads, LogoutDestroy(t)
    PROVE  TokenInv'
<1>1. PICK K : K = {h \in DOMAIN objects : \/ objects[h].slot # call[t].slot
                                          \/ ~IsSessionObject(objects[h])
                                          \/ ~objects[h].private}
  OBVIOUS
<1>3. /\ call[t].op = "C_Logout" /\ Goto(t, "logout") /\ ~StoreLocked
      /\ objects' = Restrict(objects, K)
      /\ UNCHANGED <<lifeVars, sessionVars, tokens, nextHandle, promised>>
  BY <1>1 DEF LogoutDestroy, At
<1>4. up /\ PromisesOK
  BY <1>3, BusyCall DEF TokenInv
<1>5. promised' = Restrict(promised, DOMAIN promised)
  BY <1>3, <1>4 DEF PromisesOK, Fun, Restrict
<1>6. DOMAIN promised \cap DOMAIN objects \subseteq K
  BY <1>1, <1>4 DEF PromisesOK, IsSessionObject
<1>7. K \subseteq DOMAIN objects
  BY <1>1
<1>8. Removes(K, DOMAIN promised)
  BY <1>3, <1>5, <1>6, <1>7 DEF Removes
<1>9. call[t].op # "Idle" /\ ~Closing(call[t])
  BY <1>3 DEF Closing
<1> QED BY <1>3, <1>8, <1>9, RemoveGoto

\* destroy_objects_for_session and destroy_session_objects_for_slot leave the token objects.
LEMMA PurgeKeeps ==
    ASSUME TokenInv, NEW t \in Threads, CloseSessionPurge(t) \/ CloseAllPurge(t)
    PROVE  TokenInv'
<1>1. ASSUME NEW K, K \subseteq DOMAIN objects, objects' = Restrict(objects, K), ~StoreLocked,
             Return(t), UNCHANGED <<lifeVars, sessionVars, tokens, nextHandle, promised>>,
             \A h \in DOMAIN objects : objects[h].token => h \in K, call[t].op # "Idle",
             \A h \in K : ~objects[h].token => ~Destroys(call[t], objects[h])
      PROVE  TokenInv'
  <2>1. up /\ PromisesOK
    BY <1>1, BusyCall DEF TokenInv
  <2>2. promised' = Restrict(promised, DOMAIN promised)
    BY <1>1, <2>1 DEF PromisesOK, Fun, Restrict
  <2>3. DOMAIN promised \cap DOMAIN objects \subseteq K
    BY <1>1, <2>1 DEF PromisesOK
  <2>4. Removes(K, DOMAIN promised)
    BY <1>1, <2>2, <2>3 DEF Removes
  <2> QED BY <1>1, <2>4, RemoveReturn
<1>2. CASE CloseSessionPurge(t)
  <2>1. PICK K : K = {h \in DOMAIN objects : objects[h].owner # call[t].s}
    OBVIOUS
  <2>2. /\ call[t].op = "C_CloseSession" /\ Return(t) /\ ~StoreLocked
        /\ objects' = Restrict(objects, K)
        /\ UNCHANGED <<lifeVars, sessionVars, tokens, nextHandle, promised>>
    BY <1>2, <2>1 DEF CloseSessionPurge, At
  <2>3. call[t].s # NoSession
    BY <2>2 DEF TokenInv, CallsOK, CallShape
  <2>4. \A h \in DOMAIN objects : objects[h].token => objects[h].owner = NoSession
    BY DEF TokenInv, ObjectsOK
  <2>5. \A h \in DOMAIN objects : objects[h].token => h \in K
    BY <2>1, <2>3, <2>4
  <2>6. \A h \in K : ~Destroys(call[t], objects[h])
    BY <2>1, <2>2 DEF Destroys
  <2>7. K \subseteq DOMAIN objects
    BY <2>1
  <2> QED BY <1>1, <2>2, <2>5, <2>6, <2>7
<1>3. CASE CloseAllPurge(t)
  <2>1. PICK K : K = {h \in DOMAIN objects :
                        objects[h].slot # call[t].slot \/ ~IsSessionObject(objects[h])}
    OBVIOUS
  <2>2. /\ call[t].op = "C_CloseAllSessions" /\ Return(t) /\ ~StoreLocked
        /\ objects' = Restrict(objects, K)
        /\ UNCHANGED <<lifeVars, sessionVars, tokens, nextHandle, promised>>
    BY <1>3, <2>1 DEF CloseAllPurge, At
  <2>5. \A h \in DOMAIN objects : objects[h].token => h \in K
    BY <2>1 DEF IsSessionObject
  <2>6. \A h \in K : ~objects[h].token => ~Destroys(call[t], objects[h])
    BY <2>1, <2>2 DEF Destroys, IsSessionObject
  <2>7. K \subseteq DOMAIN objects
    BY <2>1
  <2> QED BY <1>1, <2>2, <2>5, <2>6, <2>7
<1> QED BY <1>2, <1>3

LEMMA InitTokenWipeKeeps ==
    ASSUME TokenInv, NEW t \in Threads, InitTokenWipe(t)
    PROVE  TokenInv'
<1>1. PICK K : K = {h \in DOMAIN objects : objects[h].slot # call[t].slot}
  OBVIOUS
<1>2. PICK P : P = K \cap DOMAIN promised
  OBVIOUS
<1>3. /\ call[t].op = "C_InitToken" /\ Goto(t, "snapshot") /\ ~StoreLocked
      /\ objects' = Restrict(objects, K) /\ promised' = Restrict(promised, P)
      /\ UNCHANGED <<lifeVars, sessionVars, tokens, nextHandle>>
  BY <1>1, <1>2 DEF InitTokenWipe, At
<1>4. Removes(K, P)
  BY <1>1, <1>2, <1>3 DEF Removes
<1>5. call[t].op # "Idle" /\ ~Closing(call[t]) /\ call[t].op \in SavingOps \ MakingOps
  BY <1>3 DEF Closing, SavingOps, MakingOps
<1> QED BY <1>3, <1>4, <1>5, RemoveGoto

LEMMA DestroyRemoveKeeps ==
    ASSUME TokenInv, NEW t \in Threads, DestroyRemove(t)
    PROVE  TokenInv'
<1>1. PICK K, P : K = DOMAIN objects \ {call[t].key} /\ P = DOMAIN promised \ {call[t].key}
  OBVIOUS
<1>2. /\ call[t].op = "C_DestroyObject" /\ (Goto(t, "snapshot") \/ Return(t)) /\ ~StoreLocked
      /\ objects' = Restrict(objects, K) /\ promised' = Restrict(promised, P)
      /\ UNCHANGED <<lifeVars, sessionVars, tokens, nextHandle>>
  BY <1>1 DEF DestroyRemove, At
<1>3. Removes(K, P)
  BY <1>1, <1>2 DEF Removes
<1>4. call[t].op # "Idle" /\ ~Closing(call[t]) /\ call[t].op \in SavingOps \ MakingOps
  BY <1>2 DEF Closing, SavingOps, MakingOps
<1>5. CASE Goto(t, "snapshot")
  BY <1>3, <1>4, <1>5, RemoveGoto
<1>6. CASE Return(t)
  <2>1. \A h \in K : ~Destroys(call[t], objects[h])
    BY <1>2 DEF Destroys
  <2> QED BY <2>1, <1>3, <1>6, RemoveReturn
<1> QED BY <1>2, <1>5, <1>6


-----------------------------------------------------------------------------
(* The calls on sessions, logins and tokens together *)

LEMMA CloseCallsKeep ==
    ASSUME TokenInv, NEW t \in Threads,
           \/ \E s \in DOMAIN sessions : C_CloseSession(t, s)
           \/ \E slot \in Slots : C_CloseAllSessions(t, slot)
    PROVE  TokenInv'
<1>0. SessionsOK /\ OwnersOK
  BY DEF TokenInv
<1>1. ASSUME NEW s \in DOMAIN sessions, C_CloseSession(t, s) PROVE TokenInv'
  <2>1. PICK d : d = [op |-> "C_CloseSession", at |-> "purge", s |-> s]
    OBVIOUS
  <2>2. /\ call[t] = Idle /\ up /\ call' = [call EXCEPT ![t] = d]
        /\ sessions' = Restrict(sessions, DOMAIN sessions \ {s})
        /\ cut' = cut \cup ({s} \cap InUseByOthers(t))
        /\ UNCHANGED <<lifeVars, nextSession, tokens, storeVars>>
    BY <1>1, <2>1 DEF C_CloseSession, Free, Enabled
  <2>3. Fields(d, {"op", "at", "s"}) /\ d.op = "C_CloseSession" /\ d.at = "purge" /\ d.s = s
    BY <2>1 DEF Fields, Fun
  <2>4. s \in Nat \ {0}
    BY <1>0 DEF SessionsOK
  <2>5. s # NoSession
    BY <2>4 DEF NoSession
  <2>6. CallShape(d) /\ d.op \notin SavingOps \cup {"C_WrapKey"} /\ d.at # "save"
    BY <2>3, <2>5 DEF CallShape, Fields, SavingOps, MakingOps
  <2>7. \A h \in DOMAIN objects :
           ~objects[h].token /\ objects[h].owner \in {s} => Destroys(d, objects[h])
    BY <2>3 DEF Destroys
  <2>8. CloseStep(t, d, {s})
    BY <2>2, <2>6, <2>7 DEF CloseStep
  <2> QED BY <2>8, CloseKeeps
<1>2. ASSUME NEW slot \in Slots, C_CloseAllSessions(t, slot) PROVE TokenInv'
  <2>1. PICK d : d = [op |-> "C_CloseAllSessions", at |-> "purge", slot |-> slot]
    OBVIOUS
  <2>2. PICK Z : Z = {s \in DOMAIN sessions : sessions[s].slot = slot}
    OBVIOUS
  <2>3. /\ call[t] = Idle /\ up /\ call' = [call EXCEPT ![t] = d]
        /\ sessions' = Restrict(sessions, DOMAIN sessions \ Z)
        /\ cut' = cut \cup (Z \cap InUseByOthers(t))
        /\ UNCHANGED <<lifeVars, nextSession, tokens, storeVars>>
    BY <1>2, <2>1, <2>2 DEF C_CloseAllSessions, Free, Enabled, OpenSessions
  <2>4. Fields(d, {"op", "at", "slot"}) /\ d.op = "C_CloseAllSessions" /\ d.at = "purge" /\ d.slot = slot
    BY <2>1 DEF Fields, Fun
  <2>5. CallShape(d) /\ d.op \notin SavingOps \cup {"C_WrapKey"} /\ d.at # "save"
    BY <2>4 DEF CallShape, Fields, SavingOps, MakingOps
  <2>6. \A h \in DOMAIN objects :
           ~objects[h].token /\ objects[h].owner \in Z => Destroys(d, objects[h])
    BY <1>0, <2>2, <2>4 DEF Destroys, OwnersOK, IsSessionObject
  <2>7. Z \subseteq DOMAIN sessions
    BY <2>2
  <2>8. CloseStep(t, d, Z)
    BY <2>3, <2>5, <2>6, <2>7 DEF CloseStep
  <2> QED BY <2>8, CloseKeeps
<1> QED BY <1>1, <1>2

LEMMA LibraryKeep ==
    ASSUME TokenInv, NEW t \in Threads, Library(t)
    PROVE  TokenInv'
BY StartPinCall, InitTokenPinKeeps, InitTokenWipeKeeps DEF Library

LEMMA SessionsKeep ==
    ASSUME TokenInv, NEW t \in Threads, Sessions(t)
    PROVE  TokenInv'
BY CloseCallsKeep, PurgeKeeps DEF Sessions

LEMMA LoginsKeep ==
    ASSUME TokenInv, NEW t \in Threads, Logins(t)
    PROVE  TokenInv'
<1>1. ASSUME NEW name \in LoginCalls, NEW s \in DOMAIN sessions, NEW user \in Users,
             NEW pin \in app.pins, C_Login(t, name, s, user, pin)
      PROVE  TokenInv'
  BY <1>1, StartLogin
<1>2. ASSUME NEW name \in LoginCalls, NEW s \in DOMAIN sessions, NEW pin \in app.pins,
             C_LoginContext(t, name, s, pin)
      PROVE  TokenInv'
  BY <1>2, StartLogin
<1>3. ASSUME NEW s \in DOMAIN sessions, C_Logout(t, s) PROVE TokenInv'
  BY <1>3, StartLogin
<1>4. ASSUME \/ \E s \in DOMAIN sessions, pin \in app.pins : C_InitPIN(t, s, pin)
             \/ \E s \in DOMAIN sessions, old, new \in app.pins : C_SetPIN(t, s, old, new)
      PROVE  TokenInv'
  BY <1>4, StartPinCall
<1>5. ASSUME LoginPin(t) \/ LoginClear(t) \/ LoginAll(t) \/ ContextPin(t) \/ ContextArm(t)
      PROVE  TokenInv'
  BY <1>5, LoginPinKeeps, ConfirmationKeeps, LoginAllKeeps, ContextPinKeeps
<1>6. ASSUME \/ LogoutRelease(t) \/ LogoutDestroy(t) \/ LogoutAll(t)
             \/ ChangePinStep(t) \/ SetPinClear(t)
      PROVE  TokenInv'
  BY <1>6, LogoutReleaseKeeps, LogoutDestroyKeeps, LoginAllKeeps, ChangePinKeeps, ConfirmationKeeps
<1> QED BY <1>1, <1>2, <1>3, <1>4, <1>5, <1>6 DEF Logins

-----------------------------------------------------------------------------
(* The calls on objects *)

LEMMA TemplateOK ==
    ASSUME TokenInv, NEW tm \in app.templates
    PROVE  /\ Fields(tm, {"token", "private", "sensitive", "extractable", "may"})
           /\ tm.sensitive \in Attribute /\ tm.extractable \in Attribute
<1>1. app \in Applications
  BY DEF TokenInv, LifeOK
<1>2. tm \in [token : Attribute, private : BOOLEAN, sensitive : Attribute,
              extractable : Attribute, may : SUBSET {"wrap", "unwrap", "derive"}]
  BY <1>1, ApplicationsOK
<1>3. /\ tm = [f \in {"token", "private", "sensitive", "extractable", "may"} |-> tm[f]]
      /\ tm.sensitive \in Attribute /\ tm.extractable \in Attribute
  BY <1>2
<1> QED BY <1>3 DEF Fields, Fun

NewForm(o, slot, type, tm) ==
    /\ ObjectOK(o) /\ o.slot = slot /\ o.type = type /\ o.left = {}
    /\ o.sensitive = tm.sensitive /\ o.extractable = tm.extractable

LEMMA NewObjectOK ==
    ASSUME NEW slot, NEW type, NEW tm, NEW o, o = NewObject(slot, type, tm)
    PROVE  NewForm(o, slot, type, tm)
<1>2. /\ Fields(o, ObjectFields) /\ o.slot = slot /\ o.type = type /\ o.left = {}
      /\ o.sensitive = tm.sensitive /\ o.extractable = tm.extractable
      /\ o.alwaysSensitive = FALSE /\ o.neverExtractable = FALSE
  BY DEF NewObject, Fields, Fun, ObjectFields
<1> QED BY <1>2 DEF NewForm, ObjectOK, Honest

\* What a template leaves open is "true" for CKA_SENSITIVE and "false" for CKA_EXTRACTABLE.
LEMMA GeneratedOK ==
    ASSUME TokenInv, NEW slot, NEW type, type \notin Public, NEW tm \in app.templates, NEW auth
    PROVE  /\ ObjectOK(GeneratedKey(slot, type, tm, auth))
           /\ GeneratedKey(slot, type, tm, auth).slot = slot
<1>1. PICK q : q = [tm EXCEPT !.sensitive = Or(@, "true"), !.extractable = Or(@, "false")]
  OBVIOUS
<1>2. PICK n : n = NewObject(slot, type, q)
  OBVIOUS
<1>n. NewForm(n, slot, type, q)
  BY <1>2, NewObjectOK
<1>3. /\ Fields(n, ObjectFields) /\ n.slot = slot /\ n.type = type /\ n.left = {}
      /\ n.sensitive = q.sensitive /\ n.extractable = q.extractable
  BY <1>n DEF NewForm, ObjectOK
<1>4. PICK o : o = [n EXCEPT !.alwaysSensitive = (q.sensitive = "true"),
                             !.neverExtractable = (q.extractable = "false"),
                             !.alwaysAuth = auth]
  OBVIOUS
<1>5. /\ Fields(o, ObjectFields) /\ o.slot = slot /\ o.type = type /\ o.left = {}
      /\ o.sensitive = q.sensitive /\ o.extractable = q.extractable
      /\ o.alwaysSensitive = (q.sensitive = "true")
      /\ o.neverExtractable = (q.extractable = "false")
  BY <1>3, <1>4 DEF Fields, Fun, ObjectFields
<1>6. ObjectOK(o)
  BY <1>5 DEF ObjectOK, Honest
<1>7. o = GeneratedKey(slot, type, tm, auth)
  BY <1>1, <1>2, <1>4 DEF GeneratedKey
<1> QED BY <1>5, <1>6, <1>7

LEMMA CopyOK ==
    ASSUME TokenInv, NEW src, ObjectOK(src), NEW tm \in app.templates,
           \A attr \in {"sensitive", "extractable"} :
              tm[attr] # "absent" => ValidateAttributeChange(attr, src[attr], tm[attr])
    PROVE  ObjectOK(CopyOf(src, tm)) /\ CopyOf(src, tm).slot = src.slot
<1>0. tm.sensitive \in Attribute /\ tm.extractable \in Attribute
  BY TemplateOK
<1>1. PICK o : o = CopyOf(src, tm)
  OBVIOUS
<1>2. Fields(src, ObjectFields) /\ Honest(src)
  BY DEF ObjectOK
<1>3. /\ Fields(o, ObjectFields) /\ o.slot = src.slot /\ o.type = src.type /\ o.left = src.left
      /\ o.sensitive = Or(tm.sensitive, src.sensitive)
      /\ o.extractable = Or(tm.extractable, src.extractable)
      /\ o.alwaysSensitive = src.alwaysSensitive /\ o.neverExtractable = src.neverExtractable
      /\ o.derived = src.derived
  BY <1>1, <1>2 DEF CopyOf, Fields, Fun, ObjectFields
<1>4. src.sensitive = "true" => o.sensitive = "true"
  <2>1. tm.sensitive # "absent" => ValidateAttributeChange("sensitive", src.sensitive, tm.sensitive)
    OBVIOUS
  <2>2. tm.sensitive # "absent" => ~(src.sensitive = "true" /\ tm.sensitive = "false")
    BY <2>1 DEF ValidateAttributeChange
  <2> QED BY <1>0, <1>3, <2>2 DEF Or, Attribute
<1>5. src.extractable = "false" => o.extractable = "false"
  <2>1. tm.extractable # "absent" => ValidateAttributeChange("extractable", src.extractable, tm.extractable)
    OBVIOUS
  <2>2. tm.extractable # "absent" => ~(src.extractable = "false" /\ tm.extractable = "true")
    BY <2>1 DEF ValidateAttributeChange
  <2> QED BY <1>0, <1>3, <2>2 DEF Or, Attribute
<1>6. ObjectOK(o)
  BY <1>2, <1>3, <1>4, <1>5 DEF ObjectOK, Honest
<1> QED BY <1>1, <1>3, <1>6

\* A derived key is the exception to the claims.
DerivedFrom(slot, tm, base) ==
    [NewObject(slot, "AesSecret", tm) EXCEPT
        !.alwaysSensitive = base.alwaysSensitive, !.neverExtractable = base.neverExtractable,
        !.left = base.left, !.derived = TRUE]

LEMMA DerivedOK ==
    ASSUME NEW slot, NEW tm, NEW base, NEW o, o = DerivedFrom(slot, tm, base)
    PROVE  ObjectOK(o) /\ o.slot = slot
<1>1. PICK n : n = NewObject(slot, "AesSecret", tm)
  OBVIOUS
<1>2. NewForm(n, slot, "AesSecret", tm)
  BY <1>1, NewObjectOK
<1>3. Fields(n, ObjectFields) /\ n.slot = slot
  BY <1>2 DEF NewForm, ObjectOK
<1>4. o = [n EXCEPT !.alwaysSensitive = base.alwaysSensitive,
                    !.neverExtractable = base.neverExtractable,
                    !.left = base.left, !.derived = TRUE]
  BY <1>1 DEF DerivedFrom
<1>5. Fields(o, ObjectFields) /\ o.slot = slot /\ o.derived = TRUE
  BY <1>3, <1>4 DEF Fields, Fun, ObjectFields
<1> QED BY <1>5 DEF ObjectOK, Honest

LEMMA TodoOne ==
    ASSUME NEW a, ObjectOK(a)
    PROVE  TodoOK(<<a>>) /\ <<a>> # <<>> /\ \A i \in DOMAIN <<a>> : <<a>>[i] = a
<1>1. DOMAIN <<a>> = {1} /\ <<a>>[1] = a /\ <<a>> # <<>>
  BY SMT
<1>2. PICK todo : todo = <<a>>
  OBVIOUS
<1>3. DOMAIN todo = {1} /\ todo[1] = a /\ todo = <<todo[1]>> /\ todo # <<>>
  BY <1>1, <1>2
<1>4. TodoOK(todo)
  BY <1>3 DEF TodoOK
<1> QED BY <1>2, <1>3, <1>4

LEMMA TodoTwo ==
    ASSUME NEW a, NEW b, ObjectOK(a), ObjectOK(b)
    PROVE  TodoOK(<<a, b>>) /\ <<a, b>> # <<>> /\ \A i \in DOMAIN <<a, b>> : <<a, b>>[i] \in {a, b}
<1>1. DOMAIN <<a, b>> = {1, 2} /\ <<a, b>>[1] = a /\ <<a, b>>[2] = b /\ <<a, b>> # <<>>
  BY SMT
<1>2. PICK todo : todo = <<a, b>>
  OBVIOUS
<1>3. DOMAIN todo = {1, 2} /\ todo[1] = a /\ todo[2] = b /\ todo = <<todo[1], todo[2]>> /\ todo # <<>>
  BY <1>1, <1>2
<1>4. TodoOK(todo)
  BY <1>3 DEF TodoOK
<1> QED BY <1>2, <1>3, <1>4

\* A call that is to store objects of the slot of its session.
LEMMA MakingKeeps ==
    ASSUME TokenInv, NEW t \in Threads, NEW s \in DOMAIN sessions, NEW name \in MakingOps,
           NEW at \in {"store", "use"}, NEW todo, NEW base, TodoOK(todo), todo # <<>>,
           \A i \in DOMAIN todo : todo[i].slot = sessions[s].slot,
           Free(t, name), call' = [call EXCEPT ![t] = MakingCall(name, at, s, todo, base)],
           UNCHANGED <<lifeVars, sessionVars, tokens, storeVars>>
    PROVE  TokenInv'
<1>1. PICK d : d = MakingCall(name, at, s, todo, base)
  OBVIOUS
<1>2. /\ Fields(d, {"op", "at", "s", "todo", "tells", "snap", "after"})
      /\ d.op = name /\ d.at = at /\ d.s = s /\ d.todo = todo /\ d.tells = {} /\ d.after = "return"
  BY <1>1 DEF MakingCall, Fields, Fun
<1>3. call[t] = Idle /\ up /\ call' = [call EXCEPT ![t] = d]
  BY <1>1 DEF Free, Enabled
<1>4. s \in Nat /\ s < nextSession
  BY DEF TokenInv, SessionsOK
<1>5. CallShape(d)
  BY <1>2 DEF CallShape, Fields, SavingOps, MakingOps
<1>6. CallCurrent(d)
  <2>1. d.op # "C_WrapKey" /\ d.at # "save"
    BY <1>2 DEF MakingOps
  <2> QED BY <1>2, <1>3, <1>4, <2>1 DEF CallCurrent
<1> QED BY <1>3, <1>5, <1>6, StillQuiet, QuietStart


LEMMA MakeOne ==
    ASSUME TokenInv, NEW t \in Threads, NEW s \in DOMAIN sessions, NEW name \in MakingOps, NEW o,
           ObjectOK(o), o.slot = sessions[s].slot, StartMaking(t, name, s, <<o>>)
    PROVE  TokenInv'
<1>1. PICK todo : todo = <<o>>
  OBVIOUS
<1>2. TodoOK(todo) /\ todo # <<>> /\ \A i \in DOMAIN todo : todo[i].slot = sessions[s].slot
  BY <1>1, TodoOne
<1>3. /\ Free(t, name) /\ call' = [call EXCEPT ![t] = MakingCall(name, "store", s, todo, NoBase)]
      /\ UNCHANGED <<lifeVars, sessionVars, tokens, storeVars>>
  BY <1>1 DEF StartMaking
<1> QED BY <1>2, <1>3, MakingKeeps

LEMMA GenerateKeeps ==
    ASSUME TokenInv, NEW t \in Threads, NEW s \in DOMAIN sessions,
           \/ \E mech \in PairMechanisms, pub, priv \in app.templates, auth \in BOOLEAN :
                 C_GenerateKeyPair(t, s, mech, pub, priv, auth)
           \/ \E mech \in SecretMechanisms, tm \in app.templates : C_GenerateKey(t, s, mech, tm)
           \/ \E type \in CreatableTypes, tm \in app.templates : C_CreateObject(t, s, type, tm)
    PROVE  TokenInv'
<1>0. PICK slot : slot = sessions[s].slot
  OBVIOUS
<1>1. ASSUME NEW mech \in PairMechanisms, NEW pub \in app.templates, NEW priv \in app.templates,
             NEW auth \in BOOLEAN, C_GenerateKeyPair(t, s, mech, pub, priv, auth)
      PROVE  TokenInv'
  <2>1. PICK a, b : /\ a = NewObject(slot, KeyPairTypes[mech][1], pub)
                    /\ b = GeneratedKey(slot, KeyPairTypes[mech][2], priv, auth)
    OBVIOUS
  <2>2. KeyPairTypes[mech][2] \in {"RsaPrivate", "EcPrivate", "EdPrivate"}
    <3>1. mech \in {"RSA_PKCS_KEY_PAIR_GEN", "EC_KEY_PAIR_GEN", "EC_EDWARDS_KEY_PAIR_GEN"}
      BY DEF PairMechanisms, KeyPairTypes
    <3>2. /\ KeyPairTypes["RSA_PKCS_KEY_PAIR_GEN"] = <<"RsaPublic", "RsaPrivate">>
          /\ KeyPairTypes["EC_KEY_PAIR_GEN"] = <<"EcPublic", "EcPrivate">>
          /\ KeyPairTypes["EC_EDWARDS_KEY_PAIR_GEN"] = <<"EdPublic", "EdPrivate">>
      BY DEF KeyPairTypes
    <3>3. /\ <<"RsaPublic", "RsaPrivate">>[2] = "RsaPrivate"
          /\ <<"EcPublic", "EcPrivate">>[2] = "EcPrivate"
          /\ <<"EdPublic", "EdPrivate">>[2] = "EdPrivate"
      BY SMT
    <3> QED BY <3>1, <3>2, <3>3
  <2>3. KeyPairTypes[mech][2] \notin Public
    BY <2>2 DEF Public
  <2>n. NewForm(a, slot, KeyPairTypes[mech][1], pub)
    BY <2>1, NewObjectOK
  <2>4. ObjectOK(a) /\ a.slot = slot
    BY <2>n DEF NewForm
  <2>5. ObjectOK(b) /\ b.slot = slot
    BY <2>1, <2>3, GeneratedOK
  <2>6. PICK todo : todo = <<a, b>>
    OBVIOUS
  <2>7. TodoOK(todo) /\ todo # <<>> /\ \A i \in DOMAIN todo : todo[i] \in {a, b}
    BY <2>4, <2>5, <2>6, TodoTwo
  <2>8. \A i \in DOMAIN todo : todo[i].slot = slot
    BY <2>4, <2>5, <2>7
  <2>9. /\ Free(t, "C_GenerateKeyPair")
        /\ call' = [call EXCEPT ![t] = MakingCall("C_GenerateKeyPair", "store", s, todo, NoBase)]
        /\ UNCHANGED <<lifeVars, sessionVars, tokens, storeVars>>
    BY <1>0, <1>1, <2>1, <2>6 DEF C_GenerateKeyPair, StartMaking
  <2>10. "C_GenerateKeyPair" \in MakingOps
    BY DEF MakingOps
  <2> QED BY <1>0, <2>7, <2>8, <2>9, <2>10, MakingKeeps
<1>2. ASSUME NEW mech \in SecretMechanisms, NEW tm \in app.templates, C_GenerateKey(t, s, mech, tm)
      PROVE  TokenInv'
  <2>1. SecretTypes[mech] \in {"AesSecret", "ChaCha20Secret", "GenericSecret"}
    <3>1. mech \in {"AES_KEY_GEN", "CHACHA20_KEY_GEN", "DES_KEY_GEN", "DES3_KEY_GEN",
                    "GENERIC_SECRET_KEY_GEN"}
      BY DEF SecretMechanisms, SecretTypes
    <3>2. /\ SecretTypes["AES_KEY_GEN"] = "AesSecret"
          /\ SecretTypes["CHACHA20_KEY_GEN"] = "ChaCha20Secret"
          /\ SecretTypes["DES_KEY_GEN"] = "GenericSecret"
          /\ SecretTypes["DES3_KEY_GEN"] = "GenericSecret"
          /\ SecretTypes["GENERIC_SECRET_KEY_GEN"] = "GenericSecret"
      BY DEF SecretTypes
    <3> QED BY <3>1, <3>2
  <2>2. SecretTypes[mech] \notin Public
    BY <2>1 DEF Public
  <2>3. PICK o : o = GeneratedKey(slot, SecretTypes[mech], tm, FALSE)
    OBVIOUS
  <2>4. ObjectOK(o) /\ o.slot = slot
    BY <2>2, <2>3, GeneratedOK
  <2>5. StartMaking(t, "C_GenerateKey", s, <<o>>)
    BY <1>0, <1>2, <2>3 DEF C_GenerateKey
  <2>6. "C_GenerateKey" \in MakingOps
    BY DEF MakingOps
  <2> QED BY <1>0, <2>4, <2>5, <2>6, MakeOne
<1>3. ASSUME NEW type \in CreatableTypes, NEW tm \in app.templates, C_CreateObject(t, s, type, tm)
      PROVE  TokenInv'
  <2>1. PICK o : o = NewObject(slot, type, tm)
    OBVIOUS
  <2>n. NewForm(o, slot, type, tm)
    BY <2>1, NewObjectOK
  <2>2. ObjectOK(o) /\ o.slot = slot
    BY <2>n DEF NewForm
  <2>3. StartMaking(t, "C_CreateObject", s, <<o>>)
    BY <1>0, <1>3, <2>1 DEF C_CreateObject
  <2>4. "C_CreateObject" \in MakingOps
    BY DEF MakingOps
  <2> QED BY <1>0, <2>2, <2>3, <2>4, MakeOne
<1> QED BY <1>1, <1>2, <1>3

LEMMA WithBaseKeeps ==
    ASSUME TokenInv, NEW t \in Threads, NEW s \in DOMAIN sessions, NEW name \in MakingOps,
           NEW use, NEW h, NEW tm, NEW o, ObjectOK(o), o.slot = sessions[s].slot,
           StartWithBase(t, name, use, s, h, tm, o)
    PROVE  TokenInv'
<1>1. PICK todo : todo = <<o>>
  OBVIOUS
<1>2. TodoOK(todo) /\ todo # <<>> /\ \A i \in DOMAIN todo : todo[i].slot = sessions[s].slot
  BY <1>1, TodoOne
<1>3. /\ Free(t, name) /\ call' = [call EXCEPT ![t] = MakingCall(name, "use", s, todo, h)]
      /\ UNCHANGED <<lifeVars, sessionVars, tokens, storeVars>>
  BY <1>1 DEF StartWithBase
<1> QED BY <1>2, <1>3, MakingKeeps

LEMMA DeriveCallsKeep ==
    ASSUME TokenInv, NEW t \in Threads, NEW s \in DOMAIN sessions, NEW h \in DOMAIN objects,
           NEW tm \in app.templates,
           C_CopyObject(t, s, h, tm) \/ C_UnwrapKey(t, s, h, tm) \/ C_DeriveKey(t, s, h, tm)
    PROVE  TokenInv'
<1>0. PICK slot : slot = sessions[s].slot
  OBVIOUS
<1>m. {"C_CopyObject", "C_UnwrapKey", "C_DeriveKey"} \subseteq MakingOps
  BY DEF MakingOps
<1>1. CASE C_CopyObject(t, s, h, tm)
  <2>1. PICK src, o : src = objects[h] /\ o = CopyOf(src, tm)
    OBVIOUS
  <2>2. ObjectOK(src)
    BY <2>1 DEF TokenInv, ObjectsOK
  <2>3. /\ src.slot = slot /\ StartMaking(t, "C_CopyObject", s, <<o>>)
        /\ \A attr \in {"sensitive", "extractable"} :
              tm[attr] # "absent" => ValidateAttributeChange(attr, src[attr], tm[attr])
    BY <1>0, <1>1, <2>1 DEF C_CopyObject
  <2>4. ObjectOK(o) /\ o.slot = slot
    BY <2>1, <2>2, <2>3, CopyOK
  <2> QED BY <1>0, <1>m, <2>3, <2>4, MakeOne
<1>2. CASE C_UnwrapKey(t, s, h, tm)
  <2>1. PICK o : o = NewObject(slot, "AesSecret", tm)
    OBVIOUS
  <2>n. NewForm(o, slot, "AesSecret", tm)
    BY <2>1, NewObjectOK
  <2>2. ObjectOK(o) /\ o.slot = slot
    BY <2>n DEF NewForm
  <2>3. StartWithBase(t, "C_UnwrapKey", "unwrap", s, h, tm, o)
    BY <1>0, <1>2, <2>1 DEF C_UnwrapKey
  <2> QED BY <1>0, <1>m, <2>2, <2>3, WithBaseKeeps
<1>3. CASE C_DeriveKey(t, s, h, tm)
  <2>1. PICK o : o = DerivedFrom(slot, tm, objects[h])
    OBVIOUS
  <2>2. ObjectOK(o) /\ o.slot = slot
    BY <2>1, DerivedOK
  <2>3. StartWithBase(t, "C_DeriveKey", "derive", s, h, tm, o)
    BY <1>0, <1>3, <2>1 DEF C_DeriveKey, DerivedFrom
  <2> QED BY <1>0, <1>m, <2>2, <2>3, WithBaseKeeps
<1> QED BY <1>1, <1>2, <1>3


\* The calls that change or destroy an object, which save at their end.
LEMMA StartChange ==
    ASSUME TokenInv, NEW t \in Threads, NEW s \in DOMAIN sessions, NEW h,
           \/ \E attr \in {"sensitive", "extractable"}, value \in Booleans :
                 C_SetAttributeValue(t, s, h, attr, value)
           \/ C_DestroyObject(t, s, h)
    PROVE  TokenInv'
<1>1. ASSUME NEW d, Fields(d, {"op", "at", "tells", "snap", "after"}), d.at \in {"set", "check"},
             d.op \in {"C_SetAttributeValue", "C_DestroyObject"}, d.tells = {}, d.after = "return",
             d.op = "C_SetAttributeValue" => d.attr \in {"sensitive", "extractable"} /\ d.value \in Booleans,
             call[t] = Idle, up, call' = [call EXCEPT ![t] = d],
             UNCHANGED <<lifeVars, sessionVars, tokens, storeVars>>
      PROVE  TokenInv'
  <2>1. d.op \in SavingOps \ MakingOps /\ d.at \notin {"snapshot", "save", "store"}
    BY <1>1 DEF SavingOps, MakingOps
  <2>2. CallShape(d) /\ CallCurrent(d)
    BY <1>1, <2>1, SavingCall
  <2> QED BY <1>1, <2>2, StillQuiet, QuietStart
<1>2. ASSUME NEW attr \in {"sensitive", "extractable"}, NEW value \in Booleans,
             C_SetAttributeValue(t, s, h, attr, value)
      PROVE  TokenInv'
  <2>1. PICK d : d = [op |-> "C_SetAttributeValue", at |-> "set", s |-> s, key |-> h,
                      attr |-> attr, value |-> value, tells |-> {}, snap |-> NoFile,
                      after |-> "return"]
    OBVIOUS
  <2>2. /\ Fields(d, {"op", "at", "tells", "snap", "after"}) /\ d.op = "C_SetAttributeValue"
        /\ d.at = "set" /\ d.tells = {} /\ d.after = "return" /\ d.attr = attr /\ d.value = value
    BY <2>1 DEF Fields, Fun
  <2>3. /\ call[t] = Idle /\ up /\ call' = [call EXCEPT ![t] = d]
        /\ UNCHANGED <<lifeVars, sessionVars, tokens, storeVars>>
    BY <1>2, <2>1 DEF C_SetAttributeValue, Free, Enabled
  <2> QED BY <2>2, <2>3, <1>1
<1>3. ASSUME C_DestroyObject(t, s, h) PROVE TokenInv'
  <2>1. PICK d : d = [op |-> "C_DestroyObject", at |-> "check", s |-> s,
                      slot |-> sessions[s].slot, loggedIn |-> LoggedIn(s), key |-> h,
                      tells |-> {}, snap |-> NoFile, after |-> "return"]
    OBVIOUS
  <2>2. /\ Fields(d, {"op", "at", "tells", "snap", "after"}) /\ d.op = "C_DestroyObject"
        /\ d.at = "check" /\ d.tells = {} /\ d.after = "return"
    BY <2>1 DEF Fields, Fun
  <2>3. /\ call[t] = Idle /\ up /\ call' = [call EXCEPT ![t] = d]
        /\ UNCHANGED <<lifeVars, sessionVars, tokens, storeVars>>
    BY <1>3, <2>1 DEF C_DestroyObject, Free, Enabled
  <2> QED BY <2>2, <2>3, <1>1
<1> QED BY <1>2, <1>3

LEMMA DestroyCheckKeeps ==
    ASSUME TokenInv, NEW t \in Threads, DestroyCheck(t)
    PROVE  TokenInv'
<1>1. /\ call[t].op = "C_DestroyObject" /\ (Goto(t, "remove") \/ Return(t))
      /\ UNCHANGED <<lifeVars, sessionVars, tokens, storeVars>>
  BY DEF DestroyCheck, At
<1>2. call[t].op # "Idle" /\ ~Closing(call[t]) /\ QuietVars
  BY <1>1, StillQuiet DEF Closing
<1>3. CASE Return(t)
  BY <1>2, <1>3, QuietReturn
<1>4. CASE Goto(t, "remove")
  BY <1>2, <1>4, QuietGoto
<1> QED BY <1>1, <1>3, <1>4

LEMMA UseBaseKeeps ==
    ASSUME TokenInv, NEW t \in Threads, UseBase(t)
    PROVE  TokenInv'
<1>1. PICK s : s = call[t].s
  OBVIOUS
<1>2. /\ call[t].op \in {"C_UnwrapKey", "C_DeriveKey"} /\ call[t].at = "use"
      /\ Goto(t, "store") \/ Return(t)
      /\ \/ sessions' = sessions
         \/ /\ s \in DOMAIN sessions
            /\ sessions' = [sessions EXCEPT ![s].uses = @ + 1]
      /\ UNCHANGED <<lifeVars, nextSession, cut, tokens, storeVars>>
  BY <1>1 DEF UseBase, OnSession
<1>3. QuietVars
  <2>1. CASE sessions' = sessions
    BY <1>2, <2>1, SessionStill
  <2>2. CASE s \in DOMAIN sessions /\ sessions' = [sessions EXCEPT ![s].uses = @ + 1]
    <3>1. PICK n : n = sessions[s].uses + 1
      OBVIOUS
    <3>2. sessions' = [sessions EXCEPT ![s].uses = n]
      BY <2>2, <3>1
    <3> QED BY <1>2, <2>2, <3>2, UsesQuiet
  <2> QED BY <1>2, <2>1, <2>2
<1>4. call[t].op # "Idle" /\ ~Closing(call[t]) /\ call[t].op \in MakingOps
  BY <1>2 DEF Closing, MakingOps
<1>5. CASE Return(t)
  BY <1>3, <1>4, <1>5, QuietReturn
<1>6. CASE Goto(t, "store")
  BY <1>2, <1>3, <1>4, <1>6, QuietGoto
<1> QED BY <1>2, <1>5, <1>6

\* The key to wrap may leave the token: whatever it claims, it is not that it never could.
LEMMA StartWrap ==
    ASSUME TokenInv, NEW t \in Threads, NEW s \in DOMAIN sessions, NEW w \in DOMAIN objects,
           NEW h \in DOMAIN objects, C_WrapKey(t, s, w, h)
    PROVE  TokenInv'
<1>1. PICK d : d = [op |-> "C_WrapKey", at |-> "wrap", s |-> s, base |-> w, key |-> h]
  OBVIOUS
<1>2. Fields(d, {"op", "at", "key"}) /\ d.op = "C_WrapKey" /\ d.at = "wrap" /\ d.key = h
  BY <1>1 DEF Fields, Fun
<1>3. /\ call[t] = Idle /\ up /\ call' = [call EXCEPT ![t] = d] /\ objects[h].extractable = "true"
      /\ UNCHANGED <<lifeVars, sessionVars, tokens, storeVars>>
  BY <1>1 DEF C_WrapKey, Free, Enabled
<1>4. h \in Nat /\ h < nextHandle /\ ObjectOK(objects[h])
  BY DEF TokenInv, ObjectsOK
<1>5. objects[h].derived \/ ~objects[h].neverExtractable
  BY <1>3, <1>4 DEF ObjectOK, Honest
<1>6. CallShape(d)
  BY <1>2 DEF CallShape, Fields, SavingOps, MakingOps
<1>7. CallCurrent(d)
  BY <1>2, <1>3, <1>4, <1>5 DEF CallCurrent, SavingOps, MakingOps
<1> QED BY <1>3, <1>6, <1>7, StillQuiet, QuietStart

\* The value of a key leaves the token; the file does not know of it.
LEMMA LeftStep ==
    ASSUME TokenInv, NEW t \in Threads, NEW h \in DOMAIN objects, NEW left,
           objects' = [objects EXCEPT ![h].left = left],
           Honest([objects[h] EXCEPT !.left = left]), up,
           UNCHANGED <<lifeVars, sessionVars, tokens, nextHandle, promised>>,
           NEW d, call' = [call EXCEPT ![t] = d], CallShape(d), CallCurrent(d),
           d.op = "Idle" \/ d.at # "save", ~Closing(call[t])
    PROVE  TokenInv'
<1>1. PICK o : o = [objects[h] EXCEPT !.left = left]
  OBVIOUS
<1>2. Fun(objects) /\ (\A k \in DOMAIN objects : ObjectOK(objects[k])) /\ PromisesOK
  BY DEF TokenInv, ObjectsOK
<1>3. Fields(objects[h], ObjectFields)
  BY <1>2 DEF ObjectOK
<1>4. objects' = [k \in DOMAIN objects |-> IF k = h THEN o ELSE objects[k]]
  BY <1>1, <1>2 DEF Fun
<1>5. /\ Fields(o, ObjectFields) /\ Kin(o, objects[h]) /\ Stored(o) = Stored(objects[h])
      /\ o.token = objects[h].token
  BY <1>1, <1>3 DEF Fields, Fun, ObjectFields, Kin, Stored
<1>6. ObjectOK(o)
  BY <1>1, <1>5 DEF ObjectOK
<1>7. /\ Fun(objects') /\ DOMAIN objects' = DOMAIN objects
      /\ \A k \in DOMAIN objects :
            /\ Kin(objects'[k], objects[k]) /\ ObjectOK(objects'[k])
            /\ Stored(objects'[k]) = Stored(objects[k]) /\ objects'[k].token = objects[k].token
  BY <1>2, <1>4, <1>5, <1>6 DEF Fun, Kin
<1>8. SameSnapshot
  <2>1. Snapshot.objects = [k \in {j \in DOMAIN objects : objects[j].token} |-> Stored(objects[k])]
    BY SnapshotForm
  <2>2. DOMAIN TokenObjects(objects') = {k \in DOMAIN objects' : objects'[k].token}
    BY DEF TokenObjects, Restrict
  <2>3. Snapshot'.objects = [k \in {j \in DOMAIN objects' : objects'[j].token} |-> Stored(objects'[k])]
    BY <2>2 DEF Snapshot
  <2>4. {j \in DOMAIN objects' : objects'[j].token} = {j \in DOMAIN objects : objects[j].token}
    BY <1>7
  <2>5. \A k \in {j \in DOMAIN objects : objects[j].token} : Stored(objects'[k]) = Stored(objects[k])
    BY <1>7
  <2> QED BY <2>1, <2>3, <2>4, <2>5 DEF SameSnapshot
<1>9. promised' = Restrict(promised, DOMAIN promised)
  BY <1>2 DEF PromisesOK, Fun, Restrict
<1>10. \A k \in DOMAIN objects' : ~Destroys(call[t], objects'[k])
  BY DEF Destroys, Closing
<1>11. StoreStep(t, d, DOMAIN promised)
  BY <1>7, <1>8, <1>9, <1>10 DEF StoreStep
<1> QED BY <1>11, StoreKeeps


LEMMA ReadKeeps ==
    ASSUME TokenInv, NEW t \in Threads, NEW s \in DOMAIN sessions, NEW h \in DOMAIN objects,
           C_GetAttributeValue(t, s, h)
    PROVE  TokenInv'
<1>1. PICK left : left = objects[h].left \cup {"read"}
  OBVIOUS
<1>2. /\ call[t] = Idle /\ up /\ CheckAttributeAccess(objects[h])
      /\ objects' = [objects EXCEPT ![h].left = left]
      /\ UNCHANGED <<lifeVars, sessionVars, tokens, nextHandle, promised, call>>
  BY <1>1 DEF C_GetAttributeValue, Free, Enabled
<1>3. PICK o : o = [objects[h] EXCEPT !.left = left]
  OBVIOUS
<1>4. Fields(objects[h], ObjectFields) /\ Honest(objects[h])
  BY DEF TokenInv, ObjectsOK, ObjectOK
<1>5. /\ o.derived = objects[h].derived /\ o.type = objects[h].type /\ o.left = left
      /\ o.alwaysSensitive = objects[h].alwaysSensitive
      /\ o.neverExtractable = objects[h].neverExtractable
  BY <1>3, <1>4 DEF Fields, Fun, ObjectFields
<1>6. ~o.derived => ~o.alwaysSensitive /\ ~o.neverExtractable
  BY <1>2, <1>4, <1>5 DEF Honest, CheckAttributeAccess, Public
<1>7. Honest(o)
  BY <1>6 DEF Honest
<1>8. PICK d : d = Idle
  OBVIOUS
<1>9. CallShape(d) /\ CallCurrent(d) /\ d.op = "Idle" /\ ~Closing(call[t])
  BY <1>2, <1>8, IdleShape DEF Closing
<1>10. call' = [call EXCEPT ![t] = d]
  BY <1>2, <1>8 DEF TokenInv, CallsOK
<1> QED BY <1>2, <1>3, <1>7, <1>9, <1>10, LeftStep

LEMMA WrapKeeps ==
    ASSUME TokenInv, NEW t \in Threads, WrapKey(t)
    PROVE  TokenInv'
<1>1. PICK c : c = call[t]
  OBVIOUS
<1>2. /\ c.op = "C_WrapKey" /\ c.at = "wrap"
      /\ UNCHANGED <<lifeVars, sessionVars, tokens, nextHandle, promised>>
      /\ \/ /\ c.key \in DOMAIN objects /\ Goto(t, "burn")
            /\ objects' = [objects EXCEPT ![c.key].left = @ \cup {"wrapped"}]
         \/ Return(t) /\ UNCHANGED objects
  BY <1>1 DEF WrapKey, At
<1>3. CallShape(c) /\ CallCurrent(c) /\ call = [u \in Threads |-> call[u]] /\ ~Closing(call[t])
  BY <1>1, <1>2 DEF TokenInv, CallsOK, Closing
<1>4. CASE Return(t) /\ UNCHANGED objects
  <2>1. UNCHANGED <<lifeVars, sessionVars, tokens, storeVars>>
    BY <1>2, <1>4 DEF storeVars
  <2>2. QuietVars
    BY <2>1, StillQuiet
  <2> QED BY <1>3, <1>4, <2>2, QuietReturn
<1>5. CASE /\ c.key \in DOMAIN objects /\ Goto(t, "burn")
           /\ objects' = [objects EXCEPT ![c.key].left = @ \cup {"wrapped"}]
  <2>1. PICK h, left : h = c.key /\ left = objects[h].left \cup {"wrapped"}
    OBVIOUS
  <2>2. h \in DOMAIN objects /\ objects' = [objects EXCEPT ![h].left = left]
    BY <1>5, <2>1
  <2>3. PICK o : o = [objects[h] EXCEPT !.left = left]
    OBVIOUS
  <2>4. Fields(objects[h], ObjectFields) /\ Honest(objects[h])
    BY <2>2 DEF TokenInv, ObjectsOK, ObjectOK
  <2>5. /\ o.derived = objects[h].derived /\ o.type = objects[h].type /\ o.left = left
        /\ o.alwaysSensitive = objects[h].alwaysSensitive
        /\ o.neverExtractable = objects[h].neverExtractable
        /\ o.sensitive = objects[h].sensitive
    BY <2>3, <2>4 DEF Fields, Fun, ObjectFields
  <2>6. objects[h].derived \/ ~objects[h].neverExtractable
    BY <1>2, <1>3, <2>1, <2>2 DEF CallCurrent
  <2>7. "read" \in left => "read" \in objects[h].left
    BY <2>1
  <2>8. Honest(o)
    BY <2>4, <2>5, <2>6, <2>7 DEF Honest
  <2>9. PICK d : d = [c EXCEPT !.at = "burn"]
    OBVIOUS
  <2>10. c.op # "Idle"
    BY <1>2
  <2>11. GoesOn(d, c)
    BY <1>3, <2>9, <2>10, MovesOn
  <2>12. CallCurrent(d) /\ CallShape(d) /\ (d.op = "Idle" \/ d.at # "save")
    BY <1>3, <2>10, <2>11, GoesOnCurrent DEF GoesOn
  <2>13. call' = [call EXCEPT ![t] = d]
    BY <1>1, <1>3, <1>5, <2>9 DEF Goto
  <2>14. up
    BY <1>3, <2>10 DEF CallCurrent
  <2> QED BY <1>2, <1>3, <2>2, <2>3, <2>8, <2>12, <2>13, <2>14, LeftStep
<1> QED BY <1>2, <1>4, <1>5

\* The audit fields follow the attribute that is written.
LEMMA ChangedOK ==
    ASSUME NEW obj, ObjectOK(obj), NEW attr \in {"sensitive", "extractable"},
           NEW value \in Booleans, NEW o, o = ChangeAttribute(obj, attr, value)
    PROVE  ObjectOK(o) /\ Kin(o, obj)
<1>1. Fields(obj, ObjectFields) /\ Honest(obj)
  BY DEF ObjectOK
<1>2. CASE attr = "sensitive"
  <2>1. o = [obj EXCEPT !.sensitive = value, !.alwaysSensitive = @ /\ value # "false"]
    BY <1>2 DEF ChangeAttribute
  <2>2. /\ Fields(o, ObjectFields) /\ o.sensitive = value
        /\ o.alwaysSensitive = (obj.alwaysSensitive /\ value # "false")
        /\ \A f \in ObjectFields \ {"sensitive", "alwaysSensitive"} : o[f] = obj[f]
    BY <1>1, <2>1 DEF Fields, Fun, ObjectFields
  <2>3. /\ o.slot = obj.slot /\ o.type = obj.type /\ o.token = obj.token /\ o.owner = obj.owner
        /\ o.extractable = obj.extractable /\ o.neverExtractable = obj.neverExtractable
        /\ o.left = obj.left /\ o.derived = obj.derived
    BY <2>2 DEF ObjectFields
  <2>4. Honest(o)
    BY <1>1, <2>2, <2>3 DEF Honest, Booleans
  <2> QED BY <2>2, <2>3, <2>4 DEF ObjectOK, Kin
<1>3. CASE attr = "extractable"
  <2>1. o = [obj EXCEPT !.extractable = value, !.neverExtractable = @ /\ value # "true"]
    BY <1>3 DEF ChangeAttribute
  <2>2. /\ Fields(o, ObjectFields) /\ o.extractable = value
        /\ o.neverExtractable = (obj.neverExtractable /\ value # "true")
        /\ \A f \in ObjectFields \ {"extractable", "neverExtractable"} : o[f] = obj[f]
    BY <1>1, <2>1 DEF Fields, Fun, ObjectFields
  <2>3. /\ o.slot = obj.slot /\ o.type = obj.type /\ o.token = obj.token /\ o.owner = obj.owner
        /\ o.sensitive = obj.sensitive /\ o.alwaysSensitive = obj.alwaysSensitive
        /\ o.left = obj.left /\ o.derived = obj.derived
    BY <2>2 DEF ObjectFields
  <2>4. Honest(o)
    BY <1>1, <2>2, <2>3 DEF Honest, Booleans
  <2> QED BY <2>2, <2>3, <2>4 DEF ObjectOK, Kin
<1> QED BY <1>2, <1>3


LEMMA SetAttributeKeeps ==
    ASSUME TokenInv, NEW t \in Threads, SetAttribute(t)
    PROVE  TokenInv'
<1>1. PICK c, h : c = call[t] /\ h = c.key
  OBVIOUS
<1>2. /\ c.op = "C_SetAttributeValue" /\ c.at = "set" /\ ~StoreLocked
      /\ \/ /\ h \in DOMAIN objects
            /\ objects' = [objects EXCEPT ![h] = ChangeAttribute(@, c.attr, c.value)]
            /\ promised' = Restrict(promised, DOMAIN promised \ {h})
            /\ \/ /\ objects[h].token
                  /\ call' = [call EXCEPT ![t].at = "snapshot", ![t].tells = {h}]
               \/ Return(t)
         \/ Return(t) /\ UNCHANGED <<objects, promised>>
      /\ UNCHANGED <<lifeVars, sessionVars, tokens, nextHandle>>
  BY <1>1 DEF SetAttribute, At
<1>3. CallShape(c) /\ CallCurrent(c) /\ call = [u \in Threads |-> call[u]] /\ ~Closing(call[t])
  BY <1>1, <1>2 DEF TokenInv, CallsOK, Closing
<1>4. CASE Return(t) /\ UNCHANGED <<objects, promised>>
  <2>1. UNCHANGED <<lifeVars, sessionVars, tokens, storeVars>>
    BY <1>2, <1>4 DEF storeVars
  <2>2. QuietVars
    BY <2>1, StillQuiet
  <2> QED BY <1>3, <1>4, <2>2, QuietReturn
<1>5. ASSUME h \in DOMAIN objects,
             objects' = [objects EXCEPT ![h] = ChangeAttribute(@, c.attr, c.value)],
             promised' = Restrict(promised, DOMAIN promised \ {h}),
             \/ /\ objects[h].token
                /\ call' = [call EXCEPT ![t].at = "snapshot", ![t].tells = {h}]
             \/ Return(t)
      PROVE  TokenInv'
  <2>1. PICK o : o = ChangeAttribute(objects[h], c.attr, c.value)
    OBVIOUS
  <2>2. /\ Fun(objects) /\ (\A k \in DOMAIN objects : ObjectOK(objects[k]))
        /\ h \in Nat /\ h < nextHandle
    BY <1>5 DEF TokenInv, ObjectsOK
  <2>3. c.attr \in {"sensitive", "extractable"} /\ c.value \in Booleans
    BY <1>2, <1>3 DEF CallShape
  <2>4. ObjectOK(o) /\ Kin(o, objects[h])
    BY <1>5, <2>1, <2>2, <2>3, ChangedOK
  <2>5. objects' = [k \in DOMAIN objects |-> IF k = h THEN o ELSE objects[k]]
    BY <1>5, <2>1, <2>2 DEF Fun
  <2>6. /\ Fun(objects') /\ DOMAIN objects' = DOMAIN objects
        /\ \A k \in DOMAIN objects : Kin(objects'[k], objects[k]) /\ ObjectOK(objects'[k])
        /\ \A k \in DOMAIN objects \ {h} : objects'[k] = objects[k]
    BY <2>2, <2>4, <2>5 DEF Fun, Kin
  <2>7. \A k \in DOMAIN objects' : ~Destroys(call[t], objects'[k])
    BY <1>3 DEF Destroys, Closing
  <2>8. PICK P : P = DOMAIN promised \ {h}
    OBVIOUS
  <2>9. /\ P \subseteq DOMAIN promised /\ promised' = Restrict(promised, P)
        /\ \A k \in P \cap DOMAIN objects :
              k \in DOMAIN objects' /\ Stored(objects'[k]) = Stored(objects[k])
    BY <1>5, <2>6, <2>8
  <2>10. ASSUME NEW d, call' = [call EXCEPT ![t] = d], CallShape(d), CallCurrent(d),
                d.op = "Idle" \/ d.at # "save"
         PROVE  TokenInv'
    <3>1. StoreStep(t, d, P)
      BY <1>2, <2>6, <2>7, <2>9, <2>10 DEF StoreStep
    <3> QED BY <3>1, StoreKeeps
  <2>11. CASE Return(t)
    <3>1. PICK d : d = Idle
      OBVIOUS
    <3> QED BY <3>1, <2>10, <2>11, IdleShape DEF Return
  <2>12. CASE /\ objects[h].token
              /\ call' = [call EXCEPT ![t].at = "snapshot", ![t].tells = {h}]
    <3>1. PICK d : d = [c EXCEPT !.at = "snapshot", !.tells = {h}]
      OBVIOUS
    <3>2. call' = [call EXCEPT ![t] = d]
      BY <1>1, <1>3, <2>12, <3>1
    <3>3. Fields(c, {"op", "at", "tells", "snap", "after"}) /\ c.op \in SavingOps \ MakingOps
          /\ c.after \in {"return", "persist", "clear", "burn"}
      BY <1>2, <1>3 DEF CallShape, Fields, SavingOps, MakingOps
    <3>4. /\ Fields(d, {"op", "at", "tells", "snap", "after"}) /\ d.op = "C_SetAttributeValue"
          /\ d.at = "snapshot" /\ d.tells = {h} /\ d.after = c.after
      BY <1>2, <3>1, <3>3 DEF Fields, Fun
    <3>5. CallShape(d)
      BY <3>3, <3>4 DEF CallShape, Fields, SavingOps, MakingOps
    <3>6. up
      BY <1>2, <1>3 DEF CallCurrent
    <3>7. CallCurrent(d)
      BY <2>2, <2>12, <3>4, <3>6 DEF CallCurrent, MakingOps
    <3> QED BY <2>10, <3>2, <3>4, <3>5, <3>7
  <2> QED BY <1>5, <2>11, <2>12
<1> QED BY <1>2, <1>4, <1>5

LEMMA ObjectsKeep ==
    ASSUME TokenInv, NEW t \in Threads, Objects(t)
    PROVE  TokenInv'
<1>1. ASSUME NEW s \in DOMAIN sessions,
             \/ \E mech \in PairMechanisms, pub, priv \in app.templates, auth \in BOOLEAN :
                   C_GenerateKeyPair(t, s, mech, pub, priv, auth)
             \/ \E mech \in SecretMechanisms, tm \in app.templates : C_GenerateKey(t, s, mech, tm)
             \/ \E type \in CreatableTypes, tm \in app.templates : C_CreateObject(t, s, type, tm)
      PROVE  TokenInv'
  BY <1>1, GenerateKeeps
<1>2. ASSUME NEW s \in DOMAIN sessions, NEW h \in DOMAIN objects,
             \/ \E attr \in {"sensitive", "extractable"}, value \in Booleans :
                   C_SetAttributeValue(t, s, h, attr, value)
             \/ C_DestroyObject(t, s, h)
      PROVE  TokenInv'
  BY <1>2, StartChange
<1>3. ASSUME NEW s \in DOMAIN sessions, NEW h \in DOMAIN objects, C_GetAttributeValue(t, s, h)
      PROVE  TokenInv'
  BY <1>3, ReadKeeps
<1>4. ASSUME NEW s \in DOMAIN sessions, NEW h \in DOMAIN objects, NEW tm \in app.templates,
             C_CopyObject(t, s, h, tm) \/ C_UnwrapKey(t, s, h, tm) \/ C_DeriveKey(t, s, h, tm)
      PROVE  TokenInv'
  BY <1>4, DeriveCallsKeep
<1>5. ASSUME NEW s \in DOMAIN sessions, NEW w \in DOMAIN objects, NEW h \in DOMAIN objects,
             C_WrapKey(t, s, w, h)
      PROVE  TokenInv'
  BY <1>5, StartWrap
<1>6. ASSUME StoreObject(t) \/ SetAttribute(t) \/ UseBase(t) \/ WrapKey(t) PROVE TokenInv'
  BY <1>6, StoreObjectKeeps, SetAttributeKeeps, UseBaseKeeps, WrapKeeps
<1>7. ASSUME BurnTicket(t) \/ DestroyCheck(t) \/ DestroyRemove(t) PROVE TokenInv'
  BY <1>7, ConfirmationKeeps, DestroyCheckKeeps, DestroyRemoveKeeps
<1> QED BY <1>1, <1>2, <1>3, <1>4, <1>5, <1>6, <1>7 DEF Objects

-----------------------------------------------------------------------------
(* Every step *)

LEMMA StutterKeeps ==
    ASSUME TokenInv, UNCHANGED vars
    PROVE  TokenInv'
<1>1. UNCHANGED <<app, up, sessions, nextSession, tokens, objects, nextHandle, disk, call,
                  promised, dirty, cut>>
  BY DEF vars
<1>2. LifeOK' /\ SessionsOK' /\ ObjectsOK' /\ OwnersOK'
  BY <1>1 DEF TokenInv, LifeOK, SessionsOK, ObjectsOK, OwnersOK
<1>3. AllOwned' /\ PromisesOK' /\ LoginUniform' /\ TokenObjectsDurable'
  BY <1>1 DEF TokenInv, AllOwned, Owned, PromisesOK, LoginUniform, TokenObjectsDurable, Keeps,
              StoredObjects
<1>4. CallsOK'
  <2>1. Snapshot' = Snapshot
    BY <1>1 DEF Snapshot, TokenObjects
  <2> QED BY <1>1, <2>1 DEF TokenInv, CallsOK, CallCurrent
<1> QED BY <1>2, <1>3, <1>4 DEF TokenInv

LEMMA NextKeeps ==
    ASSUME TokenInv, [Next]_vars
    PROVE  TokenInv'
<1>1. CASE C_Initialize \/ C_Finalize \/ Crash
  BY <1>1, InitializeKeeps, FinalizeKeeps, CrashKeeps
<1>2. ASSUME NEW slot \in Slots, NEW rw \in BOOLEAN, C_OpenSession(slot, rw) PROVE TokenInv'
  BY <1>2, OpenKeeps
<1>3. ASSUME NEW t \in Threads,
             \/ Persisting(t) \/ Library(t) \/ Sessions(t) \/ Logins(t) \/ Objects(t)
             \/ Operations(t)
      PROVE  TokenInv'
  BY <1>3, SnapshotKeeps, SaveKeeps, LibraryKeep, SessionsKeep, LoginsKeep, ObjectsKeep,
     OperationsKeep DEF Persisting
<1>4. CASE UNCHANGED vars
  BY <1>4, StutterKeeps
<1> QED BY <1>1, <1>2, <1>3, <1>4 DEF Next

LEMMA TokenInvariant == Spec => []TokenInv
BY InitKeeps, NextKeeps, PTL DEF Spec

-----------------------------------------------------------------------------
(* The theorems *)

\* A token object the application was told of stays in the store, with its attributes,
\* until a call destroys or changes it, and in the file unless the last save failed: with
\* any threads saving at once (persist_if_needed), and across crashes and restarts.
THEOREM SavedObjectsLast == Spec => []TokenObjectsDurable
<1>1. TokenInv => TokenObjectsDurable
  BY DEF TokenInv
<1> QED BY <1>1, TokenInvariant, PTL

\* No session object outlives the session that owns it: closing a session, or all of a slot
\* (destroy_objects_for_session, destroy_session_objects_for_slot), leaves none behind but
\* that of a call which was still using the session.
THEOREM NoOrphans == Spec => []SessionObjectsOwned
<1>1. TokenInv => SessionObjectsOwned
  <2> SUFFICES ASSUME TokenInv, NEW h \in DOMAIN objects, IsSessionObject(objects[h])
               PROVE  \/ objects[h].owner \in (DOMAIN sessions) \cup cut
                      \/ \E t \in Threads :
                            \/ At(t, "C_CloseSession", "purge") /\ call[t].s = objects[h].owner
                            \/ At(t, "C_CloseAllSessions", "purge") /\ call[t].slot = objects[h].slot
    BY DEF SessionObjectsOwned
  <2>1. Owned(objects[h])
    BY DEF TokenInv, AllOwned
  <2> QED BY <2>1 DEF Owned, Destroys, At
<1> QED BY <1>1, TokenInvariant, PTL

\* All sessions of a slot have the same login state, so that the one login_state_for_slot
\* happens to read is that of the token: logins and logouts set them all under one lock, and
\* a session opened meanwhile takes over the state of the others.
THEOREM OneLoginPerSlot == Spec => []LoginUniform
<1>1. TokenInv => LoginUniform
  BY DEF TokenInv
<1> QED BY <1>1, TokenInvariant, PTL

\* A key that was not derived and claims to have always been sensitive was never read, and
\* one that claims never to have been extractable never left the token: C_SetAttributeValue,
\* C_CopyObject, C_WrapKey and restarts included.
THEOREM ClaimsHonest == Spec => []AuditFieldsHonest
<1>1. TokenInv => AuditFieldsHonest
  BY DEF TokenInv, ObjectsOK, ObjectOK, Honest, AuditFieldsHonest
<1> QED BY <1>1, TokenInvariant, PTL

\* In memory and in the file the SO PIN is locked exactly when its failures reached
\* MAX_PIN_FAILURES, and no counter passes the limit.
THEOREM LockoutExact == Spec => []LockoutConsistent
<1>1. TokenInv => LockoutConsistent
  <2> SUFFICES ASSUME TokenInv, NEW slot \in Slots
               PROVE  TokenOK(tokens[slot]) /\ (disk # NoFile => TokenOK(disk.tokens[slot]))
    BY DEF LockoutConsistent, TokenOK
  <2> QED BY DEF TokenInv, LifeOK, TokensOK, FileOK
<1> QED BY <1>1, TokenInvariant, PTL

=============================================================================
