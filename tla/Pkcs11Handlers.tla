--------------------------- MODULE Pkcs11Handlers ---------------------------
(***************************************************************************)
(* The hash and MAC handlers of a PKCS#11 provider and its key store, over *)
(* the session pool of Pkcs11SessionPool (daemon/provider/pkcs11:          *)
(* operations/hash, operations/mac, key_management).                       *)
(*                                                                         *)
(* A handler executes one operation at a time (its data node is exclusive) *)
(* and all token calls of an operation go to the session it operates on,   *)
(* so an operation is one step; MAC_RESET gives its key back and takes it  *)
(* again, which are two.  An operation is a set of outcomes, one for each  *)
(* way its token calls can end: [op |-> the operations then active on the  *)
(* session, state |-> the handler's stream state].                         *)
(*                                                                         *)
(* A key whose generation fails on the token is a key that is registered   *)
(* and released at once: both return the session they acquired.            *)
(***************************************************************************)
EXTENDS Pkcs11SessionPool

CONSTANTS
    Handler,     \* hash and MAC handlers
    SessionKey,  \* session objects: each keeps its creating session
    TokenKey,    \* a persistent key, found again on any session
    Mode,        \* the operations in use: "digest", "sign", "verify"
    KeepsOp,     \* the operations that a failed token call may leave active
    NoHandler, NoKey, NoSession

Stream == {"IDLE", "INIT", "ACTIVE"}

\* key: the bound key, for Reset; opSession: the session operated on (m_op_session
\* of a MAC handler).
HandlerState ==
    [mode : {"digest", "sign", "verify"}, state : Stream,
     key : SessionKey \cup {TokenKey, NoKey}, opSession : Session \cup {NoSession},
     pc : {"bind", "rebind", "ready"}]

ASSUME HandlerConstantsOK ==
    /\ Holder = Handler \cup SessionKey
    /\ Handler \cap SessionKey = {}
    /\ TokenKey \notin SessionKey
    /\ NoKey \notin SessionKey \cup {TokenKey}
    /\ NoSession \notin Session
    /\ Mode \subseteq {"digest", "sign", "verify"}
    /\ KeepsOp \subseteq Mode
    /\ NoHandler \notin HandlerState

VARIABLES
    op,       \* the token: the operations active on each session
    flag,     \* op_in_use of each session key
    handler

handlerVars == <<op, flag, handler>>
vars == <<pool, inUse, authState, userCount, loggedIn, loan, op, flag, handler>>

----------------------------------------------------------------------------
(* The token's calls: sets of [ok, op].                                    *)

Result(ok, o) == [ok |-> ok, op |-> o]

\* What may be left of operation k after a failed call.
Leftovers(o, k) == {o \ {k}} \cup (IF k \in KeepsOp THEN {o} ELSE {})

\* C_DigestInit, C_SignInit, C_VerifyInit: refused while k is active.
TokenInit(o, k) ==
    {Result(FALSE, o)} \cup (IF k \in o THEN {} ELSE {Result(TRUE, o \cup {k})})

\* C_DigestUpdate, C_SignUpdate, C_VerifyUpdate.
TokenUpdate(o, k) ==
    IF k \notin o THEN {Result(FALSE, o)}
    ELSE {Result(TRUE, o)} \cup {Result(FALSE, l) : l \in Leftovers(o, k)}

\* C_DigestFinal, C_SignFinal, C_VerifyFinal, into a buffer large enough.
TokenFinal(o, k) ==
    IF k \notin o THEN {Result(FALSE, o)}
    ELSE {Result(TRUE, o \ {k})} \cup {Result(FALSE, l) : l \in Leftovers(o, k)}

----------------------------------------------------------------------------
(* Pkcs11HashExecutor: sets of [op, state] from operations o and state st. *)

Outcome(o, st) == [op |-> o, state |-> st]

\* Abort succeeds when the operation is over or was not active.
HashAbort(o) ==
    {Result(TRUE, o \ {"digest"})} \cup {Result(FALSE, l) : l \in Leftovers(o, "digest")}

\* After a failure the stream is idle if the operation could be aborted.
HashCleanup(o, st) == {Outcome(a.op, IF a.ok THEN "IDLE" ELSE st) : a \in HashAbort(o)}

\* PKCS#11 has no second C_DigestInit: Init aborts an active stream first.
AbortBeforeInit(o, st) == IF st = "IDLE" THEN {Result(TRUE, o)} ELSE HashAbort(o)

HashInit(o, st) ==
    UNION {IF a.ok
           THEN {Outcome(r.op, IF r.ok THEN "INIT" ELSE "IDLE") : r \in TokenInit(a.op, "digest")}
           ELSE {Outcome(a.op, st)}
             : a \in AbortBeforeInit(o, st)}

HashUpdate(o, st) ==
    IF st = "IDLE" THEN {}
    ELSE UNION {IF r.ok THEN {Outcome(r.op, "ACTIVE")} ELSE HashCleanup(r.op, st)
                  : r \in TokenUpdate(o, "digest")}

\* A buffer that is too small changes nothing, and Finalize may be retried.
HashFinalize(o, st) ==
    IF st = "IDLE" THEN {}
    ELSE UNION {IF r.ok THEN {Outcome(r.op, "IDLE")} ELSE HashCleanup(r.op, st)
                  : r \in TokenFinal(o, "digest")}

\* Abort what may be left, C_DigestInit, C_Digest, and abort if that failed.
HashSingleShot(o, st) ==
    IF st # "IDLE" THEN {}
    ELSE {Outcome(a.op, "IDLE") : a \in {b \in HashAbort(o) : ~b.ok}}
           \cup UNION {IF ~r.ok THEN {Outcome(r.op, "IDLE")}
                       ELSE {Outcome(f.op, "IDLE") : f \in {g \in TokenFinal(r.op, "digest") : g.ok}}
                              \cup {Outcome(a.op, "IDLE") : a \in HashAbort(r.op)}
                         : r \in TokenInit(o \ {"digest"}, "digest")}

HashReset(o, st) == HashCleanup(o, st)

----------------------------------------------------------------------------
(* Pkcs11MacExecutor, for k = "sign" or "verify".  The handler keeps its   *)
(* state unless the operation succeeds.                                    *)

\* Abort finishes the operation and ignores the result.
MacAbort(o, k) == {r.op : r \in TokenFinal(o, k)}

\* HandleInit aborts in STREAM_ACTIVE only.
MacAbortBeforeInit(o, st, k) == IF st = "ACTIVE" THEN MacAbort(o, k) ELSE {o}

MacInit(o, st, k) ==
    UNION {{Outcome(r.op, IF r.ok THEN "ACTIVE" ELSE st) : r \in TokenInit(a, k)}
             : a \in MacAbortBeforeInit(o, st, k)}

\* EnsureInitialized: the deferred C_SignInit or C_VerifyInit.
EnsureInitialized(o, st, k) ==
    IF st = "INIT" THEN TokenInit(o, k) ELSE {Result(TRUE, o)}

\* ValidateStreamTransition: the states from which an operation may go on.
ValidFrom(action) == IF action = "UPDATE" THEN {"INIT", "ACTIVE"} ELSE {"ACTIVE"}

\* The parameters are checked here, after a deferred initialization: an empty
\* or missing input, or an output buffer that is too small, ends the call.
ExecuteUpdate(o, k) == {Result(FALSE, o)} \cup TokenUpdate(o, k)

ExecuteSignFinal(o) == {Result(FALSE, o)} \cup TokenFinal(o, "sign")

\* The token compares the tag; a mismatch is an answer, not a failure.
ExecuteVerifyFinal(o) == TokenFinal(o, "verify")

\* The tag is computed and compared here.
ExecuteSignVerify(o, st) ==
    UNION {IF i.ok THEN TokenFinal(i.op, "sign") ELSE {i} : i \in EnsureInitialized(o, st, "sign")}

\* The single-shots stop at the first call that fails.
ExecuteSignSingleShot(o) ==
    UNION {IF ~i.ok THEN {i}
           ELSE UNION {IF u.ok THEN TokenFinal(u.op, "sign") ELSE {u} : u \in TokenUpdate(i.op, "sign")}
             : i \in TokenInit(o, "sign")}

ExecuteVerifySingleShot(o) ==
    UNION {IF ~i.ok THEN {i}
           ELSE UNION {IF u.ok THEN ExecuteVerifyFinal(u.op) ELSE {u} : u \in TokenUpdate(i.op, "verify")}
             : i \in TokenInit(o, "verify")}

MacUpdate(o, st, k) ==
    IF st \notin ValidFrom("UPDATE") THEN {}
    ELSE UNION {IF i.ok
                THEN {Outcome(r.op, IF r.ok THEN "ACTIVE" ELSE st) : r \in ExecuteUpdate(i.op, k)}
                ELSE {Outcome(i.op, st)}
                  : i \in EnsureInitialized(o, st, k)}

MacFinalize(o, st, k) ==
    IF k = "verify" \/ st \notin ValidFrom("FINALIZE") THEN {}
    ELSE {Outcome(r.op, IF r.ok THEN "IDLE" ELSE st) : r \in ExecuteSignFinal(o)}

MacVerify(o, st, k) ==
    IF st = "IDLE" THEN {}
    ELSE {Outcome(r.op, IF r.ok THEN "IDLE" ELSE st) :
            r \in IF k = "verify"
                  THEN UNION {IF i.ok THEN ExecuteVerifyFinal(i.op) ELSE {i}
                                : i \in EnsureInitialized(o, st, k)}
                  ELSE ExecuteSignVerify(o, st)}

MacSingleShot(o, st, k) ==
    IF st # "INIT" THEN {}
    ELSE {Outcome(r.op, IF r.ok THEN "IDLE" ELSE st) :
            r \in IF k = "verify" THEN ExecuteVerifySingleShot(o) ELSE ExecuteSignSingleShot(o)}

----------------------------------------------------------------------------
Live(h) == handler[h] # NoHandler

Ready(h) == Live(h) /\ handler[h].pc = "ready"

IsHash(h) == handler[h].mode = "digest"

\* The handler holds the exclusive borrow of a session key (m_resolved_key).
Borrows(h, k) == Live(h) /\ ~IsHash(h) /\ handler[h].key = k /\ handler[h].opSession # NoSession

HandlerInit ==
    /\ PoolInit
    /\ op = [s \in Session |-> {}]
    /\ flag = [k \in SessionKey |-> FALSE]
    /\ handler = [h \in Handler |-> NoHandler]

NewHandler(mode, key, s, pc) ==
    [mode |-> mode, state |-> "IDLE", key |-> key, opSession |-> s, pc |-> pc]

----------------------------------------------------------------------------
(* Creation and release.                                                   *)

CreateHashHandler(h) ==
    /\ "digest" \in Mode
    /\ ~Live(h)
    /\ AcquireSession(h, "RO", "Public")
    /\ handler' = [handler EXCEPT ![h] = NewHandler("digest", NoKey, loan'[h].session, "ready")]
    /\ UNCHANGED <<op, flag>>

\* CreateMacHandler, and the key bound to the context; InitializeContext follows.
CreateMacHandler(h, mode, k) ==
    /\ mode \in Mode \ {"digest"}
    /\ ~Live(h)
    /\ k \in SessionKey => Holding(k)
    /\ AcquireSession(h, "RO", "User")
    /\ handler' = [handler EXCEPT ![h] = NewHandler(mode, k, NoSession, "bind")]
    /\ UNCHANGED <<op, flag>>

\* InitializeContext: ResolveObject takes the flag of a session key, or finds
\* the token key on the handler's own session.
ResolveObject_SetOnly(h, k) ==
    \/ k = TokenKey /\ flag' = flag
    \/ /\ k \in SessionKey /\ Holding(k)
       /\ flag' = [flag EXCEPT ![k] = TRUE]

ResolveObject(h, k) ==
    \/ k = TokenKey /\ flag' = flag
    \/ /\ k \in SessionKey /\ Holding(k)
       /\ ~flag[k]
       /\ flag' = [flag EXCEPT ![k] = TRUE]

InitializeContext(h) ==
    /\ Live(h) /\ handler[h].pc \in {"bind", "rebind"}
    /\ LET k == handler[h].key IN
        /\ ResolveObject(h, k)
        /\ handler' = [handler EXCEPT ![h].pc = "ready", ![h].state = "INIT",
                ![h].opSession = IF k = TokenKey THEN loan[h].session ELSE loan[k].session]
    /\ UNCHANGED <<pool, inUse, authState, userCount, loggedIn, loan, op>>

\* The key is in use elsewhere or gone, or C_FindObjects fails.
InitializeContextFails(h) ==
    /\ Live(h) /\ handler[h].pc \in {"bind", "rebind"}
    /\ LET k == handler[h].key IN k \in SessionKey => ~Holding(k) \/ flag[k]
    /\ handler' = [handler EXCEPT ![h].pc = "ready"]
    /\ UNCHANGED <<pool, inUse, authState, userCount, loggedIn, loan, op, flag>>

\* GenerateKey and ImportKey: the creating session stays with the key.
\* Opaque ids are not used again.
GenerateKey(k) ==
    /\ \A h \in Handler : Live(h) => handler[h].key # k
    /\ AcquireSession(k, "RW", "User")
    /\ flag' = [flag EXCEPT ![k] = FALSE]
    /\ UNCHANGED <<op, handler>>

\* Closing a session ends its operations.
AfterRelease(s, o, discard) == [op EXCEPT ![s] = IF HardCleanup \/ discard THEN {} ELSE o]

\* Faulty variant: the contexts that are bound to the key are not looked at.
ReleaseKey_WhileBound(k) ==
    /\ Holding(k)
    /\ op' = AfterRelease(loan[k].session, op[loan[k].session], FALSE)
    /\ ReleaseSession(k, FALSE)
    /\ UNCHANGED <<flag, handler>>

\* Pkcs11KeyStore::Release, when the last reference to the key is dropped: a
\* context keeps one until it is closed, which the client does between operations.
ReleaseKey(k) ==
    /\ Holding(k)
    /\ \A h \in Handler : Live(h) => handler[h].key # k
    /\ op' = AfterRelease(loan[k].session, op[loan[k].session], FALSE)
    /\ ReleaseSession(k, FALSE)
    /\ UNCHANGED <<flag, handler>>

\* Faulty variant: such a session goes back to the pool.
DestroyHashHandler_Reuses(h) ==
    /\ Live(h) /\ IsHash(h)
    /\ LET s == loan[h].session IN
       \E a \in HashAbort(op[s]) :
        /\ op' = AfterRelease(s, a.op, FALSE)
        /\ ReleaseSession(h, FALSE)
    /\ handler' = [handler EXCEPT ![h] = NoHandler]
    /\ UNCHANGED flag

\* ~Pkcs11HashHandler: a session whose operation cannot be aborted is closed.
DestroyHashHandler(h) ==
    /\ Live(h) /\ IsHash(h)
    /\ LET s == loan[h].session IN
       \E a \in HashAbort(op[s]) :
        /\ op' = AfterRelease(s, a.op, ~a.ok)
        /\ ReleaseSession(h, ~a.ok)
    /\ handler' = [handler EXCEPT ![h] = NoHandler]
    /\ UNCHANGED flag

\* The operation of a MAC handler is aborted unless its stream is idle.
MacAbortedOp(h) ==
    LET s == handler[h].opSession IN
    IF handler[h].state = "IDLE" \/ s = NoSession THEN {op}
    ELSE {[op EXCEPT ![s] = o] : o \in MacAbort(op[s], handler[h].mode)}

\* ResolvedKey's destructor and move assignment clear the flag.
ReleaseBorrow(h) ==
    flag' = [k \in SessionKey |-> IF Borrows(h, k) THEN FALSE ELSE flag[k]]

DestroyMacHandler(h) ==
    /\ Ready(h) /\ ~IsHash(h)
    /\ \E o \in MacAbortedOp(h) :
        op' = IF HardCleanup THEN [o EXCEPT ![loan[h].session] = {}] ELSE o
    /\ ReleaseBorrow(h)
    /\ ReleaseSession(h, FALSE)
    /\ handler' = [handler EXCEPT ![h] = NoHandler]

----------------------------------------------------------------------------
(* Execute.                                                                *)

HashOutcomes(o, st) ==
    HashInit(o, st) \cup HashUpdate(o, st) \cup HashFinalize(o, st)
      \cup HashSingleShot(o, st) \cup HashReset(o, st)

MacOutcomes(o, st, k) ==
    MacInit(o, st, k) \cup MacUpdate(o, st, k) \cup MacFinalize(o, st, k)
      \cup MacVerify(o, st, k) \cup MacSingleShot(o, st, k)

\* Pkcs11HashHandler::Execute and Pkcs11MacHandler::Execute with a bound key.
Execute(h) ==
    /\ Ready(h) /\ handler[h].opSession # NoSession
    /\ LET s == handler[h].opSession
           st == handler[h].state
       IN \E r \in IF IsHash(h) THEN HashOutcomes(op[s], st)
                                ELSE MacOutcomes(op[s], st, handler[h].mode) :
            /\ op' = [op EXCEPT ![s] = r.op]
            /\ handler' = [handler EXCEPT ![h].state = r.state]
    /\ UNCHANGED <<pool, inUse, authState, userCount, loggedIn, loan, flag>>

\* MAC_RESET: abort, give the key back; InitializeContext follows.
MacReset(h) ==
    /\ Ready(h) /\ ~IsHash(h)
    /\ op' \in MacAbortedOp(h)
    /\ ReleaseBorrow(h)
    /\ handler' = [handler EXCEPT ![h].pc = "rebind", ![h].state = "IDLE",
                                  ![h].opSession = NoSession]
    /\ UNCHANGED <<pool, inUse, authState, userCount, loggedIn, loan>>

----------------------------------------------------------------------------
HandlerNext ==
    \/ \E h \in Handler :
        \/ CreateHashHandler(h)
        \/ \E mode \in Mode, k \in SessionKey \cup {TokenKey} : CreateMacHandler(h, mode, k)
        \/ InitializeContext(h) \/ InitializeContextFails(h)
        \/ Execute(h) \/ MacReset(h)
        \/ DestroyHashHandler(h) \/ DestroyMacHandler(h)
    \/ \E k \in SessionKey : GenerateKey(k) \/ ReleaseKey(k)
    \/ \E t \in Type : LoginFails(t) /\ UNCHANGED handlerVars

HandlerSpec == HandlerInit /\ [][HandlerNext]_vars

----------------------------------------------------------------------------
(* Properties.                                                             *)

\* "only one handler may hold the creating session at a time"
\* (pkcs11_key_store.hpp): no two handlers operate on one session, and nobody
\* but the handler or its key keeps the session that the handler operates on.
SessionOfOneHandler ==
    \A h \in Handler : Live(h) /\ handler[h].opSession # NoSession =>
        /\ \A g \in Handler \ {h} : Live(g) => handler[g].opSession # handler[h].opSession
        /\ \A u \in Holder : Holding(u) /\ loan[u].session = handler[h].opSession
                                => u \in {h, handler[h].key}

\* A session key outlives the handlers that borrowed it: it is in the store
\* with its creating session, and marked in use.
BorrowedKeyAlive ==
    \A h \in Handler, k \in SessionKey : Borrows(h, k) =>
        Holding(k) /\ loan[k].session = handler[h].opSession /\ flag[k]

\* A session goes back to the pool with no operation active: the destructors
\* abort what a client left unfinished ("the session is in IDLE state when
\* released for reuse by the next handler", ~Pkcs11HashHandler).
PooledSessionIdle == \A t \in Type : \A s \in IdleIn(t) : op[s] = {}

=============================================================================
