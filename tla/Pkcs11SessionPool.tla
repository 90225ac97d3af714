------------------------- MODULE Pkcs11SessionPool -------------------------
(***************************************************************************)
(* The sessions of one PKCS#11 provider: its read-only and read-write      *)
(* pools, the reference-counted login of TokenAuthGuard, and the token     *)
(* (daemon/provider/pkcs11/src: pkcs11_provider.cpp, pkcs11_module.cpp).   *)
(*                                                                         *)
(* AcquireSession and ReleaseSession run under m_poolMutex, and the guard's *)
(* own mutex is only taken inside it, so each call is one step.  A holder  *)
(* is whoever keeps a session between the two calls: a handler, a session  *)
(* key of the key store, or a call of the key factory or slot handler.     *)
(*                                                                         *)
(* A pool is a set: AcquireFromPool takes the first idle entry, the model  *)
(* any of them.  An open that fails, and a full pool, change nothing.      *)
(***************************************************************************)
EXTENDS Integers, FiniteSets

CONSTANTS
    Session,     \* session handles of the token
    Holder,      \* users of sessions
    Seed,        \* the session SeedSessionPool opens
    MaxRo,       \* m_maxRoSessions
    MaxRw,       \* m_maxRwSessions
    HardCleanup, \* cleanupStrategy = kHardCleanup
    NoLoan       \* a holder without a session

Type == {"RO", "RW"}
Auth == {"Public", "User"}
Loan == [session : Session, type : Type, auth : Auth]

ASSUME PoolConstantsOK ==
    /\ IsFiniteSet(Session)
    /\ IsFiniteSet(Holder)
    /\ Seed \in Session
    /\ MaxRo \in Nat \ {0}
    /\ MaxRw \in Nat \ {0}
    /\ HardCleanup \in BOOLEAN
    /\ NoLoan \notin Loan

VARIABLES
    pool,       \* m_roPool and m_rwPool: the open sessions
    inUse,      \* the sessions marked inUse
    authState,  \* TokenAuthGuard::m_state
    userCount,  \* TokenAuthGuard::m_activeUserCount
    loggedIn,   \* the token: is the user logged in
    loan        \* the session each holder keeps, as it was requested

poolVars == <<pool, inUse, authState, userCount, loggedIn, loan>>

----------------------------------------------------------------------------
Limit(t) == IF t = "RW" THEN MaxRw ELSE MaxRo

Open == pool["RO"] \cup pool["RW"]

IdleIn(t) == pool[t] \ inUse

Holding(h) == loan[h] # NoLoan

UserHolders == {h \in Holder : Holding(h) /\ loan[h].auth = "User"}

\* After Initialize: one idle read-only session, nobody logged in.
PoolInit ==
    /\ pool = [t \in Type |-> IF t = "RO" THEN {Seed} ELSE {}]
    /\ inUse = {}
    /\ authState = "Public"
    /\ userCount = 0
    /\ loggedIn = FALSE
    /\ loan = [h \in Holder |-> NoLoan]

----------------------------------------------------------------------------
(* AcquireSession.                                                         *)

\* An idle session of the pool or, below the limit, a new one.
AcquireFromPool(t, s) ==
    \/ s \in IdleIn(t)
    \/ IdleIn(t) = {} /\ Cardinality(pool[t]) < Limit(t) /\ s \notin Open

\* The guard is in the User state already, or C_Login succeeds (or says that
\* the user is logged in).
EnsureUserState(a) ==
    IF a = "User"
    THEN /\ authState' = "User"
         /\ userCount' = userCount + 1
         /\ loggedIn' = IF authState = "User" THEN loggedIn ELSE TRUE
    ELSE UNCHANGED <<authState, userCount, loggedIn>>

AcquireSession(h, t, a) ==
    /\ ~Holding(h)
    /\ \E s \in Session :
        /\ AcquireFromPool(t, s)
        /\ pool' = [pool EXCEPT ![t] = @ \cup {s}]
        /\ inUse' = inUse \cup {s}
        /\ loan' = [loan EXCEPT ![h] = [session |-> s, type |-> t, auth |-> a]]
    /\ EnsureUserState(a)

\* Faulty variant: the session stays marked as in use.
LoginFails_StaysMarked(t) ==
    /\ authState # "User"
    /\ \E s \in Session :
        /\ AcquireFromPool(t, s)
        /\ pool' = [pool EXCEPT ![t] = @ \cup {s}]
        /\ inUse' = inUse \cup {s}
    /\ UNCHANGED <<authState, userCount, loggedIn, loan>>

\* C_Login fails: the session, perhaps just opened, goes back to the pool.
LoginFails(t) ==
    /\ authState # "User"
    /\ \E s \in Session :
        /\ AcquireFromPool(t, s)
        /\ pool' = [pool EXCEPT ![t] = @ \cup {s}]
    /\ UNCHANGED <<inUse, authState, userCount, loggedIn, loan>>

----------------------------------------------------------------------------
(* ReleaseSession.                                                         *)

\* Faulty variant: every user of the login logs out.
OnUserHandlerReleased_EachLogsOut(a) ==
    /\ userCount' = IF a = "User" /\ userCount > 0 THEN userCount - 1 ELSE userCount
    /\ authState' = IF a = "User" /\ userCount = 1 THEN "Public" ELSE authState
    /\ loggedIn' = (loggedIn /\ a # "User")

\* The last user logs out; the result of C_Logout is ignored.  Closing the
\* last session of the token logs the user out as well.
OnUserHandlerReleased(a) ==
    LET last == a = "User" /\ userCount = 1 IN
    /\ userCount' = IF a = "User" /\ userCount > 0 THEN userCount - 1 ELSE userCount
    /\ authState' = IF last THEN "Public" ELSE authState
    /\ \E out \in BOOLEAN :
        loggedIn' = (loggedIn /\ ~(last /\ out) /\ pool'["RO"] \cup pool'["RW"] # {})

\* discard: the disposition is kDiscard.
ReleaseSession(h, discard) ==
    /\ Holding(h)
    /\ LET l == loan[h] IN
        /\ pool' = IF HardCleanup \/ discard
                   THEN [pool EXCEPT ![l.type] = @ \ {l.session}] ELSE pool
        /\ inUse' = inUse \ {l.session}
        /\ OnUserHandlerReleased(l.auth)
    /\ loan' = [loan EXCEPT ![h] = NoLoan]

----------------------------------------------------------------------------
PoolNext ==
    \/ \E h \in Holder, t \in Type, a \in Auth : AcquireSession(h, t, a)
    \/ \E t \in Type : LoginFails(t)
    \/ \E h \in Holder, discard \in BOOLEAN : ReleaseSession(h, discard)

PoolSpec == PoolInit /\ [][PoolNext]_poolVars

----------------------------------------------------------------------------
(* Properties.                                                             *)

\* The type invariant.
PoolTypeOK ==
    /\ pool \in [Type -> SUBSET Session]
    /\ inUse \in SUBSET Session
    /\ authState \in Auth
    /\ userCount \in Nat
    /\ loggedIn \in BOOLEAN
    /\ loan \in [Holder -> Loan \cup {NoLoan}]

\* No two holders get the same session from AcquireSession: "one active
\* PKCS#11 operation per session" (pkcs11_provider.hpp).
SessionExclusive ==
    \A g, h \in Holder :
        g # h /\ Holding(g) /\ Holding(h) => loan[g].session # loan[h].session

\* A session in use is kept by a holder, so that it will be released, and the
\* session a holder keeps is open, in the pool ReleaseSession will look in.
NoSessionLeak ==
    /\ inUse = {loan[h].session : h \in {g \in Holder : Holding(g)}}
    /\ \A h \in Holder : Holding(h) => loan[h].session \in pool[loan[h].type]
    /\ pool["RO"] \cap pool["RW"] = {}

\* Whatever the others release, the token stays logged in as long as somebody
\* keeps a session that asked for the User state (TokenAuthGuard).
UserStaysLoggedIn == UserHolders # {} => loggedIn

\* The pools stay within the limits of the token (AcquireFromPool).
PoolBounded == \A t \in Type : Cardinality(pool[t]) <= Limit(t)

\* The reference count of TokenAuthGuard is the number of users, and the guard
\* is in the User state exactly while there is one.
UserCountExact ==
    /\ userCount = Cardinality(UserHolders)
    /\ authState = "User" <=> userCount > 0

=============================================================================
