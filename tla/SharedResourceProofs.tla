------------------------ MODULE SharedResourceProofs ------------------------
(***************************************************************************)
(* Theorems about what the daemon's clients share, for any number of them. *)
(*                                                                         *)
(* The sessions of a PKCS#11 token, for any sessions, handlers and keys:   *)
(* the hash and MAC handlers use the pool as Pkcs11SessionPool allows, a   *)
(* session has one user, a borrowed key stays, and no session goes back to *)
(* the pool with an operation active.                                      *)
(*                                                                         *)
(* The cache of a trust store, for any members, workers, certificates and  *)
(* CRLs: it is warm only while it is held, it never trusts more than the   *)
(* slots do, and its anchors and CRLs are those of the slots.              *)
(***************************************************************************)
EXTENDS Pkcs11Handlers, TrustStore, FiniteSetTheorems, TLAPS

\* Most steps are first-order; SMT is cited for those about numbers and records.
USE ZenonT(30)

----------------------------------------------------------------------------
(* The session pool, for every set of sessions and holders, every limit    *)
(* and both cleanup strategies.                                            *)

\* The type invariant holds (AcquireSession, ReleaseSession).
THEOREM PoolTypeCorrect == PoolSpec => []PoolTypeOK
<1>1. PoolInit => PoolTypeOK
  <2> SUFFICES ASSUME PoolInit PROVE PoolTypeOK
    OBVIOUS
  <2>1. pool \in [Type -> SUBSET Session]
    <3>1. {Seed} \in SUBSET Session
      BY PoolConstantsOK
    <3> QED BY <3>1 DEF PoolInit
  <2>2. loan \in [Holder -> Loan \cup {NoLoan}]
    BY DEF PoolInit
  <2> QED BY <2>1, <2>2 DEF PoolInit, PoolTypeOK, Auth
<1>2. PoolTypeOK /\ [PoolNext]_poolVars => PoolTypeOK'
  <2> SUFFICES ASSUME PoolTypeOK, [PoolNext]_poolVars PROVE PoolTypeOK'
    OBVIOUS
  <2>1. ASSUME NEW h \in Holder, NEW t \in Type, NEW a \in Auth, AcquireSession(h, t, a)
        PROVE  PoolTypeOK'
    <3>1. userCount' \in Nat /\ authState' \in Auth /\ loggedIn' \in BOOLEAN
      <4>1. EnsureUserState(a)
        BY <2>1 DEF AcquireSession
      <4>2. CASE a = "User"
        <5>1. userCount' = userCount + 1 /\ authState' = "User"
          BY <4>1, <4>2 DEF EnsureUserState
        <5>2. loggedIn' = loggedIn \/ loggedIn' = TRUE
          BY <4>1, <4>2 DEF EnsureUserState
        <5>3. loggedIn' \in BOOLEAN
          BY <5>2 DEF PoolTypeOK
        <5> QED BY <5>1, <5>3, SMT DEF PoolTypeOK, Auth
      <4>3. CASE a # "User"
        BY <4>1, <4>3 DEF EnsureUserState, PoolTypeOK
      <4> QED BY <4>2, <4>3
    <3>2. PICK s \in Session :
            /\ pool' = [pool EXCEPT ![t] = @ \cup {s}]
            /\ inUse' = inUse \cup {s}
            /\ loan' = [loan EXCEPT ![h] = [session |-> s, type |-> t, auth |-> a]]
      BY <2>1 DEF AcquireSession
    <3>3. [session |-> s, type |-> t, auth |-> a] \in Loan
      BY DEF Loan
    <3>4. pool' \in [Type -> SUBSET Session] /\ inUse' \in SUBSET Session
      BY <3>2 DEF PoolTypeOK
    <3>5. loan' \in [Holder -> Loan \cup {NoLoan}]
      BY <3>2, <3>3 DEF PoolTypeOK
    <3> QED BY <3>1, <3>4, <3>5 DEF PoolTypeOK
  <2>2. ASSUME NEW t \in Type, LoginFails(t) PROVE PoolTypeOK'
    BY <2>2 DEF LoginFails, PoolTypeOK
  <2>3. ASSUME NEW h \in Holder, NEW discard \in BOOLEAN, ReleaseSession(h, discard)
        PROVE  PoolTypeOK'
    <3>1. userCount' \in Nat /\ authState' \in Auth /\ loggedIn' \in BOOLEAN
      BY <2>3, SMT DEF ReleaseSession, OnUserHandlerReleased, PoolTypeOK, Auth
    <3> QED BY <2>3, <3>1 DEF ReleaseSession, PoolTypeOK
  <2>4. CASE UNCHANGED poolVars
    BY <2>4 DEF poolVars, PoolTypeOK
  <2> QED BY <2>1, <2>2, <2>3, <2>4 DEF PoolNext
<1> QED BY <1>1, <1>2, PTL DEF PoolSpec

----------------------------------------------------------------------------
(* Sessions: exclusive, accounted for, within the limits.                  *)

SessionInv == PoolTypeOK /\ SessionExclusive /\ NoSessionLeak

\* What AcquireSession does to the loans and to the pool.
LEMMA AcquireEffect ==
  ASSUME PoolTypeOK, NEW h \in Holder, NEW t \in Type, NEW a \in Auth, AcquireSession(h, t, a)
  PROVE  /\ loan[h] = NoLoan
         /\ \E s \in Session :
              /\ AcquireFromPool(t, s)
              /\ \A u \in Type : pool'[u] = IF u = t THEN pool[u] \cup {s} ELSE pool[u]
              /\ inUse' = inUse \cup {s}
              /\ loan'[h] # NoLoan
              /\ loan'[h].session = s /\ loan'[h].type = t /\ loan'[h].auth = a
              /\ \A g \in Holder \ {h} : loan'[g] = loan[g]
  <1>1. PICK s \in Session :
          /\ AcquireFromPool(t, s)
          /\ pool' = [pool EXCEPT ![t] = @ \cup {s}]
          /\ inUse' = inUse \cup {s}
          /\ loan' = [loan EXCEPT ![h] = [session |-> s, type |-> t, auth |-> a]]
    BY DEF AcquireSession
  <1>2. [session |-> s, type |-> t, auth |-> a] \in Loan
    BY DEF Loan
  <1>3. loan'[h] = [session |-> s, type |-> t, auth |-> a]
    BY <1>1 DEF PoolTypeOK
  <1>4. /\ \A u \in Type : pool'[u] = IF u = t THEN pool[u] \cup {s} ELSE pool[u]
        /\ \A g \in Holder \ {h} : loan'[g] = loan[g]
    BY <1>1 DEF PoolTypeOK
  <1>5. loan'[h] # NoLoan
    BY <1>2, <1>3, PoolConstantsOK
  <1> QED BY <1>1, <1>3, <1>4, <1>5, SMT DEF AcquireSession, Holding

\* What ReleaseSession does.
LEMMA ReleaseEffect ==
  ASSUME PoolTypeOK, NEW h \in Holder, NEW discard \in BOOLEAN, ReleaseSession(h, discard)
  PROVE  /\ loan[h] # NoLoan /\ loan[h] \in Loan
         /\ \A u \in Type : \/ pool'[u] = pool[u]
                            \/ u = loan[h].type /\ pool'[u] = pool[u] \ {loan[h].session}
         /\ inUse' = inUse \ {loan[h].session}
         /\ loan'[h] = NoLoan
         /\ \A g \in Holder \ {h} : loan'[g] = loan[g]
         /\ OnUserHandlerReleased(loan[h].auth)
  <1>1. loan[h] # NoLoan /\ loan[h] \in Loan
    BY DEF ReleaseSession, Holding, PoolTypeOK
  <1>2. loan[h].type \in Type
    BY <1>1 DEF Loan
  <1> QED BY <1>1, <1>2 DEF ReleaseSession, PoolTypeOK

LEMMA AcquireKeepsSessions ==
  ASSUME SessionInv, NEW h \in Holder, NEW t \in Type, NEW a \in Auth, AcquireSession(h, t, a)
  PROVE  SessionExclusive' /\ NoSessionLeak'
  <1>1. PICK s \in Session :
          /\ AcquireFromPool(t, s)
          /\ \A u \in Type : pool'[u] = IF u = t THEN pool[u] \cup {s} ELSE pool[u]
          /\ inUse' = inUse \cup {s}
          /\ loan'[h] # NoLoan
          /\ loan'[h].session = s /\ loan'[h].type = t /\ loan'[h].auth = a
          /\ \A g \in Holder \ {h} : loan'[g] = loan[g]
    BY AcquireEffect DEF SessionInv
  <1>2. "RO" \in Type /\ "RW" \in Type /\ (t = "RO" \/ t = "RW")
    BY DEF Type
  <1>3. \A g \in Holder : Holding(g) => loan[g].session \in inUse
    BY DEF SessionInv, NoSessionLeak
  <1>4. s \notin inUse
    <2>1. CASE s \in IdleIn(t)
      BY <2>1 DEF IdleIn
    <2>2. CASE s \notin Open
      <3>1. \A g \in Holder : Holding(g) => loan[g].session \in Open
        BY <1>2 DEF SessionInv, NoSessionLeak, Open, PoolTypeOK, Loan, Holding, Type
      <3> QED BY <2>2, <3>1 DEF SessionInv, NoSessionLeak
    <2> QED BY <1>1, <2>1, <2>2 DEF AcquireFromPool
  <1>5. SessionExclusive'
    BY <1>1, <1>3, <1>4, SMT DEF SessionExclusive, Holding, SessionInv
  <1>6. loan[h] = NoLoan
    BY AcquireEffect DEF SessionInv
  <1>7. {g \in Holder : Holding(g)'} = {g \in Holder : Holding(g)} \cup {h}
    BY <1>1 DEF Holding
  <1>8. inUse' = {loan'[g].session : g \in {k \in Holder : Holding(k)'}}
    <2>1. ~Holding(h)
      BY <1>6 DEF Holding
    <2>2. {loan'[g].session : g \in {k \in Holder : Holding(k)}}
            = {loan[g].session : g \in {k \in Holder : Holding(k)}}
      BY <1>1, <2>1, SMT
    <2> QED BY <1>1, <1>7, <2>2, SMT DEF SessionInv, NoSessionLeak
  <1>9. \A g \in Holder : Holding(g)' => loan'[g].session \in pool'[loan'[g].type]
    <2> SUFFICES ASSUME NEW g \in Holder, Holding(g)'
                 PROVE  loan'[g].session \in pool'[loan'[g].type]
      OBVIOUS
    <2>1. CASE g = h
      BY <1>1, <2>1
    <2>2. CASE g # h
      <3>1. loan'[g] = loan[g] /\ Holding(g) /\ loan[g].type \in Type
        BY <1>1, <2>2 DEF Holding, SessionInv, PoolTypeOK, Loan
      <3>2. loan[g].session \in pool[loan[g].type]
        BY <3>1 DEF SessionInv, NoSessionLeak
      <3> QED BY <1>1, <3>1, <3>2
    <2> QED BY <2>1, <2>2
  <1>10. pool'["RO"] \cap pool'["RW"] = {}
    <2>1. pool["RO"] \cap pool["RW"] = {}
      BY DEF SessionInv, NoSessionLeak
    <2>2. CASE s \in IdleIn(t)
      BY <1>1, <1>2, <2>1, <2>2 DEF IdleIn
    <2>3. CASE s \notin Open
      BY <1>1, <1>2, <2>1, <2>3 DEF Open
    <2> QED BY <1>1, <2>2, <2>3 DEF AcquireFromPool
  <1> QED BY <1>5, <1>8, <1>9, <1>10 DEF NoSessionLeak

LEMMA LoginFailureKeepsSessions ==
  ASSUME SessionInv, NEW t \in Type, LoginFails(t)
  PROVE  SessionExclusive' /\ NoSessionLeak'
  <1>1. PICK s \in Session : AcquireFromPool(t, s) /\ pool' = [pool EXCEPT ![t] = @ \cup {s}]
    BY DEF LoginFails
  <1>2. UNCHANGED <<inUse, loan>>
    BY DEF LoginFails
  <1>3. "RO" \in Type /\ "RW" \in Type /\ (t = "RO" \/ t = "RW")
    BY DEF Type
  <1>4. \A u \in Type : pool'[u] = IF u = t THEN pool[u] \cup {s} ELSE pool[u]
    BY <1>1 DEF SessionInv, PoolTypeOK
  <1>5. pool'["RO"] \cap pool'["RW"] = {}
    <2>1. pool["RO"] \cap pool["RW"] = {}
      BY DEF SessionInv, NoSessionLeak
    <2>2. CASE s \in IdleIn(t)
      BY <1>4, <1>3, <2>1, <2>2 DEF IdleIn
    <2>3. CASE s \notin Open
      BY <1>4, <1>3, <2>1, <2>3 DEF Open
    <2> QED BY <1>1, <2>2, <2>3 DEF AcquireFromPool
  <1>6. \A g \in Holder : Holding(g) => loan[g].type \in Type
    BY DEF Holding, SessionInv, PoolTypeOK, Loan
  <1> QED BY <1>2, <1>4, <1>5, <1>6, ZenonT(60) DEF SessionInv, SessionExclusive, NoSessionLeak, Holding

LEMMA ReleaseKeepsSessions ==
  ASSUME SessionInv, NEW h \in Holder, NEW discard \in BOOLEAN, ReleaseSession(h, discard)
  PROVE  SessionExclusive' /\ NoSessionLeak'
  <1> DEFINE s == loan[h].session
  <1>1. /\ loan[h] # NoLoan /\ loan[h] \in Loan
        /\ \A u \in Type : \/ pool'[u] = pool[u]
                           \/ u = loan[h].type /\ pool'[u] = pool[u] \ {s}
        /\ inUse' = inUse \ {s}
        /\ loan'[h] = NoLoan
        /\ \A g \in Holder \ {h} : loan'[g] = loan[g]
    BY ReleaseEffect DEF SessionInv
  <1>2. \A g \in Holder : Holding(g)' => g # h /\ Holding(g) /\ loan'[g] = loan[g]
    BY <1>1 DEF Holding
  <1>3. SessionExclusive'
    BY <1>2 DEF SessionInv, SessionExclusive
  <1>4. \A g \in Holder \ {h} : Holding(g) => Holding(g)' /\ loan[g].session # s
    BY <1>1 DEF Holding, SessionInv, SessionExclusive
  <1>5. inUse' = {loan'[g].session : g \in {k \in Holder : Holding(k)'}}
    <2>1. inUse = {loan[g].session : g \in {k \in Holder : Holding(k)}}
      BY DEF SessionInv, NoSessionLeak
    <2>2. \A x : x \in inUse' <=> \E g \in Holder : Holding(g)' /\ x = loan'[g].session
      <3>1. ASSUME NEW x, x \in inUse' PROVE \E g \in Holder : Holding(g)' /\ x = loan'[g].session
        <4>1. PICK g \in Holder : Holding(g) /\ x = loan[g].session
          BY <1>1, <2>1, <3>1
        <4>2. g # h
          BY <1>1, <3>1, <4>1
        <4> QED BY <1>1, <1>4, <4>1, <4>2
      <3>2. ASSUME NEW x, NEW g \in Holder, Holding(g)', x = loan'[g].session PROVE x \in inUse'
        BY <1>1, <1>2, <1>4, <2>1, <3>2
      <3> QED BY <3>1, <3>2
    <2> QED BY <2>2
  <1>6. \A g \in Holder : Holding(g)' => loan'[g].session \in pool'[loan'[g].type]
    <2> SUFFICES ASSUME NEW g \in Holder, Holding(g)'
                 PROVE  loan'[g].session \in pool'[loan'[g].type]
      OBVIOUS
    <2>1. g # h /\ Holding(g) /\ loan'[g] = loan[g]
      BY <1>2
    <2>2. loan[g].type \in Type /\ loan[g].session \in pool[loan[g].type]
      BY <2>1 DEF Holding, SessionInv, PoolTypeOK, Loan, NoSessionLeak
    <2>3. loan[g].session # s
      BY <1>4, <2>1
    <2> QED BY <1>1, <2>1, <2>2, <2>3
  <1>7. pool'["RO"] \cap pool'["RW"] = {}
    <2>1. "RO" \in Type /\ "RW" \in Type /\ pool["RO"] \cap pool["RW"] = {}
      BY DEF SessionInv, NoSessionLeak, Type
    <2>2. pool'["RO"] \subseteq pool["RO"] /\ pool'["RW"] \subseteq pool["RW"]
      BY <1>1, <2>1
    <2> QED BY <2>1, <2>2
  <1> QED BY <1>3, <1>5, <1>6, <1>7 DEF NoSessionLeak

\* The three facts about sessions are preserved together.
LEMMA SessionInvariance == PoolSpec => []SessionInv
<1>1. PoolInit => SessionExclusive /\ NoSessionLeak
  <2> SUFFICES ASSUME PoolInit PROVE SessionExclusive /\ NoSessionLeak
    OBVIOUS
  <2>1. \A h \in Holder : ~Holding(h)
    BY DEF PoolInit, Holding
  <2>2. pool["RO"] \cap pool["RW"] = {}
    BY DEF PoolInit, Type
  <2> QED BY <2>1, <2>2 DEF PoolInit, SessionExclusive, NoSessionLeak
<1>2. SessionInv /\ [PoolNext]_poolVars => SessionExclusive' /\ NoSessionLeak'
  <2> SUFFICES ASSUME SessionInv, [PoolNext]_poolVars PROVE SessionExclusive' /\ NoSessionLeak'
    OBVIOUS
  <2>1. CASE UNCHANGED poolVars
    BY <2>1 DEF poolVars, SessionInv, SessionExclusive, NoSessionLeak, Holding
  <2> QED BY <2>1, AcquireKeepsSessions, LoginFailureKeepsSessions, ReleaseKeepsSessions DEF PoolNext
<1> QED BY <1>1, <1>2, PoolTypeCorrect, PTL DEF PoolSpec, SessionInv

\* No two holders ever share a session (AcquireSession under m_poolMutex).
THEOREM SessionsExclusive == PoolSpec => []SessionExclusive
<1>1. SessionInv => SessionExclusive
  BY DEF SessionInv
<1> QED BY <1>1, SessionInvariance, PTL

\* Sessions in use and sessions held are the same, none is lost to the pool
\* (the failure path of AcquireSession, ReleaseSession).
THEOREM SessionsAccounted == PoolSpec => []NoSessionLeak
<1>1. SessionInv => NoSessionLeak
  BY DEF SessionInv
<1> QED BY <1>1, SessionInvariance, PTL

\* Neither pool outgrows its limit (AcquireFromPool).
THEOREM PoolsBounded == PoolSpec => []PoolBounded
<1>1. PoolInit => PoolBounded
  <2> SUFFICES ASSUME PoolInit, NEW t \in Type PROVE Cardinality(pool[t]) <= Limit(t)
    BY DEF PoolBounded
  <2>1. pool[t] = {Seed} \/ pool[t] = {}
    BY DEF PoolInit
  <2>2. Cardinality({Seed}) = 1 /\ Cardinality({}) = 0
    BY FS_Singleton, FS_EmptySet
  <2>3. Limit(t) \in Nat \ {0}
    BY PoolConstantsOK DEF Limit
  <2> QED BY <2>1, <2>2, <2>3, SMT
<1>2. PoolTypeOK /\ PoolBounded /\ [PoolNext]_poolVars => PoolBounded'
  <2> SUFFICES ASSUME PoolTypeOK, PoolBounded, [PoolNext]_poolVars, NEW u \in Type
               PROVE  Cardinality(pool'[u]) <= Limit(u)
    BY DEF PoolBounded, Limit
  <2>1. /\ IsFiniteSet(pool[u]) /\ Cardinality(pool[u]) \in Nat
        /\ Cardinality(pool[u]) <= Limit(u) /\ Limit(u) \in Nat
    <3>1. pool[u] \subseteq Session
      BY DEF PoolTypeOK
    <3>2. Limit(u) \in Nat
      BY PoolConstantsOK DEF Limit
    <3> QED BY <3>1, <3>2, PoolConstantsOK, FS_Subset, FS_CardinalityType DEF PoolBounded
  <2>2. ASSUME NEW t \in Type, NEW s \in Session, AcquireFromPool(t, s),
               pool'[u] = IF u = t THEN pool[u] \cup {s} ELSE pool[u]
        PROVE  Cardinality(pool'[u]) <= Limit(u)
    <3>1. CASE pool'[u] = pool[u]
      BY <2>1, <3>1
    <3>2. CASE pool'[u] # pool[u]
      <4>1. u = t /\ pool'[u] = pool[u] \cup {s} /\ s \notin pool[u]
        BY <2>2, <3>2
      <4>2. Cardinality(pool[u]) < Limit(u)
        BY <2>2, <4>1 DEF AcquireFromPool, IdleIn
      <4>3. Cardinality(pool'[u]) = Cardinality(pool[u]) + 1
        BY <2>1, <4>1, FS_AddElement
      <4> QED BY <2>1, <4>2, <4>3, SMT
    <3> QED BY <3>1, <3>2
  <2>3. ASSUME NEW h \in Holder, NEW t \in Type, NEW a \in Auth, AcquireSession(h, t, a)
        PROVE  Cardinality(pool'[u]) <= Limit(u)
    <3>1. PICK s \in Session :
            /\ AcquireFromPool(t, s)
            /\ pool'[u] = IF u = t THEN pool[u] \cup {s} ELSE pool[u]
      BY <2>3, AcquireEffect, SMT
    <3> QED BY <2>2, <3>1
  <2>4. ASSUME NEW t \in Type, LoginFails(t) PROVE Cardinality(pool'[u]) <= Limit(u)
    <3>1. PICK s \in Session : AcquireFromPool(t, s) /\ pool' = [pool EXCEPT ![t] = @ \cup {s}]
      BY <2>4 DEF LoginFails
    <3>2. pool'[u] = IF u = t THEN pool[u] \cup {s} ELSE pool[u]
      BY <3>1 DEF PoolTypeOK
    <3> QED BY <2>2, <3>1, <3>2
  <2>5. ASSUME NEW h \in Holder, NEW discard \in BOOLEAN, ReleaseSession(h, discard)
        PROVE  Cardinality(pool'[u]) <= Limit(u)
    <3>1. pool'[u] \subseteq pool[u]
      BY <2>5, ReleaseEffect, SMT
    <3>2. Cardinality(pool'[u]) <= Cardinality(pool[u]) /\ Cardinality(pool'[u]) \in Nat
      BY <2>1, <3>1, FS_Subset, FS_CardinalityType
    <3> QED BY <2>1, <3>2, SMT
  <2>6. CASE UNCHANGED poolVars
    BY <2>1, <2>6 DEF poolVars
  <2> QED BY <2>3, <2>4, <2>5, <2>6 DEF PoolNext
<1> QED BY <1>1, <1>2, PoolTypeCorrect, PTL DEF PoolSpec

----------------------------------------------------------------------------
(* The login.                                                              *)

LoginInv == UserCountExact /\ (authState = "User" => loggedIn)

\* The holders in the User state are finitely many.
LEMMA UsersFinite == IsFiniteSet(UserHolders) /\ Cardinality(UserHolders) \in Nat
  BY PoolConstantsOK, FS_Subset, FS_CardinalityType DEF UserHolders

LEMMA AcquireKeepsLogin ==
  ASSUME SessionInv, LoginInv, NEW h \in Holder, NEW t \in Type, NEW a \in Auth,
         AcquireSession(h, t, a)
  PROVE  LoginInv'
  <1>1. /\ loan[h] = NoLoan /\ loan'[h] # NoLoan /\ loan'[h].auth = a
        /\ \A g \in Holder \ {h} : loan'[g] = loan[g]
    BY AcquireEffect DEF SessionInv
  <1>2. EnsureUserState(a)
    BY DEF AcquireSession
  <1>3. userCount \in Nat /\ authState \in Auth
    BY DEF SessionInv, PoolTypeOK
  <1>4. CASE a = "User"
    <2>1. UserHolders' = UserHolders \cup {h} /\ h \notin UserHolders
      BY <1>1, <1>4, SMT DEF UserHolders, Holding
    <2>2. Cardinality(UserHolders') = Cardinality(UserHolders) + 1
      BY <2>1, UsersFinite, FS_AddElement
    <2>3. userCount' = userCount + 1 /\ authState' = "User"
      BY <1>2, <1>4 DEF EnsureUserState
    <2>4. loggedIn'
      BY <1>2, <1>4 DEF EnsureUserState, LoginInv
    <2> QED BY <1>3, <2>2, <2>3, <2>4, SMT DEF LoginInv, UserCountExact
  <1>5. CASE a # "User"
    <2>1. UserHolders' = UserHolders
      BY <1>1, <1>5, SMT DEF UserHolders, Holding
    <2> QED BY <1>2, <1>5, <2>1 DEF EnsureUserState, LoginInv, UserCountExact
  <1> QED BY <1>4, <1>5

LEMMA ReleaseKeepsLogin ==
  ASSUME SessionInv, LoginInv, SessionInv', NEW h \in Holder, NEW discard \in BOOLEAN,
         ReleaseSession(h, discard)
  PROVE  LoginInv'
  <1>1. /\ loan[h] # NoLoan /\ loan'[h] = NoLoan
        /\ \A g \in Holder \ {h} : loan'[g] = loan[g]
        /\ OnUserHandlerReleased(loan[h].auth)
    BY ReleaseEffect DEF SessionInv
  <1>2. userCount \in Nat /\ userCount = Cardinality(UserHolders) /\ authState \in Auth
    BY DEF SessionInv, PoolTypeOK, LoginInv, UserCountExact
  <1>3. UserHolders' = UserHolders \ {h}
    BY <1>1, SMT DEF UserHolders, Holding
  <1>4. UserHolders' # {} => pool'["RO"] \cup pool'["RW"] # {}
    <2> SUFFICES ASSUME NEW g \in UserHolders' PROVE pool'["RO"] \cup pool'["RW"] # {}
      OBVIOUS
    <2>1. g \in Holder /\ Holding(g)'
      BY DEF UserHolders
    <2>2. loan'[g].session \in pool'[loan'[g].type]
      BY <2>1 DEF SessionInv, NoSessionLeak
    <2>3. loan'[g].type \in Type
      BY <2>1 DEF Holding, SessionInv, PoolTypeOK, Loan
    <2> QED BY <2>2, <2>3 DEF Type
  <1>5. CASE loan[h].auth = "User"
    <2>1. h \in UserHolders
      BY <1>1, <1>5 DEF UserHolders, Holding
    <2>2. Cardinality(UserHolders') = Cardinality(UserHolders) - 1
      BY <1>3, <2>1, UsersFinite, FS_RemoveElement
    <2>3. userCount > 0
      BY <1>2, <2>1, UsersFinite, FS_EmptySet, SMT
    <2>4. userCount' = userCount - 1 /\ authState' = IF userCount = 1 THEN "Public" ELSE authState
      BY <1>1, <1>5, <2>3 DEF OnUserHandlerReleased
    <2>5. UserCountExact'
      BY <1>2, <2>2, <2>3, <2>4, SMT DEF LoginInv, UserCountExact
    <2>6. ASSUME authState' = "User" PROVE loggedIn'
      <3>1. userCount # 1 /\ authState = "User"
        BY <2>4, <2>6
      <3>2. IsFiniteSet(UserHolders')
        BY <1>3, UsersFinite, FS_Subset
      <3>3. UserHolders' # {}
        BY <1>2, <2>2, <2>3, <3>1, <3>2, FS_EmptySet, SMT
      <3> QED BY <1>1, <1>4, <3>1, <3>3 DEF OnUserHandlerReleased, LoginInv
    <2> QED BY <2>5, <2>6 DEF LoginInv
  <1>6. CASE loan[h].auth # "User"
    <2>1. UserHolders' = UserHolders
      BY <1>3, <1>6 DEF UserHolders
    <2>2. userCount' = userCount /\ authState' = authState
      BY <1>1, <1>6 DEF OnUserHandlerReleased
    <2>3. UserCountExact'
      BY <2>1, <2>2 DEF LoginInv, UserCountExact
    <2>4. ASSUME authState' = "User" PROVE loggedIn'
      <3>1. UserHolders' # {}
        BY <1>2, <2>1, <2>2, <2>4, FS_EmptySet, SMT DEF LoginInv, UserCountExact
      <3> QED BY <1>1, <1>4, <1>6, <2>2, <2>4, <3>1 DEF OnUserHandlerReleased, LoginInv
    <2> QED BY <2>3, <2>4 DEF LoginInv
  <1> QED BY <1>5, <1>6

LEMMA LoginInvariance == PoolSpec => []LoginInv
<1>1. PoolInit => LoginInv
  <2> SUFFICES ASSUME PoolInit PROVE LoginInv
    OBVIOUS
  <2>1. UserHolders = {}
    BY DEF PoolInit, UserHolders, Holding
  <2> QED BY <2>1, FS_EmptySet, SMT DEF PoolInit, LoginInv, UserCountExact
<1>2. SessionInv /\ SessionInv' /\ LoginInv /\ [PoolNext]_poolVars => LoginInv'
  <2> SUFFICES ASSUME SessionInv, SessionInv', LoginInv, [PoolNext]_poolVars PROVE LoginInv'
    OBVIOUS
  <2>1. ASSUME NEW t \in Type, LoginFails(t) PROVE LoginInv'
    BY <2>1 DEF LoginFails, LoginInv, UserCountExact, UserHolders, Holding
  <2>2. CASE UNCHANGED poolVars
    BY <2>2 DEF poolVars, LoginInv, UserCountExact, UserHolders, Holding
  <2> QED BY <2>1, <2>2, AcquireKeepsLogin, ReleaseKeepsLogin DEF PoolNext
<1> QED BY <1>1, <1>2, SessionInvariance, PTL DEF PoolSpec

\* The guard counts its users exactly (EnsureUserState, OnUserHandlerReleased).
THEOREM UsersCounted == PoolSpec => []UserCountExact
<1>1. LoginInv => UserCountExact
  BY DEF LoginInv
<1> QED BY <1>1, LoginInvariance, PTL

\* A holder that asked for the User state keeps it until it releases its
\* session, whatever the others do (TokenAuthGuard).
THEOREM UsersStayLoggedIn == PoolSpec => []UserStaysLoggedIn
<1>1. PoolTypeOK /\ LoginInv => UserStaysLoggedIn
  <2> SUFFICES ASSUME PoolTypeOK, LoginInv, UserHolders # {} PROVE loggedIn
    BY DEF UserStaysLoggedIn
  <2>1. userCount > 0
    BY UsersFinite, FS_EmptySet, SMT DEF LoginInv, UserCountExact
  <2> QED BY <2>1 DEF LoginInv, UserCountExact
<1> QED BY <1>1, LoginInvariance, PoolTypeCorrect, PTL

----------------------------------------------------------------------------
(* The handlers and keys, as users of the pool.                            *)

\* Every step of a handler or of the key store is a step of the pool or leaves
\* the pool alone (CreateHashHandler, CreateMacHandler, GenerateKey,
\* Pkcs11KeyStore::Release and the destructors are its only users).
LEMMA StepUsesPool == [HandlerNext]_vars => [PoolNext]_poolVars
<1> SUFFICES ASSUME [HandlerNext]_vars PROVE [PoolNext]_poolVars
  OBVIOUS
<1>0. /\ "RO" \in Type /\ "RW" \in Type /\ "Public" \in Auth /\ "User" \in Auth
      /\ \A h \in Handler : h \in Holder
      /\ \A k \in SessionKey : k \in Holder
  BY HandlerConstantsOK DEF Type, Auth
<1>1. ASSUME NEW h \in Handler, CreateHashHandler(h) PROVE PoolNext
  BY <1>0, <1>1 DEF CreateHashHandler, PoolNext
<1>2. ASSUME NEW h \in Handler, NEW mode \in Mode, NEW k \in SessionKey \cup {TokenKey},
             CreateMacHandler(h, mode, k)
      PROVE  PoolNext
  BY <1>0, <1>2 DEF CreateMacHandler, PoolNext
<1>3. ASSUME NEW h \in Handler, DestroyHashHandler(h) PROVE PoolNext
  <2>1. PICK a \in HashAbort(op[loan[h].session]) : ReleaseSession(h, ~a.ok)
    BY <1>3 DEF DestroyHashHandler
  <2>2. (~a.ok) \in BOOLEAN
    OBVIOUS
  <2> QED BY <1>0, <2>1, <2>2 DEF PoolNext
<1>4. ASSUME NEW h \in Handler, DestroyMacHandler(h) PROVE PoolNext
  BY <1>0, <1>4 DEF DestroyMacHandler, PoolNext
<1>5. ASSUME NEW k \in SessionKey, GenerateKey(k) PROVE PoolNext
  BY <1>0, <1>5 DEF GenerateKey, PoolNext
<1>6. ASSUME NEW k \in SessionKey, ReleaseKey(k) PROVE PoolNext
  BY <1>0, <1>6 DEF ReleaseKey, PoolNext
<1>7. ASSUME NEW t \in Type, LoginFails(t) PROVE PoolNext
  BY <1>7 DEF PoolNext
<1>8. ASSUME NEW h \in Handler,
             \/ InitializeContext(h) \/ InitializeContextFails(h)
             \/ Execute(h) \/ MacReset(h)
      PROVE  UNCHANGED poolVars
  BY <1>8 DEF InitializeContext, InitializeContextFails, Execute, MacReset, poolVars
<1>9. CASE UNCHANGED vars
  BY <1>9 DEF vars, poolVars
<1> QED BY <1>1, <1>2, <1>3, <1>4, <1>5, <1>6, <1>7, <1>8, <1>9 DEF HandlerNext

\* The handlers implement the pool's specification, so that its theorems hold
\* of them (Pkcs11Provider::AcquireSession, ReleaseSession).
THEOREM HandlersUsePool == HandlerSpec => PoolSpec
<1>1. HandlerInit => PoolInit
  BY DEF HandlerInit
<1> QED BY <1>1, StepUsesPool, PTL DEF HandlerSpec, PoolSpec

----------------------------------------------------------------------------
(* The outcomes of an operation.                                           *)

\* Whatever the token answers, the stream is in one of the stream's states.
LEMMA HashOutcomeStates ==
  ASSUME NEW o, NEW st \in Stream, NEW r \in HashOutcomes(o, st)
  PROVE  r.state \in Stream
<1> USE DEF Stream, Outcome, Result
<1>1. ASSUME r \in HashInit(o, st) PROVE r.state \in Stream
  BY <1>1, SMT DEF HashInit
<1>2. \A p, q : q \in HashCleanup(p, st) => q.state \in Stream
  BY SMT DEF HashCleanup
<1>3. ASSUME r \in HashUpdate(o, st) PROVE r.state \in Stream
  BY <1>2, <1>3, SMT DEF HashUpdate
<1>4. ASSUME r \in HashFinalize(o, st) PROVE r.state \in Stream
  BY <1>2, <1>4, SMT DEF HashFinalize
<1>5. ASSUME r \in HashSingleShot(o, st) PROVE r.state \in Stream
  BY <1>5, SMT DEF HashSingleShot
<1> QED BY <1>1, <1>2, <1>3, <1>4, <1>5 DEF HashOutcomes, HashReset

LEMMA MacOutcomeStates ==
  ASSUME NEW o, NEW st \in Stream, NEW k, NEW r \in MacOutcomes(o, st, k)
  PROVE  r.state \in Stream
<1> USE DEF Stream, Outcome, Result
<1>1. ASSUME r \in MacInit(o, st, k) PROVE r.state \in Stream
  BY <1>1, SMT DEF MacInit
<1>2. ASSUME r \in MacUpdate(o, st, k) PROVE r.state \in Stream
  BY <1>2, SMT DEF MacUpdate
<1>3. ASSUME r \in MacFinalize(o, st, k) PROVE r.state \in Stream
  BY <1>3, SMT DEF MacFinalize
<1>4. ASSUME r \in MacVerify(o, st, k) PROVE r.state \in Stream
  BY <1>4, SMT DEF MacVerify
<1>5. ASSUME r \in MacSingleShot(o, st, k) PROVE r.state \in Stream
  BY <1>5, SMT DEF MacSingleShot
<1> QED BY <1>1, <1>2, <1>3, <1>4, <1>5 DEF MacOutcomes

----------------------------------------------------------------------------
(* Who operates on a session.                                              *)

HandlerType ==
    /\ handler \in [Handler -> HandlerState \cup {NoHandler}]
    /\ flag \in [SessionKey -> BOOLEAN]

\* Where a handler's session comes from: its own loan, or that of the session
\* key it has borrowed, which is then marked.
OperatesOnOwn(h) ==
    IF IsHash(h)
    THEN handler[h].key = NoKey /\ handler[h].opSession = loan[h].session
    ELSE /\ handler[h].key \in SessionKey \cup {TokenKey}
         /\ handler[h].opSession # NoSession =>
              IF handler[h].key = TokenKey THEN handler[h].opSession = loan[h].session
              ELSE /\ Holding(handler[h].key) /\ flag[handler[h].key]
                   /\ handler[h].opSession = loan[handler[h].key].session

Owned(h) ==
    /\ Holding(h)
    /\ OperatesOnOwn(h)
    /\ handler[h].pc # "ready" => ~IsHash(h) /\ handler[h].opSession = NoSession

\* The inductive invariant.  The mark of a key has one holder because it is set
\* only where it was clear, and cleared only by the handler that set it.
HandlerInv ==
    /\ HandlerType
    /\ \A h \in Handler : Live(h) => Owned(h)
    /\ \A g, h \in Handler : \A k \in SessionKey : Borrows(g, k) /\ Borrows(h, k) => g = h

\* A step that changes the handlers in X only, and neither the loans of the
\* other handlers nor the loan and the mark of a key that one of them borrows,
\* has to restore the invariant for X.
LEMMA OthersUndisturbed ==
  ASSUME HandlerInv, HandlerType', NEW X \in SUBSET Handler,
         \A g \in Handler \ X : handler'[g] = handler[g] /\ (Live(g) => loan'[g] = loan[g]),
         \A g \in Handler \ X : \A k \in SessionKey :
            Borrows(g, k) => loan'[k] = loan[k] /\ flag'[k] = flag[k],
         \A h \in X : Live(h)' => Owned(h)',
         \A h \in X : \A k \in SessionKey : Borrows(h, k)' =>
            \A g \in Handler : Borrows(g, k)' => g = h
  PROVE  HandlerInv'
<1>1. ASSUME NEW g \in Handler, Live(g)' PROVE Owned(g)'
  <2>1. CASE g \in X BY <1>1, <2>1
  <2>2. CASE g \notin X
    <3>1. handler'[g] = handler[g] /\ Live(g) /\ loan'[g] = loan[g]
      BY <1>1, <2>2 DEF Live
    <3>2. Owned(g) BY <3>1 DEF HandlerInv, Owned
    <3>3. CASE handler[g].key \in SessionKey /\ handler[g].opSession # NoSession /\ ~IsHash(g)
      <4>1. Borrows(g, handler[g].key) BY <3>1, <3>3 DEF Borrows
      <4>2. loan'[handler[g].key] = loan[handler[g].key] /\ flag'[handler[g].key] = flag[handler[g].key]
        BY <2>2, <3>3, <4>1
      <4> QED BY <3>1, <3>2, <4>2, SMT DEF Owned, OperatesOnOwn, Holding, IsHash
    <3>4. CASE ~(handler[g].key \in SessionKey /\ handler[g].opSession # NoSession /\ ~IsHash(g))
      BY <3>1, <3>2, <3>4 DEF Owned, OperatesOnOwn, Holding, IsHash
    <3> QED BY <3>3, <3>4
  <2> QED BY <2>1, <2>2
<1>2. ASSUME NEW g \in Handler, NEW h \in Handler, NEW k \in SessionKey,
             Borrows(g, k)', Borrows(h, k)'
      PROVE  g = h
  <2>1. CASE g \in X \/ h \in X BY <1>2, <2>1
  <2>2. CASE g \notin X /\ h \notin X
    <3>1. Borrows(g, k) /\ Borrows(h, k) BY <1>2, <2>2 DEF Borrows, Live, IsHash
    <3> QED BY <3>1 DEF HandlerInv
  <2> QED BY <2>1, <2>2
<1> QED BY <1>1, <1>2 DEF HandlerInv, Owned

\* The same for a step of one handler.
LEMMA OneDisturbed ==
  ASSUME HandlerInv, HandlerType', NEW x \in Handler,
         \A g \in Handler \ {x} : handler'[g] = handler[g] /\ (Live(g) => loan'[g] = loan[g]),
         \A g \in Handler \ {x} : \A k \in SessionKey :
            Borrows(g, k) => loan'[k] = loan[k] /\ flag'[k] = flag[k],
         Live(x)' => Owned(x)',
         \A k \in SessionKey : Borrows(x, k)' => \A g \in Handler \ {x} : ~Borrows(g, k)'
  PROVE  HandlerInv'
<1> DEFINE X == {x}
<1>1. X \in SUBSET Handler OBVIOUS
<1>2. \A h \in X : h = x OBVIOUS
<1>3. \A g \in Handler \ X : g \in Handler \ {x} OBVIOUS
<1>4. \A h \in X : Live(h)' => Owned(h)' OBVIOUS
<1>5. \A h \in X : \A k \in SessionKey : Borrows(h, k)' => \A g \in Handler : Borrows(g, k)' => g = h
  BY <1>2
<1> HIDE DEF X
<1> QED BY <1>1, <1>3, <1>4, <1>5, OthersUndisturbed

\* Handlers and keys are holders, and none is both.
LEMMA Holders ==
  /\ \A h \in Handler : h \in Holder /\ h \notin SessionKey
  /\ \A k \in SessionKey : k \in Holder /\ k \notin Handler /\ k # TokenKey /\ k # NoKey
  /\ TokenKey # NoKey
  BY HandlerConstantsOK

LEMMA CreateHashKeepsInv ==
  ASSUME SessionInv, HandlerInv, NEW h \in Handler, CreateHashHandler(h)
  PROVE  HandlerInv'
<1> DEFINE new == NewHandler("digest", NoKey, loan'[h].session, "ready")
<1>1. AcquireSession(h, "RO", "Public") /\ "RO" \in Type /\ "Public" \in Auth /\ h \in Holder
  BY Holders DEF CreateHashHandler, Type, Auth
<1>2. /\ loan'[h] # NoLoan /\ loan'[h].session \in Session
      /\ \A g \in Holder \ {h} : loan'[g] = loan[g]
  BY <1>1, AcquireEffect, SMT DEF SessionInv
<1>3. handler' = [handler EXCEPT ![h] = new] /\ flag' = flag
  BY DEF CreateHashHandler
<1>4. new \in HandlerState
  BY <1>2 DEF HandlerState, NewHandler, Stream
<1>5. HandlerType' /\ handler'[h] = new /\ \A g \in Handler \ {h} : handler'[g] = handler[g]
  BY <1>3, <1>4 DEF HandlerInv, HandlerType
<1>6. Owned(h)'
  BY <1>2, <1>5, SMT DEF Owned, OperatesOnOwn, Holding, IsHash, NewHandler
<1>7. \A k \in SessionKey : ~Borrows(h, k)'
  BY <1>5, SMT DEF Borrows, IsHash, NewHandler
<1> HIDE DEF new
<1> QED BY <1>2, <1>3, <1>5, <1>6, <1>7, Holders, OneDisturbed

LEMMA CreateMacKeepsInv ==
  ASSUME SessionInv, HandlerInv, NEW h \in Handler, NEW mode \in Mode,
         NEW k \in SessionKey \cup {TokenKey}, CreateMacHandler(h, mode, k)
  PROVE  HandlerInv'
<1> DEFINE new == NewHandler(mode, k, NoSession, "bind")
<1>1. AcquireSession(h, "RO", "User") /\ "RO" \in Type /\ "User" \in Auth /\ h \in Holder
  BY Holders DEF CreateMacHandler, Type, Auth
<1>2. loan'[h] # NoLoan /\ \A g \in Holder \ {h} : loan'[g] = loan[g]
  BY <1>1, AcquireEffect DEF SessionInv
<1>3. handler' = [handler EXCEPT ![h] = new] /\ flag' = flag /\ mode # "digest"
  BY DEF CreateMacHandler
<1>4. new \in HandlerState
  BY HandlerConstantsOK DEF HandlerState, NewHandler, Stream
<1>5. HandlerType' /\ handler'[h] = new /\ \A g \in Handler \ {h} : handler'[g] = handler[g]
  BY <1>3, <1>4 DEF HandlerInv, HandlerType
<1>6. Owned(h)'
  BY <1>2, <1>3, <1>5, SMT DEF Owned, OperatesOnOwn, Holding, IsHash, NewHandler
<1>7. \A l \in SessionKey : ~Borrows(h, l)'
  BY <1>5, SMT DEF Borrows, NewHandler
<1> HIDE DEF new
<1> QED BY <1>2, <1>3, <1>5, <1>6, <1>7, Holders, OneDisturbed

LEMMA InitializeKeepsInv ==
  ASSUME SessionInv, HandlerInv, NEW h \in Handler, InitializeContext(h)
  PROVE  HandlerInv'
<1> DEFINE k == handler[h].key
           s == IF k = TokenKey THEN loan[h].session ELSE loan[k].session
<1>1. Live(h) /\ handler[h].pc # "ready" /\ handler[h] \in HandlerState
  BY DEF InitializeContext, HandlerInv, HandlerType, Live
<1>2. Owned(h) /\ ~IsHash(h) /\ handler[h].opSession = NoSession
  BY <1>1 DEF HandlerInv, Owned
<1>3. k \in SessionKey \cup {TokenKey} BY <1>2 DEF Owned, OperatesOnOwn
<1>4. loan' = loan
      /\ handler' = [handler EXCEPT ![h].pc = "ready", ![h].state = "INIT", ![h].opSession = s]
  BY DEF InitializeContext
<1>5. \/ k = TokenKey /\ flag' = flag
      \/ k \in SessionKey /\ Holding(k) /\ ~flag[k] /\ flag' = [flag EXCEPT ![k] = TRUE]
  BY DEF InitializeContext, ResolveObject
<1>6. s \in Session
  BY <1>2, <1>3, <1>5, Holders DEF Owned, Holding, SessionInv, PoolTypeOK, Loan
<1>7. /\ handler'[h] = [handler[h] EXCEPT !.pc = "ready", !.state = "INIT", !.opSession = s]
      /\ \A g \in Handler \ {h} : handler'[g] = handler[g]
  BY <1>4 DEF HandlerInv, HandlerType
<1>8. HandlerType'
  <2>1. handler'[h] \in HandlerState BY <1>1, <1>6, <1>7 DEF HandlerState, Stream
  <2>2. flag' \in [SessionKey -> BOOLEAN] BY <1>5 DEF HandlerInv, HandlerType
  <2> QED BY <1>4, <1>7, <2>1, <2>2 DEF HandlerInv, HandlerType
<1>9. /\ handler'[h].key = k /\ handler'[h].opSession = s /\ handler'[h].pc = "ready"
      /\ handler'[h].mode = handler[h].mode
  BY <1>1, <1>7 DEF HandlerState
<1>10. Owned(h)'
  <2>1. k \in SessionKey => flag'[k] /\ Holding(k)
    BY <1>5, Holders DEF HandlerInv, HandlerType
  <2> QED BY <1>2, <1>3, <1>4, <1>9, <2>1, Holders DEF Owned, OperatesOnOwn, Holding, IsHash
<1>11. \A g \in Handler \ {h} : \A l \in SessionKey : Borrows(g, l) => flag[l] /\ l # k
  <2> SUFFICES ASSUME NEW g \in Handler \ {h}, NEW l \in SessionKey, Borrows(g, l)
               PROVE  flag[l] /\ l # k
    OBVIOUS
  <2>1. flag[l] BY Holders DEF Borrows, HandlerInv, Owned, OperatesOnOwn
  <2> QED BY <1>5, <2>1, Holders
<1>12. \A g \in Handler \ {h} : \A l \in SessionKey : Borrows(g, l)' <=> Borrows(g, l)
  BY <1>7 DEF Borrows, Live, IsHash
<1>13. \A l \in SessionKey : Borrows(h, l)' => l = k
  BY <1>9 DEF Borrows
<1> HIDE DEF k, s
<1>14. \A l \in SessionKey : l # k => flag'[l] = flag[l]
  BY <1>5 DEF HandlerInv, HandlerType
<1> QED BY <1>4, <1>7, <1>8, <1>10, <1>11, <1>12, <1>13, <1>14, OneDisturbed

LEMMA InitializeFailsKeepsInv ==
  ASSUME HandlerInv, NEW h \in Handler, InitializeContextFails(h)
  PROVE  HandlerInv'
<1>1. Live(h) /\ handler[h].pc # "ready" /\ handler[h] \in HandlerState /\ Owned(h)
  BY DEF InitializeContextFails, HandlerInv, HandlerType, Live
<1>2. loan' = loan /\ flag' = flag /\ handler' = [handler EXCEPT ![h].pc = "ready"]
  BY DEF InitializeContextFails
<1>3. /\ handler'[h] = [handler[h] EXCEPT !.pc = "ready"]
      /\ \A g \in Handler \ {h} : handler'[g] = handler[g]
  BY <1>2 DEF HandlerInv, HandlerType
<1>4. /\ handler'[h] \in HandlerState /\ handler'[h].key = handler[h].key
      /\ handler'[h].opSession = handler[h].opSession /\ handler'[h].pc = "ready"
      /\ handler'[h].mode = handler[h].mode
  BY <1>1, <1>3 DEF HandlerState
<1>5. HandlerType' BY <1>2, <1>3, <1>4 DEF HandlerInv, HandlerType
<1>6. Owned(h)' BY <1>1, <1>2, <1>4 DEF Owned, OperatesOnOwn, Holding, IsHash
<1>7. \A k \in SessionKey : ~Borrows(h, k)'
  BY <1>1, <1>4 DEF Borrows, Owned
<1> QED BY <1>2, <1>3, <1>5, <1>6, <1>7, OneDisturbed

\* The stream moves; the session and the key stay.
LEMMA ExecuteKeepsInv ==
  ASSUME HandlerInv, NEW h \in Handler, Execute(h)
  PROVE  HandlerInv'
<1>1. Live(h) /\ handler[h].pc = "ready" /\ handler[h] \in HandlerState /\ Owned(h)
  BY DEF Execute, Ready, HandlerInv, HandlerType, Live
<1>2. handler[h].state \in Stream BY <1>1 DEF HandlerState
<1>3. loan' = loan /\ flag' = flag
      /\ \E st \in Stream : handler' = [handler EXCEPT ![h].state = st]
  BY <1>2, HashOutcomeStates, MacOutcomeStates DEF Execute
<1>4. PICK st \in Stream : handler' = [handler EXCEPT ![h].state = st]
  BY <1>3
<1>5. /\ handler'[h] = [handler[h] EXCEPT !.state = st]
      /\ \A g \in Handler \ {h} : handler'[g] = handler[g]
  BY <1>4 DEF HandlerInv, HandlerType
<1>6. /\ handler'[h] \in HandlerState /\ handler'[h].key = handler[h].key
      /\ handler'[h].opSession = handler[h].opSession /\ handler'[h].pc = handler[h].pc
      /\ handler'[h].mode = handler[h].mode
  BY <1>1, <1>5 DEF HandlerState
<1>7. HandlerType' BY <1>3, <1>4, <1>5, <1>6 DEF HandlerInv, HandlerType
<1>8. Owned(h)' BY <1>1, <1>3, <1>6 DEF Owned, OperatesOnOwn, Holding, IsHash
<1>9. \A g \in Handler, k \in SessionKey : Borrows(g, k)' => Borrows(g, k)
  BY <1>1, <1>5, <1>6 DEF Borrows, Live, IsHash
<1>10. \A k \in SessionKey : Borrows(h, k)' => \A g \in Handler \ {h} : ~Borrows(g, k)'
  BY <1>9 DEF HandlerInv
<1> QED BY <1>3, <1>5, <1>7, <1>8, <1>10, OneDisturbed

\* What ReleaseBorrow leaves: the marks that other handlers have set.
LEMMA OthersKeepMarks ==
  ASSUME HandlerInv, NEW h \in Handler, ReleaseBorrow(h)
  PROVE  /\ flag' \in [SessionKey -> BOOLEAN]
         /\ \A g \in Handler \ {h} : \A k \in SessionKey : Borrows(g, k) => flag'[k] = flag[k]
<1>1. flag' \in [SessionKey -> BOOLEAN] BY DEF ReleaseBorrow, HandlerInv, HandlerType
<1>2. \A g \in Handler \ {h} : \A k \in SessionKey : Borrows(g, k) => ~Borrows(h, k)
  BY DEF HandlerInv
<1> QED BY <1>1, <1>2 DEF ReleaseBorrow

LEMMA MacResetKeepsInv ==
  ASSUME HandlerInv, NEW h \in Handler, MacReset(h)
  PROVE  HandlerInv'
<1>1. Live(h) /\ handler[h].pc = "ready" /\ handler[h] \in HandlerState /\ Owned(h) /\ ~IsHash(h)
  BY DEF MacReset, Ready, HandlerInv, HandlerType, Live
<1>2. /\ loan' = loan /\ ReleaseBorrow(h)
      /\ handler' = [handler EXCEPT ![h].pc = "rebind", ![h].state = "IDLE",
                                    ![h].opSession = NoSession]
  BY DEF MacReset
<1>3. /\ handler'[h] = [handler[h] EXCEPT !.pc = "rebind", !.state = "IDLE", !.opSession = NoSession]
      /\ \A g \in Handler \ {h} : handler'[g] = handler[g]
  BY <1>2 DEF HandlerInv, HandlerType
<1>4. /\ handler'[h] \in HandlerState /\ handler'[h].key = handler[h].key
      /\ handler'[h].opSession = NoSession /\ handler'[h].mode = handler[h].mode
  BY <1>1, <1>3 DEF HandlerState, Stream
<1>5. HandlerType' BY <1>2, <1>3, <1>4, OthersKeepMarks DEF HandlerInv, HandlerType
<1>6. Owned(h)' BY <1>1, <1>2, <1>4 DEF Owned, OperatesOnOwn, Holding, IsHash
<1>7. \A k \in SessionKey : ~Borrows(h, k)' BY <1>4 DEF Borrows
<1> QED BY <1>2, <1>3, <1>5, <1>6, <1>7, OthersKeepMarks, OneDisturbed

LEMMA DestroyHashKeepsInv ==
  ASSUME SessionInv, HandlerInv, NEW h \in Handler, DestroyHashHandler(h)
  PROVE  HandlerInv'
<1>1. PICK d \in BOOLEAN : ReleaseSession(h, d)
  <2>1. PICK a \in HashAbort(op[loan[h].session]) : ReleaseSession(h, ~a.ok)
    BY DEF DestroyHashHandler
  <2>2. (~a.ok) \in BOOLEAN OBVIOUS
  <2> QED BY <2>1, <2>2
<1>2. \A g \in Holder \ {h} : loan'[g] = loan[g]
  BY <1>1, Holders, ReleaseEffect DEF SessionInv
<1>3. handler' = [handler EXCEPT ![h] = NoHandler] /\ flag' = flag
  BY DEF DestroyHashHandler
<1>4. HandlerType' /\ ~Live(h)' /\ \A g \in Handler \ {h} : handler'[g] = handler[g]
  BY <1>3 DEF HandlerInv, HandlerType, Live
<1> QED BY <1>2, <1>3, <1>4, Holders, OneDisturbed DEF Borrows

LEMMA DestroyMacKeepsInv ==
  ASSUME SessionInv, HandlerInv, NEW h \in Handler, DestroyMacHandler(h)
  PROVE  HandlerInv'
<1>1. ReleaseSession(h, FALSE) /\ ReleaseBorrow(h)
      /\ handler' = [handler EXCEPT ![h] = NoHandler]
  BY DEF DestroyMacHandler
<1>2. \A g \in Holder \ {h} : loan'[g] = loan[g]
  BY <1>1, Holders, ReleaseEffect DEF SessionInv
<1>3. HandlerType' /\ ~Live(h)' /\ \A g \in Handler \ {h} : handler'[g] = handler[g]
  BY <1>1, OthersKeepMarks DEF HandlerInv, HandlerType, Live
<1>4. \A k \in SessionKey : ~Borrows(h, k)' BY <1>3 DEF Borrows
<1>5. \A g \in Handler \ {h} : \A k \in SessionKey :
         Borrows(g, k) => loan'[k] = loan[k] /\ flag'[k] = flag[k]
  BY <1>1, <1>2, Holders, OthersKeepMarks
<1>6. \A g \in Handler \ {h} : handler'[g] = handler[g] /\ (Live(g) => loan'[g] = loan[g])
  BY <1>2, <1>3, Holders
<1> QED BY <1>3, <1>4, <1>5, <1>6, OneDisturbed

\* A key is made and dropped while no handler is bound to it.
LEMMA KeyStepKeepsInv ==
  ASSUME SessionInv, HandlerInv, NEW k \in SessionKey, GenerateKey(k) \/ ReleaseKey(k)
  PROVE  HandlerInv'
<1>1. handler' = handler /\ \A h \in Handler : Live(h) => handler[h].key # k
  BY DEF GenerateKey, ReleaseKey
<1>2. /\ flag' \in [SessionKey -> BOOLEAN]
      /\ \A l \in SessionKey \ {k} : flag'[l] = flag[l]
  BY DEF GenerateKey, ReleaseKey, HandlerInv, HandlerType
<1>3. \A g \in Holder \ {k} : loan'[g] = loan[g]
  <2>1. CASE GenerateKey(k)
    <3>1. AcquireSession(k, "RW", "User") /\ "RW" \in Type /\ "User" \in Auth
      BY <2>1 DEF GenerateKey, Type, Auth
    <3> QED BY <3>1, Holders, AcquireEffect DEF SessionInv
  <2>2. CASE ReleaseKey(k)
    <3>1. ReleaseSession(k, FALSE) BY <2>2 DEF ReleaseKey
    <3> QED BY <3>1, Holders, ReleaseEffect DEF SessionInv
  <2> QED BY <2>1, <2>2
<1>4. \A g \in Handler : \A l \in SessionKey :
         Borrows(g, l) => loan'[l] = loan[l] /\ flag'[l] = flag[l]
  BY <1>1, <1>2, <1>3, Holders DEF Borrows
<1>5. \A g \in Handler : handler'[g] = handler[g] /\ (Live(g) => loan'[g] = loan[g])
  BY <1>1, <1>3, Holders
<1>6. HandlerType' BY <1>1, <1>2 DEF HandlerInv, HandlerType
<1> DEFINE X == {}
<1>7. X \in SUBSET Handler /\ \A x : x \notin X OBVIOUS
<1> HIDE DEF X
<1> QED BY <1>4, <1>5, <1>6, <1>7, OthersUndisturbed

\* The invariant holds (all of Pkcs11HashHandler, Pkcs11MacHandler and Pkcs11KeyStore).
LEMMA HandlerInvariance == HandlerSpec => [](SessionInv /\ HandlerInv)
<1>1. HandlerInit => HandlerInv
  BY DEF HandlerInit, HandlerInv, HandlerType, Live, Borrows
<1>2. SessionInv /\ HandlerInv /\ [HandlerNext]_vars => HandlerInv'
  <2> SUFFICES ASSUME SessionInv, HandlerInv, [HandlerNext]_vars PROVE HandlerInv'
    OBVIOUS
  <2>1. CASE loan' = loan /\ handler' = handler /\ flag' = flag
    BY <2>1 DEF HandlerInv, HandlerType, Live, Owned, OperatesOnOwn, Holding, IsHash, Borrows
  <2>2. ASSUME NEW t \in Type, LoginFails(t) /\ UNCHANGED handlerVars PROVE HandlerInv'
    BY <2>1, <2>2 DEF LoginFails, handlerVars
  <2>3. CASE UNCHANGED vars BY <2>1, <2>3 DEF vars
  <2> QED BY <2>2, <2>3, CreateHashKeepsInv, CreateMacKeepsInv, InitializeKeepsInv,
             InitializeFailsKeepsInv, ExecuteKeepsInv, MacResetKeepsInv, DestroyHashKeepsInv,
             DestroyMacKeepsInv, KeyStepKeepsInv DEF HandlerNext
<1> QED BY <1>1, <1>2, HandlersUsePool, SessionInvariance, PTL DEF HandlerSpec

\* A borrowed key stays in the store with its creating session, and marked, for
\* any number of handlers and keys (ResolveObject, ResolvedKey, Release).
THEOREM BorrowedKeysAlive == HandlerSpec => []BorrowedKeyAlive
<1>1. HandlerInv => BorrowedKeyAlive
  BY Holders DEF HandlerInv, BorrowedKeyAlive, Borrows, Owned, OperatesOnOwn
<1> QED BY <1>1, HandlerInvariance, PTL

LEMMA OneHandlerOfSession ==
  ASSUME SessionInv, HandlerInv PROVE SessionOfOneHandler
<1> SUFFICES ASSUME NEW h \in Handler, Live(h), handler[h].opSession # NoSession
             PROVE  /\ \A g \in Handler \ {h} : Live(g) => handler[g].opSession # handler[h].opSession
                    /\ \A u \in Holder : Holding(u) /\ loan[u].session = handler[h].opSession
                                            => u \in {h, handler[h].key}
  BY DEF SessionOfOneHandler
<1> DEFINE Keeper(g) == IF handler[g].key \in SessionKey THEN handler[g].key ELSE g
<1>1. ASSUME NEW g \in Handler, Live(g), handler[g].opSession # NoSession
      PROVE  /\ Keeper(g) \in Holder /\ Holding(Keeper(g))
             /\ loan[Keeper(g)].session = handler[g].opSession
  BY <1>1, Holders DEF HandlerInv, Owned, OperatesOnOwn
<1>2. ASSUME NEW u \in Holder, Holding(u), loan[u].session = handler[h].opSession
      PROVE  u = Keeper(h)
  BY <1>1, <1>2 DEF SessionInv, SessionExclusive
<1>3. ASSUME NEW g \in Handler \ {h}, Live(g), handler[g].opSession = handler[h].opSession
      PROVE  FALSE
  <2>1. Keeper(g) = Keeper(h) BY <1>1, <1>2, <1>3
  <2>2. handler[g].key = handler[h].key /\ handler[h].key \in SessionKey
    BY <1>3, <2>1, Holders
  <2>3. Borrows(g, handler[h].key) /\ Borrows(h, handler[h].key)
    BY <1>3, <2>2, Holders DEF Borrows, HandlerInv, Owned, OperatesOnOwn
  <2> QED BY <1>3, <2>2, <2>3 DEF HandlerInv
<1> QED BY <1>2, <1>3

\* No two handlers operate on one session, and nobody else keeps it
\* (Pkcs11Provider::AcquireSession, Pkcs11KeyStore::ResolveObject).
THEOREM SessionsOfOneHandler == HandlerSpec => []SessionOfOneHandler
  BY HandlerInvariance, OneHandlerOfSession, PTL

----------------------------------------------------------------------------
(* No operation is left on a pooled session, when the failed final call of *)
(* a MAC ends its operation.                                               *)

FinalEndsMac == KeepsOp \subseteq {"digest"}

\* An operation that is active on a session is that of the handler operating
\* on it, and a MAC handler with one knows that its stream is not idle.
OperationInv ==
    /\ op \in [Session -> SUBSET {"digest", "sign", "verify"}]
    /\ \A s \in Session : op[s] # {} =>
        \E h \in Handler : /\ Live(h) /\ handler[h].opSession = s
                           /\ op[s] \subseteq {handler[h].mode}
                           /\ ~IsHash(h) => handler[h].state # "IDLE"

LEMMA HashOutcomeOps ==
  ASSUME NEW o \in SUBSET {"digest"}, NEW st, NEW r \in HashOutcomes(o, st)
  PROVE  r.op \subseteq {"digest"}
<1> USE DEF Outcome, Result
<1> DEFINE D(p) == p \subseteq {"digest"}
<1>1. ASSUME NEW p, D(p), NEW l \in Leftovers(p, "digest") PROVE D(l)
  BY <1>1 DEF Leftovers
<1> HIDE DEF D
<1>0. ASSUME NEW p, D(p) PROVE D(p \ {"digest"}) /\ D(p \cup {"digest"})
  BY <1>0 DEF D
<1>2. ASSUME NEW p, D(p), NEW a \in HashAbort(p) PROVE D(a.op)
  <2>1. \/ a = [ok |-> TRUE, op |-> p \ {"digest"}]
        \/ \E l \in Leftovers(p, "digest") : a = [ok |-> FALSE, op |-> l]
    BY <1>2 DEF HashAbort
  <2> QED BY <1>0, <1>1, <1>2, <2>1, SMT
<1>3. ASSUME NEW p, D(p), NEW q \in HashCleanup(p, st) PROVE D(q.op)
  BY <1>2, <1>3, SMT DEF HashCleanup
<1>4. ASSUME NEW p, D(p), NEW a \in TokenInit(p, "digest") PROVE D(a.op)
  BY <1>0, <1>4, SMT DEF TokenInit
<1>5. ASSUME NEW p, D(p), NEW a \in TokenUpdate(p, "digest") PROVE D(a.op)
  BY <1>0, <1>1, <1>5, SMT DEF TokenUpdate
<1>6. ASSUME NEW p, D(p), NEW a \in TokenFinal(p, "digest") PROVE D(a.op)
  BY <1>0, <1>1, <1>6, SMT DEF TokenFinal
<1>d. D(o) BY DEF D
<1>7. ASSUME r \in HashInit(o, st) PROVE D(r.op)
  <2>1. \A a \in AbortBeforeInit(o, st) : D(a.op)
    BY <1>d, <1>2, SMT DEF AbortBeforeInit
  <2> QED BY <1>4, <1>7, <2>1, SMT DEF HashInit
<1>8. ASSUME r \in HashUpdate(o, st) PROVE D(r.op)
  BY <1>d, <1>3, <1>5, <1>8, SMT DEF HashUpdate
<1>9. ASSUME r \in HashFinalize(o, st) PROVE D(r.op)
  BY <1>d, <1>3, <1>6, <1>9, SMT DEF HashFinalize
<1>10. ASSUME r \in HashSingleShot(o, st) PROVE D(r.op)
  <2>1. D(o \ {"digest"}) BY <1>0, <1>d
  <2>2. CASE \E a \in HashAbort(o) : r.op = a.op
    BY <1>d, <1>2, <2>2
  <2>3. ASSUME NEW i \in TokenInit(o \ {"digest"}, "digest"),
               \/ r.op = i.op
               \/ \E f \in TokenFinal(i.op, "digest") : r.op = f.op
               \/ \E a \in HashAbort(i.op) : r.op = a.op
        PROVE  D(r.op)
    BY <1>2, <1>4, <1>6, <2>1, <2>3
  <2> QED BY <1>10, <2>2, <2>3, SMT DEF HashSingleShot
<1> QED BY <1>d, <1>3, <1>7, <1>8, <1>9, <1>10 DEF HashOutcomes, HashReset, D

\* The token after a final call on an operation that it does not keep.
LEMMA MacTokenOps ==
  ASSUME FinalEndsMac, NEW k \in {"sign", "verify"}, NEW o \in SUBSET {k}
  PROVE  /\ \A a \in TokenInit(o, k) : a.op \subseteq {k}
         /\ \A a \in TokenUpdate(o, k) : a.op \subseteq {k}
         /\ \A a \in TokenFinal(o, k) : a.op = {}
<1>1. Leftovers(o, k) = {{}} BY DEF Leftovers, FinalEndsMac
<1>2. ASSUME NEW a \in TokenInit(o, k) PROVE a.op \subseteq {k}
  <2>1. a = [ok |-> FALSE, op |-> o] \/ a = [ok |-> TRUE, op |-> o \cup {k}]
    BY <1>2 DEF TokenInit, Result
  <2>2. a.op = o \/ a.op = o \cup {k} BY <2>1, SMT
  <2> QED BY <2>2
<1>3. ASSUME NEW a \in TokenUpdate(o, k) PROVE a.op \subseteq {k}
  <2>1. a = [ok |-> FALSE, op |-> o] \/ a = [ok |-> TRUE, op |-> o] \/ a = [ok |-> FALSE, op |-> {}]
    BY <1>1, <1>3 DEF TokenUpdate, Result
  <2>2. a.op = o \/ a.op = {} BY <2>1, SMT
  <2> QED BY <2>2
<1>4. ASSUME NEW a \in TokenFinal(o, k) PROVE a.op = {}
  <2>1. \/ k \notin o /\ a = [ok |-> FALSE, op |-> o]
        \/ a = [ok |-> TRUE, op |-> o \ {k}] \/ a = [ok |-> FALSE, op |-> {}]
    BY <1>1, <1>4 DEF TokenFinal, Result
  <2>2. (k \notin o /\ a.op = o) \/ a.op = o \ {k} \/ a.op = {} BY <2>1, SMT
  <2> QED BY <2>2
<1> QED BY <1>2, <1>3, <1>4

LEMMA MacOutcomeOps ==
  ASSUME FinalEndsMac, NEW k \in {"sign", "verify"}, NEW o \in SUBSET {k}, NEW st \in Stream,
         st = "IDLE" => o = {}, NEW r \in MacOutcomes(o, st, k)
  PROVE  r.op \subseteq {k} /\ (r.state = "IDLE" => r.op = {})
<1> USE DEF Outcome
<1>1. ASSUME r \in MacInit(o, st, k) PROVE r.op \subseteq {k} /\ (r.state = "IDLE" => r.op = {})
  <2>1. \A a \in MacAbortBeforeInit(o, st, k) : a \in SUBSET {k} /\ (st = "IDLE" => a = {})
    <3>1. \A a \in MacAbort(o, k) : a = {}
      <4>1. \A q \in TokenFinal(o, k) : q.op = {} BY MacTokenOps
      <4>2. \A a \in MacAbort(o, k) : \E q \in TokenFinal(o, k) : a = q.op BY DEF MacAbort
      <4> QED BY <4>1, <4>2
    <3>2. \A a \in MacAbortBeforeInit(o, st, k) : a = o \/ a \in MacAbort(o, k) BY DEF MacAbortBeforeInit
    <3> QED BY <3>1, <3>2
  <2>2. \A a \in SUBSET {k} : \A q \in TokenInit(a, k) : q.op \subseteq {k} /\ (~q.ok => q.op = a)
    <3> SUFFICES ASSUME NEW a \in SUBSET {k}, NEW q \in TokenInit(a, k)
                 PROVE  q.op \subseteq {k} /\ (~q.ok => q.op = a)
      OBVIOUS
    <3>1. q = [ok |-> FALSE, op |-> a] \/ q = [ok |-> TRUE, op |-> a \cup {k}]
      BY DEF TokenInit, Result
    <3>2. q.op = a \/ (q.ok /\ q.op = a \cup {k}) BY <3>1, SMT
    <3> QED BY <3>2
  <2> QED BY <1>1, <2>1, <2>2, SMT DEF MacInit
<1>2. \A i \in EnsureInitialized(o, st, k) : i.op \subseteq {k}
  <2> SUFFICES ASSUME NEW i \in EnsureInitialized(o, st, k) PROVE i.op \subseteq {k}
    OBVIOUS
  <2>1. i \in TokenInit(o, k) \/ i = [ok |-> TRUE, op |-> o]
    BY DEF EnsureInitialized, Result
  <2>2. i \in TokenInit(o, k) \/ i.op = o BY <2>1, SMT
  <2> QED BY <2>2, MacTokenOps
<1>3. ASSUME r \in MacUpdate(o, st, k) PROVE r.op \subseteq {k} /\ (r.state = "IDLE" => r.op = {})
  <2>1. ASSUME NEW p \in SUBSET {k}, NEW a \in ExecuteUpdate(p, k) PROVE a.op \subseteq {k}
    <3>1. a = [ok |-> FALSE, op |-> p] \/ a \in TokenUpdate(p, k) BY <2>1 DEF ExecuteUpdate, Result
    <3>2. a.op = p \/ a \in TokenUpdate(p, k) BY <3>1, SMT
    <3> QED BY <3>2, MacTokenOps
  <2> QED BY <1>2, <1>3, <2>1, SMT DEF MacUpdate, ValidFrom
<1>4. ASSUME r \in MacFinalize(o, st, k) PROVE r.op \subseteq {k} /\ (r.state = "IDLE" => r.op = {})
  <2> SUFFICES ASSUME k = "sign", st = "ACTIVE",
                      NEW a \in ExecuteSignFinal(o), r = Outcome(a.op, IF a.ok THEN "IDLE" ELSE st)
               PROVE  a.op \subseteq {k} /\ (a.ok => a.op = {})
    BY <1>4, SMT DEF MacFinalize, ValidFrom
  <2>1. a = [ok |-> FALSE, op |-> o] \/ a \in TokenFinal(o, k) BY DEF ExecuteSignFinal, Result
  <2>2. (a.op = o /\ ~a.ok) \/ a \in TokenFinal(o, k) BY <2>1, SMT
  <2> QED BY <2>2, MacTokenOps
<1>5. ASSUME r \in MacVerify(o, st, k) PROVE r.op \subseteq {k} /\ (r.state = "IDLE" => r.op = {})
  <2> SUFFICES ASSUME st # "IDLE", NEW a, r = Outcome(a.op, IF a.ok THEN "IDLE" ELSE st),
                      \E i \in EnsureInitialized(o, st, k) :
                         \/ i.ok /\ a \in TokenFinal(i.op, k)
                         \/ ~i.ok /\ a = i
               PROVE  a.op \subseteq {k} /\ (a.ok => a.op = {})
    BY <1>5, SMT DEF MacVerify, ExecuteVerifyFinal, ExecuteSignVerify
  <2> QED BY <1>2, MacTokenOps, SMT
<1>6. ASSUME r \in MacSingleShot(o, st, k) PROVE r.op \subseteq {k} /\ (r.state = "IDLE" => r.op = {})
  <2> SUFFICES ASSUME st = "INIT", NEW a, r = Outcome(a.op, IF a.ok THEN "IDLE" ELSE st),
                      \E i \in TokenInit(o, k) :
                         \/ ~i.ok /\ a = i
                         \/ \E u \in TokenUpdate(i.op, k) :
                               (u.ok /\ a \in TokenFinal(u.op, k)) \/ (~u.ok /\ a = u)
               PROVE  a.op \subseteq {k} /\ (a.ok => a.op = {})
    BY <1>6, SMT DEF MacSingleShot, ExecuteSignSingleShot, ExecuteVerifySingleShot, ExecuteVerifyFinal
  <2> QED BY MacTokenOps, SMT
<1> QED BY <1>1, <1>3, <1>4, <1>5, <1>6 DEF MacOutcomes

\* The one handler of a session: what is active there is an operation of its own.
LEMMA OwnOperation ==
  ASSUME SessionInv, HandlerInv, OperationInv, NEW h \in Handler, Live(h),
         handler[h].opSession # NoSession
  PROVE  /\ handler[h].opSession \in Session
         /\ op[handler[h].opSession] \subseteq {handler[h].mode}
         /\ ~IsHash(h) /\ handler[h].state = "IDLE" => op[handler[h].opSession] = {}
<1> DEFINE s == handler[h].opSession
<1>1. s \in Session BY DEF HandlerInv, HandlerType, Live, HandlerState
<1>2. CASE op[s] # {}
  <2>1. PICK g \in Handler : /\ Live(g) /\ handler[g].opSession = s
                             /\ op[s] \subseteq {handler[g].mode}
                             /\ ~IsHash(g) => handler[g].state # "IDLE"
    BY <1>1, <1>2 DEF OperationInv
  <2>2. g = h BY <2>1, OneHandlerOfSession DEF SessionOfOneHandler
  <2> QED BY <1>1, <2>1, <2>2
<1>3. CASE op[s] = {} BY <1>1, <1>3
<1> QED BY <1>2, <1>3

\* A step of handler x that ends operations elsewhere, if anything, has to
\* account for the session s that x operates on.
LEMMA OperationsUndisturbed ==
  ASSUME OperationInv, op' \in [Session -> SUBSET {"digest", "sign", "verify"}],
         NEW x \in Handler, NEW s,
         Live(x) /\ handler[x].opSession # NoSession => handler[x].opSession = s,
         \A g \in Handler \ {x} : handler'[g] = handler[g],
         \A t \in Session \ {s} : op'[t] = op[t] \/ op'[t] = {},
         s \in Session /\ op'[s] # {} =>
            /\ Live(x)' /\ handler'[x].opSession = s
            /\ op'[s] \subseteq {handler'[x].mode}
            /\ ~IsHash(x)' => handler'[x].state # "IDLE"
  PROVE  OperationInv'
<1> SUFFICES ASSUME NEW t \in Session, op'[t] # {}
             PROVE  \E h \in Handler : /\ Live(h)' /\ handler'[h].opSession = t
                                       /\ op'[t] \subseteq {handler'[h].mode}
                                       /\ ~IsHash(h)' => handler'[h].state # "IDLE"
  BY DEF OperationInv
<1>1. CASE t = s BY <1>1
<1>2. CASE t # s
  <2>1. op'[t] = op[t] BY <1>2
  <2>2. PICK g \in Handler : /\ Live(g) /\ handler[g].opSession = t
                             /\ op[t] \subseteq {handler[g].mode}
                             /\ ~IsHash(g) => handler[g].state # "IDLE"
    BY <2>1 DEF OperationInv
  <2>3. g # x BY <1>2, <2>2, HandlerConstantsOK
  <2>4. handler'[g] = handler[g] BY <2>3
  <2> QED BY <2>1, <2>2, <2>4 DEF Live, IsHash
<1> QED BY <1>1, <1>2

\* A handler that is made, bound or not bound has no session yet, and no token
\* call that matters is made.
LEMMA BindingKeepsOperations ==
  ASSUME HandlerInv, OperationInv, NEW h \in Handler,
         \/ CreateHashHandler(h)
         \/ \E mode \in Mode, k \in SessionKey \cup {TokenKey} : CreateMacHandler(h, mode, k)
         \/ InitializeContext(h) \/ InitializeContextFails(h)
  PROVE  OperationInv'
<1>1. op' = op /\ \A g \in Handler \ {h} : handler'[g] = handler[g]
  BY DEF CreateHashHandler, CreateMacHandler, InitializeContext, InitializeContextFails,
         HandlerInv, HandlerType
<1>2. Live(h) => handler[h].opSession = NoSession
  BY DEF CreateHashHandler, CreateMacHandler, InitializeContext, InitializeContextFails,
         HandlerInv, Owned
<1>3. NoSession \notin Session BY HandlerConstantsOK
<1>4. op' \in [Session -> SUBSET {"digest", "sign", "verify"}] BY <1>1 DEF OperationInv
<1> QED BY <1>1, <1>2, <1>3, <1>4, OperationsUndisturbed

LEMMA KeyStepKeepsOperations ==
  ASSUME SessionInv, OperationInv, NEW k \in SessionKey, GenerateKey(k) \/ ReleaseKey(k)
  PROVE  OperationInv'
<1>1. handler' = handler BY DEF GenerateKey, ReleaseKey
<1>2. /\ op' \in [Session -> SUBSET {"digest", "sign", "verify"}]
      /\ \A t \in Session : op'[t] = op[t] \/ op'[t] = {}
  BY DEF GenerateKey, ReleaseKey, AfterRelease, OperationInv
<1> QED BY <1>1, <1>2, SMT DEF OperationInv, Live, IsHash

LEMMA ExecuteKeepsOperations ==
  ASSUME FinalEndsMac, SessionInv, HandlerInv, OperationInv, NEW h \in Handler, Execute(h)
  PROVE  OperationInv'
<1> DEFINE s == handler[h].opSession
           st == handler[h].state
           k == handler[h].mode
<1>1. Live(h) /\ s # NoSession /\ handler[h] \in HandlerState
  BY DEF Execute, Ready, HandlerInv, HandlerType, Live
<1>2. /\ s \in Session /\ op[s] \subseteq {k} /\ st \in Stream
      /\ k \in {"digest", "sign", "verify"} /\ (~IsHash(h) /\ st = "IDLE" => op[s] = {})
  BY <1>1, OwnOperation DEF HandlerState
<1>3. PICK r \in IF IsHash(h) THEN HashOutcomes(op[s], st) ELSE MacOutcomes(op[s], st, k) :
         op' = [op EXCEPT ![s] = r.op] /\ handler' = [handler EXCEPT ![h].state = r.state]
  BY DEF Execute
<1>4. r.op \subseteq {k} /\ (~IsHash(h) /\ r.state = "IDLE" => r.op = {})
  <2>1. CASE IsHash(h)
    <3>1. k = "digest" /\ op[s] \in SUBSET {"digest"} /\ r \in HashOutcomes(op[s], st)
      BY <1>2, <1>3, <2>1 DEF IsHash
    <3> QED BY <2>1, <3>1, HashOutcomeOps
  <2>2. CASE ~IsHash(h)
    <3>1. k \in {"sign", "verify"} /\ op[s] \in SUBSET {k} /\ r \in MacOutcomes(op[s], st, k)
      BY <1>2, <1>3, <2>2 DEF IsHash
    <3> QED BY <1>2, <2>2, <3>1, MacOutcomeOps
  <2> QED BY <2>1, <2>2
<1>5. /\ op' \in [Session -> SUBSET {"digest", "sign", "verify"}]
      /\ op'[s] = r.op /\ \A t \in Session \ {s} : op'[t] = op[t]
  BY <1>2, <1>3, <1>4 DEF OperationInv
<1>6. /\ handler'[h] = [handler[h] EXCEPT !.state = r.state]
      /\ \A g \in Handler \ {h} : handler'[g] = handler[g]
  BY <1>3 DEF HandlerInv, HandlerType
<1>7. Live(h)'
  <2>1. r.state \in Stream BY <1>2, <1>3, HashOutcomeStates, MacOutcomeStates
  <2>2. handler'[h] \in HandlerState BY <1>1, <1>6, <2>1 DEF HandlerState
  <2> QED BY <2>2, HandlerConstantsOK DEF Live
<1>8. handler'[h].opSession = s /\ handler'[h].mode = k /\ handler'[h].state = r.state
  BY <1>1, <1>6 DEF HandlerState
<1>9. ~IsHash(h)' => ~IsHash(h) BY <1>8 DEF IsHash
<1>10. Live(h) /\ handler[h].opSession # NoSession => handler[h].opSession = s
  OBVIOUS
<1> HIDE DEF s, st, k
<1>11. s \in Session /\ op'[s] # {} =>
          /\ Live(h)' /\ handler'[h].opSession = s
          /\ op'[s] \subseteq {handler'[h].mode}
          /\ ~IsHash(h)' => handler'[h].state # "IDLE"
  BY <1>4, <1>5, <1>7, <1>8, <1>9
<1>12. \A t \in Session \ {s} : op'[t] = op[t] \/ op'[t] = {} BY <1>5
<1> QED BY <1>5, <1>6, <1>10, <1>11, <1>12, OperationsUndisturbed

\* The abort of a MAC handler leaves nothing on the session it operates on.
LEMMA MacAbortedOps ==
  ASSUME FinalEndsMac, SessionInv, HandlerInv, OperationInv, NEW h \in Handler, Live(h),
         ~IsHash(h), NEW o \in MacAbortedOp(h)
  PROVE  /\ o \in [Session -> SUBSET {"digest", "sign", "verify"}]
         /\ \A t \in Session : t # handler[h].opSession => o[t] = op[t]
         /\ handler[h].opSession # NoSession => o[handler[h].opSession] = {}
<1> DEFINE s == handler[h].opSession
           k == handler[h].mode
<1>1. CASE s = NoSession
  <2>1. o = op BY <1>1 DEF MacAbortedOp
  <2> QED BY <1>1, <2>1 DEF OperationInv
<1>2. CASE s # NoSession
  <2>1. /\ s \in Session /\ op[s] \in SUBSET {k} /\ k \in {"sign", "verify"}
        /\ handler[h].state = "IDLE" => op[s] = {}
    BY <1>2, OwnOperation DEF IsHash, HandlerInv, HandlerType, HandlerState, Live
  <2>2. MacAbort(op[s], k) \subseteq {{}}
    BY <2>1, MacTokenOps DEF MacAbort
  <2>3. (o = op /\ op[s] = {}) \/ o = [op EXCEPT ![s] = {}]
    BY <1>2, <2>1, <2>2 DEF MacAbortedOp
  <2> QED BY <1>2, <2>1, <2>3 DEF OperationInv
<1> QED BY <1>1, <1>2

LEMMA MacResetKeepsOperations ==
  ASSUME FinalEndsMac, SessionInv, HandlerInv, OperationInv, NEW h \in Handler, MacReset(h)
  PROVE  OperationInv'
<1>1. Live(h) /\ ~IsHash(h) /\ op' \in MacAbortedOp(h)
  BY DEF MacReset, Ready
<1>2. \A g \in Handler \ {h} : handler'[g] = handler[g]
  BY DEF MacReset, HandlerInv, HandlerType
<1>3. NoSession \notin Session BY HandlerConstantsOK
<1> QED BY <1>1, <1>2, <1>3, MacAbortedOps, OperationsUndisturbed, SMT

LEMMA DestroyMacKeepsOperations ==
  ASSUME FinalEndsMac, SessionInv, HandlerInv, OperationInv, NEW h \in Handler, DestroyMacHandler(h)
  PROVE  OperationInv'
<1>1. Live(h) /\ ~IsHash(h) BY DEF DestroyMacHandler, Ready
<1>2. PICK o \in MacAbortedOp(h) :
         op' = IF HardCleanup THEN [o EXCEPT ![loan[h].session] = {}] ELSE o
  BY DEF DestroyMacHandler
<1>3. /\ o \in [Session -> SUBSET {"digest", "sign", "verify"}]
      /\ \A t \in Session : t # handler[h].opSession => o[t] = op[t]
      /\ handler[h].opSession # NoSession => o[handler[h].opSession] = {}
  BY <1>1, <1>2, MacAbortedOps
<1>4. /\ op' \in [Session -> SUBSET {"digest", "sign", "verify"}]
      /\ \A t \in Session : op'[t] = o[t] \/ op'[t] = {}
  BY <1>2, <1>3
<1>5. \A g \in Handler \ {h} : handler'[g] = handler[g]
  BY DEF DestroyMacHandler, HandlerInv, HandlerType
<1>6. NoSession \notin Session BY HandlerConstantsOK
<1> QED BY <1>3, <1>4, <1>5, <1>6, OperationsUndisturbed, SMT

LEMMA DestroyHashKeepsOperations ==
  ASSUME SessionInv, HandlerInv, OperationInv, NEW h \in Handler, DestroyHashHandler(h)
  PROVE  OperationInv'
<1> DEFINE s == loan[h].session
<1>1. Live(h) /\ IsHash(h) /\ handler[h].opSession = s
  BY DEF DestroyHashHandler, HandlerInv, Owned, OperatesOnOwn
<1>2. s \in Session BY <1>1, Holders DEF HandlerInv, Owned, Holding, SessionInv, PoolTypeOK, Loan
<1>3. op[s] \subseteq {"digest"}
  BY <1>1, <1>2, OwnOperation, HandlerConstantsOK DEF IsHash
<1>4. PICK a \in HashAbort(op[s]) : op' = AfterRelease(s, a.op, ~a.ok)
  BY DEF DestroyHashHandler
<1>5. a = [ok |-> TRUE, op |-> op[s] \ {"digest"}] \/ \E l : a = [ok |-> FALSE, op |-> l]
  BY DEF HashAbort, Result
<1>6. ~a.ok \/ a.op = op[s] \ {"digest"} BY <1>5, SMT
<1>7. op[s] \ {"digest"} = {} BY <1>3
<1>8. op' = [op EXCEPT ![s] = {}] BY <1>4, <1>6, <1>7 DEF AfterRelease
<1>9. \A g \in Handler \ {h} : handler'[g] = handler[g]
  BY DEF DestroyHashHandler, HandlerInv, HandlerType
<1>10. /\ op' \in [Session -> SUBSET {"digest", "sign", "verify"}]
       /\ op'[s] = {} /\ \A t \in Session \ {s} : op'[t] = op[t]
  BY <1>2, <1>8 DEF OperationInv
<1> HIDE DEF s
<1> QED BY <1>1, <1>9, <1>10, OperationsUndisturbed

\* A session in the pool, for any numbers of handlers, keys and sessions and
\* with either cleanup, has no operation active, where a failed final call ends
\* a MAC's operation (~Pkcs11HashHandler, ~Pkcs11MacHandler, Abort, Release).
THEOREM PooledSessionsIdle == FinalEndsMac => (HandlerSpec => []PooledSessionIdle)
<1> SUFFICES ASSUME FinalEndsMac PROVE HandlerSpec => []PooledSessionIdle
  OBVIOUS
<1>1. HandlerInit => OperationInv
  BY DEF HandlerInit, OperationInv
<1>2. SessionInv /\ HandlerInv /\ OperationInv /\ [HandlerNext]_vars => OperationInv'
  <2> SUFFICES ASSUME SessionInv, HandlerInv, OperationInv, [HandlerNext]_vars PROVE OperationInv'
    OBVIOUS
  <2>1. CASE op' = op /\ handler' = handler
    BY <2>1, SMT DEF OperationInv, Live, IsHash
  <2>2. ASSUME NEW t \in Type, LoginFails(t) /\ UNCHANGED handlerVars PROVE OperationInv'
    BY <2>1, <2>2 DEF handlerVars
  <2>3. CASE UNCHANGED vars BY <2>1, <2>3 DEF vars
  <2> QED BY <2>2, <2>3, BindingKeepsOperations, ExecuteKeepsOperations, MacResetKeepsOperations,
             DestroyHashKeepsOperations, DestroyMacKeepsOperations, KeyStepKeepsOperations
          DEF HandlerNext
<1>3. SessionInv /\ HandlerInv /\ OperationInv => PooledSessionIdle
  <2> SUFFICES ASSUME SessionInv, HandlerInv, OperationInv, NEW t \in Type, NEW s \in IdleIn(t),
                      op[s] # {}
               PROVE  FALSE
    BY DEF PooledSessionIdle
  <2>1. s \in Session /\ s \notin inUse BY DEF IdleIn, SessionInv, PoolTypeOK
  <2>2. PICK h \in Handler : Live(h) /\ handler[h].opSession = s
    BY <2>1 DEF OperationInv
  <2>3. \E u \in Holder : Holding(u) /\ loan[u].session = s
    BY <2>1, <2>2, Holders, HandlerConstantsOK DEF HandlerInv, Owned, OperatesOnOwn
  <2> QED BY <2>1, <2>3 DEF SessionInv, NoSessionLeak
<1> QED BY <1>1, <1>2, <1>3, HandlerInvariance, PTL DEF HandlerSpec

----------------------------------------------------------------------------
(* The trust store.                                                        *)

\* Every AddRef that has not returned has its reference counted.
RefsCounted == \A c \in Client : Cardinality(Binding(c)) <= refs[c]

StoreInv == TrustTypeOK /\ NeverTrustsMore /\ RefsCounted

\* Kind is a sequence, so its slots are numbers.
LEMMA SlotsAreNumbers == Slot \subseteq Nat
BY TrustConstantsOK, SMT DEF Slot

\* A descriptor written from states that forget no acceptance holds just them.
LEMMA WrittenIsNext ==
    ASSUME StoreInv, NEW next \in [Slot -> MemberState],
           \A s \in Slot : next[s].accepted = None => states[s].accepted = None
    PROVE  Written(next) = next
<1>1. ASSUME NEW s \in Slot PROVE Written(next)[s] = next[s]
  <2>1. disk[s].accepted = states[s].accepted BY DEF StoreInv, NeverTrustsMore
  <2>2. next[s] \in [enabled : BOOLEAN, accepted : Cert \cup {None}] BY DEF MemberState
  <2> QED BY <2>1, <2>2 DEF Written
<1> QED BY <1>1 DEF Written

\* The gate disables, or accepts on first use, and never does anything else.
LEMMA GateEffect ==
    ASSUME TrustTypeOK, NEW s \in Slot
    PROVE  /\ Gate(s) \in MemberState
           /\ Gate(s).enabled => states[s].enabled
           /\ Gate(s).accepted = None => states[s].accepted = None
           /\ Gate(s).accepted # states[s].accepted => states[s].accepted = None
           /\ (Kind[s] = "conditional" /\ Contributes(Gate(s), s)) => Gate(s).accepted = slot[s].cert
<1>1. states[s] \in [enabled : BOOLEAN, accepted : Cert \cup {None}] BY DEF TrustTypeOK, MemberState
<1>2. slot[s].cert \in Cert \cup {None} BY DEF TrustTypeOK, Content
<1>3. Gate(s) = states[s]
      \/ /\ Gate(s) = [states[s] EXCEPT !.accepted = slot[s].cert]
         /\ states[s].accepted = None /\ slot[s].cert # None
      \/ Gate(s) = [states[s] EXCEPT !.enabled = FALSE]
  BY DEF Gate
<1>4. (Kind[s] = "conditional" /\ Contributes(Gate(s), s)) => Gate(s).accepted = slot[s].cert
  BY <1>1, <1>2 DEF Gate, Contributes
<1> QED BY <1>1, <1>2, <1>3, <1>4 DEF MemberState

\* Whatever ResolveAllLocked reaches and saves, memory stays below storage, and
\* a successful resolution has gated every member.
LEMMA ResolveEffect ==
    ASSUME StoreInv, NEW r \in ResolveAllLocked
    PROVE  /\ r.states \in [Slot -> MemberState] /\ r.disk \in [Slot -> MemberState]
           /\ \A s \in Slot : /\ r.states[s].enabled => r.disk[s].enabled
                              /\ r.states[s].accepted = r.disk[s].accepted
           /\ r.ok => \A s \in Slot : (Kind[s] = "conditional" /\ Contributes(r.states[s], s))
                                         => r.states[s].accepted = slot[s].cert
<1> DEFINE Next(q) == [s \in Slot |-> IF s \in q.members THEN Gate(s) ELSE states[s]]
           Undone(q) == [s \in Slot |-> IF Next(q)[s].accepted = states[s].accepted THEN Next(q)[s]
                                        ELSE [Next(q)[s] EXCEPT !.accepted = None]]
<1>1. PICK q \in Reached :
         \/ Next(q) = states /\ r = [states |-> states, disk |-> disk, ok |-> q.ok]
         \/ r = [states |-> Next(q), disk |-> Written(Next(q)), ok |-> q.ok]
         \/ r = [states |-> Undone(q), disk |-> disk, ok |-> q.ok /\ Undone(q) = Next(q)]
  BY DEF ResolveAllLocked
<1>2. states \in [Slot -> MemberState] /\ disk \in [Slot -> MemberState] /\ TrustTypeOK
  BY DEF StoreInv, TrustTypeOK
<1>3. Next(q) \in [Slot -> MemberState] BY <1>2, GateEffect
<1>4. \A s \in Slot : /\ Next(q)[s].enabled => states[s].enabled
                      /\ Next(q)[s].accepted = None => states[s].accepted = None
                      /\ Next(q)[s].accepted # states[s].accepted => states[s].accepted = None
  BY <1>2, GateEffect
<1>5. q.ok => \A s \in Slot : (Kind[s] = "conditional" /\ Contributes(Next(q)[s], s))
                                 => Next(q)[s].accepted = slot[s].cert
  <2>1. q.ok => q.members = Slot BY SMT DEF Reached
  <2> QED BY <2>1, <1>2, GateEffect
<1>6. Written(Next(q)) = Next(q) BY <1>3, <1>4, WrittenIsNext
<1>7. /\ Undone(q) \in [Slot -> MemberState]
      /\ \A s \in Slot : Undone(q)[s].enabled = Next(q)[s].enabled /\ Undone(q)[s].accepted = states[s].accepted
  <2>1. ASSUME NEW s \in Slot
        PROVE  /\ Undone(q)[s] \in MemberState
               /\ Undone(q)[s].enabled = Next(q)[s].enabled /\ Undone(q)[s].accepted = states[s].accepted
    <3>1. Next(q)[s] \in [enabled : BOOLEAN, accepted : Cert \cup {None}] BY <1>3 DEF MemberState
    <3>2. states[s].accepted = None \/ Next(q)[s].accepted = states[s].accepted BY <1>4
    <3> HIDE DEF Next
    <3> QED BY <3>1, <3>2 DEF MemberState
  <2> QED BY <2>1
<1>8. \A s \in Slot : (states[s].enabled => disk[s].enabled) /\ states[s].accepted = disk[s].accepted
  BY DEF StoreInv, NeverTrustsMore
<1> HIDE DEF Next, Undone
<1>9. CASE Next(q) = states /\ r = [states |-> states, disk |-> disk, ok |-> q.ok]
  BY <1>9, <1>2, <1>5, <1>8
<1>10. CASE r = [states |-> Next(q), disk |-> Written(Next(q)), ok |-> q.ok]
  BY <1>10, <1>3, <1>5, <1>6
<1>11. CASE r = [states |-> Undone(q), disk |-> disk, ok |-> q.ok /\ Undone(q) = Next(q)]
  BY <1>11, <1>2, <1>4, <1>5, <1>7, <1>8
<1> QED BY <1>1, <1>9, <1>10, <1>11

----------------------------------------------------------------------------
(* The state splits into parts that the helpers keep well formed.          *)

StateOK ==
    /\ disk \in [Slot -> MemberState] /\ states \in [Slot -> MemberState]
    /\ NeverTrustsMore

CacheOK ==
    /\ loaded \in BOOLEAN
    /\ anchors \in [Slot -> Cert \cup {None}] /\ crls \in [Slot -> Crl \cup {None}]
    /\ torn \subseteq Slot
    /\ ~loaded => anchors = Empty /\ crls = Empty

JobsOK == refs \in [Client -> Nat] /\ job \in [Worker -> Job] /\ RefsCounted

SlotsOK == slot \in [Slot -> Content]

LEMMA StoreParts == StoreInv <=> StateOK /\ CacheOK /\ JobsOK /\ SlotsOK
BY DEF StoreInv, TrustTypeOK, StateOK, CacheOK, JobsOK, SlotsOK

\* A saved increase of trust is in memory and on storage alike.
LEMMA CommitEffect ==
    ASSUME StoreInv, NEW s \in Slot, NEW next \in MemberState,
           next.accepted = None => states[s].accepted = None,
           CommitState(s, next)
    PROVE  StateOK'
<1>1. states \in [Slot -> MemberState] BY DEF StoreInv, TrustTypeOK
<1>2. states' \in [Slot -> MemberState] /\ states' = [states EXCEPT ![s] = next] BY <1>1 DEF CommitState
<1>3. \A t \in Slot : states'[t].accepted = None => states[t].accepted = None BY <1>1, <1>2
<1>4. Written(states') = states' BY <1>2, <1>3, WrittenIsNext
<1>5. disk' = states' BY <1>4 DEF CommitState
<1> QED BY <1>2, <1>5 DEF StateOK, NeverTrustsMore

\* A reduction of trust, saved or not, leaves memory below storage.
LEMMA ReduceEffect ==
    ASSUME StoreInv, NEW s \in Slot, ReduceTrust([states EXCEPT ![s].enabled = FALSE])
    PROVE  StateOK' /\ states' = [states EXCEPT ![s].enabled = FALSE]
<1> DEFINE next == [states EXCEPT ![s].enabled = FALSE]
<1>1. states \in [Slot -> MemberState] /\ disk \in [Slot -> MemberState] BY DEF StoreInv, TrustTypeOK
<1>2. next \in [Slot -> MemberState] BY <1>1 DEF MemberState
<1>3. \A t \in Slot : next[t].accepted = states[t].accepted /\ (next[t].enabled => states[t].enabled)
  BY <1>1 DEF MemberState
<1>4. Written(next) = next BY <1>2, <1>3, WrittenIsNext
<1>5. states' = next /\ (disk' = disk \/ disk' = next) BY <1>4 DEF ReduceTrust
<1>6. \A t \in Slot : (states[t].enabled => disk[t].enabled) /\ states[t].accepted = disk[t].accepted
  BY DEF StoreInv, NeverTrustsMore
<1> HIDE DEF next
<1>7. StateOK' BY <1>1, <1>2, <1>3, <1>5, <1>6 DEF StateOK, NeverTrustsMore
<1> QED BY <1>5, <1>7 DEF next

LEMMA ClearEffect ==
    ASSUME ClearCacheLocked
    PROVE  CacheOK' /\ anchors' = Empty /\ loaded' = FALSE
BY DEF ClearCacheLocked, CacheOK, Empty

LEMMA SetEffect ==
    ASSUME CacheOK, NEW s \in Slot, NEW c \in Cert \cup {None}, NEW r \in Crl \cup {None}
    PROVE  /\ SetMember(s, c, r) => CacheOK'
           /\ (SetAnchor(s, c) /\ SetCrl(s, r) /\ loaded' = loaded /\ torn' \subseteq Slot) => CacheOK'
           /\ (SetAnchor(s, c) /\ crls' = crls /\ loaded' = loaded /\ torn' \subseteq Slot) => CacheOK'
           /\ (SetCrl(s, r) /\ anchors' = anchors /\ loaded' = loaded /\ torn' = torn) => CacheOK'
BY DEF CacheOK, SetMember, SetAnchor, SetCrl

LEMMA TearEffect ==
    ASSUME StoreInv, NEW s \in Slot, Tear(s)
    PROVE  StateOK' /\ CacheOK'
BY StoreParts DEF StateOK, CacheOK, Tear, cache, NeverTrustsMore

LEMMA SlotContent ==
    ASSUME SlotsOK, NEW s \in Slot
    PROVE  slot[s].cert \in Cert \cup {None} /\ slot[s].crl \in Crl \cup {None}
BY DEF SlotsOK, Content

LEMMA JobKinds ==
    ASSUME JobsOK, NEW w \in Worker
    PROVE  /\ job[w][1] \in {"load", "release"} => job[w] = <<job[w][1], job[w][2]>> /\ job[w][2] \in Client
           /\ job[w][1] \in {"notify", "notifyCrl"} => job[w] = <<job[w][1], job[w][2]>> /\ job[w][2] \in Slot
           /\ Done(w) => (job' \in [Worker -> Job] /\ job' = [job EXCEPT ![w] = Idle])
BY SMT DEF JobsOK, Job, Idle, Done

----------------------------------------------------------------------------
(* References and the jobs that hold them.                                 *)

LEMMA BindingFinite ==
    ASSUME NEW c \in Client
    PROVE  IsFiniteSet(Binding(c)) /\ Cardinality(Binding(c)) \in Nat
<1>1. Binding(c) \subseteq Worker /\ IsFiniteSet(Worker) BY TrustConstantsOK DEF Binding
<1> QED BY <1>1, FS_Subset, FS_CardinalityType

LEMMA BindingEffect ==
    ASSUME JobsOK, NEW w \in Worker, NEW j \in Job, job' = [job EXCEPT ![w] = j], NEW c \in Client
    PROVE  Binding(c)' = IF j \in {"load", "release"} \X {c} THEN Binding(c) \cup {w} ELSE Binding(c) \ {w}
BY DEF Binding, JobsOK

LEMMA ShrinkingBinding ==
    ASSUME NEW c \in Client, NEW w
    PROVE  /\ Cardinality(Binding(c) \ {w}) <= Cardinality(Binding(c))
           /\ w \in Binding(c) => /\ Cardinality(Binding(c) \ {w}) = Cardinality(Binding(c)) - 1
                                  /\ Cardinality(Binding(c)) > 0
<1>1. Cardinality(Binding(c) \ {w}) = IF w \in Binding(c) THEN Cardinality(Binding(c)) - 1 ELSE Cardinality(Binding(c))
  BY BindingFinite, FS_RemoveElement
<1>2. Cardinality(Binding(c) \ {w}) \in Nat
  BY BindingFinite, FS_RemoveElement, FS_CardinalityType
<1> QED BY <1>1, <1>2, BindingFinite, SMT

\* Leaving AddRef, or taking up another task, keeps the counts.
LEMMA OtherJob ==
    ASSUME JobsOK, NEW w \in Worker, NEW j \in Job, j[1] \in {"idle", "notify", "notifyCrl"},
           job' = [job EXCEPT ![w] = j], refs' = refs
    PROVE  JobsOK'
<1>1. job' \in [Worker -> Job] /\ refs' \in [Client -> Nat] BY DEF JobsOK
<1>2. ASSUME NEW c \in Client PROVE Cardinality(Binding(c)') <= refs'[c]
  <2>1. Binding(c)' = Binding(c) \ {w} BY BindingEffect
  <2>2. Cardinality(Binding(c)') <= Cardinality(Binding(c)) BY <2>1, ShrinkingBinding
  <2>3. Cardinality(Binding(c)) <= refs[c] BY DEF JobsOK, RefsCounted
  <2>4. Cardinality(Binding(c)') \in Nat BY <2>1, BindingFinite, FS_RemoveElement, FS_CardinalityType
  <2> QED BY <2>2, <2>3, <2>4, <1>1, BindingFinite, SMT
<1> QED BY <1>1, <1>2 DEF JobsOK, RefsCounted

\* AddRef counts before it loads.
LEMMA AddRefCounts ==
    ASSUME JobsOK, NEW w \in Worker, NEW c \in Client, AddRef(w, c)
    PROVE  JobsOK'
<1>1. /\ job' \in [Worker -> Job] /\ refs' \in [Client -> Nat] /\ <<"load", c>> \in Job
      /\ job' = [job EXCEPT ![w] = <<"load", c>>]
  BY SMT DEF JobsOK, AddRef, Job
<1>2. ASSUME NEW d \in Client PROVE Cardinality(Binding(d)') <= refs'[d]
  <2>1. w \notin Binding(d) BY SMT DEF AddRef, Binding, Idle
  <2>2. Cardinality(Binding(d)) <= refs[d] /\ refs[d] \in Nat BY DEF JobsOK, RefsCounted
  <2>3. CASE d = c
    <3>1. Binding(d)' = Binding(d) \cup {w} BY <2>3, <1>1, BindingEffect
    <3>2. Cardinality(Binding(d)') = Cardinality(Binding(d)) + 1
      BY <2>1, <3>1, BindingFinite, FS_AddElement
    <3>3. refs'[d] = refs[d] + 1 BY <2>3 DEF AddRef, JobsOK
    <3> QED BY <2>2, <3>2, <3>3, BindingFinite, SMT
  <2>4. CASE d # c
    <3>0. <<"load", c>> \notin {"load", "release"} \X {d} BY <2>4
    <3>a. Binding(d)' = Binding(d) \ {w} BY <3>0, <1>1, BindingEffect
    <3>1. Binding(d)' = Binding(d) BY <2>1, <3>a
    <3>2. refs'[d] = refs[d] BY <2>4 DEF AddRef, JobsOK
    <3> QED BY <2>2, <3>1, <3>2
  <2> QED BY <2>3, <2>4
<1> QED BY <1>1, <1>2 DEF JobsOK, RefsCounted

\* A failed load keeps the reference that it is about to release.
LEMMA FailedLoadCounts ==
    ASSUME JobsOK, NEW w \in Worker, job[w][1] = "load",
           job' = [job EXCEPT ![w] = <<"release", job[w][2]>>], refs' = refs
    PROVE  JobsOK'
<1>1. job[w] = <<"load", job[w][2]>> /\ job[w][2] \in Client BY JobKinds
<1>2. job' \in [Worker -> Job] /\ <<"release", job[w][2]>> \in Job BY <1>1 DEF JobsOK, Job
<1>3. ASSUME NEW c \in Client PROVE Binding(c)' = Binding(c)
  <2>1. w \in Binding(c) <=> job[w][2] = c BY <1>1 DEF Binding
  <2>2. <<"release", job[w][2]>> \in {"load", "release"} \X {c} <=> job[w][2] = c OBVIOUS
  <2>3. Binding(c)' = IF job[w][2] = c THEN Binding(c) \cup {w} ELSE Binding(c) \ {w}
    BY <2>2, <1>2, BindingEffect
  <2>4. CASE job[w][2] = c BY <2>1, <2>3, <2>4
  <2>5. CASE job[w][2] # c BY <2>1, <2>3, <2>5
  <2> QED BY <2>4, <2>5
<1> QED BY <1>2, <1>3 DEF JobsOK, RefsCounted

\* The release after a failed load finds the reference that AddRef counted.
LEMMA FailedReleaseCounts ==
    ASSUME JobsOK, NEW w \in Worker, job[w][1] = "release", Done(w),
           refs' = [refs EXCEPT ![job[w][2]] = @ - 1]
    PROVE  JobsOK'
<1> DEFINE c == job[w][2]
<1>1. job[w] = <<"release", c>> /\ c \in Client /\ job' \in [Worker -> Job] BY JobKinds
<1>2. Idle \in Job /\ job' = [job EXCEPT ![w] = Idle] /\ \A d \in Client : Idle \notin {"load", "release"} \X {d}
  BY DEF Done, Job, Idle
<1>3. ASSUME NEW d \in Client PROVE Binding(d)' = Binding(d) \ {w} BY <1>2, BindingEffect
<1>4. w \in Binding(c) BY <1>1 DEF Binding
<1>5. \A d \in Client : d # c => w \notin Binding(d) BY <1>1 DEF Binding
<1>6. \A d \in Client : Cardinality(Binding(d)) <= refs[d] /\ refs[d] \in Nat BY DEF JobsOK, RefsCounted
<1> HIDE DEF c
<1>7. refs[c] > 0 /\ \A d \in Client : d = c => Cardinality(Binding(d)') = Cardinality(Binding(d)) - 1
  <2>1. Cardinality(Binding(c)) > 0 /\ Cardinality(Binding(c) \ {w}) = Cardinality(Binding(c)) - 1
    BY <1>1, <1>4, ShrinkingBinding
  <2>2. refs[c] > 0 BY <2>1, <1>1, <1>6, BindingFinite, SMT
  <2>3. ASSUME NEW d \in Client, d = c PROVE Cardinality(Binding(d)') = Cardinality(Binding(d)) - 1
    BY <2>1, <2>3, <1>3
  <2> QED BY <2>2, <2>3
<1>8. /\ refs' \in [Client -> Nat] /\ refs'[c] = refs[c] - 1
      /\ \A d \in Client : d # c => refs'[d] = refs[d]
  BY <1>1, <1>7, SMT DEF JobsOK, c
<1>9. ASSUME NEW d \in Client PROVE Cardinality(Binding(d)') <= refs'[d]
  <2>1. CASE d = c
    <3>1. Cardinality(Binding(d)') = Cardinality(Binding(d)) - 1 BY <2>1, <1>7
    <3>2. refs'[d] = refs[d] - 1 BY <2>1, <1>8
    <3> QED BY <3>1, <3>2, <1>6, BindingFinite, SMT
  <2>2. CASE d # c
    <3>1. Binding(d)' = Binding(d) BY <2>2, <1>3, <1>5
    <3> QED BY <3>1, <2>2, <1>6, <1>8
  <2> QED BY <2>1, <2>2
<1> QED BY <1>1, <1>8, <1>9 DEF JobsOK, RefsCounted

\* A context releases its own reference, never one of an AddRef under way.
LEMMA ReleaseCounts ==
    ASSUME JobsOK, NEW c \in Client, ReleaseRef(c) \/ CleanupClient(c)
    PROVE  JobsOK'
<1>1. refs \in [Client -> Nat] /\ \A d \in Client : Cardinality(Binding(d)) <= refs[d] /\ Cardinality(Binding(d)) \in Nat
  BY BindingFinite DEF JobsOK, RefsCounted
<1>2. \A d \in Client : Binding(d)' = Binding(d)
  BY DEF ReleaseRef, CleanupClient, Binding
<1>3. CASE ReleaseRef(c)
  <2>1. refs' = [refs EXCEPT ![c] = @ - 1] /\ refs[c] > Cardinality(Binding(c)) /\ job' = job
    BY <1>3 DEF ReleaseRef, EvictUnheld
  <2> QED BY <2>1, <1>1, <1>2, SMT DEF JobsOK, RefsCounted
<1>4. CASE CleanupClient(c)
  <2>1. refs' = [refs EXCEPT ![c] = 0] /\ Binding(c) = {} /\ job' = job
    BY <1>4 DEF CleanupClient, EvictUnheld
  <2>2. Cardinality(Binding(c)) = 0 BY <2>1, FS_EmptySet
  <2> QED BY <2>1, <2>2, <1>1, <1>2, SMT DEF JobsOK, RefsCounted
<1> QED BY <1>3, <1>4

----------------------------------------------------------------------------
(* Every step keeps StoreInv.                                              *)

LEMMA StoreInit == TrustInit => StoreInv
<1> SUFFICES ASSUME TrustInit PROVE StoreInv
  OBVIOUS
<1>1. Default \in MemberState /\ NoContent \in Content BY DEF Default, MemberState, NoContent, Content
<1>2. TrustTypeOK /\ NeverTrustsMore
  BY <1>1 DEF TrustInit, TrustTypeOK, NeverTrustsMore, Empty, Job
<1>3. ASSUME NEW c \in Client PROVE Cardinality(Binding(c)) <= refs[c]
  <2>1. Binding(c) = {} BY DEF TrustInit, Binding, Idle
  <2>2. Cardinality(Binding(c)) = 0 BY <2>1, FS_EmptySet
  <2> QED BY <2>2, SMT DEF TrustInit
<1> QED BY <1>2, <1>3 DEF StoreInv, RefsCounted

LEMMA StoreStep == StoreInv /\ [TrustNext]_trustVars => StoreInv'
<1> SUFFICES ASSUME StoreInv, [TrustNext]_trustVars PROVE StoreInv'
  OBVIOUS
<1>p. StateOK /\ CacheOK /\ JobsOK /\ SlotsOK BY StoreParts
<1>q. StateOK' /\ CacheOK' /\ JobsOK' /\ SlotsOK' => StoreInv'
  BY DEF StoreInv, TrustTypeOK, StateOK, CacheOK, JobsOK, SlotsOK
<1>s. UNCHANGED <<states, disk>> => StateOK' BY <1>p DEF StateOK, NeverTrustsMore
<1>c. UNCHANGED <<cache, torn>> => CacheOK' BY <1>p, SMT DEF CacheOK, cache
<1>j. UNCHANGED <<refs, job>> => JobsOK' BY <1>p DEF JobsOK, RefsCounted, Binding
<1>t. UNCHANGED slot => SlotsOK' BY <1>p DEF SlotsOK
<1>d. ASSUME NEW w \in Worker, Done(w), refs' = refs PROVE JobsOK'
  <2>1. Idle \in Job /\ Idle[1] = "idle" BY DEF Job, Idle
  <2> QED BY <1>p, <1>d, <2>1, OtherJob DEF Done
<1>e. ASSUME NEW s \in Slot PROVE Enabled(s) \in MemberState /\ Enabled(s).accepted = states[s].accepted
  BY <1>p DEF StateOK, Enabled, MemberState
<1>f. ASSUME NEW s \in Slot, NEW x \in Content, slot' = [slot EXCEPT ![s] = x] PROVE SlotsOK'
  BY <1>p, <1>f DEF SlotsOK
<1>g. ASSUME NEW s \in Slot, NEW r \in Crl \cup {None}, slot' = [slot EXCEPT ![s].crl = r]
      PROVE  SlotsOK' /\ slot'[s].crl = r
  BY <1>p, <1>g DEF SlotsOK, Content
<1>n. NoContent \in Content BY DEF NoContent, Content
<1>r. ASSUME NEW s \in Slot, SlotsOK', RefreshCrl(s) PROVE CacheOK'
  <2>1. slot'[s].crl \in Crl \cup {None} BY <1>r DEF SlotsOK, Content
  <2> QED BY <1>p, <1>r, <2>1, SetEffect, ClearEffect DEF RefreshCrl
<1>1. CASE UnboundRead
  <2>1. PICK r \in ResolveAllLocked : states' = r.states /\ disk' = r.disk BY <1>1 DEF UnboundRead
  <2>2. StateOK' BY <2>1, ResolveEffect DEF StateOK, NeverTrustsMore
  <2> QED BY <1>1, <2>2, <1>c, <1>j, <1>t, <1>q DEF UnboundRead
<1>2. CASE Restart
  <2>1. StateOK' BY <1>2, <1>p DEF Restart, StateOK, NeverTrustsMore
  <2>2. JobsOK'
    <3>1. refs' \in [Client -> Nat] /\ job' \in [Worker -> Job] BY <1>2 DEF Restart, Job
    <3>2. ASSUME NEW c \in Client PROVE Cardinality(Binding(c)') <= refs'[c]
      <4>1. Binding(c)' = {} BY <1>2 DEF Restart, Binding, Idle
      <4>2. Cardinality(Binding(c)') = 0 BY <4>1, FS_EmptySet
      <4> QED BY <4>2, <1>2, SMT DEF Restart
    <3> QED BY <3>1, <3>2 DEF JobsOK, RefsCounted
  <2> QED BY <1>2, <2>1, <2>2, ClearEffect, <1>t, <1>q DEF Restart
<1>3. ASSUME NEW w \in Worker, NEW c \in Client, AddRef(w, c) PROVE StoreInv'
  <2>1. JobsOK' BY <1>3, <1>p, AddRefCounts
  <2> QED BY <1>3, <2>1, <1>s, <1>c, <1>t, <1>q DEF AddRef
<1>4. ASSUME NEW w \in Worker, LoadCache(w) PROVE StoreInv'
  <2>1. CASE loaded
    BY <1>4, <2>1, <1>s, <1>c, <1>d, <1>t, <1>q DEF LoadCache
  <2>2. CASE ~loaded
    <3>1. PICK r \in ResolveAllLocked :
             /\ states' = r.states /\ disk' = r.disk
             /\ \/ /\ loaded' = TRUE
                   /\ anchors' = [s \in Slot |-> IF Contributes(r.states[s], s) THEN slot[s].cert ELSE None]
                   /\ crls' = [s \in Slot |-> IF Contributes(r.states[s], s) THEN slot[s].crl ELSE None]
                   /\ torn' = {}
                   /\ Done(w)
                \/ /\ job' = [job EXCEPT ![w] = <<"release", job[w][2]>>]
                   /\ UNCHANGED <<cache, torn>>
      BY <1>4, <2>2 DEF LoadCache
    <3>2. StateOK' BY <3>1, ResolveEffect DEF StateOK, NeverTrustsMore
    <3>3. CacheOK' BY <3>1, <1>c, <1>p, SlotContent DEF CacheOK
    <3>4. JobsOK' BY <1>4, <3>1, <1>d, <1>p, FailedLoadCounts DEF LoadCache
    <3> QED BY <1>4, <3>2, <3>3, <3>4, <1>t, <1>q DEF LoadCache
  <2> QED BY <2>1, <2>2
<1>5. ASSUME NEW next, EvictUnheld(next) PROVE StateOK' /\ CacheOK' /\ SlotsOK'
  BY <1>5, <1>s, <1>c, <1>t, ClearEffect DEF EvictUnheld
<1>6. ASSUME NEW w \in Worker, ReleaseFailedRef(w) PROVE StoreInv'
  <2>1. JobsOK' BY <1>6, <1>p, FailedReleaseCounts DEF ReleaseFailedRef, EvictUnheld
  <2> QED BY <1>6, <2>1, <1>5, <1>q DEF ReleaseFailedRef
<1>7. ASSUME NEW c \in Client, ReleaseRef(c) PROVE StoreInv'
  <2>1. JobsOK' BY <1>7, <1>p, ReleaseCounts
  <2> QED BY <1>7, <2>1, <1>5, <1>q DEF ReleaseRef
<1>8. ASSUME NEW c \in Client, CleanupClient(c) PROVE StoreInv'
  <2>1. JobsOK' BY <1>8, <1>p, ReleaseCounts
  <2> QED BY <1>8, <2>1, <1>5, <1>q DEF CleanupClient
<1>9. ASSUME NEW w \in Worker, NEW s \in Slot, UpdateSlot(w, s) \/ UpdateSlotCrl(w, s) PROVE StoreInv'
  <2>1. SlotsOK'
    <3>1. {slot[s]} \cup [cert : Cert \cup {None}, crl : {None}] \subseteq Content BY <1>p DEF Content, SlotsOK
    <3> QED BY <1>9, <3>1, <1>f, <1>g DEF UpdateSlot, UpdateSlotCrl, NotifySlotChanged, NotifySlotCrlChanged
  <2>2. JobsOK'
    <3>1. <<"notify", s>> \in Job /\ <<"notifyCrl", s>> \in Job BY DEF Job
    <3> QED BY <1>9, <1>p, <3>1, OtherJob DEF UpdateSlot, UpdateSlotCrl, NotifySlotChanged, NotifySlotCrlChanged
  <2> QED BY <1>9, <2>1, <2>2, <1>s, <1>c, <1>q DEF UpdateSlot, UpdateSlotCrl, NotifySlotChanged, NotifySlotCrlChanged
<1>10. ASSUME NEW w \in Worker, OnSlotChanged(w) PROVE StoreInv'
  <2> DEFINE s == job[w][2]
  <2>1. s \in Slot BY <1>10, <1>p, JobKinds DEF OnSlotChanged
  <2>2. StateOK' BY <1>10, <2>1, <1>s, ReduceEffect DEF OnSlotChanged
  <2>3. CacheOK'
    <3>1. slot[s].cert \in Cert \cup {None} /\ slot[s].crl \in Crl \cup {None} BY <1>p, <2>1, SlotContent
    <3>2. SetMember(s, None, None) => CacheOK' BY <1>p, <2>1, SetEffect
    <3>3. RefreshMember(s) => CacheOK' BY <1>p, <2>1, <3>1, SetEffect, ClearEffect DEF RefreshMember
    <3> QED BY <1>10, <3>2, <3>3, <1>c DEF OnSlotChanged
  <2> QED BY <1>10, <2>2, <2>3, <1>d, <1>t, <1>q DEF OnSlotChanged
<1>11. ASSUME NEW w \in Worker, OnSlotCrlChanged(w) PROVE StoreInv'
  <2>1. job[w][2] \in Slot BY <1>11, <1>p, JobKinds DEF OnSlotCrlChanged
  <2>2. SlotsOK' BY <1>11, <1>t DEF OnSlotCrlChanged
  <2> QED BY <1>11, <2>1, <2>2, <1>r, <1>s, <1>d, <1>q DEF OnSlotCrlChanged
<1>12. ASSUME NEW s \in Slot, EnableMember(s) PROVE StoreInv'
  <2>1. StateOK' BY <1>12, <1>e, CommitEffect DEF EnableMember
  <2>2. CacheOK'
    <3>1. slot[s].cert \in Cert \cup {None} /\ torn' \subseteq Slot
      BY <1>12, <1>p, SlotContent DEF EnableMember, CacheOK
    <3> QED BY <1>12, <1>p, <3>1, SetEffect DEF EnableMember
  <2> QED BY <1>12, <2>1, <2>2, <1>j, <1>t, <1>q DEF EnableMember
<1>13. ASSUME NEW s \in Slot, DisableMember(s) PROVE StoreInv'
  BY <1>13, <1>p, ReduceEffect, SetEffect, <1>j, <1>t, <1>q DEF DisableMember
<1>14. ASSUME NEW s \in Slot, AcknowledgeMemberUpdate(s) PROVE StoreInv'
  <2>1. slot[s].cert \in Cert \cup {None} /\ slot[s].cert # None
    BY <1>14, <1>p, SlotContent DEF AcknowledgeMemberUpdate
  <2>2. [enabled |-> TRUE, accepted |-> slot[s].cert] \in MemberState BY <2>1 DEF MemberState
  <2>3. StateOK' BY <1>14, <2>1, <2>2, CommitEffect DEF AcknowledgeMemberUpdate
  <2>4. CacheOK' BY <1>14, <1>p, <2>1, SetEffect DEF AcknowledgeMemberUpdate, CacheOK
  <2> QED BY <1>14, <2>3, <2>4, <1>j, <1>t, <1>q DEF AcknowledgeMemberUpdate
<1>15. ASSUME NEW s \in Slot, NEW c \in Cert, NEW r \in Crl \cup {None}, AddHeldMember(s, c, r) PROVE StoreInv'
  <2>1. SlotsOK'
    <3>1. slot[s].crl \in Crl \cup {None} BY <1>p, SlotContent
    <3>2. slot' = [slot EXCEPT ![s].crl = IF r = None THEN slot[s].crl ELSE r] BY <1>15 DEF AddHeldMember
    <3> QED BY <3>1, <3>2, <1>g
  <2>2. CASE Tear(s) BY <1>15, <2>1, <2>2, TearEffect, <1>j, <1>q DEF AddHeldMember
  <2>3. CASE ~Tear(s)
    <3>1. PICK saved \in BOOLEAN :
             /\ IF saved THEN CommitState(s, Enabled(s)) ELSE UNCHANGED <<states, disk>>
             /\ \/ /\ SetAnchor(s, IF saved THEN c ELSE anchors[s])
                   /\ SetCrl(s, IF r = None THEN crls[s] ELSE r)
                   /\ UNCHANGED <<loaded, torn>>
                \/ ClearCacheLocked
      BY <1>15, <2>3 DEF AddHeldMember
    <3>2. StateOK' BY <3>1, <1>e, <1>s, CommitEffect
    <3>3. CacheOK'
      <4>1. /\ (IF saved THEN c ELSE anchors[s]) \in Cert \cup {None}
            /\ (IF r = None THEN crls[s] ELSE r) \in Crl \cup {None}
            /\ torn \subseteq Slot
        BY <1>p DEF CacheOK
      <4> QED BY <3>1, <4>1, <1>p, SetEffect, ClearEffect
    <3> QED BY <1>15, <2>1, <3>2, <3>3, <1>j, <1>q DEF AddHeldMember
  <2> QED BY <2>2, <2>3
<1>16. ASSUME NEW s \in Slot, NEW c \in Cert, NEW r \in Crl \cup {None}, AddNewMember(s, c, r) PROVE StoreInv'
  <2>1. SlotsOK'
    <3>1. \A x \in {None, r} : [cert |-> c, crl |-> x] \in Content BY DEF Content
    <3>2. [cert : {c}, crl : {None, r}] \subseteq Content BY DEF Content
    <3> QED BY <1>16, <3>1, <3>2, <1>n, <1>f DEF AddNewMember
  <2>2. CASE Tear(s) BY <1>16, <2>1, <2>2, TearEffect, <1>j, <1>q DEF AddNewMember
  <2>3. CASE CommitState(s, Enabled(s)) /\ (SetMember(s, c, r) \/ ClearCacheLocked)
    <3>1. StateOK' BY <2>3, <1>e, CommitEffect
    <3>2. CacheOK' BY <2>3, <1>p, SetEffect, ClearEffect
    <3> QED BY <1>16, <2>1, <3>1, <3>2, <1>j, <1>q DEF AddNewMember
  <2> QED BY <1>16, <2>2, <2>3 DEF AddNewMember
<1>17. ASSUME NEW s \in Slot, RemoveMember(s) PROVE StoreInv'
  <2>1. SlotsOK' BY <1>17, <1>n, <1>f DEF RemoveMember
  <2>2. StateOK' /\ CacheOK' BY <1>17, <1>p, ReduceEffect, SetEffect, TearEffect DEF RemoveMember
  <2> QED BY <1>17, <2>1, <2>2, <1>j, <1>q DEF RemoveMember
<1>18. ASSUME NEW s \in Slot, NEW r \in Crl, StoreCrlForMember(s, r) PROVE StoreInv'
  <2>1. SlotsOK' BY <1>18, <1>g DEF StoreCrlForMember
  <2>2. StateOK' /\ CacheOK' BY <1>18, <2>1, <1>r, <1>s, TearEffect DEF StoreCrlForMember
  <2> QED BY <1>18, <2>1, <2>2, <1>j, <1>q DEF StoreCrlForMember
<1>19. ASSUME NEW s \in Slot, ClearCrlForMember(s) PROVE StoreInv'
  <2>1. SlotsOK' BY <1>19, <1>g DEF ClearCrlForMember
  <2>2. StateOK' /\ CacheOK' BY <1>19, <1>p, <1>s, SetEffect, TearEffect DEF ClearCrlForMember
  <2> QED BY <1>19, <2>1, <2>2, <1>j, <1>q DEF ClearCrlForMember
<1>20. CASE UNCHANGED trustVars
  BY <1>20, <1>s, <1>c, <1>j, <1>t, <1>q DEF trustVars, cache
<1> QED
  BY <1>1, <1>2, <1>3, <1>4, <1>6, <1>7, <1>8, <1>9, <1>10, <1>11, <1>12, <1>13, <1>14, <1>15,
     <1>16, <1>17, <1>18, <1>19, <1>20 DEF TrustNext, MutateMember

----------------------------------------------------------------------------
(* The cache is warm only while it is held.                                *)

LEMMA WarmStep == StoreInv /\ WarmOnlyWhileHeld /\ [TrustNext]_trustVars => WarmOnlyWhileHeld'
<1> SUFFICES ASSUME StoreInv, WarmOnlyWhileHeld, [TrustNext]_trustVars PROVE WarmOnlyWhileHeld'
  OBVIOUS
<1>p. JobsOK /\ JobsOK' BY StoreStep, StoreParts DEF StoreInv, TrustTypeOK, JobsOK
<1>1. refs' = refs /\ (loaded' => loaded) => WarmOnlyWhileHeld' BY DEF WarmOnlyWhileHeld
<1>2. ASSUME NEW next, EvictUnheld(next) PROVE WarmOnlyWhileHeld'
  BY <1>2, <1>p, SMT DEF EvictUnheld, ClearCacheLocked, WarmOnlyWhileHeld, JobsOK
<1>3. ASSUME NEW w \in Worker, NEW c \in Client, AddRef(w, c) PROVE WarmOnlyWhileHeld'
  <2>1. refs' = [refs EXCEPT ![c] = @ + 1] /\ loaded' = loaded BY <1>3 DEF AddRef, cache
  <2> QED BY <1>p, <2>1, SMT DEF WarmOnlyWhileHeld, JobsOK
<1>4. ASSUME NEW w \in Worker, LoadCache(w) PROVE WarmOnlyWhileHeld'
  <2>1. job[w] = <<"load", job[w][2]>> /\ job[w][2] \in Client BY <1>4, <1>p, JobKinds DEF LoadCache
  <2>2. w \in Binding(job[w][2]) BY <2>1, SMT DEF Binding
  <2>3. Cardinality(Binding(job[w][2])) > 0 BY <2>1, <2>2, ShrinkingBinding
  <2>4. refs[job[w][2]] > 0 BY <2>1, <2>3, <1>p, BindingFinite, SMT DEF JobsOK, RefsCounted
  <2> QED BY <1>4, <2>1, <2>4 DEF LoadCache, WarmOnlyWhileHeld
<1>5. ASSUME NEW w \in Worker, ReleaseFailedRef(w) PROVE WarmOnlyWhileHeld'
  BY <1>2, <1>5 DEF ReleaseFailedRef
<1>6. ASSUME NEW c \in Client, ReleaseRef(c) \/ CleanupClient(c) PROVE WarmOnlyWhileHeld'
  BY <1>2, <1>6 DEF ReleaseRef, CleanupClient
<1>7. ASSUME NEW w \in Worker, NEW s \in Slot, UpdateSlot(w, s) \/ UpdateSlotCrl(w, s) PROVE WarmOnlyWhileHeld'
  BY <1>1, <1>7 DEF UpdateSlot, UpdateSlotCrl, NotifySlotChanged, NotifySlotCrlChanged, cache
<1>8. ASSUME NEW w \in Worker, OnSlotChanged(w) \/ OnSlotCrlChanged(w) PROVE WarmOnlyWhileHeld'
  BY <1>1, <1>8 DEF OnSlotChanged, OnSlotCrlChanged, RefreshMember, RefreshCrl, SetMember, ClearCacheLocked, cache
<1>9. ASSUME NEW s \in Slot, EnableMember(s) \/ DisableMember(s) \/ AcknowledgeMemberUpdate(s) \/ RemoveMember(s)
                             \/ ClearCrlForMember(s) \/ \E r \in Crl : StoreCrlForMember(s, r)
      PROVE  WarmOnlyWhileHeld'
  BY <1>1, <1>9 DEF EnableMember, DisableMember, AcknowledgeMemberUpdate, RemoveMember, ClearCrlForMember,
                    StoreCrlForMember, RefreshCrl, SetMember, Tear, ClearCacheLocked, cache
<1>10. ASSUME NEW s \in Slot, NEW c \in Cert, NEW r \in Crl \cup {None},
              AddHeldMember(s, c, r) \/ AddNewMember(s, c, r)
       PROVE  WarmOnlyWhileHeld'
  BY <1>1, <1>10 DEF AddHeldMember, AddNewMember, SetMember, Tear, ClearCacheLocked, cache
<1>11. CASE UnboundRead BY <1>1, <1>11 DEF UnboundRead, cache
<1>12. CASE Restart BY <1>12 DEF Restart, ClearCacheLocked, WarmOnlyWhileHeld
<1>13. CASE UNCHANGED trustVars BY <1>1, <1>13 DEF trustVars
<1> QED
  BY <1>3, <1>4, <1>5, <1>6, <1>7, <1>8, <1>9, <1>10, <1>11, <1>12, <1>13 DEF TrustNext, MutateMember

----------------------------------------------------------------------------
(* Cached anchors are trusted.                                             *)

TrustedAnchor(s) ==
    anchors[s] # None =>
        /\ states[s].enabled
        /\ Kind[s] = "conditional" => states[s].accepted = anchors[s]
        /\ anchors[s] = slot[s].cert \/ CertPending(s) \/ s \in torn

\* A member that the step does not touch stays as trusted as it was.
SameMember(s) ==
    /\ anchors'[s] = anchors[s] /\ states'[s] = states[s] /\ slot'[s].cert = slot[s].cert
    /\ CertPending(s) => CertPending(s)'
    /\ s \in torn => s \in torn'

LEMMA SameMemberTrusted ==
    ASSUME NEW s \in Slot, TrustedAnchor(s), SameMember(s)
    PROVE  TrustedAnchor(s)'
BY DEF TrustedAnchor, SameMember

LEMMA PendingKept ==
    ASSUME JobsOK, NEW w \in Worker, NEW j, job' = [job EXCEPT ![w] = j], NEW s \in Slot,
           job[w] # <<"notify", s>>, CertPending(s)
    PROVE  CertPending(s)'
BY DEF JobsOK, CertPending

LEMMA PendingStays ==
    ASSUME job' = job, NEW s \in Slot
    PROVE  CertPending(s)' = CertPending(s)
BY DEF CertPending

LEMMA AnchorStep == StoreInv /\ AnchorsTrusted /\ [TrustNext]_trustVars => AnchorsTrusted'
<1> SUFFICES ASSUME StoreInv, AnchorsTrusted, [TrustNext]_trustVars, NEW t \in Slot
             PROVE  TrustedAnchor(t)'
  BY DEF AnchorsTrusted, TrustedAnchor
<1>p. /\ JobsOK /\ TrustedAnchor(t) /\ Empty[t] = None
      /\ states \in [Slot -> MemberState] /\ slot \in [Slot -> Content]
      /\ anchors \in [Slot -> Cert \cup {None}]
      /\ ~loaded => anchors[t] = None
  BY StoreParts DEF AnchorsTrusted, TrustedAnchor, StateOK, SlotsOK, CacheOK, Empty
<1>n. anchors'[t] = None => TrustedAnchor(t)' BY DEF TrustedAnchor
<1>s. SameMember(t) => TrustedAnchor(t)' BY <1>p, SameMemberTrusted
<1>c. ClearCacheLocked => TrustedAnchor(t)' BY <1>p, <1>n, ClearEffect
<1>j. job' = job => CertPending(t)' = CertPending(t) BY PendingStays
<1>w. ASSUME NEW w \in Worker, NEW j, job' = [job EXCEPT ![w] = j], job[w] # <<"notify", t>>
      PROVE  CertPending(t) => CertPending(t)'
  BY <1>p, <1>w, PendingKept
<1>a. ASSUME NEW s \in Slot, NEW c, SetAnchor(s, c)
      PROVE  /\ s # t => anchors'[t] = anchors[t]
             /\ s = t => anchors'[t] = None \/ (anchors'[t] = c)
  BY <1>p, <1>a DEF SetAnchor
<1>m. ASSUME NEW s \in Slot, NEW c, NEW r, SetMember(s, c, r)
      PROVE  /\ s # t => anchors'[t] = anchors[t] /\ (t \in torn => t \in torn')
             /\ s = t => anchors'[t] = None \/ anchors'[t] = c
  BY <1>a, <1>m DEF SetMember
<1>u. ASSUME NEW s \in Slot, NEW x, CommitState(s, x)
      PROVE  (s # t => states'[t] = states[t]) /\ (s = t => states'[t] = x)
  BY <1>p, <1>u DEF CommitState
<1>r. ASSUME NEW s \in Slot, ReduceTrust([states EXCEPT ![s].enabled = FALSE])
      PROVE  s # t => states'[t] = states[t]
  BY <1>p, <1>r DEF ReduceTrust
<1>k. ASSUME NEW s \in Slot, NEW r, slot' = [slot EXCEPT ![s].crl = r] PROVE slot'[t].cert = slot[t].cert
  BY <1>p, <1>k DEF Content
<1>x. ASSUME NEW s \in Slot, NEW x, slot' = [slot EXCEPT ![s] = x]
      PROVE  (s # t => slot'[t] = slot[t]) /\ (s = t => slot'[t] = x)
  BY <1>p, <1>x
<1>y. ASSUME NEW s \in Slot, Tear(s), job' = job,
             s # t => slot'[t].cert = slot[t].cert
      PROVE  TrustedAnchor(t)'
  <2>1. CASE ~loaded BY <1>y, <2>1, <1>p, <1>n DEF Tear, cache
  <2>2. CASE loaded
    <3>1. anchors' = anchors /\ states' = states /\ torn' = torn \cup {s} BY <1>y, <2>2 DEF Tear, cache
    <3>2. CASE s = t BY <3>1, <3>2, <1>p DEF TrustedAnchor
    <3>3. CASE s # t BY <3>1, <3>3, <1>y, <1>j, <1>s DEF SameMember
    <3> QED BY <3>2, <3>3
  <2> QED BY <2>1, <2>2
<1>1. CASE UnboundRead
  BY <1>1, <1>p, <1>n DEF UnboundRead, cache
<1>2. CASE Restart
  BY <1>2, <1>c DEF Restart
<1>3. ASSUME NEW w \in Worker, NEW c \in Client, AddRef(w, c) PROVE TrustedAnchor(t)'
  <2>1. job[w] # <<"notify", t>> BY <1>3, SMT DEF AddRef, Idle
  <2> QED BY <1>3, <2>1, <1>w, <1>s DEF AddRef, SameMember, cache
<1>4. ASSUME NEW w \in Worker, LoadCache(w) PROVE TrustedAnchor(t)'
  <2>0. job[w] # <<"notify", t>> BY <1>4, SMT DEF LoadCache
  <2>1. CASE loaded
    BY <1>4, <2>0, <2>1, <1>w, <1>s DEF LoadCache, Done, SameMember, cache
  <2>2. CASE ~loaded
    <3>1. PICK r \in ResolveAllLocked :
             \/ UNCHANGED cache
             \/ /\ r.ok /\ states' = r.states
                /\ anchors' = [s \in Slot |-> IF Contributes(r.states[s], s) THEN slot[s].cert ELSE None]
      BY <1>4, <2>2 DEF LoadCache
    <3>2. CASE UNCHANGED cache BY <2>2, <3>2, <1>p, <1>n DEF cache
    <3>3. CASE /\ r.ok /\ states' = r.states
               /\ anchors' = [s \in Slot |-> IF Contributes(r.states[s], s) THEN slot[s].cert ELSE None]
      <4>1. (Kind[t] = "conditional" /\ Contributes(r.states[t], t)) => r.states[t].accepted = slot[t].cert
        BY <3>3, ResolveEffect
      <4>2. slot' = slot BY <1>4 DEF LoadCache
      <4> QED BY <3>3, <4>1, <4>2 DEF TrustedAnchor, Contributes
    <3> QED BY <3>1, <3>2, <3>3
  <2> QED BY <2>1, <2>2
<1>5. ASSUME NEW next, EvictUnheld(next), CertPending(t) => CertPending(t)' PROVE TrustedAnchor(t)'
  BY <1>5, <1>c, <1>s DEF EvictUnheld, SameMember, cache
<1>6. ASSUME NEW w \in Worker, ReleaseFailedRef(w) PROVE TrustedAnchor(t)'
  <2>1. job[w] # <<"notify", t>> BY <1>6, SMT DEF ReleaseFailedRef
  <2> QED BY <1>6, <2>1, <1>w, <1>5 DEF ReleaseFailedRef, Done
<1>7. ASSUME NEW c \in Client, ReleaseRef(c) \/ CleanupClient(c) PROVE TrustedAnchor(t)'
  BY <1>7, <1>j, <1>5 DEF ReleaseRef, CleanupClient
<1>8. ASSUME NEW w \in Worker, NEW s \in Slot, UpdateSlot(w, s) PROVE TrustedAnchor(t)'
  <2>1. job[w] # <<"notify", t>> BY <1>8, SMT DEF UpdateSlot, NotifySlotChanged, Idle
  <2>2. CASE s = t
    <3>1. CertPending(t)' BY <1>8, <2>2, <1>p DEF UpdateSlot, NotifySlotChanged, CertPending, JobsOK
    <3> QED BY <1>8, <3>1, <1>p DEF UpdateSlot, NotifySlotChanged, TrustedAnchor, cache
  <2>3. CASE s # t
    BY <1>8, <2>1, <2>3, <1>w, <1>x, <1>s DEF UpdateSlot, NotifySlotChanged, SameMember, cache
  <2> QED BY <2>2, <2>3
<1>9. ASSUME NEW w \in Worker, NEW s \in Slot, UpdateSlotCrl(w, s) PROVE TrustedAnchor(t)'
  <2>1. job[w] # <<"notify", t>> BY <1>9, SMT DEF UpdateSlotCrl, NotifySlotCrlChanged, Idle
  <2> QED BY <1>9, <2>1, <1>w, <1>k, <1>s DEF UpdateSlotCrl, NotifySlotCrlChanged, SameMember, cache
<1>10. ASSUME NEW w \in Worker, OnSlotChanged(w) PROVE TrustedAnchor(t)'
  <2> DEFINE s == job[w][2]
  <2>1. s \in Slot /\ job[w] = <<"notify", s>> BY <1>10, <1>p, JobKinds DEF OnSlotChanged
  <2>2. s # t => (CertPending(t) => CertPending(t)')
    <3>1. s # t => job[w] # <<"notify", t>> BY <2>1, SMT
    <3>2. job' = [job EXCEPT ![w] = Idle] BY <1>10 DEF OnSlotChanged, Done
    <3> QED BY <3>1, <3>2, <1>w
  <2>3. slot' = slot BY <1>10 DEF OnSlotChanged
  <2>4. CASE SetMember(s, None, None) /\ (s # t => states'[t] = states[t])
    BY <2>1, <2>2, <2>3, <2>4, <1>m, <1>n, <1>s DEF SameMember
  <2>5. CASE ~loaded /\ UNCHANGED cache
    BY <2>5, <1>p, <1>n DEF cache
  <2>6. CASE /\ Kind[s] = "conditional" => AcceptedFingerprintMatches(s)
             /\ RefreshMember(s) /\ UNCHANGED <<states, disk>>
    <3> DEFINE c == IF Contributes(states[s], s) THEN slot[s].cert ELSE None
    <3>1. CASE ClearCacheLocked BY <3>1, <1>c
    <3>2. CASE /\ s # t => anchors'[t] = anchors[t] /\ (t \in torn => t \in torn')
               /\ s = t => anchors'[t] = None \/ anchors'[t] = c
      <4>1. CASE s # t BY <2>2, <2>3, <2>6, <3>2, <4>1, <1>s DEF SameMember
      <4>2. CASE s = t
        BY <2>3, <2>6, <3>2, <4>2 DEF TrustedAnchor, Contributes, AcceptedFingerprintMatches
      <4> QED BY <4>1, <4>2
    <3>3. ClearCacheLocked \/ \E r : SetMember(s, c, r) BY <2>6 DEF RefreshMember
    <3> QED BY <3>1, <3>2, <3>3, <2>1, <1>m
  <2>7. (IF states[s].enabled THEN ReduceTrust([states EXCEPT ![s].enabled = FALSE]) ELSE UNCHANGED <<states, disk>>)
          => (s # t => states'[t] = states[t])
    BY <2>1, <1>r
  <2> QED BY <1>10, <2>4, <2>5, <2>6, <2>7 DEF OnSlotChanged
<1>11. ASSUME NEW s \in Slot, RefreshCrl(s), UNCHANGED states, slot'[t].cert = slot[t].cert,
              CertPending(t) => CertPending(t)'
       PROVE  TrustedAnchor(t)'
  BY <1>11, <1>c, <1>s DEF RefreshCrl, SameMember
<1>12. ASSUME NEW w \in Worker, OnSlotCrlChanged(w) PROVE TrustedAnchor(t)'
  <2>1. job[w] # <<"notify", t>> /\ job[w][2] \in Slot BY <1>12, <1>p, JobKinds, SMT DEF OnSlotCrlChanged
  <2> QED BY <1>12, <2>1, <1>w, <1>11 DEF OnSlotCrlChanged, Done
<1>13. ASSUME NEW s \in Slot, EnableMember(s) PROVE TrustedAnchor(t)'
  <2>0. slot' = slot /\ job' = job /\ (t \in torn => t \in torn') BY <1>13 DEF EnableMember
  <2>1. CASE s # t BY <1>13, <2>0, <2>1, <1>a, <1>u, <1>j, <1>s DEF EnableMember, SameMember
  <2>2. CASE s = t
    <3>1. anchors'[t] = None \/ anchors'[t] = slot[t].cert BY <1>13, <2>2, <1>a DEF EnableMember
    <3>2. states'[t].enabled /\ states'[t].accepted = states[t].accepted
      BY <1>13, <2>2, <1>u, <1>p, SMT DEF EnableMember, Enabled, MemberState
    <3>3. Kind[t] = "conditional" => states[t].accepted = slot[t].cert
      BY <1>13, <2>2 DEF EnableMember, AcceptedFingerprintMatches
    <3> QED BY <2>0, <3>1, <3>2, <3>3 DEF TrustedAnchor
  <2> QED BY <2>1, <2>2
<1>14. ASSUME NEW s \in Slot, DisableMember(s) PROVE TrustedAnchor(t)'
  BY <1>14, <1>m, <1>r, <1>j, <1>n, <1>s DEF DisableMember, SameMember
<1>15. ASSUME NEW s \in Slot, AcknowledgeMemberUpdate(s) PROVE TrustedAnchor(t)'
  <2>1. CASE s # t BY <1>15, <2>1, <1>a, <1>u, <1>j, <1>s DEF AcknowledgeMemberUpdate, SameMember
  <2>2. CASE s = t
    <3> DEFINE x == [enabled |-> TRUE, accepted |-> slot[t].cert]
    <3>1. slot' = slot /\ CommitState(t, x) /\ SetAnchor(t, slot[t].cert)
      BY <1>15, <2>2 DEF AcknowledgeMemberUpdate
    <3>2. anchors'[t] = None \/ anchors'[t] = slot[t].cert BY <1>a, <3>1
    <3>3. states'[t].enabled /\ states'[t].accepted = slot[t].cert BY <1>u, <3>1, SMT
    <3> QED BY <3>1, <3>2, <3>3 DEF TrustedAnchor
  <2> QED BY <2>1, <2>2
<1>16. ASSUME NEW s \in Slot, NEW c \in Cert, NEW r \in Crl \cup {None}, AddHeldMember(s, c, r) PROVE TrustedAnchor(t)'
  <2>0. job' = job /\ slot'[t].cert = slot[t].cert BY <1>16, <1>k DEF AddHeldMember
  <2>1. CASE Tear(s) BY <2>0, <2>1, <1>y
  <2>2. CASE ~Tear(s)
    <3>1. PICK saved \in BOOLEAN :
             /\ IF saved THEN CommitState(s, Enabled(s)) ELSE UNCHANGED <<states, disk>>
             /\ \/ SetAnchor(s, IF saved THEN c ELSE anchors[s]) /\ torn' = torn
                \/ ClearCacheLocked
      BY <1>16, <2>2 DEF AddHeldMember
    <3>2. CASE ClearCacheLocked BY <3>2, <1>c
    <3>3. CASE SetAnchor(s, IF saved THEN c ELSE anchors[s]) /\ torn' = torn
      <4>1. CASE s # t BY <2>0, <3>1, <3>3, <4>1, <1>a, <1>u, <1>j, <1>s DEF SameMember
      <4>2. CASE s = t /\ saved
        <5>1. anchors'[t] = None \/ anchors'[t] = slot[t].cert BY <1>16, <3>3, <4>2, <1>a DEF AddHeldMember
        <5>2. states'[t].enabled BY <3>1, <4>2, <1>u, <1>p, SMT DEF Enabled, MemberState
        <5> QED BY <1>16, <2>0, <4>2, <5>1, <5>2 DEF TrustedAnchor, AddHeldMember
      <4>3. CASE s = t /\ ~saved
        <5>1. anchors'[t] = None \/ anchors'[t] = anchors[t] BY <3>3, <4>3, <1>a
        <5> QED BY <2>0, <3>1, <3>3, <4>3, <5>1, <1>j, <1>n, <1>s DEF SameMember
      <4> QED BY <4>1, <4>2, <4>3
    <3> QED BY <3>1, <3>2, <3>3
  <2> QED BY <2>1, <2>2
<1>17. ASSUME NEW s \in Slot, NEW c \in Cert, NEW r \in Crl \cup {None}, AddNewMember(s, c, r) PROVE TrustedAnchor(t)'
  <2>0. job' = job /\ (s # t => slot'[t] = slot[t]) BY <1>17, <1>x DEF AddNewMember
  <2>1. CASE Tear(s) BY <2>0, <2>1, <1>y
  <2>2. CASE ClearCacheLocked BY <2>2, <1>c
  <2>3. CASE /\ slot' = [slot EXCEPT ![s] = [cert |-> c, crl |-> r]]
             /\ CommitState(s, Enabled(s)) /\ SetMember(s, c, r)
    <3>1. CASE s # t BY <2>0, <2>3, <3>1, <1>m, <1>u, <1>j, <1>s DEF SameMember
    <3>2. CASE s = t
      <4>1. anchors'[t] = None \/ anchors'[t] = c BY <2>3, <3>2, <1>m
      <4>2. states'[t].enabled BY <2>3, <3>2, <1>u, <1>p, SMT DEF Enabled, MemberState
      <4>3. slot'[t].cert = c BY <2>3, <3>2, <1>x
      <4> QED BY <1>17, <3>2, <4>1, <4>2, <4>3 DEF TrustedAnchor, AddNewMember
    <3> QED BY <3>1, <3>2
  <2> QED BY <1>17, <2>1, <2>2, <2>3 DEF AddNewMember
<1>18. ASSUME NEW s \in Slot, RemoveMember(s) PROVE TrustedAnchor(t)'
  <2>0. job' = job /\ (s # t => slot'[t] = slot[t]) BY <1>18, <1>x DEF RemoveMember
  <2>1. CASE Tear(s) BY <2>0, <2>1, <1>y
  <2>2. CASE ReduceTrust([states EXCEPT ![s].enabled = FALSE]) /\ SetMember(s, None, None)
    BY <2>0, <2>2, <1>m, <1>r, <1>j, <1>n, <1>s DEF SameMember
  <2> QED BY <1>18, <2>1, <2>2 DEF RemoveMember
<1>19. ASSUME NEW s \in Slot, NEW r \in Crl, StoreCrlForMember(s, r) PROVE TrustedAnchor(t)'
  BY <1>19, <1>k, <1>j, <1>y, <1>11 DEF StoreCrlForMember
<1>20. ASSUME NEW s \in Slot, ClearCrlForMember(s) PROVE TrustedAnchor(t)'
  <2>0. job' = job /\ slot'[t].cert = slot[t].cert BY <1>20, <1>k DEF ClearCrlForMember
  <2>1. CASE Tear(s) BY <2>0, <2>1, <1>y
  <2>2. CASE UNCHANGED <<states, anchors, torn>> BY <2>0, <2>2, <1>j, <1>s DEF SameMember
  <2> QED BY <1>20, <2>1, <2>2 DEF ClearCrlForMember
<1>21. CASE UNCHANGED trustVars
  BY <1>21, <1>j, <1>s DEF trustVars, SameMember
<1> QED
  BY <1>1, <1>2, <1>3, <1>4, <1>6, <1>7, <1>8, <1>9, <1>10, <1>12, <1>13, <1>14, <1>15, <1>16,
     <1>17, <1>18, <1>19, <1>20, <1>21 DEF TrustNext, MutateMember

----------------------------------------------------------------------------
(* No anchor is missing from a warm cache.                                 *)

CompleteAnchor(s) ==
    loaded /\ states[s].enabled /\ slot[s].cert # None /\ (Kind[s] = "conditional" => AcceptedFingerprintMatches(s))
        => anchors[s] = slot[s].cert \/ CertPending(s) \/ s \in torn

LEMMA SameMemberComplete ==
    ASSUME NEW s \in Slot, CompleteAnchor(s), SameMember(s), loaded' = loaded
    PROVE  CompleteAnchor(s)'
BY DEF CompleteAnchor, SameMember, AcceptedFingerprintMatches

LEMMA CompleteStep == StoreInv /\ AnchorsComplete /\ [TrustNext]_trustVars => AnchorsComplete'
<1> SUFFICES ASSUME StoreInv, AnchorsComplete, [TrustNext]_trustVars, NEW t \in Slot
             PROVE  CompleteAnchor(t)'
  BY DEF AnchorsComplete, CompleteAnchor
<1>p. /\ JobsOK /\ CompleteAnchor(t)
      /\ states \in [Slot -> MemberState] /\ slot \in [Slot -> Content]
      /\ anchors \in [Slot -> Cert \cup {None}]
  BY StoreParts DEF AnchorsComplete, CompleteAnchor, StateOK, SlotsOK, CacheOK
<1>n. ~loaded' => CompleteAnchor(t)' BY DEF CompleteAnchor
<1>e. anchors'[t] = slot'[t].cert => CompleteAnchor(t)' BY DEF CompleteAnchor
<1>d. ~states'[t].enabled => CompleteAnchor(t)' BY DEF CompleteAnchor
<1>s. SameMember(t) /\ loaded' = loaded => CompleteAnchor(t)' BY <1>p, SameMemberComplete
<1>c. ClearCacheLocked => CompleteAnchor(t)' BY <1>n DEF ClearCacheLocked
<1>j. job' = job => CertPending(t)' = CertPending(t) BY PendingStays
<1>w. ASSUME NEW w \in Worker, NEW j, job' = [job EXCEPT ![w] = j], job[w] # <<"notify", t>>
      PROVE  CertPending(t) => CertPending(t)'
  BY <1>p, <1>w, PendingKept
<1>a. ASSUME NEW s \in Slot, NEW c, SetAnchor(s, c)
      PROVE  /\ s # t => anchors'[t] = anchors[t]
             /\ s = t /\ loaded => anchors'[t] = c
  BY <1>p, <1>a DEF SetAnchor
<1>m. ASSUME NEW s \in Slot, NEW c, NEW r, SetMember(s, c, r)
      PROVE  /\ s # t => anchors'[t] = anchors[t] /\ (t \in torn => t \in torn')
             /\ s = t /\ loaded => anchors'[t] = c
             /\ loaded' = loaded
  BY <1>a, <1>m DEF SetMember
<1>u. ASSUME NEW s \in Slot, NEW x, CommitState(s, x) PROVE s # t => states'[t] = states[t]
  BY <1>p, <1>u DEF CommitState
<1>r. ASSUME NEW s \in Slot, ReduceTrust([states EXCEPT ![s].enabled = FALSE])
      PROVE  (s # t => states'[t] = states[t]) /\ (s = t => ~states'[t].enabled)
  <2>1. states' = [states EXCEPT ![s].enabled = FALSE] BY <1>r DEF ReduceTrust
  <2> QED BY <2>1, <1>p, SMT DEF MemberState
<1>k. ASSUME NEW s \in Slot, NEW r, slot' = [slot EXCEPT ![s].crl = r] PROVE slot'[t].cert = slot[t].cert
  BY <1>p, <1>k DEF Content
<1>x. ASSUME NEW s \in Slot, NEW x, slot' = [slot EXCEPT ![s] = x]
      PROVE  (s # t => slot'[t] = slot[t]) /\ (s = t => slot'[t] = x)
  BY <1>p, <1>x
<1>y. ASSUME NEW s \in Slot, Tear(s), job' = job, s # t => slot'[t].cert = slot[t].cert
      PROVE  CompleteAnchor(t)'
  <2>1. CASE ~loaded BY <1>y, <2>1, <1>n DEF Tear, cache
  <2>2. CASE loaded
    <3>1. anchors' = anchors /\ states' = states /\ loaded' = loaded /\ torn' = torn \cup {s}
      BY <1>y, <2>2 DEF Tear, cache
    <3>2. CASE s = t BY <3>1, <3>2 DEF CompleteAnchor
    <3>3. CASE s # t BY <3>1, <3>3, <1>y, <1>j, <1>s DEF SameMember
    <3> QED BY <3>2, <3>3
  <2> QED BY <2>1, <2>2
<1>1. CASE UnboundRead
  BY <1>1, <1>n DEF UnboundRead, cache
<1>2. CASE Restart
  BY <1>2, <1>c DEF Restart
<1>3. ASSUME NEW w \in Worker, NEW c \in Client, AddRef(w, c) PROVE CompleteAnchor(t)'
  <2>1. job[w] # <<"notify", t>> BY <1>3, SMT DEF AddRef, Idle
  <2> QED BY <1>3, <2>1, <1>w, <1>s DEF AddRef, SameMember, cache
<1>4. ASSUME NEW w \in Worker, LoadCache(w) PROVE CompleteAnchor(t)'
  <2>0. job[w] # <<"notify", t>> BY <1>4, SMT DEF LoadCache
  <2>1. CASE loaded
    BY <1>4, <2>0, <2>1, <1>w, <1>s DEF LoadCache, Done, SameMember, cache
  <2>2. CASE ~loaded
    <3>1. PICK r \in ResolveAllLocked :
             \/ UNCHANGED cache
             \/ /\ states' = r.states
                /\ anchors' = [s \in Slot |-> IF Contributes(r.states[s], s) THEN slot[s].cert ELSE None]
      BY <1>4, <2>2 DEF LoadCache
    <3>2. slot' = slot BY <1>4 DEF LoadCache
    <3>3. CASE UNCHANGED cache BY <2>2, <3>3, <1>n DEF cache
    <3>4. CASE /\ states' = r.states
               /\ anchors' = [s \in Slot |-> IF Contributes(r.states[s], s) THEN slot[s].cert ELSE None]
      BY <3>2, <3>4 DEF CompleteAnchor, Contributes
    <3> QED BY <3>1, <3>3, <3>4
  <2> QED BY <2>1, <2>2
<1>5. ASSUME NEW next, EvictUnheld(next), CertPending(t) => CertPending(t)' PROVE CompleteAnchor(t)'
  BY <1>5, <1>c, <1>s DEF EvictUnheld, SameMember, cache
<1>6. ASSUME NEW w \in Worker, ReleaseFailedRef(w) PROVE CompleteAnchor(t)'
  <2>1. job[w] # <<"notify", t>> BY <1>6, SMT DEF ReleaseFailedRef
  <2> QED BY <1>6, <2>1, <1>w, <1>5 DEF ReleaseFailedRef, Done
<1>7. ASSUME NEW c \in Client, ReleaseRef(c) \/ CleanupClient(c) PROVE CompleteAnchor(t)'
  BY <1>7, <1>j, <1>5 DEF ReleaseRef, CleanupClient
<1>8. ASSUME NEW w \in Worker, NEW s \in Slot, UpdateSlot(w, s) PROVE CompleteAnchor(t)'
  <2>1. job[w] # <<"notify", t>> BY <1>8, SMT DEF UpdateSlot, Idle
  <2>2. CASE s = t
    <3>1. CertPending(t)' BY <1>8, <2>2, <1>p DEF UpdateSlot, NotifySlotChanged, CertPending, JobsOK
    <3> QED BY <3>1 DEF CompleteAnchor
  <2>3. CASE s # t
    BY <1>8, <2>1, <2>3, <1>w, <1>x, <1>s DEF UpdateSlot, NotifySlotChanged, SameMember, cache
  <2> QED BY <2>2, <2>3
<1>9. ASSUME NEW w \in Worker, NEW s \in Slot, UpdateSlotCrl(w, s) PROVE CompleteAnchor(t)'
  <2>1. job[w] # <<"notify", t>> BY <1>9, SMT DEF UpdateSlotCrl, Idle
  <2> QED BY <1>9, <2>1, <1>w, <1>k, <1>s DEF UpdateSlotCrl, NotifySlotCrlChanged, SameMember, cache
<1>10. ASSUME NEW w \in Worker, OnSlotChanged(w) PROVE CompleteAnchor(t)'
  <2> DEFINE s == job[w][2]
  <2>1. s \in Slot /\ job[w] = <<"notify", s>> BY <1>10, <1>p, JobKinds DEF OnSlotChanged
  <2>2. s # t => (CertPending(t) => CertPending(t)')
    <3>1. s # t => job[w] # <<"notify", t>> BY <2>1, SMT
    <3>2. job' = [job EXCEPT ![w] = Idle] BY <1>10 DEF OnSlotChanged, Done
    <3> QED BY <3>1, <3>2, <1>w
  <2>3. slot' = slot BY <1>10 DEF OnSlotChanged
  <2> HIDE DEF s
  <2>4. CASE /\ SetMember(s, None, None)
             /\ s # t => states'[t] = states[t]
             /\ s = t => ~states'[t].enabled
    BY <2>1, <2>2, <2>3, <2>4, <1>m, <1>d, <1>s DEF SameMember
  <2>5. CASE ~loaded /\ UNCHANGED cache
    BY <2>5, <1>n DEF cache
  <2>6. CASE RefreshMember(s) /\ UNCHANGED <<states, disk>>
    <3>1. CASE ClearCacheLocked BY <3>1, <1>c
    <3>2. ASSUME NEW r, SetMember(s, IF Contributes(states[s], s) THEN slot[s].cert ELSE None, r)
          PROVE  CompleteAnchor(t)'
      <4>1. CASE s # t BY <2>1, <2>2, <2>3, <2>6, <3>2, <4>1, <1>m, <1>s DEF SameMember
      <4>2. CASE s = t
        <5>1. loaded => anchors'[t] = IF Contributes(states[s], s) THEN slot[s].cert ELSE None
          BY <2>1, <3>2, <4>2, <1>m
        <5>2. loaded' = loaded BY <2>1, <3>2, <1>m
        <5> QED BY <2>3, <2>6, <4>2, <5>1, <5>2 DEF CompleteAnchor, Contributes
      <4> QED BY <4>1, <4>2
    <3> QED BY <2>6, <3>1, <3>2 DEF RefreshMember
  <2>7. (IF states[s].enabled THEN ReduceTrust([states EXCEPT ![s].enabled = FALSE]) ELSE UNCHANGED <<states, disk>>)
          => (s # t => states'[t] = states[t]) /\ (s = t => ~states'[t].enabled)
    BY <2>1, <1>r
  <2> QED BY <1>10, <2>4, <2>5, <2>6, <2>7 DEF OnSlotChanged, s
<1>11. ASSUME NEW s \in Slot, RefreshCrl(s), UNCHANGED states, slot'[t].cert = slot[t].cert,
              CertPending(t) => CertPending(t)'
       PROVE  CompleteAnchor(t)'
  BY <1>11, <1>c, <1>s DEF RefreshCrl, SameMember
<1>12. ASSUME NEW w \in Worker, OnSlotCrlChanged(w) PROVE CompleteAnchor(t)'
  <2>1. job[w] # <<"notify", t>> /\ job[w][2] \in Slot BY <1>12, <1>p, JobKinds, SMT DEF OnSlotCrlChanged
  <2> QED BY <1>12, <2>1, <1>w, <1>11 DEF OnSlotCrlChanged, Done
<1>13. ASSUME NEW s \in Slot, EnableMember(s) PROVE CompleteAnchor(t)'
  <2>0. slot' = slot /\ job' = job /\ loaded' = loaded /\ (t \in torn => t \in torn') BY <1>13 DEF EnableMember
  <2>1. CASE s # t BY <1>13, <2>0, <2>1, <1>a, <1>u, <1>j, <1>s DEF EnableMember, SameMember
  <2>2. CASE s = t /\ SetAnchor(s, slot[s].cert) BY <2>0, <2>2, <1>a, <1>n, <1>e
  <2>3. CASE s = t /\ torn' = (IF loaded THEN torn \cup {s} ELSE torn) BY <2>0, <2>3 DEF CompleteAnchor
  <2> QED BY <1>13, <2>1, <2>2, <2>3 DEF EnableMember
<1>14. ASSUME NEW s \in Slot, DisableMember(s) PROVE CompleteAnchor(t)'
  BY <1>14, <1>m, <1>r, <1>j, <1>d, <1>s DEF DisableMember, SameMember
<1>15. ASSUME NEW s \in Slot, AcknowledgeMemberUpdate(s) PROVE CompleteAnchor(t)'
  <2>0. slot' = slot /\ job' = job /\ loaded' = loaded /\ torn' = torn /\ SetAnchor(s, slot[s].cert)
    BY <1>15 DEF AcknowledgeMemberUpdate
  <2>1. CASE s # t BY <1>15, <2>0, <2>1, <1>a, <1>u, <1>j, <1>s DEF AcknowledgeMemberUpdate, SameMember
  <2>2. CASE s = t BY <2>0, <2>2, <1>a, <1>n, <1>e
  <2> QED BY <2>1, <2>2
<1>16. ASSUME NEW s \in Slot, NEW c \in Cert, NEW r \in Crl \cup {None}, AddHeldMember(s, c, r) PROVE CompleteAnchor(t)'
  <2>0. job' = job /\ slot'[t].cert = slot[t].cert BY <1>16, <1>k DEF AddHeldMember
  <2>1. CASE Tear(s) BY <2>0, <2>1, <1>y
  <2>2. CASE ~Tear(s)
    <3>1. PICK saved \in BOOLEAN :
             /\ IF saved THEN CommitState(s, Enabled(s)) ELSE UNCHANGED <<states, disk>>
             /\ \/ SetAnchor(s, IF saved THEN c ELSE anchors[s]) /\ torn' = torn /\ loaded' = loaded
                \/ ClearCacheLocked
      BY <1>16, <2>2 DEF AddHeldMember
    <3>2. CASE ClearCacheLocked BY <3>2, <1>c
    <3>3. CASE SetAnchor(s, IF saved THEN c ELSE anchors[s]) /\ torn' = torn /\ loaded' = loaded
      <4>1. CASE s # t BY <2>0, <3>1, <3>3, <4>1, <1>a, <1>u, <1>j, <1>s DEF SameMember
      <4>2. CASE s = t /\ saved
        <5>1. loaded => anchors'[t] = slot[t].cert BY <1>16, <3>3, <4>2, <1>a DEF AddHeldMember
        <5> QED BY <2>0, <3>3, <5>1, <1>n, <1>e
      <4>3. CASE s = t /\ ~saved
        <5>1. loaded => anchors'[t] = anchors[t] BY <3>3, <4>3, <1>a
        <5> QED BY <2>0, <3>1, <3>3, <4>3, <5>1, <1>j, <1>n, <1>s DEF SameMember
      <4> QED BY <4>1, <4>2, <4>3
    <3> QED BY <3>1, <3>2, <3>3
  <2> QED BY <2>1, <2>2
<1>17. ASSUME NEW s \in Slot, NEW c \in Cert, NEW r \in Crl \cup {None}, AddNewMember(s, c, r) PROVE CompleteAnchor(t)'
  <2>0. job' = job /\ (s # t => slot'[t] = slot[t]) BY <1>17, <1>x DEF AddNewMember
  <2>1. CASE Tear(s) BY <2>0, <2>1, <1>y
  <2>2. CASE ClearCacheLocked BY <2>2, <1>c
  <2>3. CASE /\ slot' = [slot EXCEPT ![s] = [cert |-> c, crl |-> r]]
             /\ CommitState(s, Enabled(s)) /\ SetMember(s, c, r)
    <3>1. CASE s # t BY <2>0, <2>3, <3>1, <1>m, <1>u, <1>j, <1>s DEF SameMember
    <3>2. CASE s = t
      <4>1. (loaded => anchors'[t] = c) /\ loaded' = loaded BY <2>3, <3>2, <1>m
      <4>2. slot'[t].cert = c BY <2>3, <3>2, <1>x
      <4> QED BY <4>1, <4>2, <1>n, <1>e
    <3> QED BY <3>1, <3>2
  <2> QED BY <1>17, <2>1, <2>2, <2>3 DEF AddNewMember
<1>18. ASSUME NEW s \in Slot, RemoveMember(s) PROVE CompleteAnchor(t)'
  <2>0. job' = job /\ (s # t => slot'[t] = slot[t]) BY <1>18, <1>x DEF RemoveMember
  <2>1. CASE Tear(s) BY <2>0, <2>1, <1>y
  <2>2. CASE ReduceTrust([states EXCEPT ![s].enabled = FALSE]) /\ SetMember(s, None, None)
    BY <2>0, <2>2, <1>m, <1>r, <1>j, <1>d, <1>s DEF SameMember
  <2> QED BY <1>18, <2>1, <2>2 DEF RemoveMember
<1>19. ASSUME NEW s \in Slot, NEW r \in Crl, StoreCrlForMember(s, r) PROVE CompleteAnchor(t)'
  BY <1>19, <1>k, <1>j, <1>y, <1>11 DEF StoreCrlForMember
<1>20. ASSUME NEW s \in Slot, ClearCrlForMember(s) PROVE CompleteAnchor(t)'
  <2>0. job' = job /\ slot'[t].cert = slot[t].cert BY <1>20, <1>k DEF ClearCrlForMember
  <2>1. CASE Tear(s) BY <2>0, <2>1, <1>y
  <2>2. CASE UNCHANGED <<states, loaded, anchors, torn>> BY <2>0, <2>2, <1>j, <1>s DEF SameMember
  <2> QED BY <1>20, <2>1, <2>2 DEF ClearCrlForMember
<1>21. CASE UNCHANGED trustVars
  BY <1>21, <1>j, <1>s DEF trustVars, SameMember
<1> QED
  BY <1>1, <1>2, <1>3, <1>4, <1>6, <1>7, <1>8, <1>9, <1>10, <1>12, <1>13, <1>14, <1>15, <1>16,
     <1>17, <1>18, <1>19, <1>20, <1>21 DEF TrustNext, MutateMember

----------------------------------------------------------------------------
(* Cached CRLs are those of the slots.                                     *)

FreshCrl(s) == crls[s] # None => crls[s] = slot[s].crl \/ CrlPending(s) \/ s \in torn

SameCrl(s) ==
    /\ crls'[s] = crls[s] /\ slot'[s].crl = slot[s].crl
    /\ CrlPending(s) => CrlPending(s)'
    /\ s \in torn => s \in torn'

LEMMA CrlPendingKept ==
    ASSUME JobsOK, NEW w \in Worker, NEW j, job' = [job EXCEPT ![w] = j], NEW s \in Slot,
           job[w] \notin {"notify", "notifyCrl"} \X {s}, CrlPending(s)
    PROVE  CrlPending(s)'
<1>1. PICK v \in Worker : job[v] \in {"notify", "notifyCrl"} \X {s} BY DEF CrlPending
<1>2. v # w /\ job'[v] = job[v] BY <1>1 DEF JobsOK
<1> QED BY <1>1, <1>2 DEF CrlPending

LEMMA FreshStep == StoreInv /\ CachedCrlsFresh /\ [TrustNext]_trustVars => CachedCrlsFresh'
<1> SUFFICES ASSUME StoreInv, CachedCrlsFresh, [TrustNext]_trustVars, NEW t \in Slot
             PROVE  FreshCrl(t)'
  BY DEF CachedCrlsFresh, FreshCrl
<1>p. /\ JobsOK /\ FreshCrl(t) /\ Empty[t] = None
      /\ slot \in [Slot -> Content] /\ crls \in [Slot -> Crl \cup {None}]
      /\ ~loaded => crls[t] = None
  BY StoreParts DEF CachedCrlsFresh, FreshCrl, SlotsOK, CacheOK, Empty
<1>n. crls'[t] = None \/ crls'[t] = slot'[t].crl => FreshCrl(t)' BY DEF FreshCrl
<1>s. SameCrl(t) => FreshCrl(t)' BY <1>p DEF FreshCrl, SameCrl
<1>c. ClearCacheLocked => FreshCrl(t)' BY <1>p, <1>n DEF ClearCacheLocked
<1>j. job' = job => CrlPending(t)' = CrlPending(t) BY DEF CrlPending
<1>w. ASSUME NEW w \in Worker, NEW j, job' = [job EXCEPT ![w] = j], job[w] \notin {"notify", "notifyCrl"} \X {t}
      PROVE  CrlPending(t) => CrlPending(t)'
  BY <1>p, <1>w, CrlPendingKept
<1>i. ASSUME NEW w \in Worker, job[w] = Idle \/ job[w][1] \in {"load", "release"}
      PROVE  job[w] \notin {"notify", "notifyCrl"} \X {t}
  BY <1>i, SMT DEF Idle
<1>a. ASSUME NEW s \in Slot, NEW r, SetCrl(s, r)
      PROVE  /\ s # t => crls'[t] = crls[t]
             /\ s = t => crls'[t] = None \/ crls'[t] = r
  BY <1>p, <1>a DEF SetCrl
<1>m. ASSUME NEW s \in Slot, NEW c, NEW r, SetMember(s, c, r)
      PROVE  /\ s # t => crls'[t] = crls[t] /\ (t \in torn => t \in torn')
             /\ s = t => crls'[t] = None \/ crls'[t] = r
  BY <1>a, <1>m DEF SetMember
<1>k. ASSUME NEW s \in Slot, NEW r, slot' = [slot EXCEPT ![s].crl = r]
      PROVE  (s # t => slot'[t].crl = slot[t].crl) /\ (s = t => slot'[t].crl = r)
  BY <1>p, <1>k DEF Content
<1>x. ASSUME NEW s \in Slot, NEW x, slot' = [slot EXCEPT ![s] = x]
      PROVE  (s # t => slot'[t] = slot[t]) /\ (s = t => slot'[t] = x)
  BY <1>p, <1>x
<1>y. ASSUME NEW s \in Slot, Tear(s), job' = job, s # t => slot'[t].crl = slot[t].crl
      PROVE  FreshCrl(t)'
  <2>1. CASE ~loaded BY <1>y, <2>1, <1>p, <1>n DEF Tear, cache
  <2>2. CASE loaded
    <3>1. crls' = crls /\ torn' = torn \cup {s} BY <1>y, <2>2 DEF Tear, cache
    <3>2. CASE s = t BY <3>1, <3>2 DEF FreshCrl
    <3>3. CASE s # t BY <3>1, <3>3, <1>y, <1>j, <1>s DEF SameCrl
    <3> QED BY <3>2, <3>3
  <2> QED BY <2>1, <2>2
<1>1. CASE UnboundRead
  BY <1>1, <1>p, <1>n DEF UnboundRead, cache
<1>2. CASE Restart
  BY <1>2, <1>c DEF Restart
<1>3. ASSUME NEW w \in Worker, NEW c \in Client, AddRef(w, c) PROVE FreshCrl(t)'
  BY <1>3, <1>i, <1>w, <1>s DEF AddRef, SameCrl, cache
<1>4. ASSUME NEW w \in Worker, LoadCache(w) PROVE FreshCrl(t)'
  <2>0. slot' = slot BY <1>4 DEF LoadCache
  <2>1. CASE loaded
    <3>1. job[w][1] = "load" /\ job' = [job EXCEPT ![w] = Idle] /\ UNCHANGED <<cache, torn>>
      BY <1>4, <2>1 DEF LoadCache, Done
    <3> QED BY <2>0, <3>1, <1>i, <1>w, <1>s DEF SameCrl, cache
  <2>2. CASE ~loaded
    <3>1. PICK r \in ResolveAllLocked :
             \/ UNCHANGED cache
             \/ crls' = [s \in Slot |-> IF Contributes(r.states[s], s) THEN slot[s].crl ELSE None]
      BY <1>4, <2>2 DEF LoadCache
    <3> QED BY <2>0, <2>2, <3>1, <1>p, <1>n DEF cache
  <2> QED BY <2>1, <2>2
<1>5. ASSUME NEW next, EvictUnheld(next), CrlPending(t) => CrlPending(t)' PROVE FreshCrl(t)'
  BY <1>5, <1>c, <1>s DEF EvictUnheld, SameCrl, cache
<1>6. ASSUME NEW w \in Worker, ReleaseFailedRef(w) PROVE FreshCrl(t)'
  BY <1>6, <1>i, <1>w, <1>5 DEF ReleaseFailedRef, Done
<1>7. ASSUME NEW c \in Client, ReleaseRef(c) \/ CleanupClient(c) PROVE FreshCrl(t)'
  BY <1>7, <1>j, <1>5 DEF ReleaseRef, CleanupClient
<1>8. ASSUME NEW w \in Worker, NEW s \in Slot, UpdateSlot(w, s) PROVE FreshCrl(t)'
  <2>2. CASE s = t
    <3>1. CrlPending(t)' BY <1>8, <2>2, <1>p DEF UpdateSlot, NotifySlotChanged, CrlPending, JobsOK
    <3> QED BY <3>1 DEF FreshCrl
  <2>3. CASE s # t
    BY <1>8, <2>3, <1>i, <1>w, <1>x, <1>s DEF UpdateSlot, NotifySlotChanged, SameCrl, cache
  <2> QED BY <2>2, <2>3
<1>9. ASSUME NEW w \in Worker, NEW s \in Slot, UpdateSlotCrl(w, s) PROVE FreshCrl(t)'
  <2>2. CASE s = t
    <3>1. CrlPending(t)' BY <1>9, <2>2, <1>p DEF UpdateSlotCrl, NotifySlotCrlChanged, CrlPending, JobsOK
    <3> QED BY <3>1 DEF FreshCrl
  <2>3. CASE s # t
    BY <1>9, <2>3, <1>i, <1>w, <1>k, <1>s DEF UpdateSlotCrl, NotifySlotCrlChanged, SameCrl, cache
  <2> QED BY <2>2, <2>3
<1>o. ASSUME NEW w \in Worker, job[w][1] \in {"notify", "notifyCrl"}, Done(w), job[w][2] # t
      PROVE  CrlPending(t) => CrlPending(t)'
  <2>1. job[w] \notin {"notify", "notifyCrl"} \X {t} BY <1>o, <1>p, JobKinds, SMT
  <2> QED BY <1>o, <2>1, <1>w DEF Done
<1>10. ASSUME NEW w \in Worker, OnSlotChanged(w) PROVE FreshCrl(t)'
  <2> DEFINE s == job[w][2]
  <2>1. s \in Slot BY <1>10, <1>p, JobKinds DEF OnSlotChanged
  <2>2. s # t => (CrlPending(t) => CrlPending(t)') BY <1>10, <1>o DEF OnSlotChanged
  <2>3. slot' = slot BY <1>10 DEF OnSlotChanged
  <2>4. ASSUME NEW c, NEW r, SetMember(s, c, r), r = None \/ r = slot[s].crl PROVE FreshCrl(t)'
    BY <2>1, <2>2, <2>3, <2>4, <1>m, <1>n, <1>s DEF SameCrl
  <2>5. CASE ~loaded /\ UNCHANGED cache BY <2>5, <1>p, <1>n DEF cache
  <2>6. CASE RefreshMember(s) BY <2>4, <2>6, <1>c DEF RefreshMember
  <2> QED BY <1>10, <2>4, <2>5, <2>6 DEF OnSlotChanged
<1>11. ASSUME NEW s \in Slot, RefreshCrl(s), s # t => slot'[t].crl = slot[t].crl,
              s # t => (CrlPending(t) => CrlPending(t)')
       PROVE  FreshCrl(t)'
  <2>1. CASE ClearCacheLocked BY <2>1, <1>c
  <2>2. CASE SetCrl(s, IF anchors[s] # None THEN slot'[s].crl ELSE None) /\ torn' = torn
    BY <1>11, <2>2, <1>a, <1>n, <1>s DEF SameCrl
  <2> QED BY <1>11, <2>1, <2>2 DEF RefreshCrl
<1>12. ASSUME NEW w \in Worker, OnSlotCrlChanged(w) PROVE FreshCrl(t)'
  <2>1. job[w][2] \in Slot BY <1>12, <1>p, JobKinds DEF OnSlotCrlChanged
  <2> QED BY <1>12, <2>1, <1>o, <1>11 DEF OnSlotCrlChanged
<1>13. ASSUME NEW s \in Slot, EnableMember(s) PROVE FreshCrl(t)'
  <2>1. UNCHANGED <<slot, crls, job>> /\ (t \in torn => t \in torn') BY <1>13 DEF EnableMember
  <2> QED BY <2>1, <1>j, <1>s DEF SameCrl
<1>14. ASSUME NEW s \in Slot, DisableMember(s) PROVE FreshCrl(t)'
  BY <1>14, <1>m, <1>j, <1>n, <1>s DEF DisableMember, SameCrl
<1>15. ASSUME NEW s \in Slot, AcknowledgeMemberUpdate(s) PROVE FreshCrl(t)'
  BY <1>15, <1>j, <1>s DEF AcknowledgeMemberUpdate, SameCrl
<1>16. ASSUME NEW s \in Slot, NEW c \in Cert, NEW r \in Crl \cup {None}, AddHeldMember(s, c, r) PROVE FreshCrl(t)'
  <2>0. slot' = [slot EXCEPT ![s].crl = IF r = None THEN slot[s].crl ELSE r] /\ job' = job
    BY <1>16, <1>p DEF AddHeldMember
  <2>1. CASE Tear(s) BY <2>0, <2>1, <1>k, <1>y
  <2>2. CASE ClearCacheLocked BY <2>2, <1>c
  <2>3. CASE SetCrl(s, IF r = None THEN crls[s] ELSE r) /\ torn' = torn
    <3>1. CASE s # t BY <2>0, <2>3, <3>1, <1>k, <1>a, <1>j, <1>s DEF SameCrl
    <3>2. CASE s = t /\ r # None
      <4>1. slot'[t].crl = r BY <2>0, <3>2, <1>k
      <4> QED BY <2>3, <3>2, <4>1, <1>a, <1>n
    <3>3. CASE s = t /\ r = None
      <4>1. slot'[t].crl = slot[t].crl BY <2>0, <3>3, <1>k
      <4>2. crls'[t] = None \/ crls'[t] = crls[t] BY <2>3, <3>3, <1>a
      <4> QED BY <2>0, <2>3, <4>1, <4>2, <1>j, <1>n, <1>s DEF SameCrl
    <3> QED BY <3>1, <3>2, <3>3
  <2> QED BY <1>16, <2>1, <2>2, <2>3 DEF AddHeldMember
<1>17. ASSUME NEW s \in Slot, NEW c \in Cert, NEW r \in Crl \cup {None}, AddNewMember(s, c, r) PROVE FreshCrl(t)'
  <2>0. job' = job /\ (s # t => slot'[t] = slot[t]) BY <1>17, <1>x DEF AddNewMember
  <2>1. CASE Tear(s) BY <2>0, <2>1, <1>y
  <2>2. CASE ClearCacheLocked BY <2>2, <1>c
  <2>3. CASE slot' = [slot EXCEPT ![s] = [cert |-> c, crl |-> r]] /\ SetMember(s, c, r)
    <3>1. CASE s # t BY <2>0, <2>3, <3>1, <1>m, <1>j, <1>s DEF SameCrl
    <3>2. CASE s = t
      <4>1. crls'[t] = None \/ crls'[t] = r BY <2>3, <3>2, <1>m
      <4>2. slot'[t].crl = r BY <2>3, <3>2, <1>x
      <4> QED BY <4>1, <4>2, <1>n
    <3> QED BY <3>1, <3>2
  <2> QED BY <1>17, <2>1, <2>2, <2>3 DEF AddNewMember
<1>18. ASSUME NEW s \in Slot, RemoveMember(s) PROVE FreshCrl(t)'
  <2>0. job' = job /\ (s # t => slot'[t] = slot[t]) BY <1>18, <1>x DEF RemoveMember
  <2>1. CASE Tear(s) BY <2>0, <2>1, <1>y
  <2>2. CASE SetMember(s, None, None) BY <2>0, <2>2, <1>m, <1>j, <1>n, <1>s DEF SameCrl
  <2> QED BY <1>18, <2>1, <2>2 DEF RemoveMember
<1>19. ASSUME NEW s \in Slot, NEW r \in Crl, StoreCrlForMember(s, r) PROVE FreshCrl(t)'
  BY <1>19, <1>k, <1>j, <1>y, <1>11 DEF StoreCrlForMember
<1>20. ASSUME NEW s \in Slot, ClearCrlForMember(s) PROVE FreshCrl(t)'
  <2>0. job' = job /\ (s # t => slot'[t].crl = slot[t].crl) BY <1>20, <1>k DEF ClearCrlForMember
  <2>1. CASE Tear(s) BY <2>0, <2>1, <1>y
  <2>2. CASE SetCrl(s, None) /\ torn' = torn BY <2>0, <2>2, <1>a, <1>j, <1>n, <1>s DEF SameCrl
  <2> QED BY <1>20, <2>1, <2>2 DEF ClearCrlForMember
<1>21. CASE UNCHANGED trustVars
  BY <1>21, <1>j, <1>s DEF trustVars, SameCrl
<1> QED
  BY <1>1, <1>2, <1>3, <1>4, <1>6, <1>7, <1>8, <1>9, <1>10, <1>12, <1>13, <1>14, <1>15, <1>16,
     <1>17, <1>18, <1>19, <1>20, <1>21 DEF TrustNext, MutateMember

----------------------------------------------------------------------------
(* Theorems.                                                               *)

TrustInv == StoreInv /\ WarmOnlyWhileHeld /\ AnchorsTrusted /\ AnchorsComplete /\ CachedCrlsFresh

LEMMA TrustInvariance == TrustSpec => []TrustInv
<1>1. TrustInit => TrustInv
  <2>1. TrustInit => WarmOnlyWhileHeld BY DEF TrustInit, WarmOnlyWhileHeld
  <2>2. TrustInit => AnchorsTrusted BY DEF TrustInit, AnchorsTrusted, Empty
  <2>3. TrustInit => AnchorsComplete BY DEF TrustInit, AnchorsComplete
  <2>4. TrustInit => CachedCrlsFresh BY DEF TrustInit, CachedCrlsFresh, Empty
  <2> QED BY <2>1, <2>2, <2>3, <2>4, StoreInit DEF TrustInv
<1>2. TrustInv /\ [TrustNext]_trustVars => TrustInv'
  BY StoreStep, WarmStep, AnchorStep, CompleteStep, FreshStep DEF TrustInv
<1> QED BY <1>1, <1>2, PTL DEF TrustSpec

\* The state of a trust store and of its references is well typed, and no
\* reference count of ReleaseRef goes below zero.
THEOREM TrustTypeCorrect == TrustSpec => []TrustTypeOK
<1>1. TrustInv => TrustTypeOK BY DEF TrustInv, StoreInv
<1> QED BY <1>1, TrustInvariance, PTL

\* Whatever writes of the state descriptor fail, and wherever the daemon is
\* restarted, m_states never enables or accepts more than the descriptor does.
THEOREM NeverTrustsMoreHolds == TrustSpec => []NeverTrustsMore
<1>1. TrustInv => NeverTrustsMore BY DEF TrustInv, StoreInv
<1> QED BY <1>1, TrustInvariance, PTL

\* Every anchor that GetAnchors serves from the cache belongs to an enabled
\* member and, for a conditional one, is the accepted certificate.
THEOREM AnchorsTrustedHolds == TrustSpec => []AnchorsTrusted
<1>1. TrustInv => AnchorsTrusted BY DEF TrustInv
<1> QED BY <1>1, TrustInvariance, PTL

\* GetAnchors of a warm store leaves out no trusted member, but for a slot write
\* whose OnSlotChanged is still to come and a failed write of the store itself.
THEOREM AnchorsCompleteHolds == TrustSpec => []AnchorsComplete
<1>1. TrustInv => AnchorsComplete BY DEF TrustInv
<1> QED BY <1>1, TrustInvariance, PTL

\* GetCrls of a warm store serves no CRL that its slot no longer holds, but for
\* a notification still to come and a failed write of the store itself.
THEOREM CachedCrlsFreshHolds == TrustSpec => []CachedCrlsFresh
<1>1. TrustInv => CachedCrlsFresh BY DEF TrustInv
<1> QED BY <1>1, TrustInvariance, PTL

\* Interleaved AddRef, ReleaseRef and CleanupClient of any number of clients
\* leave no warm cache without a holder.
THEOREM WarmOnlyWhileHeldHolds == TrustSpec => []WarmOnlyWhileHeld
<1>1. TrustInv => WarmOnlyWhileHeld BY DEF TrustInv
<1> QED BY <1>1, TrustInvariance, PTL

=============================================================================
