------------------------------ MODULE TrustStore ------------------------------
(***************************************************************************)
(* One trust store: TrustStoreHandler, the references that                 *)
(* TrustStoreManager counts for it, and the slot writes of                 *)
(* CertManagementService that it is notified of                            *)
(* (daemon/cert_management/truststore, core).                              *)
(*                                                                         *)
(* An operation of the handler holds the handler's mutex, also over its    *)
(* reads and writes of slots and of the state descriptor, and is one step. *)
(* Two operations are not: AddRef counts under the manager's mutex, loads  *)
(* the cache under the handler's and takes the count back when the load    *)
(* fails; UpdateSlot writes the slot and then notifies the store.  Each    *)
(* read of a slot and each write may fail.  A failed write of a slot may   *)
(* have changed it; a failed write of the descriptor leaves it as it was   *)
(* (it is renamed into place).  Exclusive slots are written by the store   *)
(* only (the configuration's rule for allowed_write_uids).                 *)
(***************************************************************************)
EXTENDS Integers, FiniteSets, Sequences

CONSTANTS
    Client, Worker, Cert, Crl,
    Writers,        \* the clients whose uid is in the store's allowed_write_uids
    None,           \* no certificate, no CRL, no accepted fingerprint
    Kind,           \* the members' kinds, in the order of the configuration
    AcceptCurrent,  \* conditional_slot_initialization is kEnableAndAcceptCurrent
    MaxRefs         \* bound on a client's references

Slot == DOMAIN Kind

\* What ValidateMembers asks for is that members are slots, each listed once.
ASSUME TrustConstantsOK ==
    /\ Kind \in Seq({"static", "exclusive", "conditional"})
    /\ None \notin Cert \cup Crl
    /\ IsFiniteSet(Worker)
    /\ AcceptCurrent \in BOOLEAN
    /\ MaxRefs \in Nat

VARIABLES
    slot,                   \* the contents of the member slots
    disk,                   \* the state descriptor; a missing entry is Default
    states,                 \* m_states; a missing entry is Default
    loaded, anchors, crls,  \* m_loaded, m_slots, m_crls
    refs,                   \* m_client_ref_counts
    job,                    \* what each worker is in the middle of
    torn                    \* members a failed operation left unlike the cache (history)

cache == <<loaded, anchors, crls>>
trustVars == <<slot, disk, states, loaded, anchors, crls, refs, job, torn>>

Content == [cert : Cert \cup {None}, crl : Crl \cup {None}]
NoContent == [cert |-> None, crl |-> None]
MemberState == [enabled : BOOLEAN, accepted : Cert \cup {None}]
Default == [enabled |-> TRUE, accepted |-> None]
Empty == [s \in Slot |-> None]
Idle == <<"idle">>
Job == {Idle} \cup ({"load", "release"} \X Client) \cup ({"notify", "notifyCrl"} \X Slot)

TrustInit ==
    /\ slot = [s \in Slot |-> NoContent]
    /\ disk = [s \in Slot |-> Default]
    /\ states = disk
    /\ loaded = FALSE /\ anchors = Empty /\ crls = Empty
    /\ refs = [c \in Client |-> 0]
    /\ job = [w \in Worker |-> Idle]
    /\ torn = {}

----------------------------------------------------------------------------
(* Member state and cache.                                                 *)

\* PersistStateLocked: a descriptor entry is replaced, never removed.
Written(next) ==
    [s \in Slot |-> [next[s] EXCEPT !.accepted = IF @ = None THEN disk[s].accepted ELSE @]]

\* A reduction of trust holds in memory also when it cannot be saved.
ReduceTrust(next) ==
    /\ states' = next
    /\ disk' \in {disk, Written(next)}

\* An increase of trust is saved first; when that fails nothing changes.
CommitState(s, next) ==
    /\ states' = [states EXCEPT ![s] = next]
    /\ disk' = Written(states')

ClearCacheLocked ==
    /\ loaded' = FALSE /\ anchors' = Empty /\ crls' = Empty
    /\ torn' = {}

\* SetAnchorLocked and SetCrlLocked do nothing on a cold store.
SetAnchor(s, c) == anchors' = IF loaded THEN [anchors EXCEPT ![s] = c] ELSE anchors

SetCrl(s, r) == crls' = IF loaded THEN [crls EXCEPT ![s] = r] ELSE crls

\* An error is returned and the cache kept, although slot s has changed.
Tear(s) ==
    /\ torn' = IF loaded THEN torn \cup {s} ELSE torn
    /\ UNCHANGED <<states, disk, cache>>

SetMember(s, c, r) ==
    /\ SetAnchor(s, c) /\ SetCrl(s, r)
    /\ loaded' = loaded
    /\ torn' = torn \ {s}

----------------------------------------------------------------------------
(* Resolution of members.                                                  *)

\* The gate of ResolveMemberContentLocked for a certificate that was read.
Gate(s) ==
    LET c == slot[s].cert IN
    IF Kind[s] = "conditional" /\ states[s].enabled /\ c # None /\ states[s].accepted # c
    THEN IF states[s].accepted = None /\ AcceptCurrent THEN [states[s] EXCEPT !.accepted = c]
         ELSE [states[s] EXCEPT !.enabled = FALSE]
    ELSE states[s]

Contributes(state, s) == state.enabled /\ slot[s].cert # None

\* How far ResolveAllLocked comes: to the end, or to a member whose certificate
\* or (after the gate) whose CRL cannot be read.
Reached ==
    {[members |-> Slot, ok |-> TRUE]}
      \cup {[members |-> 1..(s - 1), ok |-> FALSE] : s \in {t \in Slot : states[t].enabled}}
      \cup {[members |-> 1..s, ok |-> FALSE] : s \in {t \in Slot : Contributes(Gate(t), t)}}

\* Changed states are saved; when that fails the acceptances made here are
\* undone and, if there were any, the resolution fails.
ResolveAll_KeepsAcceptance ==
    UNION {
      LET next == [s \in Slot |-> IF s \in r.members THEN Gate(s) ELSE states[s]]
      IN IF next = states THEN {[states |-> states, disk |-> disk, ok |-> r.ok]}
         ELSE {[states |-> next, disk |-> d, ok |-> r.ok] : d \in {disk, Written(next)}}
      : r \in Reached}

ResolveAllLocked ==
    UNION {
      LET next == [s \in Slot |-> IF s \in r.members THEN Gate(s) ELSE states[s]]
          undone == [s \in Slot |-> IF next[s].accepted = states[s].accepted THEN next[s]
                                    ELSE [next[s] EXCEPT !.accepted = None]]
      IN IF next = states THEN {[states |-> states, disk |-> disk, ok |-> r.ok]}
         ELSE {[states |-> next, disk |-> Written(next), ok |-> r.ok],
               [states |-> undone, disk |-> disk, ok |-> r.ok /\ undone = next]}
      : r \in Reached}

\* GetAnchors and GetCrls on a cold store; on a warm one they change nothing.
UnboundRead ==
    /\ ~loaded
    /\ \E r \in ResolveAllLocked : states' = r.states /\ disk' = r.disk
    /\ UNCHANGED <<slot, cache, refs, job, torn>>

----------------------------------------------------------------------------
(* References.                                                             *)

Done(w) == job' = [job EXCEPT ![w] = Idle]

AddRef(w, c) ==
    /\ job[w] = Idle /\ refs[c] < MaxRefs
    /\ refs' = [refs EXCEPT ![c] = @ + 1]
    /\ job' = [job EXCEPT ![w] = <<"load", c>>]
    /\ UNCHANGED <<slot, disk, states, cache, torn>>

LoadCache(w) ==
    /\ job[w][1] = "load"
    /\ \/ /\ loaded
          /\ Done(w)
          /\ UNCHANGED <<disk, states, cache, torn>>
       \/ /\ ~loaded
          /\ \E r \in ResolveAllLocked :
                /\ states' = r.states /\ disk' = r.disk
                /\ \/ /\ r.ok
                      /\ loaded' = TRUE
                      /\ anchors' = [s \in Slot |-> IF Contributes(r.states[s], s) THEN slot[s].cert ELSE None]
                      /\ crls' = [s \in Slot |-> IF Contributes(r.states[s], s) THEN slot[s].crl ELSE None]
                      /\ torn' = {}
                      /\ Done(w)
                   \/ /\ ~r.ok
                      /\ job' = [job EXCEPT ![w] = <<"release", job[w][2]>>]
                      /\ UNCHANGED <<cache, torn>>
    /\ UNCHANGED <<slot, refs>>

\* MaybeEvictAnchorCache
EvictUnheld(next) ==
    /\ refs' = next
    /\ IF \A c \in Client : next[c] = 0 THEN ClearCacheLocked ELSE UNCHANGED <<cache, torn>>
    /\ UNCHANGED <<slot, disk, states>>

\* Taken by AddRef when the load failed.
ReleaseFailedRef(w) ==
    /\ job[w][1] = "release"
    /\ EvictUnheld([refs EXCEPT ![job[w][2]] = @ - 1])
    /\ Done(w)

\* References of c that AddRef has not returned yet.
Binding(c) == {w \in Worker : job[w] \in {"load", "release"} \X {c}}

\* A context releases a reference that AddRef returned.
ReleaseRef(c) ==
    /\ refs[c] > Cardinality(Binding(c))
    /\ EvictUnheld([refs EXCEPT ![c] = @ - 1])
    /\ UNCHANGED job

\* The client is gone and none of its requests is running.
CleanupClient_KeepsCache(c) ==
    /\ refs[c] > 0 /\ Binding(c) = {}
    /\ refs' = [refs EXCEPT ![c] = 0]
    /\ UNCHANGED <<slot, disk, states, cache, job, torn>>

CleanupClient(c) ==
    /\ refs[c] > 0 /\ Binding(c) = {}
    /\ EvictUnheld([refs EXCEPT ![c] = 0])
    /\ UNCHANGED job

\* The daemon stops at any point and starts again (LoadState).
Restart ==
    /\ states' = disk
    /\ ClearCacheLocked
    /\ refs' = [c \in Client |-> 0]
    /\ job' = [w \in Worker |-> Idle]
    /\ UNCHANGED <<slot, disk>>

----------------------------------------------------------------------------
(* Slot writes of other users, and their notifications.                    *)

\* The service tells the store of the write after it.
NotifySlotChanged(w, s) == job' = [job EXCEPT ![w] = <<"notify", s>>]

NotifySlotCrlChanged(w, s) == job' = [job EXCEPT ![w] = <<"notifyCrl", s>>]

\* UpdateSlot and ClearSlot, which drop the slot's CRL; a failed write that
\* reached the backend is notified too, also when it changed nothing.
UpdateSlot(w, s) ==
    /\ job[w] = Idle /\ Kind[s] # "exclusive"
    /\ \E x \in {slot[s]} \cup [cert : Cert \cup {None}, crl : {None}] : slot' = [slot EXCEPT ![s] = x]
    /\ NotifySlotChanged(w, s)
    /\ UNCHANGED <<disk, states, cache, refs, torn>>

\* UpdateSlot with a CRL and ClearSlotCrl
UpdateSlotCrl(w, s) ==
    /\ job[w] = Idle /\ Kind[s] # "exclusive"
    /\ \E r \in Crl \cup {None} : slot' = [slot EXCEPT ![s].crl = r]
    /\ NotifySlotCrlChanged(w, s)
    /\ UNCHANGED <<disk, states, cache, refs, torn>>

\* RefreshMemberLocked; a member that cannot be read leaves the store cold.
RefreshMember(s) ==
    \/ SetMember(s, IF Contributes(states[s], s) THEN slot[s].cert ELSE None,
                    IF Contributes(states[s], s) THEN slot[s].crl ELSE None)
    \/ states[s].enabled /\ ClearCacheLocked

\* RefreshActiveMemberCrlLocked, after any write of the slot in the same step.
RefreshCrl_KeepsCached(s) ==
    /\ SetCrl(s, IF anchors[s] # None THEN IF crls[s] # None THEN crls[s] ELSE slot'[s].crl ELSE None)
    /\ UNCHANGED <<loaded, anchors, torn>>

RefreshCrl(s) ==
    \/ /\ SetCrl(s, IF anchors[s] # None THEN slot'[s].crl ELSE None)
       /\ UNCHANGED <<loaded, anchors, torn>>
    \/ /\ loaded /\ anchors[s] # None
       /\ ClearCacheLocked

AcceptedFingerprintMatches(s) == states[s].accepted # None /\ slot[s].cert = states[s].accepted

\* A conditional member is disabled when its certificate is not the accepted
\* one or cannot be read.
OnSlotChanged(w) ==
    /\ job[w][1] = "notify"
    /\ LET s == job[w][2] IN
          \/ /\ Kind[s] = "conditional"
             /\ IF states[s].enabled THEN ReduceTrust([states EXCEPT ![s].enabled = FALSE])
                ELSE UNCHANGED <<states, disk>>
             /\ SetMember(s, None, None)
          \/ /\ Kind[s] = "conditional" => AcceptedFingerprintMatches(s)
             /\ IF loaded THEN RefreshMember(s) ELSE UNCHANGED <<cache, torn>>
             /\ UNCHANGED <<states, disk>>
    /\ Done(w)
    /\ UNCHANGED <<slot, refs>>

OnSlotCrlChanged(w) ==
    /\ job[w][1] = "notifyCrl"
    /\ slot' = slot
    /\ RefreshCrl(job[w][2])
    /\ Done(w)
    /\ UNCHANGED <<disk, states, refs>>

----------------------------------------------------------------------------
(* Member mutations.                                                       *)

Enabled(s) == [states[s] EXCEPT !.enabled = TRUE]

\* A conditional member must hold the accepted certificate; for another one a
\* certificate that cannot be read counts as none.
EnableMember_Unchecked(s) ==
    /\ CommitState(s, Enabled(s))
    /\ SetAnchor(s, slot[s].cert)
    /\ UNCHANGED <<slot, loaded, crls, refs, job, torn>>

EnableMember(s) ==
    /\ Kind[s] = "conditional" => AcceptedFingerprintMatches(s)
    /\ CommitState(s, Enabled(s))
    /\ \/ SetAnchor(s, slot[s].cert) /\ torn' = torn
       \/ /\ Kind[s] # "conditional"
          /\ SetAnchor(s, None)
          /\ torn' = IF loaded THEN torn \cup {s} ELSE torn
    /\ UNCHANGED <<slot, loaded, crls, refs, job>>

DisableMember(s) ==
    /\ ReduceTrust([states EXCEPT ![s].enabled = FALSE])
    /\ SetMember(s, None, None)
    /\ UNCHANGED <<slot, refs, job>>

\* The caller names the certificate that the slot holds now.
AcknowledgeMemberUpdate_Unpublished(s) ==
    /\ Kind[s] = "conditional" /\ slot[s].cert # None
    /\ CommitState(s, [enabled |-> TRUE, accepted |-> slot[s].cert])
    /\ UNCHANGED <<slot, cache, refs, job, torn>>

AcknowledgeMemberUpdate(s) ==
    /\ Kind[s] = "conditional" /\ slot[s].cert # None
    /\ CommitState(s, [enabled |-> TRUE, accepted |-> slot[s].cert])
    /\ SetAnchor(s, slot[s].cert)
    /\ UNCHANGED <<slot, loaded, crls, refs, job, torn>>

\* AddMember of a certificate that a member holds: an exclusive member gets the
\* CRL and is enabled again; of another kind nothing is changed.
AddHeldMember(s, c, r) ==
    /\ Kind[s] = "exclusive" /\ slot[s].cert = c
    /\ \A t \in 1..(s - 1) : slot[t].cert # c
    /\ slot' = [slot EXCEPT ![s].crl = IF r = None THEN @ ELSE r]
    /\ \/ r # None /\ Tear(s)
       \/ \E saved \in BOOLEAN :
             /\ IF saved THEN CommitState(s, Enabled(s)) ELSE UNCHANGED <<states, disk>>
             /\ \/ /\ SetAnchor(s, IF saved THEN c ELSE anchors[s])
                   /\ SetCrl(s, IF r = None THEN crls[s] ELSE r)
                   /\ UNCHANGED <<loaded, torn>>
                \/ r # None /\ loaded /\ ClearCacheLocked
    /\ UNCHANGED <<refs, job>>

\* AddMember of a certificate that no member holds, into an empty exclusive
\* slot.  After an error the slot is cleared, which may fail as well.
AddNewMember(s, c, r) ==
    /\ Kind[s] = "exclusive" /\ slot[s].cert = None
    /\ \A t \in Slot : slot[t].cert # c
    /\ \/ /\ slot' = [slot EXCEPT ![s] = [cert |-> c, crl |-> r]]
          /\ CommitState(s, Enabled(s))
          /\ SetMember(s, c, r) \/ (loaded /\ ClearCacheLocked)
       \/ /\ \E left \in {NoContent} \cup [cert : {c}, crl : {None, r}] : slot' = [slot EXCEPT ![s] = left]
          /\ Tear(s)
    /\ UNCHANGED <<refs, job>>

RemoveMember(s) ==
    /\ Kind[s] = "exclusive" /\ slot[s].cert # None
    /\ slot' = [slot EXCEPT ![s] = NoContent]
    /\ \/ /\ ReduceTrust([states EXCEPT ![s].enabled = FALSE])
          /\ SetMember(s, None, None)
       \/ Tear(s)
    /\ UNCHANGED <<refs, job>>

StoreCrlForMember(s, r) ==
    /\ Kind[s] = "exclusive"
    /\ slot' = [slot EXCEPT ![s].crl = r]
    /\ \/ RefreshCrl(s) /\ UNCHANGED <<states, disk>>
       \/ Tear(s)
    /\ UNCHANGED <<refs, job>>

ClearCrlForMember(s) ==
    /\ Kind[s] = "exclusive"
    /\ slot' = [slot EXCEPT ![s].crl = None]
    /\ \/ SetCrl(s, None) /\ UNCHANGED <<states, disk, loaded, anchors, torn>>
       \/ Tear(s)
    /\ UNCHANGED <<refs, job>>

\* Without an explicit writer nobody may change the store.
CheckTrustStoreWritePermission(c) == c \in Writers

\* The manager's operations of the same names: the permission, then the handler.
MutateMember(c, s) ==
    /\ CheckTrustStoreWritePermission(c)
    /\ \/ EnableMember(s) \/ DisableMember(s) \/ AcknowledgeMemberUpdate(s)
       \/ RemoveMember(s) \/ ClearCrlForMember(s)
       \/ \E r \in Crl : StoreCrlForMember(s, r)
       \/ \E x \in Cert, r \in Crl \cup {None} : AddHeldMember(s, x, r) \/ AddNewMember(s, x, r)

TrustNext ==
    \/ UnboundRead \/ Restart
    \/ \E w \in Worker :
          \/ LoadCache(w) \/ ReleaseFailedRef(w)
          \/ OnSlotChanged(w) \/ OnSlotCrlChanged(w)
          \/ \E c \in Client : AddRef(w, c)
          \/ \E s \in Slot : UpdateSlot(w, s) \/ UpdateSlotCrl(w, s)
    \/ \E c \in Client :
          \/ ReleaseRef(c) \/ CleanupClient(c)
          \/ \E s \in Slot : MutateMember(c, s)

TrustSpec == TrustInit /\ [][TrustNext]_trustVars

----------------------------------------------------------------------------
(* Properties.                                                             *)

\* OnSlotChanged, or either notification, of slot s is still to come.
CertPending(s) == \E w \in Worker : job[w] = <<"notify", s>>
CrlPending(s) == \E w \in Worker : job[w] \in {"notify", "notifyCrl"} \X {s}

\* The state is well typed and a cold store (m_loaded is false) caches nothing.
TrustTypeOK ==
    /\ slot \in [Slot -> Content]
    /\ disk \in [Slot -> MemberState] /\ states \in [Slot -> MemberState]
    /\ loaded \in BOOLEAN
    /\ anchors \in [Slot -> Cert \cup {None}] /\ crls \in [Slot -> Crl \cup {None}]
    /\ refs \in [Client -> Nat]
    /\ job \in [Worker -> Job]
    /\ torn \subseteq Slot
    /\ ~loaded => anchors = Empty /\ crls = Empty

\* The running store never trusts more than a restart would: a member enabled
\* in memory is enabled in the descriptor, with the same accepted fingerprint,
\* whatever descriptor writes of CommitStateLocked, ResolveAllLocked and the
\* reductions have failed.
NeverTrustsMore ==
    \A s \in Slot :
        /\ states[s].enabled => disk[s].enabled
        /\ states[s].accepted = disk[s].accepted

\* A cached anchor belongs to an enabled member, a conditional one to the
\* certificate that was accepted, and it is the certificate in the slot unless
\* OnSlotChanged is still to come or a write of the store failed.
AnchorsTrusted ==
    \A s \in Slot : anchors[s] # None =>
        /\ states[s].enabled
        /\ Kind[s] = "conditional" => states[s].accepted = anchors[s]
        /\ anchors[s] = slot[s].cert \/ CertPending(s) \/ s \in torn

\* GetAnchors of a warm store is complete: an enabled member that holds a
\* certificate (a conditional one, the accepted certificate) has its anchor in
\* the cache, with the same two exceptions.
AnchorsComplete ==
    loaded => \A s \in Slot :
        (/\ states[s].enabled /\ slot[s].cert # None
         /\ Kind[s] = "conditional" => AcceptedFingerprintMatches(s))
        => anchors[s] = slot[s].cert \/ CertPending(s) \/ s \in torn

\* A cached CRL is the one in the slot, unless a notification of the slot is
\* still to come or a write of the store failed.
CachedCrlsFresh ==
    \A s \in Slot : crls[s] # None => crls[s] = slot[s].crl \/ CrlPending(s) \/ s \in torn

\* The cache is warm only while AddRef's references are held, also when loads,
\* releases and CleanupClient of several clients interleave.
WarmOnlyWhileHeld == loaded => \E c \in Client : refs[c] > 0

\* GetCrls of a warm store omits no CRL: an anchor whose slot has a CRL comes
\* with it, with the exceptions of CachedCrlsFresh.
CrlsNotOmitted ==
    \A s \in Slot : anchors[s] # None /\ slot[s].crl # None =>
        crls[s] # None \/ CrlPending(s) \/ s \in torn

=============================================================================
