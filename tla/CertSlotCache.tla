---------------------------- MODULE CertSlotCache ----------------------------
(***************************************************************************)
(* One certificate slot: CertSlotManager with its caches, over a           *)
(* FileBackedSlotHandler with its CRL storage                              *)
(* (daemon/cert_management/slot).                                          *)
(*                                                                         *)
(* m_mutex protects the caches and is not held over a handler call; the    *)
(* handler serializes its own operations.  So a load is a lookup, one      *)
(* handler call (two for the CRL state) and an update of the cache, a      *)
(* write is a handler call and an invalidation, and the steps of different *)
(* workers interleave.  A write of the handler is a sequence of file       *)
(* operations that may each fail: it has one outcome for each failure.     *)
(* A request without access, and a handler call that fails before its      *)
(* first file operation succeeds, change nothing.                          *)
(*                                                                         *)
(* Cert and Crl are the contents of the files; the metadata of a CRL is    *)
(* named by the CRL.  The files are parsed by OpenSslCertParser.           *)
(***************************************************************************)
EXTENDS Integers

CONSTANTS
    Worker, Cert, Crl,
    Bundle,        \* contents of a certificate file that are not exactly one certificate
    Unnamed,       \* certificates without a subject, an issuer or a validity
    Issued,        \* <<c, r>>: r names c as its issuer, has c's signature and a nextUpdate
    None,          \* no certificate, no CRL, no metadata
    Unset,         \* a CRL state that was not loaded
    TwoFailures,   \* may two file operations of one write fail?
    MaxGeneration  \* bound on both generations

State == [has : BOOLEAN, meta : Crl \cup {None}]

\* named: the descriptor has the path of the certificate; listed: its [crl]
\* section has a format; meta: the CRL whose metadata that section has; path:
\* it has a path.  crlFor: the certificate in the slot when the CRL was stored.
SlotState == [cert : Cert \cup {None}, named : BOOLEAN, crl : Crl \cup {None}, listed : BOOLEAN,
              meta : Crl \cup {None}, path : BOOLEAN, crlFor : Cert \cup {None}]

ASSUME SlotConstantsOK ==
    /\ None \notin Cert \cup Crl
    /\ Unset \notin State
    /\ TwoFailures \in BOOLEAN
    /\ MaxGeneration \in Nat

VARIABLES
    store,                          \* the files of the slot
    cert, certGen,                  \* SlotCache: the certificate
    crlState, crlSnapshot, crlGen,  \* SlotCache: the CRL
    pc, gen, loaded                 \* each worker's call

cache == <<cert, certGen, crlState, crlSnapshot, crlGen>>
call == <<pc, gen, loaded>>
slotVars == <<store, cert, certGen, crlState, crlSnapshot, crlGen, pc, gen, loaded>>

----------------------------------------------------------------------------
(* What the handler reads.                                                 *)

ParseSingleCertificate(f) == IF f \in Bundle THEN None ELSE f

BuildObject(x) == IF x \in Unnamed THEN None ELSE x

ParseCertificate(f) == BuildObject(ParseSingleCertificate(f))

LoadCertificateUnlocked == IF store.named THEN ParseCertificate(store.cert) ELSE None

HasCrl == store.path /\ store.listed /\ store.crl # None

LoadCrlData == IF HasCrl THEN store.crl ELSE None

\* FileBackedCrlStorage::GetCrlMetadata.
CachedMetadata == IF HasCrl THEN store.meta ELSE None

ValidateCrl(r, c) == IF <<c, r>> \in Issued THEN r ELSE None

\* None as well when the certificate cannot be read: that is not an error.
DeriveCrlMetadata == {None, ValidateCrl(store.crl, LoadCertificateUnlocked)}

\* FileBackedSlotHandler::GetCrlMetadata: what a read may give.
GetCrlMetadata ==
    IF HasCrl /\ CachedMetadata = None THEN DeriveCrlMetadata ELSE {CachedMetadata}

\* The states that a read of the slot may give.
StoredStates == {[has |-> HasCrl, meta |-> m] : m \in GetCrlMetadata}

----------------------------------------------------------------------------
(* What the handler writes: the outcomes of each operation, in the order   *)
(* in which its file operations fail.                                      *)

Unlisted(s) == [s EXCEPT !.listed = FALSE, !.meta = None]

\* The certificate, then the old CRL (best effort), then the descriptor.
StoreCertificate_KeepsSection(s, c) ==
    LET written == [s EXCEPT !.cert = c]
        removed == IF s.path THEN [written EXCEPT !.crl = None] ELSE written
    IN {removed} \cup {[w EXCEPT !.named = TRUE] : w \in {written, removed}}

StoreCertificate(s, c) ==
    LET written == [s EXCEPT !.cert = c]
        removed == IF s.path THEN [written EXCEPT !.crl = None] ELSE written
    IN {removed}
         \cup (IF TwoFailures THEN {written} ELSE {})
         \cup {Unlisted([w EXCEPT !.named = TRUE]) : w \in {written, removed}}

\* The certificate, then the CRL, then the descriptor.
ClearSlot(s) ==
    LET noCert == IF s.named THEN [s EXCEPT !.cert = None] ELSE s
        noCrl == IF s.path THEN [noCert EXCEPT !.crl = None] ELSE noCert
    IN {noCert, noCrl, Unlisted(noCrl)}

\* The CRL, then the descriptor; the metadata is optional.
StoreCrl(s, r) ==
    LET written == [s EXCEPT !.crl = r, !.crlFor = s.cert]
    IN {written} \cup {[written EXCEPT !.path = TRUE, !.listed = TRUE, !.meta = m] : m \in {r, None}}

ClearCrl(s) ==
    LET removed == IF s.path THEN [s EXCEPT !.crl = None] ELSE s
    IN {removed, Unlisted(removed)}

----------------------------------------------------------------------------
\* The locals of a load: cert_obj, state, snapshot.
Blank == [cert |-> None, state |-> [has |-> FALSE, meta |-> None], crl |-> None]

Empty == [cert |-> None, named |-> FALSE, crl |-> None, listed |-> FALSE,
          meta |-> None, path |-> FALSE, crlFor |-> None]

\* Files written out of band: a certificate file, with or without a CRL that came
\* with it and whose metadata the descriptor lacks.
OutOfBand(c, r) == [cert |-> c, named |-> TRUE, crl |-> r, listed |-> r # None,
                    meta |-> None, path |-> r # None, crlFor |-> c]

Provisioned == {Empty} \cup {OutOfBand(c, r) : c \in Cert, r \in Crl \cup {None}}

SlotInit ==
    /\ store \in Provisioned
    /\ cert = None /\ certGen = 0
    /\ crlState = Unset /\ crlSnapshot = None /\ crlGen = 0
    /\ pc = [w \in Worker |-> "idle"]
    /\ gen = [w \in Worker |-> 0]
    /\ loaded = [w \in Worker |-> Blank]

Continue(w, l) == pc' = [pc EXCEPT ![w] = l]

\* The call returns and its locals are gone.
EndCall(w) ==
    /\ pc' = [pc EXCEPT ![w] = "idle"]
    /\ gen' = [gen EXCEPT ![w] = 0]
    /\ loaded' = [loaded EXCEPT ![w] = Blank]

----------------------------------------------------------------------------
(* LoadCertificateCached.                                                  *)

\* A hit returns at once.
LookupCertificate(w) ==
    /\ pc[w] = "idle" /\ cert = None
    /\ gen' = [gen EXCEPT ![w] = certGen]
    /\ Continue(w, "readCert")
    /\ UNCHANGED <<store, cache, loaded>>

ReadCertificate(w) ==
    /\ pc[w] = "readCert"
    /\ LoadCertificateUnlocked # None
    /\ loaded' = [loaded EXCEPT ![w].cert = LoadCertificateUnlocked]
    /\ Continue(w, "cacheCert")
    /\ UNCHANGED <<store, cache, gen>>

CacheCertificate_Always(w) ==
    /\ pc[w] = "cacheCert"
    /\ cert' = loaded[w].cert
    /\ EndCall(w)
    /\ UNCHANGED <<store, certGen, crlState, crlSnapshot, crlGen>>

CacheCertificate(w) ==
    /\ pc[w] = "cacheCert"
    /\ cert' = IF certGen = gen[w] THEN loaded[w].cert ELSE cert
    /\ EndCall(w)
    /\ UNCHANGED <<store, certGen, crlState, crlSnapshot, crlGen>>

----------------------------------------------------------------------------
(* GetOrLoadCrlState: two handler calls on a miss.                         *)

LookupCrlState(w) ==
    /\ pc[w] = "idle" /\ crlState = Unset
    /\ gen' = [gen EXCEPT ![w] = crlGen]
    /\ Continue(w, "hasCrl")
    /\ UNCHANGED <<store, cache, loaded>>

ReadHasCrl(w) ==
    /\ pc[w] = "hasCrl"
    /\ loaded' = [loaded EXCEPT ![w].state.has = HasCrl]
    /\ Continue(w, IF HasCrl THEN "readMeta" ELSE "cacheState")
    /\ UNCHANGED <<store, cache, gen>>

ReadCrlMetadata(w) ==
    /\ pc[w] = "readMeta"
    /\ \E m \in GetCrlMetadata : loaded' = [loaded EXCEPT ![w].state.meta = m]
    /\ Continue(w, "cacheState")
    /\ UNCHANGED <<store, cache, gen>>

CacheCrlState(w) ==
    /\ pc[w] = "cacheState"
    /\ crlState' = IF crlGen = gen[w] THEN loaded[w].state ELSE crlState
    /\ EndCall(w)
    /\ UNCHANGED <<store, cert, certGen, crlSnapshot, crlGen>>

----------------------------------------------------------------------------
(* GetOrLoadCrlData.                                                       *)

\* A cached absence and a live snapshot return at once.
LookupCrlData(w) ==
    /\ pc[w] = "idle" /\ crlSnapshot = None
    /\ crlState # Unset => crlState.has
    /\ gen' = [gen EXCEPT ![w] = crlGen]
    /\ Continue(w, "readCrl")
    /\ UNCHANGED <<store, cache, loaded>>

\* The state and the snapshot are read in one call.
ReadCrlData(w) ==
    /\ pc[w] = "readCrl"
    /\ \E st \in StoredStates :
          loaded' = [loaded EXCEPT ![w].state = st, ![w].crl = LoadCrlData]
    /\ Continue(w, "cacheCrl")
    /\ UNCHANGED <<store, cache, gen>>

CacheCrlData(w) ==
    /\ pc[w] = "cacheCrl"
    /\ crlState' = IF crlGen = gen[w] THEN loaded[w].state ELSE crlState
    /\ crlSnapshot' = IF crlGen = gen[w] THEN loaded[w].crl ELSE crlSnapshot
    /\ EndCall(w)
    /\ UNCHANGED <<store, cert, certGen, crlGen>>

\* A handler call of a load fails; an empty slot is an error as well.
ReadFails(w) ==
    /\ pc[w] \in {"readCert", "hasCrl", "readMeta", "readCrl"}
    /\ EndCall(w)
    /\ UNCHANGED <<store, cache>>

\* Weak pointers: the last holder of a cached object lets go of it.
ExpireCertificate ==
    /\ cert # None /\ cert' = None
    /\ UNCHANGED <<store, certGen, crlState, crlSnapshot, crlGen, call>>

ExpireCrlSnapshot ==
    /\ crlSnapshot # None /\ crlSnapshot' = None
    /\ UNCHANGED <<store, cert, certGen, crlState, crlGen, call>>

----------------------------------------------------------------------------
(* Writes.                                                                 *)

\* What a CertObject holds.
CertObject == {c \in Cert : ParseCertificate(c) = c}

\* StoreCertificate and ClearSlot.
WriteSlot(w) ==
    /\ pc[w] = "idle"
    /\ certGen < MaxGeneration /\ crlGen < MaxGeneration
    /\ store' \in ClearSlot(store) \cup UNION {StoreCertificate(store, c) : c \in CertObject}
    /\ Continue(w, "invalidateSlot")
    /\ UNCHANGED <<cache, gen, loaded>>

\* StoreCrl and ClearCrl.
WriteCrl(w) ==
    /\ pc[w] = "idle"
    /\ crlGen < MaxGeneration
    /\ store' \in ClearCrl(store) \cup UNION {StoreCrl(store, r) : r \in Crl}
    /\ Continue(w, "invalidateCrl")
    /\ UNCHANGED <<cache, gen, loaded>>

InvalidateSlotCaches(w) ==
    /\ pc[w] = "invalidateSlot"
    /\ cert' = None /\ certGen' = certGen + 1
    /\ crlState' = Unset /\ crlSnapshot' = None /\ crlGen' = crlGen + 1
    /\ EndCall(w)
    /\ UNCHANGED <<store>>

InvalidateCrl(w) ==
    /\ pc[w] = "invalidateCrl"
    /\ crlState' = Unset /\ crlSnapshot' = None /\ crlGen' = crlGen + 1
    /\ EndCall(w)
    /\ UNCHANGED <<store, cert, certGen>>

----------------------------------------------------------------------------
SlotNext ==
    \/ \E w \in Worker :
        \/ LookupCertificate(w) \/ ReadCertificate(w) \/ CacheCertificate(w)
        \/ LookupCrlState(w) \/ ReadHasCrl(w) \/ ReadCrlMetadata(w) \/ CacheCrlState(w)
        \/ LookupCrlData(w) \/ ReadCrlData(w) \/ CacheCrlData(w)
        \/ ReadFails(w)
        \/ WriteSlot(w) \/ WriteCrl(w)
        \/ InvalidateSlotCaches(w) \/ InvalidateCrl(w)
    \/ ExpireCertificate \/ ExpireCrlSnapshot

SlotSpec == SlotInit /\ [][SlotNext]_slotVars

----------------------------------------------------------------------------
(* Properties.                                                             *)

\* The type invariant.
SlotTypeOK ==
    /\ store \in SlotState
    /\ cert \in Cert \cup {None} /\ certGen \in Nat
    /\ crlState \in State \cup {Unset} /\ crlSnapshot \in Crl \cup {None} /\ crlGen \in Nat
    /\ pc \in [Worker -> {"idle", "readCert", "cacheCert", "hasCrl", "readMeta", "cacheState",
                          "readCrl", "cacheCrl", "invalidateSlot", "invalidateCrl"}]
    /\ gen \in [Worker -> Nat]
    /\ loaded \in [Worker -> [cert : Cert \cup {None}, state : State, crl : Crl \cup {None}]]

SlotPending == \E w \in Worker : pc[w] = "invalidateSlot"

CrlPending == \E w \in Worker : pc[w] \in {"invalidateSlot", "invalidateCrl"}

\* The cached certificate is the stored one, except between a write of the
\* handler and its invalidation (LoadCertificateCached): "a read that overlaps
\* a write or invalidation is returned to its caller but never cached".
CertificateFresh == cert = None \/ SlotPending \/ cert = LoadCertificateUnlocked

\* So are the cached CRL snapshot and the CRL state, as far as a read of the slot
\* determines it: metadata that had to be derived may be missing, never another's
\* (GetOrLoadCrlState, GetOrLoadCrlData, DeriveCrlMetadata).
CrlFresh ==
    CrlPending \/ /\ crlState = Unset \/ crlState \in StoredStates
                  /\ crlSnapshot = None \/ crlSnapshot = LoadCrlData

\* Every cache of a slot: a cached value is the stored one, unless a write of the
\* handler is about to invalidate it.
CachesFresh == CertificateFresh /\ CrlFresh

\* A new certificate discards the CRL of the old one: the slot never reports a
\* CRL that was stored for another certificate than the one it holds
\* (FileBackedSlotHandler::StoreCertificate).
NoStaleCrl == HasCrl /\ LoadCertificateUnlocked # None => store.crlFor = LoadCertificateUnlocked

=============================================================================
