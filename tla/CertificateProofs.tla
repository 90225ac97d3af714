--------------------------- MODULE CertificateProofs ---------------------------
(***************************************************************************)
(* Theorems about certificate management, for any number of clients,       *)
(* nodes, workers and certificates and for any configuration: the caches   *)
(* of a slot are fresh, the service uses the data manager as that one      *)
(* demands, its registry has the certificates that exist, and a slot or a  *)
(* store has one node.                                                     *)
(*                                                                         *)
(* Freshness is not inductive: a worker that has read the slot may still   *)
(* put an old value into the cache.  FreshInv and CrlInv say of such a     *)
(* worker that what it read is current, or a write is waiting for its      *)
(* invalidation, or the generation has moved past the one it recorded.     *)
(*                                                                         *)
(* The service: an object belongs to the client that stores it or holds    *)
(* it, and exists as long as it belongs to somebody.  A step lets objects  *)
(* go, with their destructors, or adds one, or leaves them alone.          *)
(***************************************************************************)
EXTENDS CertService, CertSlotCache, DataManagerProofs

\* Most steps are first-order; SMT is cited for those about numbers, records
\* and tuples.
USE ZenonT(30)

----------------------------------------------------------------------------
(* The caches of a slot.                                                   *)

CertReader == {"readCert", "cacheCert"}
CrlReader == {"hasCrl", "readMeta", "cacheState", "readCrl", "cacheCrl"}

FreshInv ==
    /\ CertificateFresh
    /\ \A w \in Worker : pc[w] \in CertReader => gen[w] <= certGen
    /\ \A w \in Worker : pc[w] = "cacheCert" /\ gen[w] = certGen =>
          SlotPending \/ loaded[w].cert = LoadCertificateUnlocked

CrlInv ==
    /\ CrlFresh
    /\ \A w \in Worker : pc[w] \in CrlReader => gen[w] <= crlGen
    /\ \A w \in Worker : pc[w] \in {"idle", "hasCrl"} => loaded[w].state.meta = None
    /\ \A w \in Worker : pc[w] = "readMeta" => loaded[w].state.has = TRUE
    /\ \A w \in Worker : pc[w] = "readMeta" /\ gen[w] = crlGen => CrlPending \/ HasCrl
    /\ \A w \in Worker : pc[w] = "cacheState" /\ gen[w] = crlGen =>
          CrlPending \/ loaded[w].state \in StoredStates
    /\ \A w \in Worker : pc[w] = "cacheCrl" /\ gen[w] = crlGen =>
          CrlPending \/ (loaded[w].state \in StoredStates /\ loaded[w].crl = LoadCrlData)

----------------------------------------------------------------------------
(* Types.                                                                  *)

\* A certificate that is loaded is the content of the slot's file.
LEMMA LoadedCertificate ==
    ASSUME store \in SlotState
    PROVE  /\ LoadCertificateUnlocked \in Cert \cup {None}
           /\ LoadCertificateUnlocked # None => store.named /\ LoadCertificateUnlocked = store.cert
BY DEF LoadCertificateUnlocked, ParseCertificate, BuildObject, ParseSingleCertificate, SlotState

LEMMA ProvisionedTyped ==
    \A p \in Provisioned : p \in SlotState /\ p.crlFor = p.cert
<1>1. Empty \in SlotState /\ Empty.crlFor = Empty.cert BY DEF Empty, SlotState
<1>2. ASSUME NEW c \in Cert, NEW r \in Crl \cup {None}
      PROVE  OutOfBand(c, r) \in SlotState /\ OutOfBand(c, r).crlFor = OutOfBand(c, r).cert
  BY DEF OutOfBand, SlotState
<1>3. \A p \in Provisioned :
        p = Empty \/ \E c \in Cert, r \in Crl \cup {None} : p = OutOfBand(c, r)
  BY SMT DEF Provisioned
<1> QED BY <1>1, <1>2, <1>3

\* What a read of the CRL may give; a slot without one has no metadata.
LEMMA ReadCrlTyped ==
    ASSUME store \in SlotState
    PROVE  /\ HasCrl \in BOOLEAN
           /\ GetCrlMetadata \subseteq Crl \cup {None}
           /\ StoredStates \subseteq State
           /\ LoadCrlData \in Crl \cup {None}
           /\ ~HasCrl => GetCrlMetadata = {None}
<1>1. HasCrl \in BOOLEAN BY DEF HasCrl, SlotState
<1>2. CachedMetadata \in Crl \cup {None} /\ LoadCrlData \in Crl \cup {None}
  BY DEF CachedMetadata, LoadCrlData, SlotState
<1>3. DeriveCrlMetadata \subseteq Crl \cup {None} BY DEF DeriveCrlMetadata, ValidateCrl, SlotState
<1>4. GetCrlMetadata \subseteq Crl \cup {None} BY <1>2, <1>3 DEF GetCrlMetadata
<1>5. StoredStates \subseteq State
  <2>1. ASSUME NEW m \in GetCrlMetadata PROVE [has |-> HasCrl, meta |-> m] \in State
    <3>1. m \in Crl \cup {None} BY <1>4
    <3> QED BY <1>1, <3>1 DEF State
  <2> QED BY <2>1 DEF StoredStates
<1>6. ~HasCrl => GetCrlMetadata = {None} BY DEF GetCrlMetadata, CachedMetadata
<1> QED BY <1>1, <1>2, <1>4, <1>5, <1>6

LEMMA CertificateWriteTyped ==
    ASSUME NEW s \in SlotState, NEW c \in Cert
    PROVE  StoreCertificate(s, c) \subseteq SlotState
<1> DEFINE written == [s EXCEPT !.cert = c]
           removed == IF s.path THEN [written EXCEPT !.crl = None] ELSE written
<1>1. written \in SlotState /\ removed \in SlotState BY DEF SlotState
<1>2. \A u \in SlotState : Unlisted([u EXCEPT !.named = TRUE]) \in SlotState BY DEF Unlisted, SlotState
<1>3. StoreCertificate(s, c) \subseteq
        {removed, written, Unlisted([written EXCEPT !.named = TRUE]),
         Unlisted([removed EXCEPT !.named = TRUE])}
  BY DEF StoreCertificate
<1> HIDE DEF written, removed
<1> QED BY <1>1, <1>2, <1>3

\* Nothing is written to the slot but by the two writes, and those leave values
\* of the slot's type.
LEMMA SlotWriteStep ==
    ASSUME store \in SlotState, SlotNext
    PROVE  /\ store' \in SlotState
           /\ \/ store' = store
              \/ \E w \in Worker : WriteSlot(w)
              \/ \E w \in Worker : WriteCrl(w)
<1>1. CASE \E w \in Worker : WriteSlot(w)
  <2>1. PICK w \in Worker : WriteSlot(w) BY <1>1
  <2>2. CASE store' \in ClearSlot(store)
    <3>1. ClearSlot(store) \subseteq SlotState BY ZenonT(60) DEF ClearSlot, Unlisted, SlotState
    <3> QED BY <1>1, <2>2, <3>1
  <2>3. CASE \E c \in CertObject : store' \in StoreCertificate(store, c)
    <3>1. PICK c \in Cert : store' \in StoreCertificate(store, c) BY <2>3 DEF CertObject
    <3>2. StoreCertificate(store, c) \subseteq SlotState BY CertificateWriteTyped
    <3> QED BY <1>1, <3>1, <3>2
  <2> QED BY <2>1, <2>2, <2>3 DEF WriteSlot
<1>2. CASE \E w \in Worker : WriteCrl(w)
  <2>1. PICK w \in Worker : WriteCrl(w) BY <1>2
  <2>2. CASE store' \in ClearCrl(store)
    <3>1. ClearCrl(store) \subseteq SlotState BY DEF ClearCrl, Unlisted, SlotState
    <3> QED BY <1>2, <2>2, <3>1
  <2>3. CASE \E r \in Crl : store' \in StoreCrl(store, r)
    <3>1. PICK r \in Crl : store' \in StoreCrl(store, r) BY <2>3
    <3>2. StoreCrl(store, r) \subseteq SlotState BY DEF StoreCrl, SlotState
    <3> QED BY <1>2, <3>1, <3>2
  <2> QED BY <2>1, <2>2, <2>3 DEF WriteCrl
<1>3. CASE store' = store BY <1>3
<1> QED
  BY <1>1, <1>2, <1>3 DEF SlotNext, LookupCertificate, ReadCertificate, CacheCertificate,
     LookupCrlState, ReadHasCrl, ReadCrlMetadata, CacheCrlState, LookupCrlData, ReadCrlData,
     CacheCrlData, ReadFails, InvalidateSlotCaches, InvalidateCrl, ExpireCertificate,
     ExpireCrlSnapshot

----------------------------------------------------------------------------
LEMMA BlankTyped == Blank \in [cert : Cert \cup {None}, state : State, crl : Crl \cup {None}]
BY DEF Blank, State

LEMMA TypeInvariance == SlotTypeOK /\ [SlotNext]_slotVars => SlotTypeOK'
<1> SUFFICES ASSUME SlotTypeOK, [SlotNext]_slotVars PROVE SlotTypeOK'
  OBVIOUS
<1> USE DEF SlotTypeOK
<1>0. CASE UNCHANGED slotVars BY <1>0 DEF slotVars
<1>s. SlotNext => store' \in SlotState BY SlotWriteStep
<1>1. ASSUME NEW w \in Worker, LookupCertificate(w) PROVE SlotTypeOK'
  BY <1>1 DEF LookupCertificate, Continue, cache
<1>2. ASSUME NEW w \in Worker, ReadCertificate(w) PROVE SlotTypeOK'
  <2>1. LoadCertificateUnlocked \in Cert \cup {None} BY LoadedCertificate
  <2> QED BY <1>2, <2>1 DEF ReadCertificate, Continue, cache
<1>3. ASSUME NEW w \in Worker, CacheCertificate(w) PROVE SlotTypeOK'
  BY <1>3, BlankTyped DEF CacheCertificate, EndCall
<1>4. ASSUME NEW w \in Worker, LookupCrlState(w) PROVE SlotTypeOK'
  BY <1>4 DEF LookupCrlState, Continue, cache
<1>5. ASSUME NEW w \in Worker, ReadHasCrl(w) PROVE SlotTypeOK'
  <2>1. HasCrl \in BOOLEAN BY ReadCrlTyped
  <2>2. pc' \in [Worker -> {"idle", "readCert", "cacheCert", "hasCrl", "readMeta", "cacheState",
                            "readCrl", "cacheCrl", "invalidateSlot", "invalidateCrl"}]
    BY <1>5 DEF ReadHasCrl, Continue
  <2> QED BY <1>5, <2>1, <2>2 DEF ReadHasCrl, cache, State
<1>6. ASSUME NEW w \in Worker, ReadCrlMetadata(w) PROVE SlotTypeOK'
  <2>1. PICK m \in Crl \cup {None} : loaded' = [loaded EXCEPT ![w].state.meta = m]
    BY <1>6, ReadCrlTyped DEF ReadCrlMetadata
  <2> QED BY <1>6, <2>1 DEF ReadCrlMetadata, Continue, cache, State
<1>7. ASSUME NEW w \in Worker, CacheCrlState(w) PROVE SlotTypeOK'
  BY <1>7, BlankTyped DEF CacheCrlState, EndCall
<1>8. ASSUME NEW w \in Worker, LookupCrlData(w) PROVE SlotTypeOK'
  BY <1>8 DEF LookupCrlData, Continue, cache
<1>9. ASSUME NEW w \in Worker, ReadCrlData(w) PROVE SlotTypeOK'
  <2>1. PICK st \in State : loaded' = [loaded EXCEPT ![w].state = st, ![w].crl = LoadCrlData]
    BY <1>9, ReadCrlTyped DEF ReadCrlData
  <2>2. LoadCrlData \in Crl \cup {None} BY ReadCrlTyped
  <2> QED BY <1>9, <2>1, <2>2 DEF ReadCrlData, Continue, cache
<1>10. ASSUME NEW w \in Worker, CacheCrlData(w) PROVE SlotTypeOK'
  BY <1>10, BlankTyped DEF CacheCrlData, EndCall
<1>11. ASSUME NEW w \in Worker, ReadFails(w) PROVE SlotTypeOK'
  BY <1>11, BlankTyped DEF ReadFails, EndCall, cache
<1>12. ASSUME NEW w \in Worker, WriteSlot(w), store' \in SlotState PROVE SlotTypeOK'
  BY <1>12 DEF WriteSlot, Continue, cache
<1>13. ASSUME NEW w \in Worker, WriteCrl(w), store' \in SlotState PROVE SlotTypeOK'
  BY <1>13 DEF WriteCrl, Continue, cache
<1>14. ASSUME NEW w \in Worker, InvalidateSlotCaches(w) PROVE SlotTypeOK'
  BY <1>14, BlankTyped, SMT DEF InvalidateSlotCaches, EndCall
<1>15. ASSUME NEW w \in Worker, InvalidateCrl(w) PROVE SlotTypeOK'
  BY <1>15, BlankTyped, SMT DEF InvalidateCrl, EndCall
<1>16. CASE ExpireCertificate BY <1>16 DEF ExpireCertificate, call
<1>17. CASE ExpireCrlSnapshot BY <1>17 DEF ExpireCrlSnapshot, call
<1> QED
  BY <1>0, <1>s, <1>1, <1>2, <1>3, <1>4, <1>5, <1>6, <1>7, <1>8, <1>9, <1>10, <1>11, <1>12,
     <1>13, <1>14, <1>15, <1>16, <1>17 DEF SlotNext

\* The caches, the files and the locals of every call keep their types
\* (SlotCache, the deployment descriptor).
THEOREM SlotTypeCorrect == SlotSpec => []SlotTypeOK
<1>1. SlotInit => SlotTypeOK
  BY ProvisionedTyped, BlankTyped, SMT DEF SlotInit, SlotTypeOK
<1> QED BY <1>1, TypeInvariance, PTL DEF SlotSpec

----------------------------------------------------------------------------
(* Certificates.                                                           *)

LEMMA CrlWriteKeepsCertificate ==
    ASSUME NEW s \in SlotState, NEW t \in ClearCrl(s) \cup UNION {StoreCrl(s, r) : r \in Crl}
    PROVE  t.cert = s.cert /\ t.named = s.named
<1>1. CASE t \in ClearCrl(s) BY <1>1 DEF ClearCrl, Unlisted, SlotState
<1>2. ASSUME NEW r \in Crl, t \in StoreCrl(s, r) PROVE t.cert = s.cert /\ t.named = s.named
  BY <1>2 DEF StoreCrl, SlotState
<1> QED BY <1>1, <1>2

LEMMA CertInvariance == SlotTypeOK /\ FreshInv /\ [SlotNext]_slotVars => FreshInv'
<1> SUFFICES ASSUME SlotTypeOK, FreshInv, [SlotNext]_slotVars PROVE FreshInv'
  OBVIOUS
<1> USE DEF SlotTypeOK, FreshInv, CertificateFresh, CertReader, SlotPending
<1>0. CASE UNCHANGED slotVars BY <1>0 DEF slotVars, LoadCertificateUnlocked
<1>1. ASSUME NEW w \in Worker, LookupCertificate(w) PROVE FreshInv'
  BY <1>1, SMT DEF LookupCertificate, Continue, cache, LoadCertificateUnlocked
<1>2. ASSUME NEW w \in Worker, ReadCertificate(w) PROVE FreshInv'
  <2>1. LoadCertificateUnlocked' = LoadCertificateUnlocked BY <1>2 DEF ReadCertificate, LoadCertificateUnlocked
  <2> QED BY <1>2, <2>1 DEF ReadCertificate, Continue, cache
<1>3. ASSUME NEW w \in Worker, CacheCertificate(w) PROVE FreshInv'
  <2>1. LoadCertificateUnlocked' = LoadCertificateUnlocked BY <1>3 DEF CacheCertificate, LoadCertificateUnlocked
  <2> QED BY <1>3, <2>1 DEF CacheCertificate, EndCall
\* Calls that concern the CRL neither enter nor leave a phase of a certificate.
<1>4. ASSUME NEW w \in Worker,
             \/ LookupCrlState(w) \/ ReadHasCrl(w) \/ ReadCrlMetadata(w) \/ CacheCrlState(w)
             \/ LookupCrlData(w) \/ ReadCrlData(w) \/ CacheCrlData(w) \/ ReadFails(w)
             \/ InvalidateCrl(w)
      PROVE  FreshInv'
  <2>1. LoadCertificateUnlocked' = LoadCertificateUnlocked /\ cert' = cert /\ certGen' = certGen
    BY <1>4 DEF LookupCrlState, ReadHasCrl, ReadCrlMetadata, CacheCrlState, LookupCrlData,
       ReadCrlData, CacheCrlData, ReadFails, InvalidateCrl, LoadCertificateUnlocked, cache
  <2>2. /\ pc[w] # "invalidateSlot"
        /\ pc'[w] \notin {"readCert", "cacheCert", "invalidateSlot"}
        /\ \A v \in Worker \ {w} : pc'[v] = pc[v] /\ gen'[v] = gen[v] /\ loaded'[v] = loaded[v]
    BY <1>4 DEF LookupCrlState, ReadHasCrl, ReadCrlMetadata, CacheCrlState, LookupCrlData,
       ReadCrlData, CacheCrlData, ReadFails, InvalidateCrl, Continue, EndCall
  <2> QED BY <2>1, <2>2, SMT
<1>5. ASSUME NEW w \in Worker, WriteSlot(w) PROVE FreshInv'
  <2>1. pc'[w] = "invalidateSlot" BY <1>5 DEF WriteSlot, Continue
  <2> QED BY <1>5, <2>1 DEF WriteSlot, Continue, cache
<1>6. ASSUME NEW w \in Worker, WriteCrl(w) PROVE FreshInv'
  <2>1. store'.cert = store.cert /\ store'.named = store.named
    BY <1>6, CrlWriteKeepsCertificate DEF WriteCrl
  <2>2. LoadCertificateUnlocked' = LoadCertificateUnlocked BY <2>1 DEF LoadCertificateUnlocked
  <2> QED BY <1>6, <2>2 DEF WriteCrl, Continue, cache
<1>7. ASSUME NEW w \in Worker, InvalidateSlotCaches(w) PROVE FreshInv'
  BY <1>7, SMT DEF InvalidateSlotCaches, EndCall
<1>8. CASE ExpireCertificate BY <1>8 DEF ExpireCertificate, call, LoadCertificateUnlocked
<1>9. CASE ExpireCrlSnapshot BY <1>9 DEF ExpireCrlSnapshot, call, LoadCertificateUnlocked
<1> QED
  BY <1>0, <1>1, <1>2, <1>3, <1>4, <1>5, <1>6, <1>7, <1>8, <1>9 DEF SlotNext

\* However loads and writes overlap, a cached certificate is the stored one once
\* the writes have invalidated the cache (LoadCertificateCached).
THEOREM CertificatesFresh == SlotSpec => []CertificateFresh
<1>1. SlotInit => FreshInv
  BY DEF SlotInit, FreshInv, CertificateFresh, CertReader
<1>2. FreshInv => CertificateFresh BY DEF FreshInv
<1> QED BY <1>1, <1>2, CertInvariance, SlotTypeCorrect, PTL DEF SlotSpec

----------------------------------------------------------------------------
(* CRLs.                                                                   *)

LEMMA CrlInvariance == SlotTypeOK /\ CrlInv /\ [SlotNext]_slotVars => CrlInv'
<1> SUFFICES ASSUME SlotTypeOK, CrlInv, [SlotNext]_slotVars PROVE CrlInv'
  OBVIOUS
<1> USE DEF SlotTypeOK, CrlInv, CrlFresh, CrlReader, CrlPending
\* What the handler reads does not change unless the files do.
<1>r. store' = store => /\ HasCrl' = HasCrl /\ StoredStates' = StoredStates
                        /\ LoadCrlData' = LoadCrlData /\ GetCrlMetadata' = GetCrlMetadata
  <2> SUFFICES ASSUME store' = store
               PROVE  /\ HasCrl' = HasCrl /\ StoredStates' = StoredStates
                      /\ LoadCrlData' = LoadCrlData /\ GetCrlMetadata' = GetCrlMetadata
    OBVIOUS
  <2>1. HasCrl' = HasCrl BY DEF HasCrl
  <2>2. LoadCrlData' = LoadCrlData BY <2>1 DEF LoadCrlData
  <2>3. CachedMetadata' = CachedMetadata BY <2>1 DEF CachedMetadata
  <2>4. LoadCertificateUnlocked' = LoadCertificateUnlocked BY DEF LoadCertificateUnlocked
  <2>5. DeriveCrlMetadata' = DeriveCrlMetadata BY <2>4 DEF DeriveCrlMetadata
  <2>6. GetCrlMetadata' = GetCrlMetadata BY <2>1, <2>3, <2>5 DEF GetCrlMetadata
  <2>7. StoredStates' = StoredStates BY <2>1, <2>6 DEF StoredStates
  <2> QED BY <2>1, <2>2, <2>6, <2>7
<1>0. CASE UNCHANGED slotVars BY <1>0, <1>r, SMT DEF slotVars
<1>1. ASSUME NEW w \in Worker,
             LookupCertificate(w) \/ ReadCertificate(w) \/ CacheCertificate(w) \/ ReadFails(w)
      PROVE  CrlInv'
  <2>1. store' = store /\ UNCHANGED <<crlState, crlSnapshot, crlGen>>
    BY <1>1 DEF LookupCertificate, ReadCertificate, CacheCertificate, ReadFails, cache
  <2>2. /\ pc[w] \notin {"invalidateSlot", "invalidateCrl"}
        /\ pc'[w] \notin CrlReader \cup {"invalidateSlot", "invalidateCrl"}
        /\ \A v \in Worker \ {w} : pc'[v] = pc[v] /\ gen'[v] = gen[v] /\ loaded'[v] = loaded[v]
    BY <1>1 DEF LookupCertificate, ReadCertificate, CacheCertificate, ReadFails, Continue, EndCall
  <2>3. pc'[w] = "idle" => loaded'[w].state.meta = None
    BY <1>1, SMT DEF LookupCertificate, ReadCertificate, CacheCertificate, ReadFails, Continue, EndCall, Blank
  <2> QED BY <1>r, <2>1, <2>2, <2>3, SMT
<1>2. ASSUME NEW w \in Worker, LookupCrlState(w) PROVE CrlInv'
  BY <1>2, <1>r, SMT DEF LookupCrlState, Continue, cache
<1>3. ASSUME NEW w \in Worker, ReadHasCrl(w) PROVE CrlInv'
  <2>1. /\ store' = store /\ UNCHANGED <<crlState, crlSnapshot, crlGen, gen>>
        /\ pc[w] = "hasCrl" /\ pc'[w] = IF HasCrl THEN "readMeta" ELSE "cacheState"
        /\ \A v \in Worker \ {w} : pc'[v] = pc[v] /\ loaded'[v] = loaded[v]
    BY <1>3 DEF ReadHasCrl, Continue, cache
  <2>2. loaded'[w].state = [has |-> HasCrl, meta |-> None]
    BY <1>3 DEF ReadHasCrl, State
  <2>3. HasCrl \in BOOLEAN BY ReadCrlTyped
  <2>4. ~HasCrl => [has |-> HasCrl, meta |-> None] \in StoredStates BY ReadCrlTyped DEF StoredStates
  <2>5. CrlPending' <=> CrlPending BY <2>1
  <2>6. HasCrl => loaded'[w].state.has = TRUE
    <3>1. loaded'[w].state.has = HasCrl BY <2>2, SMT
    <3> QED BY <2>3, <3>1
  <2>7. ~HasCrl => loaded'[w].state \in StoredStates BY <2>2, <2>4
  <2> HIDE DEF CrlPending
  <2> QED BY <1>r, <2>1, <2>3, <2>5, <2>6, <2>7, SMT
<1>4. ASSUME NEW w \in Worker, ReadCrlMetadata(w) PROVE CrlInv'
  <2>1. /\ store' = store /\ UNCHANGED <<crlState, crlSnapshot, crlGen, gen>>
        /\ pc[w] = "readMeta" /\ pc'[w] = "cacheState"
        /\ \A v \in Worker \ {w} : pc'[v] = pc[v] /\ loaded'[v] = loaded[v]
    BY <1>4 DEF ReadCrlMetadata, Continue, cache
  <2>2. \E m \in GetCrlMetadata : loaded'[w].state = [has |-> TRUE, meta |-> m]
    <3>1. PICK m \in GetCrlMetadata : loaded' = [loaded EXCEPT ![w].state.meta = m]
      BY <1>4 DEF ReadCrlMetadata
    <3>2. loaded[w].state \in State /\ loaded[w].state.has = TRUE BY <2>1
    <3>3. loaded'[w].state = [loaded[w].state EXCEPT !.meta = m] BY <3>1
    <3>4. loaded'[w].state = [has |-> TRUE, meta |-> m] BY <3>2, <3>3 DEF State
    <3> QED BY <3>4
  <2>3. HasCrl \in BOOLEAN BY ReadCrlTyped
  <2>4. HasCrl => \A m \in GetCrlMetadata : [has |-> TRUE, meta |-> m] \in StoredStates
    BY <2>3 DEF StoredStates
  <2>5. CrlPending' <=> CrlPending BY <2>1
  <2>6. gen[w] = crlGen => CrlPending \/ loaded'[w].state \in StoredStates BY <2>1, <2>2, <2>4
  <2> HIDE DEF CrlPending
  <2> QED BY <1>r, <2>1, <2>5, <2>6, SMT
<1>5. ASSUME NEW w \in Worker, CacheCrlState(w) PROVE CrlInv'
  BY <1>5, <1>r, SMT DEF CacheCrlState, EndCall, Blank
<1>6. ASSUME NEW w \in Worker, LookupCrlData(w) PROVE CrlInv'
  BY <1>6, <1>r, SMT DEF LookupCrlData, Continue, cache
<1>7. ASSUME NEW w \in Worker, ReadCrlData(w) PROVE CrlInv'
  <2>1. /\ store' = store /\ UNCHANGED <<crlState, crlSnapshot, crlGen, gen>>
        /\ pc[w] = "readCrl" /\ pc'[w] = "cacheCrl"
        /\ \A v \in Worker \ {w} : pc'[v] = pc[v] /\ loaded'[v] = loaded[v]
    BY <1>7 DEF ReadCrlData, Continue, cache
  <2>2. loaded'[w].state \in StoredStates /\ loaded'[w].crl = LoadCrlData
    BY <1>7 DEF ReadCrlData
  <2> QED BY <1>r, <2>1, <2>2, SMT
<1>8. ASSUME NEW w \in Worker, CacheCrlData(w) PROVE CrlInv'
  BY <1>8, <1>r, SMT DEF CacheCrlData, EndCall, Blank
<1>9. ASSUME NEW w \in Worker, WriteSlot(w) \/ WriteCrl(w) PROVE CrlInv'
  <2>1. pc'[w] \in {"invalidateSlot", "invalidateCrl"} BY <1>9 DEF WriteSlot, WriteCrl, Continue
  <2> QED BY <1>9, <2>1 DEF WriteSlot, WriteCrl, Continue, cache
<1>10. ASSUME NEW w \in Worker, InvalidateSlotCaches(w) \/ InvalidateCrl(w) PROVE CrlInv'
  <2>1. /\ crlState' = Unset /\ crlSnapshot' = None /\ crlGen' = crlGen + 1
        /\ pc'[w] = "idle" /\ loaded'[w].state.meta = None
        /\ \A v \in Worker \ {w} : pc'[v] = pc[v] /\ gen'[v] = gen[v] /\ loaded'[v] = loaded[v]
    BY <1>10, SMT DEF InvalidateSlotCaches, InvalidateCrl, EndCall, Blank
  <2>2. \A v \in Worker : pc'[v] \in CrlReader => gen'[v] < crlGen' /\ v # w
    BY <2>1, SMT
  <2>3. \A v \in Worker : gen'[v] < crlGen' => gen'[v] # crlGen' /\ gen'[v] <= crlGen'
    <3>1. gen' \in [Worker -> Nat] /\ crlGen' \in Nat BY TypeInvariance
    <3> QED BY <3>1, SMT
  <2> QED BY <2>1, <2>2, <2>3
<1>11. CASE ExpireCertificate BY <1>11, <1>r, SMT DEF ExpireCertificate, call
<1>12. CASE ExpireCrlSnapshot BY <1>12, <1>r, SMT DEF ExpireCrlSnapshot, call
<1> QED
  BY <1>0, <1>1, <1>2, <1>3, <1>4, <1>5, <1>6, <1>7, <1>8, <1>9, <1>10, <1>11, <1>12
  DEF SlotNext

\* The same of the CRL's presence, metadata and bytes, although its state is read
\* in two calls of the handler (GetOrLoadCrlState, GetOrLoadCrlData).
THEOREM CrlsFresh == SlotSpec => []CrlFresh
<1>1. SlotInit => CrlInv
  BY SMT DEF SlotInit, CrlInv, CrlFresh, CrlReader, Blank
<1>2. CrlInv => CrlFresh BY DEF CrlInv
<1> QED BY <1>1, <1>2, CrlInvariance, SlotTypeCorrect, PTL DEF SlotSpec

\* For any number of workers and any overlap of loads and writes, every cached
\* value of a slot is the stored one unless a write is about to invalidate it.
THEOREM CachesFreshHolds == SlotSpec => []CachesFresh
BY CertificatesFresh, CrlsFresh, PTL DEF CachesFresh

----------------------------------------------------------------------------
(* The files.                                                              *)

LEMMA SlotWriteDropsCrl ==
    ASSUME ~TwoFailures, SlotTypeOK, NoStaleCrl, NEW w \in Worker, WriteSlot(w)
    PROVE  NoStaleCrl'
<1> USE DEF NoStaleCrl, HasCrl, SlotTypeOK
<1>s. store' \in SlotState BY SlotWriteStep DEF SlotNext
<1>l. /\ LoadCertificateUnlocked # None => store.named /\ LoadCertificateUnlocked = store.cert
      /\ LoadCertificateUnlocked' # None => store'.named /\ LoadCertificateUnlocked' = store'.cert
  BY <1>s DEF LoadCertificateUnlocked, ParseCertificate, BuildObject, ParseSingleCertificate, SlotState
<1>1. CASE store' \in ClearSlot(store)
  <2> DEFINE noCert == IF store.named THEN [store EXCEPT !.cert = None] ELSE store
             noCrl == IF store.path THEN [noCert EXCEPT !.crl = None] ELSE noCert
  <2>1. store' \in {noCert, noCrl, Unlisted(noCrl)} BY <1>1 DEF ClearSlot
  <2>2. noCert \in SlotState /\ noCrl \in SlotState BY DEF SlotState
  <2>3. CASE store' = noCert
    <3>1. store'.cert = None \/ ~store'.named BY <2>3 DEF SlotState
    <3> QED BY <1>l, <3>1
  <2>4. CASE store' = noCrl
    <3>1. store'.crl = None \/ ~store'.path BY <2>2, <2>4 DEF SlotState
    <3> QED BY <3>1
  <2>5. CASE store' = Unlisted(noCrl)
    <3>1. store'.listed = FALSE BY <2>2, <2>5 DEF Unlisted, SlotState
    <3> QED BY <3>1
  <2> QED BY <2>1, <2>3, <2>4, <2>5
<1>2. ASSUME NEW c \in Cert, store' \in StoreCertificate(store, c) PROVE NoStaleCrl'
  <2> DEFINE written == [store EXCEPT !.cert = c]
             removed == IF store.path THEN [written EXCEPT !.crl = None] ELSE written
  <2>1. \/ store' = removed
        \/ \E u \in {written, removed} : store' = Unlisted([u EXCEPT !.named = TRUE])
    BY <1>2 DEF StoreCertificate
  <2>2. CASE store' = removed BY <2>2 DEF SlotState
  <2>3. ASSUME NEW u \in {written, removed}, store' = Unlisted([u EXCEPT !.named = TRUE])
        PROVE  NoStaleCrl'
    <3>1. u \in SlotState BY <2>3, ZenonT(60) DEF SlotState
    <3>2. store'.listed = FALSE BY <2>3, <3>1 DEF Unlisted, SlotState
    <3> QED BY <3>2
  <2> QED BY <2>1, <2>2, <2>3
<1> QED BY <1>1, <1>2 DEF WriteSlot, CertObject

LEMMA CrlWriteTagsCrl ==
    ASSUME SlotTypeOK, NoStaleCrl, NEW w \in Worker, WriteCrl(w)
    PROVE  NoStaleCrl'
<1> USE DEF NoStaleCrl, HasCrl, SlotTypeOK
<1>s. store' \in SlotState BY SlotWriteStep DEF SlotNext
<1>l. /\ LoadCertificateUnlocked # None => store.named /\ LoadCertificateUnlocked = store.cert
      /\ LoadCertificateUnlocked' # None => store'.named /\ LoadCertificateUnlocked' = store'.cert
  BY <1>s DEF LoadCertificateUnlocked, ParseCertificate, BuildObject, ParseSingleCertificate, SlotState
<1>1. CASE store' \in ClearCrl(store) BY <1>1 DEF ClearCrl, Unlisted, SlotState
<1>2. ASSUME NEW r \in Crl, store' \in StoreCrl(store, r) PROVE NoStaleCrl'
  <2> DEFINE written == [store EXCEPT !.crl = r, !.crlFor = store.cert]
  <2>1. written \in SlotState /\ written.crlFor = written.cert BY DEF SlotState
  <2>2. store' = written
        \/ \E m \in {r, None} : store' = [written EXCEPT !.path = TRUE, !.listed = TRUE, !.meta = m]
    BY <1>2 DEF StoreCrl
  <2> HIDE DEF written
  <2>3. store'.crlFor = store'.cert BY <2>1, <2>2 DEF SlotState
  <2> QED BY <1>l, <2>3
<1> QED BY <1>1, <1>2 DEF WriteCrl

\* When at most one file operation of a write fails, the slot never reports the
\* CRL of another certificate (FileBackedSlotHandler::StoreCertificate).
THEOREM StaleCrlsDropped == ~TwoFailures => (SlotSpec => []NoStaleCrl)
<1> SUFFICES ASSUME ~TwoFailures PROVE SlotSpec => []NoStaleCrl
  OBVIOUS
<1>1. SlotInit => NoStaleCrl
  BY ProvisionedTyped, LoadedCertificate DEF SlotInit, NoStaleCrl
<1>2. SlotTypeOK /\ NoStaleCrl /\ [SlotNext]_slotVars => NoStaleCrl'
  <2> SUFFICES ASSUME SlotTypeOK, NoStaleCrl, [SlotNext]_slotVars PROVE NoStaleCrl'
    OBVIOUS
  <2>1. store' = store => NoStaleCrl' BY DEF NoStaleCrl, HasCrl, LoadCertificateUnlocked
  <2>2. CASE SlotNext
    <3>1. store' = store \/ (\E w \in Worker : WriteSlot(w)) \/ (\E w \in Worker : WriteCrl(w))
      BY <2>2, SlotWriteStep DEF SlotTypeOK
    <3> QED BY <2>1, <3>1, SlotWriteDropsCrl, CrlWriteTagsCrl
  <2>3. CASE UNCHANGED slotVars BY <2>1, <2>3 DEF slotVars
  <2> QED BY <2>2, <2>3
<1> QED BY <1>1, <1>2, SlotTypeCorrect, PTL DEF SlotSpec
----------------------------------------------------------------------------
(* The service: the inductive invariant.                                   *)

IsCert(n, e) == content[n] = <<"cert", e>>
IsSlot(n, s) == content[n] = <<"slot", s>>
IsStore(n, t) == content[n] = <<"store", t>>

\* The worker has registered e for c, and its object is not stored yet.
Has(w, c, e) == job[w][1] \in {"register", "unregister"} /\ job[w][2] = c /\ job[w][3] = e

JobOK(j) ==
    \/ j = Idle
    \/ \E c \in Client, e \in Entry, p \in Id : j = <<"register", c, e, p>>
    \/ \E c \in Client, e \in Entry : j = <<"unregister", c, e>>

ServiceType ==
    /\ content \in [Node -> Contents \cup {Nothing}]
    /\ certs \in [Entry -> Client \cup {NoName}]
    /\ slotCache \in [Client -> [Slot -> 0..MaxId]]
    /\ storeCache \in [Client -> [Store -> 0..MaxId]]
    /\ refs \in [Client -> SUBSET Store]
    /\ torn \in [Client -> SUBSET Parts]
    /\ job = [w \in Holder |-> job[w]]
    /\ \A w \in Holder : JobOK(job[w])

StoredBy(n, c) == \E i \in Id : nodeMap[c][i] = n
HeldFor(n, c) == \E h \in Holder : Holds(h) /\ accessor[h].node = n /\ accessor[h].client = c
Belongs(n, c) == StoredBy(n, c) \/ HeldFor(n, c)

\* An object exists while it belongs to a client, and it belongs to one only.
Exists == \A n \in Node : content[n] # Nothing <=> \E c \in Client : Belongs(n, c)
OneClient == \A n \in Node : \A c, d \in Client : Belongs(n, c) /\ Belongs(n, d) => c = d

\* An entry is of one object, or of one worker that will store or drop it.
OneObject == \A m, n \in Node : \A e \in Entry : IsCert(m, e) /\ IsCert(n, e) => m = n
OneJob ==
    \A w \in Holder : \A c \in Client, e \in Entry : Has(w, c, e) =>
        /\ \A n \in Node : ~IsCert(n, e)
        /\ \A v \in Holder : \A d \in Client : Has(v, d, e) => v = w

\* RegistryExact, entry by entry.
Registered(c) == Connected(c) \/ "registry" \notin torn[c]
Live(c, e) ==
    \/ \E n \in Node : IsCert(n, e) /\ Belongs(n, c)
    \/ \E w \in Holder : Has(w, c, e)
Entries == \A c \in Client, e \in Entry : certs[e] = c <=> Registered(c) /\ Live(c, e)

ObjectsInv == ServiceType /\ Exists /\ OneClient /\ OneObject /\ OneJob /\ Entries

\* The nodes of slots and stores are roots, so that no delete of another node
\* takes them away.
SlotAt(c, i, s) == nodeMap[c][i] \in Node /\ IsSlot(nodeMap[c][i], s)
StoreAt(c, i, t) == nodeMap[c][i] \in Node /\ IsStore(nodeMap[c][i], t)
ResourceAt(c, i) == (\E s \in Slot : SlotAt(c, i, s)) \/ \E t \in Store : StoreAt(c, i, t)
RootsOf(c) == \A i \in Id : ResourceAt(c, i) => parent[c][i] = 0

\* ResourceNodesExact, node by node.
NodesOf(c) ==
    /\ \A s \in Slot, i \in Id : SlotAt(c, i, s) <=> slotCache[c][s] = i
    /\ \A t \in Store, i \in Id : StoreAt(c, i, t) <=> storeCache[c][t] = i
    /\ \A t \in refs[c] : storeCache[c][t] # 0

\* What the teardown of a client has done stays done.
TornDown(c) ==
    /\ Drained(c)
    /\ "nodes" \in torn[c] => \A i \in Id : nodeMap[c][i] = NoNode
    /\ "caches" \in torn[c] => /\ \A s \in Slot : slotCache[c][s] = 0
                               /\ \A t \in Store : storeCache[c][t] = 0
    /\ "refs" \in torn[c] => refs[c] = {}

ResourcesOf(c) == RootsOf(c) /\ IF Connected(c) THEN NodesOf(c) ELSE TornDown(c)

ResourceInv == \A c \in Client : ResourcesOf(c)

CertInv == StorageInv /\ ObjectsInv /\ ResourceInv

----------------------------------------------------------------------------
(* What the contents of an object and the jobs of a worker are.            *)

LEMMA Pairs ==
  /\ \A e, f : <<"cert", e>> = <<"cert", f>> => e = f
  /\ \A e, f : <<"slot", e>> = <<"slot", f>> => e = f
  /\ \A e, f : <<"store", e>> = <<"store", f>> => e = f
  /\ \A e, f : <<"cert", e>> # <<"slot", f>> /\ <<"cert", e>> # <<"store", f>> /\ <<"slot", e>> # <<"store", f>>
  /\ \A e : <<"other">> # <<"cert", e>> /\ <<"other">> # <<"slot", e>> /\ <<"other">> # <<"store", e>>
  BY SMT

LEMMA ContentsAre ==
  ASSUME NEW x \in Contents
  PROVE  \/ x = <<"other">>
         \/ \E e \in Entry : x = <<"cert", e>>
         \/ \E s \in Slot : x = <<"slot", s>>
         \/ \E t \in Store : x = <<"store", t>>
  BY SMT DEF Contents

LEMMA AreContents ==
  /\ <<"other">> \in Contents
  /\ \A e \in Entry : <<"cert", e>> \in Contents
  /\ \A s \in Slot : <<"slot", s>> \in Contents
  /\ \A t \in Store : <<"store", t>> \in Contents
  BY SMT DEF Contents

\* GetNodeType tells the kinds apart, and an object is of one of them.
LEMMA Kinds ==
  ASSUME ServiceType, NEW n \in Node, content[n] # Nothing
  PROVE  /\ Kind(n) = "cert" => content[n][2] \in Entry /\ IsCert(n, content[n][2])
         /\ Kind(n) = "slot" => content[n][2] \in Slot /\ IsSlot(n, content[n][2])
         /\ Kind(n) = "store" => content[n][2] \in Store /\ IsStore(n, content[n][2])
         /\ Kind(n) \in {"other", "cert", "slot", "store"}
<1>1. content[n] \in Contents BY DEF ServiceType
<1> QED BY <1>1, ContentsAre, SMT DEF Kind, IsCert, IsSlot, IsStore

LEMMA KindOf ==
  ASSUME NEW n \in Node
  PROVE  /\ \A e : IsCert(n, e) => Kind(n) = "cert" /\ content[n][2] = e
         /\ \A s : IsSlot(n, s) => Kind(n) = "slot" /\ content[n][2] = s
         /\ \A t : IsStore(n, t) => Kind(n) = "store" /\ content[n][2] = t
  BY SMT DEF IsCert, IsSlot, IsStore, Kind

\* What stands for something exists.
LEMMA Existing ==
  ASSUME NEW n \in Node
  PROVE  /\ \A e \in Entry : IsCert(n, e) => content[n] # Nothing
         /\ \A s \in Slot : IsSlot(n, s) => content[n] # Nothing
         /\ \A t \in Store : IsStore(n, t) => content[n] # Nothing
  BY AreContents, CertConstantsOK DEF IsCert, IsSlot, IsStore

LEMMA Jobs ==
  /\ Idle[1] = "idle" /\ Idle[2] = NoName
  /\ \A c, e, p : LET j == <<"register", c, e, p>> IN j[1] = "register" /\ j[2] = c /\ j[3] = e /\ j[4] = p
  /\ \A c, e : LET j == <<"unregister", c, e>> IN j[1] = "unregister" /\ j[2] = c /\ j[3] = e
  BY SMT DEF Idle

\* What a worker that is at a step has.
LEMMA JobFacts ==
  ASSUME NEW j, JobOK(j)
  PROVE  /\ j[1] = "register" => j[2] \in Client /\ j[3] \in Entry /\ j[4] \in Id
         /\ j[1] = "unregister" => j[2] \in Client /\ j[3] \in Entry
         /\ j # Idle => j[1] \in {"register", "unregister"}
  BY Jobs, SMT DEF JobOK

\* An object is destroyed when it belongs to nobody.
LEMMA NobodysObject ==
  TypeOK => \A n \in Node : Unreferenced(n) <=> \A c \in Client : ~Belongs(n, c)
<1> SUFFICES ASSUME TypeOK, NEW n \in Node
             PROVE  Unreferenced(n) <=> \A c \in Client : ~Belongs(n, c)
  OBVIOUS
<1>1. \A h \in Holder : Holds(h) => accessor[h].client \in Client
  BY SMT DEF TypeOK, Holds, Accessor
<1> QED BY <1>1 DEF Unreferenced, InStorage, HeldBy, Belongs, StoredBy, HeldFor

----------------------------------------------------------------------------
(* Steps that let objects go.                                              *)

Destruction ==
    /\ content' = [n \in Node |-> IF n \in Destroyed THEN Nothing ELSE content[n]]
    /\ certs' = [e \in Entry |-> IF e \in Dropped THEN NoName ELSE certs[e]]

Shrinks == \A n \in Node, c \in Client : Belongs(n, c)' => Belongs(n, c)

Stays(n) == \E c \in Client : Belongs(n, c)'

\* The objects that belong to nobody any more take their entries with them.
LEMMA Destructors ==
  ASSUME TypeOK', ObjectsInv, Destruction, Shrinks
  PROVE  /\ \A n \in Node : content'[n] = IF Stays(n) THEN content[n] ELSE Nothing
         /\ \A e \in Entry : certs'[e] = IF \E n \in Node : IsCert(n, e) /\ ~Stays(n) THEN NoName ELSE certs[e]
<1>1. \A n \in Node : Unreferenced(n)' <=> ~Stays(n)
  <2>1. (\A n \in Node : Unreferenced(n) <=> \A c \in Client : ~Belongs(n, c))'
    BY NobodysObject, PTL
  <2> QED BY <2>1 DEF Stays
<1>2. \A n \in Node : n \in Destroyed <=> content[n] # Nothing /\ ~Stays(n)
  BY <1>1 DEF Destroyed
<1>3. \A n \in Node : content'[n] = IF Stays(n) THEN content[n] ELSE Nothing
  BY <1>2 DEF Destruction
<1>4. ASSUME NEW e \in Entry
      PROVE  e \in Dropped <=> \E n \in Node : IsCert(n, e) /\ ~Stays(n)
  <2>1. ASSUME e \in Dropped PROVE \E n \in Node : IsCert(n, e) /\ ~Stays(n)
    <3>1. PICK n \in Destroyed : Kind(n) = "cert" /\ content[n][2] = e BY <2>1 DEF Dropped
    <3>2. n \in Node /\ content[n] # Nothing /\ ~Stays(n) BY <1>2 DEF Destroyed
    <3> QED BY <3>1, <3>2, Kinds DEF ObjectsInv
  <2>2. ASSUME NEW n \in Node, IsCert(n, e), ~Stays(n) PROVE e \in Dropped
    <3>1. n \in Destroyed BY <2>2, <1>2, Existing
    <3>2. Kind(n) = "cert" /\ content[n][2] = e BY <2>2, KindOf
    <3> QED BY <3>1, <3>2 DEF Dropped
  <2> QED BY <2>1, <2>2
<1> QED BY <1>3, <1>4 DEF Destruction

\* A client whose registry was cleaned may connect again when nothing of it lives.
LEMMA LetGo ==
  ASSUME TypeOK', ObjectsInv, Destruction, Shrinks, UNCHANGED <<slotCache, storeCache, refs, job>>,
         torn' \in [Client -> SUBSET Parts],
         \A c \in Client : Registered(c)' = Registered(c) \/ \A e \in Entry : ~Live(c, e)'
  PROVE  ObjectsInv'
<1> USE DEF ObjectsInv
<1>1. /\ \A n \in Node : content'[n] = IF Stays(n) THEN content[n] ELSE Nothing
      /\ \A e \in Entry : certs'[e] = IF \E n \in Node : IsCert(n, e) /\ ~Stays(n) THEN NoName ELSE certs[e]
  BY Destructors
<1>2. ServiceType'
  <2>1. content' \in [Node -> Contents \cup {Nothing}] BY <1>1 DEF ServiceType, Destruction
  <2>2. certs' \in [Entry -> Client \cup {NoName}] BY <1>1 DEF ServiceType, Destruction
  <2> QED BY <2>1, <2>2 DEF ServiceType
<1>3. \A n \in Node : Stays(n) => content[n] # Nothing BY DEF Stays, Shrinks, Exists
<1>4. Exists'
  <2> SUFFICES ASSUME NEW n \in Node PROVE content'[n] # Nothing <=> Stays(n)
    BY DEF Exists, Stays
  <2> QED BY <1>1, <1>3
<1>5. OneClient' BY DEF OneClient, Shrinks
<1>6. \A n \in Node, e \in Entry : IsCert(n, e)' <=> IsCert(n, e) /\ Stays(n)
  <2> SUFFICES ASSUME NEW n \in Node, NEW e \in Entry PROVE IsCert(n, e)' <=> IsCert(n, e) /\ Stays(n)
    OBVIOUS
  <2>1. <<"cert", e>> # Nothing BY AreContents, CertConstantsOK
  <2> QED BY <2>1, <1>1 DEF IsCert
<1>7. OneObject' BY <1>6 DEF OneObject
<1>8. \A w \in Holder, c \in Client, e \in Entry : Has(w, c, e)' <=> Has(w, c, e) BY DEF Has
<1>9. OneJob' BY <1>6, <1>8 DEF OneJob
<1>10. Entries'
  <2> SUFFICES ASSUME NEW c \in Client, NEW e \in Entry
               PROVE  certs'[e] = c <=> Registered(c)' /\ Live(c, e)'
    BY DEF Entries
  <2>1. c # NoName BY CertConstantsOK
  <2>2. ASSUME certs'[e] = c PROVE Registered(c) /\ Live(c, e)'
    <3>1. certs[e] = c /\ \A n \in Node : IsCert(n, e) => Stays(n) BY <2>2, <2>1, <1>1
    <3>2. Registered(c) /\ Live(c, e) BY <3>1 DEF Entries
    <3>3. CASE \E w \in Holder : Has(w, c, e) BY <3>2, <3>3, <1>8 DEF Live
    <3>4. ASSUME NEW n \in Node, IsCert(n, e), Belongs(n, c) PROVE Live(c, e)'
      <4>1. Stays(n) BY <3>4, <3>1
      <4>2. PICK d \in Client : Belongs(n, d)' BY <4>1 DEF Stays
      <4>3. d = c BY <4>2, <3>4 DEF Shrinks, OneClient
      <4>4. IsCert(n, e)' BY <4>1, <3>4, <1>6
      <4> QED BY <4>2, <4>3, <4>4 DEF Live
    <3> QED BY <3>2, <3>3, <3>4 DEF Live
  <2>3. ASSUME Live(c, e)', Registered(c) PROVE certs'[e] = c
    <3>1. Live(c, e)
      <4>1. CASE \E w \in Holder : Has(w, c, e)' BY <4>1, <1>8 DEF Live
      <4>2. CASE \E n \in Node : IsCert(n, e)' /\ Belongs(n, c)' BY <4>2, <1>6 DEF Live, Shrinks
      <4> QED BY <2>3, <4>1, <4>2 DEF Live
    <3>2. certs[e] = c BY <3>1, <2>3 DEF Entries
    <3>3. \A n \in Node : IsCert(n, e) => Stays(n)
      <4>1. CASE \E w \in Holder : Has(w, c, e)' BY <4>1, <1>8 DEF OneJob
      <4>2. ASSUME NEW m \in Node, IsCert(m, e)', Belongs(m, c)' PROVE \A n \in Node : IsCert(n, e) => Stays(n)
        BY <4>2, <1>6 DEF OneObject
      <4> QED BY <2>3, <4>1, <4>2 DEF Live
    <3> QED BY <3>2, <3>3, <1>1
  <2> QED BY <2>2, <2>3
<1> QED BY <1>2, <1>4, <1>5, <1>7, <1>9, <1>10

----------------------------------------------------------------------------
(* Steps that add an object, and steps that leave the objects alone.       *)

\* The object that is stored becomes its client's.
LEMMA AttachBelongs ==
  ASSUME TypeOK, NEW c \in Client, NEW p, NEW n \in Node, Attach(c, p, n)
  PROVE  \A m \in Node, d \in Client : Belongs(m, d)' <=> Belongs(m, d) \/ (m = n /\ d = c)
<1>1. PICK id \in Id : FindsId(c, id) /\ nodeMap' = [nodeMap EXCEPT ![c][id] = n] /\ accessor' = accessor
  BY DEF Attach
<1>2. nodeMap[c][id] = NoNode BY <1>1 DEF FindsId, IsFree
<1>3. \A d \in Client, i \in Id : nodeMap'[d][i] = IF d = c /\ i = id THEN n ELSE nodeMap[d][i]
  BY <1>1 DEF TypeOK
<1>4. \A m \in Node, d \in Client : StoredBy(m, d)' <=> StoredBy(m, d) \/ (m = n /\ d = c)
  <2> SUFFICES ASSUME NEW m \in Node, NEW d \in Client
               PROVE  StoredBy(m, d)' <=> StoredBy(m, d) \/ (m = n /\ d = c)
    OBVIOUS
  <2>1. m # NoNode BY ConstantsOK
  <2> QED BY <2>1, <1>2, <1>3 DEF StoredBy
<1>5. \A m \in Node, d \in Client : HeldFor(m, d)' <=> HeldFor(m, d) BY <1>1 DEF HeldFor, Holds
<1> QED BY <1>4, <1>5 DEF Belongs

Added(c, n, x) ==
    /\ \A d \in Client : ~Belongs(n, d)
    /\ \A m \in Node, d \in Client : Belongs(m, d)' <=> Belongs(m, d) \/ (m = n /\ d = c)
    /\ content' = [content EXCEPT ![n] = x]
    /\ UNCHANGED <<certs, torn>>

LEMMA AddedFacts ==
  ASSUME ObjectsInv, NEW c \in Client, NEW n \in Node, NEW x \in Contents, Added(c, n, x)
  PROVE  /\ content[n] = Nothing /\ content'[n] = x
         /\ \A m \in Node \ {n} : content'[m] = content[m]
         /\ \A e \in Entry : ~IsCert(n, e)
         /\ Exists' /\ OneClient'
         /\ \A d \in Client : Registered(d)' = Registered(d)
<1>1. content[n] = Nothing BY DEF Added, ObjectsInv, Exists
<1>2. content'[n] = x /\ \A m \in Node \ {n} : content'[m] = content[m]
  BY DEF Added, ObjectsInv, ServiceType
<1>3. \A e \in Entry : ~IsCert(n, e) BY <1>1, Existing
<1>4. x # Nothing BY CertConstantsOK
<1>5. Exists'
  <2> SUFFICES ASSUME NEW m \in Node PROVE content'[m] # Nothing <=> \E d \in Client : Belongs(m, d)'
    BY DEF Exists
  <2>1. CASE m = n BY <2>1, <1>2, <1>4 DEF Added
  <2>2. CASE m # n
    <3>1. content'[m] = content[m] BY <2>2, <1>2
    <3>2. \A d \in Client : Belongs(m, d)' <=> Belongs(m, d) BY <2>2 DEF Added
    <3> QED BY <3>1, <3>2 DEF ObjectsInv, Exists
  <2> QED BY <2>1, <2>2
<1>6. OneClient'
  <2> SUFFICES ASSUME NEW m \in Node, NEW a \in Client, NEW b \in Client, Belongs(m, a)', Belongs(m, b)'
               PROVE  a = b
    BY DEF OneClient
  <2> QED BY DEF Added, ObjectsInv, OneClient
<1>7. \A d \in Client : Registered(d)' = Registered(d) BY DEF Added, Registered, Connected
<1> QED BY <1>1, <1>2, <1>3, <1>5, <1>6, <1>7

\* An object other than a certificate.
LEMMA AddPlain ==
  ASSUME ObjectsInv, ServiceType', NEW c \in Client, NEW n \in Node, NEW x \in Contents, Added(c, n, x),
         \A e \in Entry : x # <<"cert", e>>, job' = job
  PROVE  ObjectsInv'
<1>1. /\ content[n] = Nothing /\ content'[n] = x
      /\ \A m \in Node \ {n} : content'[m] = content[m]
      /\ \A e \in Entry : ~IsCert(n, e)
      /\ Exists' /\ OneClient'
      /\ \A d \in Client : Registered(d)' = Registered(d)
  BY AddedFacts
<1>2. \A m \in Node, e \in Entry : IsCert(m, e)' <=> IsCert(m, e) BY <1>1 DEF IsCert
<1>3. \A w \in Holder, d \in Client, e \in Entry : Has(w, d, e)' <=> Has(w, d, e) BY DEF Has
<1>4. OneObject' BY <1>2 DEF OneObject, ObjectsInv
<1>5. OneJob' BY <1>2, <1>3 DEF OneJob, ObjectsInv
<1>6. \A d \in Client, e \in Entry : Live(d, e)' <=> Live(d, e)
  <2> SUFFICES ASSUME NEW d \in Client, NEW e \in Entry PROVE Live(d, e)' <=> Live(d, e)
    OBVIOUS
  <2>1. \A m \in Node : IsCert(m, e)' /\ Belongs(m, d)' <=> IsCert(m, e) /\ Belongs(m, d)
    BY <1>1, <1>2 DEF Added
  <2> QED BY <2>1, <1>3 DEF Live
<1>7. Entries' BY <1>1, <1>6 DEF Added, Entries, ObjectsInv
<1> QED BY <1>1, <1>4, <1>5, <1>7 DEF ObjectsInv

\* The certificate that a worker has registered.
LEMMA AddCert ==
  ASSUME ObjectsInv, ServiceType', NEW c \in Client, NEW n \in Node, NEW e \in Entry,
         Added(c, n, <<"cert", e>>), NEW w \in Holder, Has(w, c, e), job' = [job EXCEPT ![w] = Idle]
  PROVE  ObjectsInv'
<1>1. <<"cert", e>> \in Contents BY AreContents
<1>2. /\ content[n] = Nothing /\ content'[n] = <<"cert", e>>
      /\ \A m \in Node \ {n} : content'[m] = content[m]
      /\ \A f \in Entry : ~IsCert(n, f)
      /\ Exists' /\ OneClient'
      /\ \A d \in Client : Registered(d)' = Registered(d)
  BY <1>1, AddedFacts
<1>3. \A m \in Node, f \in Entry : IsCert(m, f)' <=> IsCert(m, f) \/ (m = n /\ f = e)
  BY <1>2, Pairs DEF IsCert
<1>4. job'[w] = Idle /\ \A v \in Holder \ {w} : job'[v] = job[v] BY DEF ObjectsInv, ServiceType
<1>5. \A d \in Client, f \in Entry : ~Has(w, d, f)' BY <1>4, Jobs DEF Has
<1>6. \A v \in Holder \ {w}, d \in Client, f \in Entry : Has(v, d, f)' <=> Has(v, d, f) BY <1>4 DEF Has
<1>7. (\A m \in Node : ~IsCert(m, e)) /\ \A v \in Holder, d \in Client : Has(v, d, e) => v = w
  BY DEF ObjectsInv, OneJob
<1>8. OneObject'
  <2> SUFFICES ASSUME NEW m \in Node, NEW k \in Node, NEW f \in Entry, IsCert(m, f)', IsCert(k, f)' PROVE m = k
    BY DEF OneObject
  <2> QED BY <1>3, <1>7 DEF ObjectsInv, OneObject
<1>9. OneJob'
  <2> SUFFICES ASSUME NEW v \in Holder, NEW d \in Client, NEW f \in Entry, Has(v, d, f)'
               PROVE  /\ \A m \in Node : ~IsCert(m, f)'
                      /\ \A u \in Holder : \A b \in Client : Has(u, b, f)' => u = v
    BY DEF OneJob
  <2>1. v # w /\ Has(v, d, f) BY <1>5, <1>6
  <2>2. f # e BY <2>1, <1>7
  <2>3. (\A m \in Node : ~IsCert(m, f)) /\ \A u \in Holder : \A b \in Client : Has(u, b, f) => u = v
    BY <2>1 DEF ObjectsInv, OneJob
  <2> QED BY <2>2, <2>3, <1>3, <1>5, <1>6
<1>10. \A d \in Client, f \in Entry : Live(d, f)' <=> Live(d, f)
  <2> SUFFICES ASSUME NEW d \in Client, NEW f \in Entry PROVE Live(d, f)' <=> Live(d, f)
    OBVIOUS
  <2>1. Has(w, d, f) => f = e /\ d = c BY DEF Has
  <2>2. ASSUME Live(d, f) PROVE Live(d, f)'
    <3>1. CASE \E v \in Holder \ {w} : Has(v, d, f) BY <3>1, <1>6 DEF Live
    <3>2. CASE Has(w, d, f)
      <4>1. IsCert(n, f)' /\ Belongs(n, d)' BY <3>2, <2>1, <1>3 DEF Added
      <4> QED BY <4>1 DEF Live
    <3>3. ASSUME NEW m \in Node, IsCert(m, f), Belongs(m, d) PROVE Live(d, f)'
      <4>1. IsCert(m, f)' /\ Belongs(m, d)' BY <3>3, <1>3 DEF Added
      <4> QED BY <4>1 DEF Live
    <3> QED BY <2>2, <3>1, <3>2, <3>3 DEF Live
  <2>3. ASSUME Live(d, f)' PROVE Live(d, f)
    <3>1. ASSUME NEW v \in Holder, Has(v, d, f)' PROVE Live(d, f)
      <4>1. v # w BY <3>1, <1>5
      <4> QED BY <4>1, <3>1, <1>6 DEF Live
    <3>2. ASSUME NEW m \in Node, IsCert(m, f)', Belongs(m, d)' PROVE Live(d, f)
      <4>1. CASE m = n
        <5>1. f = e BY <4>1, <3>2, <1>3, <1>2
        <5>2. d = c BY <4>1, <3>2 DEF Added
        <5> QED BY <5>1, <5>2 DEF Live
      <4>2. CASE m # n
        <5>1. IsCert(m, f) /\ Belongs(m, d) BY <4>2, <3>2, <1>3 DEF Added
        <5> QED BY <5>1 DEF Live
      <4> QED BY <4>1, <4>2
    <3> QED BY <2>3, <3>1, <3>2 DEF Live
  <2> QED BY <2>2, <2>3
<1>11. Entries' BY <1>2, <1>10 DEF Added, Entries, ObjectsInv
<1> QED BY <1>2, <1>8, <1>9, <1>11 DEF ObjectsInv

\* What no step of the objects has touched.
LEMMA Unmoved ==
  ASSUME ObjectsInv, ServiceType', UNCHANGED <<content, certs>>,
         \A n \in Node, c \in Client : Belongs(n, c)' <=> Belongs(n, c),
         \A w \in Holder, c \in Client, e \in Entry : Has(w, c, e)' <=> Has(w, c, e),
         \A c \in Client : Registered(c)' = Registered(c) \/ \A e \in Entry : ~Live(c, e)
  PROVE  ObjectsInv'
<1> USE DEF ObjectsInv
<1>1. \A n \in Node, e \in Entry : IsCert(n, e)' <=> IsCert(n, e) BY DEF IsCert
<1>2. \A c \in Client, e \in Entry : Live(c, e)' <=> Live(c, e) BY <1>1 DEF Live
<1>3. Exists' BY DEF Exists
<1>4. OneClient' BY DEF OneClient
<1>5. OneObject' BY <1>1 DEF OneObject
<1>6. OneJob' BY <1>1 DEF OneJob
<1>7. Entries' BY <1>2 DEF Entries
<1> QED BY <1>3, <1>4, <1>5, <1>6, <1>7

\* The entry that a worker registers has nothing else.
LEMMA NewEntry ==
  ASSUME ObjectsInv, ServiceType', NEW c \in Client, NEW e \in Entry, NEW w \in Holder, NEW p, FreshEntry(e),
         Connected(c), job[w] = Idle, job' = [job EXCEPT ![w] = <<"register", c, e, p>>],
         certs' = [certs EXCEPT ![e] = c], UNCHANGED <<vars, content, torn>>
  PROVE  ObjectsInv'
<1> USE DEF ObjectsInv
<1>1. \A n \in Node, f \in Entry : IsCert(n, f)' <=> IsCert(n, f) BY DEF IsCert
<1>2. \A n \in Node, d \in Client : Belongs(n, d)' <=> Belongs(n, d)
  BY DEF vars, Belongs, StoredBy, HeldFor, Holds
<1>3. /\ \A n \in Node : ~IsCert(n, e)
      /\ \A v \in Holder, d \in Client : ~Has(v, d, e)
  <2>1. ASSUME NEW n \in Node, IsCert(n, e) PROVE FALSE
    <3>1. content[n] # Nothing BY <2>1, Existing
    <3>2. Kind(n) = "cert" /\ content[n][2] = e BY <2>1, KindOf
    <3> QED BY <3>1, <3>2 DEF FreshEntry
  <2>2. ASSUME NEW v \in Holder, NEW d \in Client, Has(v, d, e) PROVE FALSE
    BY <2>2 DEF FreshEntry, Has
  <2> QED BY <2>1, <2>2
<1>4. job'[w] = <<"register", c, e, p>> /\ \A v \in Holder \ {w} : job'[v] = job[v] BY DEF ServiceType
<1>5. \A d \in Client, f \in Entry : Has(w, d, f)' <=> d = c /\ f = e
  <2>1. job'[w][1] = "register" /\ job'[w][2] = c /\ job'[w][3] = e BY <1>4, SMT
  <2> QED BY <2>1 DEF Has
<1>6. \A d \in Client, f \in Entry : ~Has(w, d, f) BY Jobs DEF Has
<1>7. \A v \in Holder \ {w}, d \in Client, f \in Entry : Has(v, d, f)' <=> Has(v, d, f) BY <1>4 DEF Has
<1>8. certs'[e] = c /\ \A f \in Entry \ {e} : certs'[f] = certs[f] BY DEF ServiceType
<1>9. Exists' BY <1>2 DEF Exists
<1>10. OneClient' BY <1>2 DEF OneClient
<1>11. OneObject' BY <1>1 DEF OneObject
<1>12. OneJob'
  <2> SUFFICES ASSUME NEW v \in Holder, NEW d \in Client, NEW f \in Entry, Has(v, d, f)'
               PROVE  /\ \A m \in Node : ~IsCert(m, f)'
                      /\ \A u \in Holder : \A b \in Client : Has(u, b, f)' => u = v
    BY DEF OneJob
  <2>1. CASE v = w BY <2>1, <1>1, <1>3, <1>5, <1>7
  <2>2. CASE v # w
    <3>1. Has(v, d, f) BY <2>2, <1>7
    <3>2. f # e BY <3>1, <1>3
    <3>3. (\A m \in Node : ~IsCert(m, f)) /\ \A u \in Holder : \A b \in Client : Has(u, b, f) => u = v
      BY <3>1 DEF OneJob
    <3> QED BY <3>2, <3>3, <1>1, <1>5, <1>7
  <2> QED BY <2>1, <2>2
<1>13. \A d \in Client, f \in Entry : Live(d, f)' <=> Live(d, f) \/ (d = c /\ f = e)
  <2> SUFFICES ASSUME NEW d \in Client, NEW f \in Entry
               PROVE  Live(d, f)' <=> Live(d, f) \/ (d = c /\ f = e)
    OBVIOUS
  <2>1. (\E v \in Holder : Has(v, d, f)') <=> (\E v \in Holder : Has(v, d, f)) \/ (d = c /\ f = e)
    BY <1>5, <1>6, <1>7
  <2>2. (\E n \in Node : IsCert(n, f)' /\ Belongs(n, d)') <=> (\E n \in Node : IsCert(n, f) /\ Belongs(n, d))
    BY <1>1, <1>2
  <2> QED BY <2>1, <2>2 DEF Live
<1>14. \A d \in Client : Registered(d)' = Registered(d) BY DEF Registered, Connected
<1>15. \A d \in Client : ~Live(d, e) BY <1>3 DEF Live
<1>16. Entries'
  <2> SUFFICES ASSUME NEW d \in Client, NEW f \in Entry PROVE certs'[f] = d <=> Registered(d)' /\ Live(d, f)'
    BY DEF Entries
  <2>1. CASE f = e BY <2>1, <1>8, <1>13, <1>14, <1>15 DEF Registered
  <2>2. CASE f # e BY <2>2, <1>8, <1>13, <1>14 DEF Entries
  <2> QED BY <2>1, <2>2
<1> QED BY <1>9, <1>10, <1>11, <1>12, <1>16

\* The entry whose node was not added goes again.
LEMMA EntryGoes ==
  ASSUME ObjectsInv, ServiceType', NEW w \in Holder, NEW c \in Client, NEW e \in Entry, Has(w, c, e),
         job' = [job EXCEPT ![w] = Idle], certs' = [certs EXCEPT ![e] = NoName], UNCHANGED <<vars, content, torn>>
  PROVE  ObjectsInv'
<1> USE DEF ObjectsInv
<1>1. \A n \in Node, f \in Entry : IsCert(n, f)' <=> IsCert(n, f) BY DEF IsCert
<1>2. \A n \in Node, d \in Client : Belongs(n, d)' <=> Belongs(n, d)
  BY DEF vars, Belongs, StoredBy, HeldFor, Holds
<1>3. job'[w] = Idle /\ \A v \in Holder \ {w} : job'[v] = job[v] BY DEF ServiceType
<1>4. \A d \in Client, f \in Entry : ~Has(w, d, f)' BY <1>3, Jobs DEF Has
<1>5. \A v \in Holder \ {w}, d \in Client, f \in Entry : Has(v, d, f)' <=> Has(v, d, f) BY <1>3 DEF Has
<1>6. \A d \in Client, f \in Entry : Has(w, d, f) => f = e BY DEF Has
<1>7. \A d \in Client : ~Live(d, e)'
  <2>1. (\A m \in Node : ~IsCert(m, e)) /\ \A v \in Holder, d \in Client : Has(v, d, e) => v = w
    BY DEF OneJob
  <2> QED BY <2>1, <1>1, <1>4, <1>5 DEF Live
<1>8. \A d \in Client, f \in Entry \ {e} : Live(d, f)' <=> Live(d, f)
  <2> SUFFICES ASSUME NEW d \in Client, NEW f \in Entry \ {e} PROVE Live(d, f)' <=> Live(d, f)
    OBVIOUS
  <2>1. \A v \in Holder : Has(v, d, f)' <=> Has(v, d, f) BY <1>4, <1>5, <1>6
  <2> QED BY <2>1, <1>1, <1>2 DEF Live
<1>9. certs'[e] = NoName /\ \A f \in Entry \ {e} : certs'[f] = certs[f] BY DEF ServiceType
<1>10. NoName \notin Client BY CertConstantsOK
<1>11. \A d \in Client : Registered(d)' = Registered(d) BY DEF Registered, Connected
<1>12. Entries'
  <2> SUFFICES ASSUME NEW d \in Client, NEW f \in Entry PROVE certs'[f] = d <=> Registered(d)' /\ Live(d, f)'
    BY DEF Entries
  <2>1. CASE f = e BY <2>1, <1>7, <1>9, <1>10
  <2>2. CASE f # e BY <2>2, <1>8, <1>9, <1>11 DEF Entries
  <2> QED BY <2>1, <2>2
<1>13. Exists' BY <1>2 DEF Exists
<1>14. OneClient' BY <1>2 DEF OneClient
<1>15. OneObject' BY <1>1 DEF OneObject
<1>16. OneJob'
  <2> SUFFICES ASSUME NEW v \in Holder, NEW d \in Client, NEW f \in Entry, Has(v, d, f)'
               PROVE  /\ \A m \in Node : ~IsCert(m, f)'
                      /\ \A u \in Holder : \A b \in Client : Has(u, b, f)' => u = v
    BY DEF OneJob
  <2>1. v # w /\ Has(v, d, f) BY <1>4, <1>5
  <2>2. (\A m \in Node : ~IsCert(m, f)) /\ \A u \in Holder : \A b \in Client : Has(u, b, f) => u = v
    BY <2>1 DEF OneJob
  <2> QED BY <2>2, <1>1, <1>4, <1>5
<1> QED BY <1>12, <1>13, <1>14, <1>15, <1>16

\* CleanupClient takes the client's entries away, which has none once its
\* objects are gone.
LEMMA EntriesGo ==
  ASSUME ObjectsInv, ServiceType', NEW c \in Client,
         certs' = [e \in Entry |-> IF certs[e] = c THEN NoName ELSE certs[e]], UNCHANGED <<vars, content, job>>,
         \A d \in Client \ {c} : Registered(d)' = Registered(d),
         ~Registered(c)' \/ \A e \in Entry : ~Live(c, e)
  PROVE  ObjectsInv'
<1> USE DEF ObjectsInv
<1>1. \A n \in Node, f \in Entry : IsCert(n, f)' <=> IsCert(n, f) BY DEF IsCert
<1>2. \A n \in Node, d \in Client : Belongs(n, d)' <=> Belongs(n, d)
  BY DEF vars, Belongs, StoredBy, HeldFor, Holds
<1>3. \A w \in Holder, d \in Client, f \in Entry : Has(w, d, f)' <=> Has(w, d, f) BY DEF Has
<1>4. \A d \in Client, f \in Entry : Live(d, f)' <=> Live(d, f) BY <1>1, <1>2, <1>3 DEF Live
<1>5. NoName \notin Client BY CertConstantsOK
<1>6. Entries'
  <2> SUFFICES ASSUME NEW d \in Client, NEW f \in Entry PROVE certs'[f] = d <=> Registered(d)' /\ Live(d, f)'
    BY DEF Entries
  <2>1. certs'[f] = IF certs[f] = c THEN NoName ELSE certs[f] OBVIOUS
  <2>2. CASE d = c BY <2>1, <2>2, <1>4, <1>5
  <2>3. CASE d # c
    <3>1. certs[f] = d <=> Registered(d) /\ Live(d, f) BY DEF Entries
    <3> QED BY <3>1, <2>1, <2>3, <1>4, <1>5
  <2> QED BY <2>2, <2>3
<1>7. Exists' BY <1>2 DEF Exists
<1>8. OneClient' BY <1>2 DEF OneClient
<1>9. OneObject' BY <1>1 DEF OneObject
<1>10. OneJob' BY <1>1, <1>3 DEF OneJob
<1> QED BY <1>6, <1>7, <1>8, <1>9, <1>10

----------------------------------------------------------------------------
(* The nodes of slots and stores.                                          *)

\* What is torn down wholly is as after the first connect.
DownIsNew == \A c \in Client : TornDown(c) /\ RootsOf(c) => ResourcesOf(c)

LEMMA WhollyDown == DownIsNew
<1> SUFFICES ASSUME NEW c \in Client, TornDown(c), RootsOf(c), Connected(c) PROVE NodesOf(c)
  BY DEF ResourcesOf, DownIsNew
<1>1. {"nodes", "caches", "refs"} \subseteq torn[c] BY DEF Connected, Parts
<1>2. \A i \in Id : i # 0 BY ConstantsOK, SMT DEF Id
<1>3. NoNode \notin Node BY ConstantsOK
<1> QED BY <1>1, <1>2, <1>3 DEF TornDown, NodesOf, SlotAt, StoreAt

\* A client of whose part a step changes nothing.
SamePart(c) ==
    /\ nodeMap'[c] = nodeMap[c] /\ parent'[c] = parent[c]
    /\ slotCache'[c] = slotCache[c] /\ storeCache'[c] = storeCache[c]
    /\ refs'[c] = refs[c] /\ torn'[c] = torn[c]
    /\ \A i \in Id : nodeMap[c][i] \in Node => content'[nodeMap[c][i]] = content[nodeMap[c][i]]

LEMMA SameResources ==
  ASSUME NEW c \in Client, ResourcesOf(c), SamePart(c), ~Connected(c) => Drained(c)'
  PROVE  ResourcesOf(c)'
<1> USE DEF SamePart
<1>1. Connected(c)' <=> Connected(c) BY DEF Connected
<1>2. \A i \in Id : \A s : SlotAt(c, i, s)' <=> SlotAt(c, i, s) BY DEF SlotAt, IsSlot
<1>3. \A i \in Id : \A t : StoreAt(c, i, t)' <=> StoreAt(c, i, t) BY DEF StoreAt, IsStore
<1>4. RootsOf(c)' BY <1>2, <1>3 DEF ResourcesOf, RootsOf, ResourceAt
<1>5. ASSUME NodesOf(c) PROVE NodesOf(c)'
  <2>a. \A s \in Slot, i \in Id : SlotAt(c, i, s) <=> slotCache[c][s] = i BY <1>5 DEF NodesOf
  <2>b. \A t \in Store, i \in Id : StoreAt(c, i, t) <=> storeCache[c][t] = i BY <1>5 DEF NodesOf
  <2>1. ASSUME NEW s \in Slot, NEW i \in Id PROVE SlotAt(c, i, s)' <=> slotCache'[c][s] = i
    <3>1. SlotAt(c, i, s)' <=> SlotAt(c, i, s) BY <1>2
    <3> QED BY <3>1, <2>a
  <2>2. ASSUME NEW t \in Store, NEW i \in Id PROVE StoreAt(c, i, t)' <=> storeCache'[c][t] = i
    <3>1. StoreAt(c, i, t)' <=> StoreAt(c, i, t) BY <1>3
    <3> QED BY <3>1, <2>b
  <2>3. \A t \in refs'[c] : storeCache'[c][t] # 0 BY <1>5 DEF NodesOf
  <2> QED BY <2>1, <2>2, <2>3 DEF NodesOf
<1>6. TornDown(c) /\ Drained(c)' => TornDown(c)' BY DEF TornDown
<1> QED BY <1>1, <1>4, <1>5, <1>6 DEF ResourcesOf

\* A client that no call serves stays so while calls begin for others only.
LEMMA StaysDrained ==
  ASSUME NEW c \in Client, Drained(c),
         \A w \in Holder : job'[w][2] = job[w][2] \/ job'[w][2] # c,
         \A w \in Holder : accessor'[w] = accessor[w] \/ accessor'[w] = NoAccessor \/ accessor'[w].client # c
  PROVE  Drained(c)'
  BY DEF Drained, Holds

\* What is added: at a root when it is a slot or a store, which is new then.
LEMMA AddedResources ==
  ASSUME StorageInv, ObjectsInv, ResourceInv, NEW c \in Client, NEW p \in 0..MaxId, NEW n \in Node, NEW x \in Contents,
         Unreferenced(n), Attach(c, p, n), Connected(c), content' = [content EXCEPT ![n] = x], UNCHANGED <<refs, torn>>,
         p = 0 \/ \A s : x # <<"slot", s>> /\ x # <<"store", s>>,
         \A s \in Slot :
             /\ x = <<"slot", s>> => slotCache[c][s] = 0
             /\ slotCache'[c][s] = IF x = <<"slot", s>> THEN idCounter'[c] ELSE slotCache[c][s],
         \A t \in Store :
             /\ x = <<"store", t>> => storeCache[c][t] = 0
             /\ storeCache'[c][t] = IF x = <<"store", t>> THEN idCounter'[c] ELSE storeCache[c][t]
  PROVE  ResourcesOf(c)'
<1>1. PICK id \in Id : /\ FindsId(c, id)
                       /\ nodeMap' = [nodeMap EXCEPT ![c][id] = n]
                       /\ idCounter' = [idCounter EXCEPT ![c] = id]
                       /\ parent' = [parent EXCEPT ![c][id] = p]
  BY DEF Attach
<1>2. nodeMap[c][id] = NoNode BY <1>1 DEF FindsId, IsFree
<1>3. nodeMap'[c][id] = n /\ parent'[c][id] = p /\ idCounter'[c] = id BY <1>1 DEF StorageInv, TypeOK
<1>4. \A i \in Id \ {id} : nodeMap'[c][i] = nodeMap[c][i] /\ parent'[c][i] = parent[c][i]
  BY <1>1 DEF StorageInv, TypeOK
<1>5. content'[n] = x /\ \A m \in Node \ {n} : content'[m] = content[m] BY DEF ObjectsInv, ServiceType
<1>6. \A i \in Id : nodeMap[c][i] # n BY DEF Unreferenced, InStorage
<1>7. NoNode \notin Node /\ \A i \in Id : i # 0 BY ConstantsOK, SMT DEF Id
<1>8. RootsOf(c) /\ NodesOf(c) BY DEF ResourceInv, ResourcesOf
<1>9. ASSUME NEW i \in Id, i # id
      PROVE  \A s : /\ SlotAt(c, i, s)' <=> SlotAt(c, i, s)
                    /\ StoreAt(c, i, s)' <=> StoreAt(c, i, s)
  BY <1>9, <1>4, <1>5, <1>6 DEF SlotAt, StoreAt, IsSlot, IsStore
<1>10. \A s : (SlotAt(c, id, s)' <=> x = <<"slot", s>>) /\ (StoreAt(c, id, s)' <=> x = <<"store", s>>)
  BY <1>3, <1>5 DEF SlotAt, StoreAt, IsSlot, IsStore
<1>11. RootsOf(c)'
  <2> SUFFICES ASSUME NEW i \in Id, ResourceAt(c, i)' PROVE parent'[c][i] = 0
    BY DEF RootsOf
  <2>1. CASE i = id BY <2>1, <1>3, <1>10 DEF ResourceAt
  <2>2. CASE i # id
    <3>1. ResourceAt(c, i) BY <2>2, <1>9 DEF ResourceAt
    <3> QED BY <2>2, <3>1, <1>4, <1>8 DEF RootsOf
  <2> QED BY <2>1, <2>2
<1>12. ASSUME NEW s \in Slot, NEW i \in Id PROVE SlotAt(c, i, s)' <=> slotCache'[c][s] = i
  <2>1. slotCache[c][s] # id BY <1>2, <1>7, <1>8 DEF NodesOf, SlotAt
  <2>2. CASE i = id
    <3>1. SlotAt(c, i, s)' <=> x = <<"slot", s>> BY <2>2, <1>10
    <3> QED BY <3>1, <2>1, <2>2, <1>3
  <2>3. CASE i # id
    <3>1. SlotAt(c, i, s)' <=> SlotAt(c, i, s) BY <2>3, <1>9
    <3>2. SlotAt(c, i, s) <=> slotCache[c][s] = i BY <1>8 DEF NodesOf
    <3> QED BY <3>1, <3>2, <2>3, <1>3, <1>7
  <2> QED BY <2>2, <2>3
<1>13. ASSUME NEW t \in Store, NEW i \in Id PROVE StoreAt(c, i, t)' <=> storeCache'[c][t] = i
  <2>1. storeCache[c][t] # id BY <1>2, <1>7, <1>8 DEF NodesOf, StoreAt
  <2>2. CASE i = id
    <3>1. StoreAt(c, i, t)' <=> x = <<"store", t>> BY <2>2, <1>10
    <3> QED BY <3>1, <2>1, <2>2, <1>3
  <2>3. CASE i # id
    <3>1. StoreAt(c, i, t)' <=> StoreAt(c, i, t) BY <2>3, <1>9
    <3>2. StoreAt(c, i, t) <=> storeCache[c][t] = i BY <1>8 DEF NodesOf
    <3> QED BY <3>1, <3>2, <2>3, <1>3, <1>7
  <2> QED BY <2>2, <2>3
<1>14. \A t \in refs'[c] : storeCache'[c][t] # 0
  <2> SUFFICES ASSUME NEW t \in refs[c] PROVE storeCache'[c][t] # 0
    OBVIOUS
  <2>1. t \in Store BY DEF ObjectsInv, ServiceType
  <2>2. storeCache[c][t] # 0 BY <1>8 DEF NodesOf
  <2> QED BY <2>1, <2>2
<1>15. NodesOf(c)' BY <1>12, <1>13, <1>14 DEF NodesOf
<1>16. Connected(c)' BY DEF Connected
<1> QED BY <1>11, <1>15, <1>16 DEF ResourcesOf

----------------------------------------------------------------------------
(* Steps of the data manager that let objects go.                          *)

LEMMA RemovalShrinks ==
  ASSUME TypeOK, NEW c \in Client, NEW roots \in SUBSET Id, RemoveNodesFromStorage(c, roots)
  PROVE  Shrinks
<1>1. /\ \A i \in Id : nodeMap'[c][i] = IF i \in Gone(c, roots) THEN NoNode ELSE nodeMap[c][i]
      /\ \A d \in Client \ {c} : nodeMap'[d] = nodeMap[d]
      /\ accessor' = accessor
  BY RemovalEffect
<1>2. NoNode \notin Node BY ConstantsOK
<1>3. ASSUME NEW n \in Node, NEW d \in Client, StoredBy(n, d)' PROVE StoredBy(n, d)
  <2>1. PICK i \in Id : nodeMap'[d][i] = n BY <1>3 DEF StoredBy
  <2>2. CASE d = c
    <3>1. nodeMap[d][i] = n BY <2>1, <2>2, <1>1, <1>2
    <3> QED BY <3>1 DEF StoredBy
  <2>3. CASE d # c
    <3>1. nodeMap[d][i] = n BY <2>1, <2>3, <1>1
    <3> QED BY <3>1 DEF StoredBy
  <2> QED BY <2>2, <2>3
<1>4. ASSUME NEW n \in Node, NEW d \in Client, HeldFor(n, d)' PROVE HeldFor(n, d)
  BY <1>1, <1>4 DEF HeldFor, Holds
<1> QED BY <1>3, <1>4 DEF Shrinks, Belongs

LEMMA ReleaseShrinks ==
  ASSUME TypeOK, NEW h \in Holder, ReleaseNodeAccessor(h)
  PROVE  Shrinks
<1>1. accessor' = [accessor EXCEPT ![h] = NoAccessor] /\ nodeMap' = nodeMap BY DEF ReleaseNodeAccessor
<1>2. \A g \in Holder : accessor'[g] = IF g = h THEN NoAccessor ELSE accessor[g] BY <1>1 DEF TypeOK
<1>3. ASSUME NEW n \in Node, NEW d \in Client, HeldFor(n, d)' PROVE HeldFor(n, d)
  <2>1. PICK g \in Holder : accessor'[g] # NoAccessor /\ accessor'[g].node = n /\ accessor'[g].client = d
    BY <1>3 DEF HeldFor, Holds
  <2>2. accessor'[g] = accessor[g] BY <2>1, <1>2
  <2> QED BY <2>1, <2>2 DEF HeldFor, Holds
<1>4. ASSUME NEW n \in Node, NEW d \in Client, StoredBy(n, d)' PROVE StoredBy(n, d) BY <1>1, <1>4 DEF StoredBy
<1> QED BY <1>3, <1>4 DEF Shrinks, Belongs

\* A stored object keeps its contents.
LEMMA StoredStays ==
  ASSUME TypeOK', ObjectsInv, Destruction, Shrinks, NEW c \in Client, NEW i \in Id, NEW n \in Node, nodeMap'[c][i] = n
  PROVE  content'[n] = content[n]
<1>1. Stays(n) BY DEF Stays, Belongs, StoredBy
<1> QED BY <1>1, Destructors

\* Deleting a node takes no other root away.
LEMMA NoOtherRoot ==
  ASSUME StorageInv, NEW c \in Client, NEW id \in Id, NEW i \in Gone(c, {id}), i # id
  PROVE  parent[c][i] # 0
<1> DEFINE S == {id} \cup {j \in Id : parent[c][j] # 0}
<1>1. ClosedUnderChildren(c, S)
  <2> SUFFICES ASSUME NEW k \in Stored(c), NEW j \in children[c][k] PROVE j \in S
    BY DEF ClosedUnderChildren
  <2>1. k \in Id /\ j \in Id BY SMT DEF StorageInv, TypeOK, Stored
  <2>2. parent[c][j] = k BY <2>1 DEF StorageInv, Forest
  <2>3. k # 0 BY <2>1, ConstantsOK, SMT DEF Id
  <2> QED BY <2>1, <2>2, <2>3
<1>2. S \in SUBSET Id /\ {id} \subseteq S OBVIOUS
<1>3. i \in S BY <1>1, <1>2 DEF Gone, Visited
<1> QED BY <1>3

\* Deleting a certificate or another node leaves the resource nodes.
LEMMA DeletedResources ==
  ASSUME StorageInv, TypeOK', ObjectsInv, ResourceInv, NEW c \in Client, NEW id \in Id, DeleteNode(c, id), Destroy,
         Connected(c), Kind(nodeMap[c][id]) \in {"other", "cert"}
  PROVE  ResourcesOf(c)'
<1>1. TypeOK /\ RemoveNodesFromStorage(c, {id}) /\ {id} \in SUBSET Id BY DEF DeleteNode, StorageInv
<1>2. /\ \A i \in Id : nodeMap'[c][i] = IF i \in Gone(c, {id}) THEN NoNode ELSE nodeMap[c][i]
      /\ \A i \in Id : parent'[c][i] = IF i \in Gone(c, {id}) THEN 0 ELSE parent[c][i]
  BY <1>1, RemovalEffect
<1>3. Shrinks BY <1>1, RemovalShrinks
<1>4. Destruction /\ UNCHANGED <<slotCache, storeCache, refs, torn>> BY DEF Destroy, Destruction
<1>5. RootsOf(c) /\ NodesOf(c) BY DEF ResourceInv, ResourcesOf
<1>6. NoNode \notin Node BY ConstantsOK
<1>7. ASSUME NEW i \in Gone(c, {id}), i \in Id, ResourceAt(c, i) PROVE FALSE
  <2>1. CASE i = id
    <3>1. "slot" \notin {"other", "cert"} /\ "store" \notin {"other", "cert"} BY SMT
    <3>2. nodeMap[c][id] \in Node => Kind(nodeMap[c][id]) \notin {"slot", "store"} BY <3>1
    <3> QED BY <1>7, <2>1, <3>2, KindOf DEF ResourceAt, SlotAt, StoreAt
  <2>2. CASE i # id BY <1>7, <2>2, <1>5, NoOtherRoot DEF RootsOf
  <2> QED BY <2>1, <2>2
<1>8. ASSUME NEW i \in Id, i \notin Gone(c, {id})
      PROVE  \A s : (SlotAt(c, i, s)' <=> SlotAt(c, i, s)) /\ (StoreAt(c, i, s)' <=> StoreAt(c, i, s))
  <2>1. nodeMap'[c][i] = nodeMap[c][i] BY <1>2, <1>8
  <2>2. nodeMap[c][i] \in Node => content'[nodeMap[c][i]] = content[nodeMap[c][i]]
    BY <2>1, <1>3, <1>4, StoredStays
  <2> QED BY <2>1, <2>2 DEF SlotAt, StoreAt, IsSlot, IsStore
<1>9. ASSUME NEW i \in Id, i \in Gone(c, {id})
      PROVE  \A s : ~SlotAt(c, i, s)' /\ ~StoreAt(c, i, s)'
  BY <1>2, <1>6, <1>9 DEF SlotAt, StoreAt
<1>10. ASSUME NEW i \in Id
       PROVE  /\ \A s \in Slot : SlotAt(c, i, s)' <=> SlotAt(c, i, s)
              /\ \A t \in Store : StoreAt(c, i, t)' <=> StoreAt(c, i, t)
  BY <1>7, <1>8, <1>9 DEF ResourceAt
<1>11. RootsOf(c)'
  <2> SUFFICES ASSUME NEW i \in Id, ResourceAt(c, i)' PROVE parent'[c][i] = 0
    BY DEF RootsOf
  <2>1. ResourceAt(c, i) BY <1>10 DEF ResourceAt
  <2> QED BY <2>1, <1>2, <1>5 DEF RootsOf
<1>12. NodesOf(c)'
  <2>1. \A s \in Slot, i \in Id : SlotAt(c, i, s)' <=> slotCache'[c][s] = i BY <1>4, <1>5, <1>10 DEF NodesOf
  <2>2. \A t \in Store, i \in Id : StoreAt(c, i, t)' <=> storeCache'[c][t] = i BY <1>4, <1>5, <1>10 DEF NodesOf
  <2>3. \A t \in refs'[c] : storeCache'[c][t] # 0 BY <1>4, <1>5 DEF NodesOf
  <2> QED BY <2>1, <2>2, <2>3 DEF NodesOf
<1>13. Connected(c)' BY <1>4 DEF Connected
<1> QED BY <1>11, <1>12, <1>13 DEF ResourcesOf

\* deleteClientNodes leaves nothing, and when there is no entry node there is
\* nothing to delete.
LEMMA NothingStored ==
  ASSUME StorageInv, NEW c \in Client,
         IF entryNodes[c] # {} THEN DeleteClientNodes(c) ELSE UNCHANGED vars
  PROVE  \A i \in Id : nodeMap'[c][i] = NoNode
<1>1. TypeOK /\ entryNodes[c] \in SUBSET Id BY DEF StorageInv, TypeOK
<1>2. Stored(c) \subseteq Visited(c, entryNodes[c]) BY DEF StorageInv, NoOrphans
<1>3. CASE entryNodes[c] # {}
  <2>1. RemoveNodesFromStorage(c, entryNodes[c]) BY <1>3 DEF DeleteClientNodes
  <2>2. \A i \in Id : nodeMap'[c][i] = IF i \in Gone(c, entryNodes[c]) THEN NoNode ELSE nodeMap[c][i]
    BY <1>1, <2>1, RemovalEffect
  <2>3. Gone(c, entryNodes[c]) = Stored(c) BY <1>2 DEF Gone
  <2>4. \A i \in Id : i \notin Stored(c) => nodeMap[c][i] = NoNode BY DEF Stored
  <2> QED BY <2>2, <2>3, <2>4
<1>4. CASE entryNodes[c] = {}
  <2>1. ClosedUnderChildren(c, {}) BY DEF ClosedUnderChildren
  <2>2. Visited(c, {}) = {} BY <2>1 DEF Visited
  <2>3. Stored(c) = {} BY <2>2, <1>2, <1>4
  <2>4. nodeMap' = nodeMap BY <1>4 DEF vars
  <2> QED BY <2>3, <2>4 DEF Stored
<1> QED BY <1>3, <1>4

----------------------------------------------------------------------------
(* The steps of the service.                                               *)

Preserved == ObjectsInv' /\ ResourceInv'

\* Clients that are not connected have no calls.
LEMMA DownDrained == \A c \in Client : ResourceInv /\ ~Connected(c) => Drained(c)
  BY DEF ResourceInv, ResourcesOf, TornDown

\* deleteNode, of a certificate or by another user.
LEMMA DeleteStep ==
  ASSUME CertInv, NEW c \in Client, NEW id \in Id, Connected(c), Kind(nodeMap[c][id]) \in {"other", "cert"},
         DeleteNode(c, id), Destroy
  PROVE  StorageInv' /\ Preserved
<1>1. [Next]_vars BY DEF Next
<1>2. StorageInv /\ ObjectsInv /\ ResourceInv BY DEF CertInv
<1>3. StorageInv' /\ TypeOK /\ TypeOK' BY <1>1, <1>2, StorageStep DEF StorageInv
<1>4. RemoveNodesFromStorage(c, {id}) /\ {id} \in SUBSET Id BY DEF DeleteNode
<1>5. Shrinks BY <1>3, <1>4, RemovalShrinks
<1>6. Destruction /\ UNCHANGED <<slotCache, storeCache, refs, job, torn>> BY DEF Destroy, Destruction
<1>7. ObjectsInv'
  <2>1. \A d \in Client : Registered(d)' = Registered(d) BY <1>6 DEF Registered, Connected
  <2>2. torn' \in [Client -> SUBSET Parts] BY <1>2, <1>6 DEF ObjectsInv, ServiceType
  <2> QED BY <2>1, <2>2, <1>2, <1>3, <1>5, <1>6, LetGo
<1>8. ASSUME NEW d \in Client, d # c PROVE ResourcesOf(d)'
  <2>1. nodeMap'[d] = nodeMap[d] /\ parent'[d] = parent[d] /\ accessor' = accessor
    BY <1>3, <1>4, <1>8, RemovalEffect
  <2>2. \A i \in Id : nodeMap[d][i] \in Node => content'[nodeMap[d][i]] = content[nodeMap[d][i]]
    BY <2>1, <1>2, <1>3, <1>5, <1>6, StoredStays
  <2>3. SamePart(d) BY <2>1, <2>2, <1>6 DEF SamePart
  <2>4. ~Connected(d) => Drained(d)' BY <2>1, <1>2, <1>6, DownDrained, StaysDrained
  <2> QED BY <2>3, <2>4, <1>2, SameResources DEF ResourceInv
<1>9. ResourcesOf(c)' BY <1>2, <1>3, DeletedResources
<1> QED BY <1>3, <1>7, <1>8, <1>9 DEF Preserved, ResourceInv

\* A read returns.
LEMMA ReturnStep ==
  ASSUME CertInv, NEW w \in Holder, Return(w)
  PROVE  StorageInv' /\ Preserved
<1>1. ReleaseNodeAccessor(w) /\ Destroy BY DEF Return
<1>2. [Next]_vars BY <1>1 DEF Next
<1>3. StorageInv /\ ObjectsInv /\ ResourceInv BY DEF CertInv
<1>4. StorageInv' /\ TypeOK /\ TypeOK' BY <1>2, <1>3, StorageStep DEF StorageInv
<1>5. Shrinks BY <1>1, <1>4, ReleaseShrinks
<1>6. Destruction /\ UNCHANGED <<slotCache, storeCache, refs, job, torn>> BY <1>1 DEF Destroy, Destruction
<1>7. ObjectsInv'
  <2>1. \A d \in Client : Registered(d)' = Registered(d) BY <1>6 DEF Registered, Connected
  <2>2. torn' \in [Client -> SUBSET Parts] BY <1>3, <1>6 DEF ObjectsInv, ServiceType
  <2> QED BY <2>1, <2>2, <1>3, <1>4, <1>5, <1>6, LetGo
<1>8. ASSUME NEW d \in Client PROVE ResourcesOf(d)'
  <2>1. nodeMap' = nodeMap /\ parent' = parent BY <1>1 DEF ReleaseNodeAccessor
  <2>2. \A i \in Id : nodeMap[d][i] \in Node => content'[nodeMap[d][i]] = content[nodeMap[d][i]]
    BY <2>1, <1>3, <1>4, <1>5, <1>6, StoredStays
  <2>3. SamePart(d) BY <2>1, <2>2, <1>6 DEF SamePart
  <2>4. \A v \in Holder : accessor'[v] = accessor[v] \/ accessor'[v] = NoAccessor
    BY <1>1, <1>4 DEF ReleaseNodeAccessor, TypeOK
  <2>5. ~Connected(d) => Drained(d)' BY <2>4, <1>3, <1>6, DownDrained, StaysDrained
  <2> QED BY <2>3, <2>5, <1>3, SameResources DEF ResourceInv
<1> QED BY <1>4, <1>7, <1>8 DEF Preserved, ResourceInv

\* A part of the teardown is done.
LEMMA Done ==
  ASSUME ObjectsInv, NEW c \in Client, NEW part \in Parts, NEW before, Does(c, part, before)
  PROVE  /\ ~Connected(c) /\ torn'[c] = torn[c] \cup {part}
         /\ \A d \in Client \ {c} : torn'[d] = torn[d]
         /\ \A d \in Client \ {c} : Registered(d)' = Registered(d)
         /\ torn' \in [Client -> SUBSET Parts]
<1>1. torn' = [torn EXCEPT ![c] = @ \cup {part}] /\ part \notin torn[c] BY DEF Does
<1>2. torn \in [Client -> SUBSET Parts] BY DEF ObjectsInv, ServiceType
<1>3. ~Connected(c) BY <1>1 DEF Connected
<1>4. torn'[c] = torn[c] \cup {part} /\ \A d \in Client \ {c} : torn'[d] = torn[d] BY <1>1, <1>2
<1>5. torn' \in [Client -> SUBSET Parts] BY <1>1, <1>2
<1>6. \A d \in Client \ {c} : Registered(d)' = Registered(d) BY <1>4 DEF Registered, Connected
<1> QED BY <1>3, <1>4, <1>5, <1>6

\* deleteClientNodes, at any point of the teardown.
LEMMA DropStep ==
  ASSUME CertInv, NEW c \in Client, DropNodes(c)
  PROVE  StorageInv' /\ Preserved
<1>1. /\ Does(c, "nodes", {})
      /\ IF entryNodes[c] # {} THEN DeleteClientNodes(c) ELSE UNCHANGED vars
      /\ Destruction /\ UNCHANGED <<slotCache, storeCache, refs, job>>
  BY DEF DropNodes, Destruction
<1>2. [Next]_vars BY <1>1 DEF Next
<1>3. StorageInv /\ ObjectsInv /\ ResourceInv BY DEF CertInv
<1>4. StorageInv' /\ TypeOK /\ TypeOK' BY <1>2, <1>3, StorageStep DEF StorageInv
<1>5. "nodes" \in Parts BY DEF Parts
<1>6. /\ ~Connected(c) /\ torn'[c] = torn[c] \cup {"nodes"}
      /\ \A d \in Client \ {c} : torn'[d] = torn[d]
      /\ \A d \in Client \ {c} : Registered(d)' = Registered(d)
      /\ torn' \in [Client -> SUBSET Parts]
  BY <1>1, <1>3, <1>5, Done
<1>7. /\ Shrinks /\ accessor' = accessor
      /\ \A d \in Client \ {c} : nodeMap'[d] = nodeMap[d] /\ parent'[d] = parent[d]
  <2>1. CASE entryNodes[c] # {}
    <3>1. RemoveNodesFromStorage(c, entryNodes[c]) BY <1>1, <2>1 DEF DeleteClientNodes
    <3>2. entryNodes[c] \in SUBSET Id BY <1>4 DEF TypeOK
    <3> QED BY <3>1, <3>2, <1>4, RemovalShrinks, RemovalEffect
  <2>2. CASE entryNodes[c] = {} BY <1>1, <2>2 DEF vars, Shrinks, Belongs, StoredBy, HeldFor, Holds
  <2> QED BY <2>1, <2>2
<1>8. \A i \in Id : nodeMap'[c][i] = NoNode BY <1>1, <1>3, NothingStored
<1>9. TornDown(c) /\ Drained(c) /\ RootsOf(c) BY <1>3, <1>6 DEF ResourceInv, ResourcesOf, TornDown
<1>10. Drained(c)' BY <1>1, <1>7, <1>9, StaysDrained
<1>11. NoNode \notin Node BY ConstantsOK
<1>12. \A e \in Entry : ~Live(c, e)'
  <2>1. \A n \in Node : ~StoredBy(n, c)' BY <1>8, <1>11 DEF StoredBy
  <2>2. \A n \in Node : ~HeldFor(n, c)' BY <1>10 DEF HeldFor, Drained
  <2>3. \A w \in Holder, e \in Entry : ~Has(w, c, e)' BY <1>10 DEF Has, Drained
  <2> QED BY <2>1, <2>2, <2>3 DEF Live, Belongs
<1>13. ObjectsInv'
  <2>1. \A d \in Client : Registered(d)' = Registered(d) \/ \A e \in Entry : ~Live(d, e)' BY <1>6, <1>12
  <2> QED BY <2>1, <1>1, <1>3, <1>4, <1>6, <1>7, LetGo
<1>14. ASSUME NEW d \in Client, d # c PROVE ResourcesOf(d)'
  <2>1. nodeMap'[d] = nodeMap[d] /\ parent'[d] = parent[d] BY <1>7, <1>14
  <2>2. \A i \in Id : nodeMap[d][i] \in Node => content'[nodeMap[d][i]] = content[nodeMap[d][i]]
    BY <2>1, <1>1, <1>3, <1>4, <1>7, StoredStays
  <2>3. SamePart(d) BY <2>1, <2>2, <1>1, <1>6, <1>14 DEF SamePart
  <2>4. ~Connected(d) => Drained(d)' BY <1>1, <1>3, <1>7, DownDrained, StaysDrained
  <2> QED BY <2>3, <2>4, <1>3, SameResources DEF ResourceInv
<1>15. ResourcesOf(c)'
  <2>1. RootsOf(c)' BY <1>8, <1>11 DEF RootsOf, ResourceAt, SlotAt, StoreAt
  <2>2. "caches" # "nodes" /\ "refs" # "nodes" BY SMT
  <2>3. TornDown(c)' BY <2>2, <1>1, <1>6, <1>8, <1>9, <1>10 DEF TornDown
  <2>4. DownIsNew' BY WhollyDown, PTL
  <2> QED BY <2>1, <2>3, <2>4 DEF DownIsNew
<1> QED BY <1>4, <1>13, <1>14, <1>15 DEF Preserved, ResourceInv

\* The clients for which nothing is added.
LEMMA AddedElsewhere ==
  ASSUME StorageInv, ObjectsInv, ResourceInv, NEW c \in Client, NEW p \in 0..MaxId, NEW n \in Node, NEW x,
         Unreferenced(n), Attach(c, p, n), content' = [content EXCEPT ![n] = x], NEW d \in Client, d # c,
         slotCache'[d] = slotCache[d], storeCache'[d] = storeCache[d], refs'[d] = refs[d], torn'[d] = torn[d],
         \A w \in Holder : job'[w][2] = job[w][2] \/ job'[w][2] # d
  PROVE  ResourcesOf(d)'
<1>1. nodeMap'[d] = nodeMap[d] /\ parent'[d] = parent[d] BY AttachElsewhere DEF StorageInv
<1>2. accessor' = accessor BY DEF Attach
<1>3. \A m \in Node \ {n} : content'[m] = content[m] BY DEF ObjectsInv, ServiceType
<1>4. \A i \in Id : nodeMap[d][i] # n BY DEF Unreferenced, InStorage
<1>5. \A i \in Id : nodeMap[d][i] \in Node => content'[nodeMap[d][i]] = content[nodeMap[d][i]] BY <1>3, <1>4
<1>6. SamePart(d) BY <1>1, <1>5 DEF SamePart
<1>7. ~Connected(d) => Drained(d)' BY <1>2, DownDrained, StaysDrained
<1> QED BY <1>6, <1>7, SameResources DEF ResourceInv

\* Steps that leave the objects, the caches and the registry as they are.
LEMMA CalmStep ==
  ASSUME ObjectsInv, ResourceInv, ServiceType',
         UNCHANGED <<nodeMap, parent, content, certs, slotCache, storeCache, refs, torn>>,
         \A n \in Node, c \in Client : Belongs(n, c)' <=> Belongs(n, c),
         \A w \in Holder, c \in Client, e \in Entry : Has(w, c, e)' <=> Has(w, c, e),
         \A c \in Client : ~Connected(c) => Drained(c)'
  PROVE  Preserved
<1>1. \A c \in Client : Registered(c)' = Registered(c) BY DEF Registered, Connected
<1>2. ObjectsInv' BY <1>1, Unmoved
<1>3. \A c \in Client : SamePart(c) BY DEF SamePart
<1>4. ResourceInv' BY <1>3, SameResources DEF ResourceInv
<1> QED BY <1>2, <1>4 DEF Preserved

LEMMA QuotaStorage ==
  ASSUME StorageInv, NEW c \in Client, QuotaExceeded(c)
  PROVE  StorageInv'
<1>1. TypeOK' BY QuotaTyped DEF StorageInv
<1>2. UNCHANGED <<nodeMap, entryNodes, parent, children>> BY DEF QuotaExceeded
<1>3. \A d \in Client : Stored(d)' = Stored(d) BY <1>2 DEF Stored
<1>4. \A d \in Client : ForestOf(d) /\ NoOrphansOf(d)
  BY DEF StorageInv, Forest, NoOrphans, ForestOf, NoOrphansOf
<1>5. \A d \in Client : ForestOf(d)' /\ NoOrphansOf(d)' BY <1>2, <1>3, <1>4, SameForest
<1>6. StoredOnce' BY <1>2, SMT DEF StorageInv, StoredOnce
<1> QED BY <1>1, <1>5, <1>6 DEF StorageInv, Forest, NoOrphans, ForestOf, NoOrphansOf

\* The counter alone moves.
LEMMA QuotaCalm ==
  ASSUME CertInv, NEW c \in Client, QuotaExceeded(c), UNCHANGED serviceVars
  PROVE  StorageInv' /\ Preserved
<1>1. UNCHANGED <<nodeMap, parent, accessor>> BY DEF QuotaExceeded
<1>2. UNCHANGED <<content, certs, slotCache, storeCache, refs, job, torn>> BY DEF serviceVars
<1>3. ServiceType'
  <2>1. ServiceType BY DEF CertInv, ObjectsInv
  <2> QED BY <1>2, <2>1 DEF ServiceType
<1>4. \A n \in Node, d \in Client : Belongs(n, d)' <=> Belongs(n, d) BY <1>1 DEF Belongs, StoredBy, HeldFor, Holds
<1>5. \A w \in Holder, d \in Client, e \in Entry : Has(w, d, e)' <=> Has(w, d, e) BY <1>2 DEF Has
<1>6. \A d \in Client : ~Connected(d) => Drained(d)' BY <1>1, <1>2, DownDrained DEF CertInv, Drained, Holds
<1>7. Preserved BY <1>1, <1>2, <1>3, <1>4, <1>5, <1>6, CalmStep DEF CertInv
<1> QED BY <1>7, QuotaStorage DEF CertInv

\* An object nothing refers to belongs to nobody, so that it can be added.
LEMMA NewObject ==
  ASSUME StorageInv, NEW c \in Client, NEW p, NEW n \in Node, NEW x, Unreferenced(n), Attach(c, p, n),
         content' = [content EXCEPT ![n] = x], UNCHANGED <<certs, torn>>
  PROVE  Added(c, n, x)
<1>1. TypeOK BY DEF StorageInv
<1>2. \A d \in Client : ~Belongs(n, d) BY <1>1, NobodysObject
<1>3. \A m \in Node, d \in Client : Belongs(m, d)' <=> Belongs(m, d) \/ (m = n /\ d = c) BY <1>1, AttachBelongs
<1> QED BY <1>2, <1>3 DEF Added

\* Another user's node, which is stored or refused for want of an id.
LEMMA OtherStep ==
  ASSUME CertInv, NEW c \in Client, NEW n \in Node, AddOther(c, n)
  PROVE  StorageInv' /\ Preserved
<1>1. /\ Connected(c)
      /\ AddNode(c, n) \/ \E p \in Id : AddChildNode(c, p, n) \/ AddSiblingNode(c, p, n)
      /\ content' = IF InStorage(n)' THEN [content EXCEPT ![n] = <<"other">>] ELSE content
      /\ UNCHANGED <<certs, slotCache, storeCache, refs, job, torn>>
  BY DEF AddOther
<1>2. [Next]_vars BY <1>1 DEF Next
<1>3. StorageInv /\ ObjectsInv /\ ResourceInv BY DEF CertInv
<1>4. 0 \in 0..MaxId /\ Id \subseteq 0..MaxId BY ConstantsOK, SMT DEF Id
<1>5. Unreferenced(n) /\ ((\E p \in 0..MaxId : Attach(c, p, n)) \/ QuotaExceeded(c))
  <2>1. CASE AddNode(c, n) BY <1>4, <2>1 DEF AddNode
  <2>2. ASSUME NEW p \in Id, AddChildNode(c, p, n) PROVE Unreferenced(n) /\ (Attach(c, p, n) \/ QuotaExceeded(c))
    BY <2>2 DEF AddChildNode
  <2>3. ASSUME NEW p \in Id, AddSiblingNode(c, p, n)
        PROVE  Unreferenced(n) /\ parent[c][p] \in Id /\ (Attach(c, parent[c][p], n) \/ QuotaExceeded(c))
    BY <2>3 DEF AddSiblingNode, Stored
  <2> QED BY <1>1, <1>4, <2>1, <2>2, <2>3
<1>6. ASSUME NEW p \in 0..MaxId, Attach(c, p, n) PROVE Preserved
  <2>1. InStorage(n)'
    <3>1. PICK id \in Id : nodeMap' = [nodeMap EXCEPT ![c][id] = n] BY <1>6 DEF Attach
    <3>2. nodeMap'[c][id] = n BY <3>1, <1>3 DEF StorageInv, TypeOK
    <3> QED BY <3>2 DEF InStorage
  <2>2. content' = [content EXCEPT ![n] = <<"other">>] BY <1>1, <2>1
  <2>3. Added(c, n, <<"other">>) BY <2>2, <1>1, <1>3, <1>5, <1>6, NewObject
  <2>4. <<"other">> \in Contents BY AreContents
  <2>5. \A e : <<"other">> # <<"cert", e>> /\ <<"other">> # <<"slot", e>> /\ <<"other">> # <<"store", e>> BY Pairs
  <2>6. ServiceType' BY <2>2, <2>4, <1>1, <1>3 DEF ObjectsInv, ServiceType
  <2>7. ObjectsInv' BY <2>3, <2>4, <2>5, <2>6, <1>1, <1>3, AddPlain
  <2>8. ResourcesOf(c)' BY <2>2, <2>4, <2>5, <1>1, <1>3, <1>5, <1>6, AddedResources
  <2>9. \A d \in Client : d # c => ResourcesOf(d)' BY <2>2, <1>1, <1>3, <1>5, <1>6, AddedElsewhere
  <2> QED BY <2>7, <2>8, <2>9 DEF Preserved, ResourceInv
<1>7. ASSUME QuotaExceeded(c) PROVE Preserved
  <2>1. ~InStorage(n)'
    <3>1. nodeMap' = nodeMap BY <1>7 DEF QuotaExceeded
    <3> QED BY <3>1, <1>5 DEF Unreferenced, InStorage
  <2>2. UNCHANGED serviceVars BY <1>1, <2>1 DEF serviceVars
  <2> QED BY <2>2, <1>7, QuotaCalm
<1>8. StorageInv' BY <1>2, <1>3, StorageStep
<1> QED BY <1>5, <1>6, <1>7, <1>8

\* A resource that resolves is a slot or a store.
LEMMA Resolves ==
  ASSUME NEW uid, NEW r
  PROVE  /\ SlotOfResource(uid, r) # NoName => SlotOfResource(uid, r) \in Slot
         /\ StoreOfResource(uid, r) # NoName => StoreOfResource(uid, r) \in Store
  BY DEF SlotOfResource, ResolveSlot, StoreOfResource

\* A root that is stored is a step of addNode.
LEMMA RootStep ==
  ASSUME NEW c \in Client, NEW n \in Node, Unreferenced(n), Attach(c, 0, n)
  PROVE  [Next]_vars
  BY DEF Next, AddNode

\* The node of a slot.
LEMMA SlotStep ==
  ASSUME CertInv, NEW c \in Client, NEW s \in Slot, NEW n \in Node, Connected(c), slotCache[c][s] = 0,
         Construct(c, 0, n, <<"slot", s>>), slotCache' = [slotCache EXCEPT ![c][s] = idCounter'[c]],
         UNCHANGED <<certs, storeCache, refs, job, torn>>
  PROVE  StorageInv' /\ Preserved
<1> DEFINE x == <<"slot", s>>
<1>1. Unreferenced(n) /\ Attach(c, 0, n) /\ content' = [content EXCEPT ![n] = x] BY DEF Construct
<1>2. [Next]_vars BY <1>1, RootStep
<1>3. StorageInv /\ ObjectsInv /\ ResourceInv BY DEF CertInv
<1>4. StorageInv' /\ TypeOK' BY <1>2, <1>3, StorageStep DEF StorageInv
<1>5. 0 \in 0..MaxId /\ Id \subseteq 0..MaxId BY ConstantsOK, SMT DEF Id
<1>6. x \in Contents BY AreContents
<1>7. \A e : x # <<"cert", e>> /\ x # <<"store", e>> BY Pairs
<1>8. \A u : x = <<"slot", u>> <=> u = s BY Pairs
<1>9. Added(c, n, x) BY <1>1, <1>3, NewObject
<1>10. slotCache \in [Client -> [Slot -> 0..MaxId]] BY <1>3 DEF ObjectsInv, ServiceType
<1>11. /\ \A u \in Slot : slotCache'[c][u] = IF u = s THEN idCounter'[c] ELSE slotCache[c][u]
       /\ \A d \in Client : d # c => slotCache'[d] = slotCache[d]
  BY <1>10
<1>12. slotCache' \in [Client -> [Slot -> 0..MaxId]] BY <1>4, <1>5, <1>10 DEF TypeOK
<1>13. ServiceType' BY <1>1, <1>3, <1>6, <1>12 DEF ObjectsInv, ServiceType
<1> HIDE DEF x
<1>14. ObjectsInv' BY <1>3, <1>6, <1>7, <1>9, <1>13, AddPlain
<1>15. ResourcesOf(c)'
  <2>1. \A u \in Slot : /\ x = <<"slot", u>> => slotCache[c][u] = 0
                        /\ slotCache'[c][u] = IF x = <<"slot", u>> THEN idCounter'[c] ELSE slotCache[c][u]
    <3> SUFFICES ASSUME NEW u \in Slot
                 PROVE  /\ x = <<"slot", u>> => slotCache[c][u] = 0
                        /\ slotCache'[c][u] = IF x = <<"slot", u>> THEN idCounter'[c] ELSE slotCache[c][u]
      OBVIOUS
    <3>1. CASE u = s BY <3>1, <1>8, <1>11
    <3>2. CASE u # s BY <3>2, <1>8, <1>11
    <3> QED BY <3>1, <3>2
  <2>2. \A t \in Store : /\ x = <<"store", t>> => storeCache[c][t] = 0
                         /\ storeCache'[c][t] = IF x = <<"store", t>> THEN idCounter'[c] ELSE storeCache[c][t]
    BY <1>7
  <2> QED BY <2>1, <2>2, <1>1, <1>3, <1>5, <1>6, AddedResources
<1>16. \A d \in Client : d # c => ResourcesOf(d)' BY <1>1, <1>3, <1>5, <1>11, AddedElsewhere
<1> QED BY <1>4, <1>14, <1>15, <1>16 DEF Preserved, ResourceInv

\* The node of a trust store.
LEMMA StoreStep ==
  ASSUME CertInv, NEW c \in Client, NEW t \in Store, NEW n \in Node, Connected(c), storeCache[c][t] = 0,
         Construct(c, 0, n, <<"store", t>>), storeCache' = [storeCache EXCEPT ![c][t] = idCounter'[c]],
         UNCHANGED <<certs, slotCache, refs, job, torn>>
  PROVE  StorageInv' /\ Preserved
<1> DEFINE x == <<"store", t>>
<1>1. Unreferenced(n) /\ Attach(c, 0, n) /\ content' = [content EXCEPT ![n] = x] BY DEF Construct
<1>2. [Next]_vars BY <1>1, RootStep
<1>3. StorageInv /\ ObjectsInv /\ ResourceInv BY DEF CertInv
<1>4. StorageInv' /\ TypeOK' BY <1>2, <1>3, StorageStep DEF StorageInv
<1>5. 0 \in 0..MaxId /\ Id \subseteq 0..MaxId BY ConstantsOK, SMT DEF Id
<1>6. x \in Contents BY AreContents
<1>7. \A e : x # <<"cert", e>> /\ x # <<"slot", e>> BY Pairs
<1>8. \A u : x = <<"store", u>> <=> u = t BY Pairs
<1>9. Added(c, n, x) BY <1>1, <1>3, NewObject
<1>10. storeCache \in [Client -> [Store -> 0..MaxId]] BY <1>3 DEF ObjectsInv, ServiceType
<1>11. /\ \A u \in Store : storeCache'[c][u] = IF u = t THEN idCounter'[c] ELSE storeCache[c][u]
       /\ \A d \in Client : d # c => storeCache'[d] = storeCache[d]
  BY <1>10
<1>12. storeCache' \in [Client -> [Store -> 0..MaxId]] BY <1>4, <1>5, <1>10 DEF TypeOK
<1>13. ServiceType' BY <1>1, <1>3, <1>6, <1>12 DEF ObjectsInv, ServiceType
<1> HIDE DEF x
<1>14. ObjectsInv' BY <1>3, <1>6, <1>7, <1>9, <1>13, AddPlain
<1>15. ResourcesOf(c)'
  <2>1. \A u \in Store : /\ x = <<"store", u>> => storeCache[c][u] = 0
                         /\ storeCache'[c][u] = IF x = <<"store", u>> THEN idCounter'[c] ELSE storeCache[c][u]
    <3> SUFFICES ASSUME NEW u \in Store
                 PROVE  /\ x = <<"store", u>> => storeCache[c][u] = 0
                        /\ storeCache'[c][u] = IF x = <<"store", u>> THEN idCounter'[c] ELSE storeCache[c][u]
      OBVIOUS
    <3>1. CASE u = t BY <3>1, <1>8, <1>11
    <3>2. CASE u # t BY <3>2, <1>8, <1>11
    <3> QED BY <3>1, <3>2
  <2>2. \A s \in Slot : /\ x = <<"slot", s>> => slotCache[c][s] = 0
                        /\ slotCache'[c][s] = IF x = <<"slot", s>> THEN idCounter'[c] ELSE slotCache[c][s]
    BY <1>7
  <2> QED BY <2>1, <2>2, <1>1, <1>3, <1>5, <1>6, AddedResources
<1>16. \A d \in Client : d # c => ResourcesOf(d)' BY <1>1, <1>3, <1>5, <1>11, AddedElsewhere
<1> QED BY <1>4, <1>14, <1>15, <1>16 DEF Preserved, ResourceInv

\* A certificate is registered first.
LEMMA RegisterStep ==
  ASSUME CertInv, NEW w \in Holder, NEW c \in Client, NEW p \in Id, RegisterCertificate(w, c, p)
  PROVE  StorageInv' /\ Preserved
<1>1. PICK e \in Entry : /\ FreshEntry(e) /\ certs' = [certs EXCEPT ![e] = c]
                         /\ job' = [job EXCEPT ![w] = <<"register", c, e, p>>]
  BY DEF RegisterCertificate, Goto
<1>2. job[w] = Idle /\ Connected(c) /\ UNCHANGED <<vars, content, slotCache, storeCache, refs, torn>>
  BY DEF RegisterCertificate, Free
<1>3. StorageInv /\ ObjectsInv /\ ResourceInv BY DEF CertInv
<1>4. StorageInv' BY <1>2, <1>3, StorageStep
<1>5. \A v \in Holder : job'[v] = IF v = w THEN <<"register", c, e, p>> ELSE job[v]
  BY <1>1, <1>3 DEF ObjectsInv, ServiceType
<1>6. ServiceType'
  <2>1. JobOK(<<"register", c, e, p>>) BY DEF JobOK
  <2>2. \A v \in Holder : JobOK(job'[v]) BY <2>1, <1>3, <1>5 DEF ObjectsInv, ServiceType
  <2>3. job' = [v \in Holder |-> job'[v]] BY <1>1, <1>3 DEF ObjectsInv, ServiceType
  <2>4. certs' \in [Entry -> Client \cup {NoName}] BY <1>1, <1>3 DEF ObjectsInv, ServiceType
  <2> QED BY <2>2, <2>3, <2>4, <1>2, <1>3 DEF ObjectsInv, ServiceType, JobOK
<1>7. ObjectsInv' BY <1>1, <1>2, <1>3, <1>6, NewEntry
<1>8. ASSUME NEW d \in Client PROVE ResourcesOf(d)'
  <2>1. SamePart(d) BY <1>2 DEF vars, SamePart
  <2>2. job'[w][2] = c BY <1>5, SMT
  <2>3. ~Connected(d) => \A v \in Holder : job'[v][2] = job[v][2] \/ job'[v][2] # d BY <2>2, <1>2, <1>5
  <2>4. ~Connected(d) => Drained(d)' BY <2>3, <1>2, <1>3, DownDrained, StaysDrained DEF vars
  <2> QED BY <2>1, <2>4, <1>3, SameResources DEF ResourceInv
<1> QED BY <1>4, <1>7, <1>8 DEF Preserved, ResourceInv

\* Its node is added under a parent that is there.
LEMMA AddCertStep ==
  ASSUME CertInv, NEW w \in Holder, NEW n \in Node, job[w][1] = "register",
         job[w][4] \in Stored(job[w][2]), Construct(job[w][2], job[w][4], n, <<"cert", job[w][3]>>), Goto(w, Idle),
         UNCHANGED <<certs, slotCache, storeCache, refs, torn>>
  PROVE  StorageInv' /\ Preserved
<1>1. StorageInv /\ ObjectsInv /\ ResourceInv BY DEF CertInv
<1>2. PICK c \in Client, e \in Entry, p \in Id : c = job[w][2] /\ e = job[w][3] /\ p = job[w][4]
  BY <1>1, JobFacts DEF ObjectsInv, ServiceType
<1> DEFINE x == <<"cert", e>>
<1>3. p \in Stored(c) BY <1>2
<1>4. Unreferenced(n) /\ Attach(c, p, n) /\ content' = [content EXCEPT ![n] = x] BY <1>2 DEF Construct
<1>5. Has(w, c, e) BY <1>2 DEF Has
<1>6. job' = [job EXCEPT ![w] = Idle] BY DEF Goto
<1>7. Connected(c)
  <2>1. ~Drained(c) BY <1>2 DEF Drained
  <2> QED BY <2>1, <1>1, <1>2, DownDrained
<1>8. x \in Contents /\ \A s : x # <<"slot", s>> /\ x # <<"store", s>> BY <1>2, AreContents, Pairs
<1>9. [Next]_vars BY <1>2, <1>3, <1>4 DEF Next, AddChildNode
<1>10. StorageInv' BY <1>1, <1>9, StorageStep
<1>11. Added(c, n, x) BY <1>1, <1>2, <1>4, NewObject
<1>12. \A v \in Holder : job'[v] = IF v = w THEN Idle ELSE job[v] BY <1>1, <1>6 DEF ObjectsInv, ServiceType
<1>13. ServiceType'
  <2>1. content' \in [Node -> Contents \cup {Nothing}] BY <1>1, <1>4, <1>8 DEF ObjectsInv, ServiceType
  <2>2. \A v \in Holder : JobOK(job'[v])
    <3>1. JobOK(Idle) BY DEF JobOK
    <3>2. \A v \in Holder : JobOK(job[v]) BY <1>1 DEF ObjectsInv, ServiceType
    <3> QED BY <3>1, <3>2, <1>12
  <2>3. job' = [v \in Holder |-> job'[v]] BY <1>1, <1>6 DEF ObjectsInv, ServiceType
  <2> QED BY <2>1, <2>2, <2>3, <1>1 DEF ObjectsInv, ServiceType, JobOK
<1>14. ObjectsInv' BY <1>1, <1>2, <1>5, <1>6, <1>11, <1>13, AddCert
<1>15. Id \subseteq 0..MaxId BY ConstantsOK, SMT DEF Id
<1>16. ResourcesOf(c)'
  <2> HIDE DEF x
  <2>1. \A s \in Slot : /\ x = <<"slot", s>> => slotCache[c][s] = 0
                        /\ slotCache'[c][s] = IF x = <<"slot", s>> THEN idCounter'[c] ELSE slotCache[c][s]
    BY <1>8
  <2>2. \A t \in Store : /\ x = <<"store", t>> => storeCache[c][t] = 0
                         /\ storeCache'[c][t] = IF x = <<"store", t>> THEN idCounter'[c] ELSE storeCache[c][t]
    BY <1>8
  <2> QED BY <2>1, <2>2, <1>1, <1>2, <1>4, <1>7, <1>8, <1>15, AddedResources
<1>17. ASSUME NEW d \in Client, d # c PROVE ResourcesOf(d)'
  <2>1. Idle[2] = NoName /\ NoName # d BY Jobs, CertConstantsOK
  <2>2. \A v \in Holder : job'[v][2] = job[v][2] \/ job'[v][2] # d BY <2>1, <1>12
  <2> QED BY <2>2, <1>1, <1>2, <1>4, <1>15, <1>17, AddedElsewhere
<1> QED BY <1>10, <1>14, <1>16, <1>17 DEF Preserved, ResourceInv

\* It is not added, and will be taken out again.
LEMMA NotAddedStep ==
  ASSUME CertInv, NEW w \in Holder, job[w][1] = "register",
         IF job[w][4] \in Stored(job[w][2]) THEN QuotaExceeded(job[w][2]) ELSE UNCHANGED vars,
         Goto(w, <<"unregister", job[w][2], job[w][3]>>),
         UNCHANGED <<content, certs, slotCache, storeCache, refs, torn>>
  PROVE  StorageInv' /\ Preserved
<1> DEFINE c == job[w][2]
           e == job[w][3]
           j == <<"unregister", c, e>>
<1>1. StorageInv /\ ObjectsInv /\ ResourceInv BY DEF CertInv
<1>2. c \in Client /\ e \in Entry BY <1>1, JobFacts DEF ObjectsInv, ServiceType
<1>3. QuotaExceeded(c) \/ UNCHANGED vars OBVIOUS
<1>4. j[1] = "unregister" /\ j[2] = c /\ j[3] = e BY SMT
<1>5. \A v \in Holder : job'[v] = IF v = w THEN j ELSE job[v] BY <1>1 DEF ObjectsInv, ServiceType, Goto
<1>6. job' = [v \in Holder |-> job'[v]] BY <1>1 DEF ObjectsInv, ServiceType, Goto
<1>7. StorageInv' BY <1>1, <1>2, <1>3, QuotaStorage, StorageStep
<1>8. UNCHANGED <<nodeMap, parent, accessor>> BY <1>3 DEF QuotaExceeded, vars
<1>9. ServiceType'
  <2>1. JobOK(j) BY <1>2 DEF JobOK
  <2>2. \A v \in Holder : JobOK(job'[v]) BY <2>1, <1>1, <1>5 DEF ObjectsInv, ServiceType
  <2> QED BY <2>2, <1>1, <1>6 DEF ObjectsInv, ServiceType, JobOK
<1>10. \A n \in Node, d \in Client : Belongs(n, d)' <=> Belongs(n, d) BY <1>8 DEF Belongs, StoredBy, HeldFor, Holds
<1>11. \A v \in Holder, d \in Client, f \in Entry : Has(v, d, f)' <=> Has(v, d, f)
  <2> SUFFICES ASSUME NEW v \in Holder, NEW d \in Client, NEW f \in Entry PROVE Has(v, d, f)' <=> Has(v, d, f)
    OBVIOUS
  <2>1. CASE v = w
    <3>1. job'[w][1] = "unregister" /\ job'[w][2] = job[w][2] /\ job'[w][3] = job[w][3] BY <1>4, <1>5
    <3> QED BY <2>1, <3>1 DEF Has
  <2>2. CASE v # w BY <2>2, <1>5 DEF Has
  <2> QED BY <2>1, <2>2
<1>12. \A d \in Client : ~Connected(d) => Drained(d)'
  <2>1. \A v \in Holder : job'[v][2] = job[v][2] BY <1>4, <1>5
  <2> QED BY <2>1, <1>1, <1>8, DownDrained, StaysDrained
<1> QED BY <1>1, <1>7, <1>8, <1>9, <1>10, <1>11, <1>12, CalmStep

\* The entry is taken out.
LEMMA UnregisterStep ==
  ASSUME CertInv, NEW w \in Holder, UnregisterCert(w)
  PROVE  StorageInv' /\ Preserved
<1>1. /\ job[w][1] = "unregister" /\ certs' = [certs EXCEPT ![job[w][3]] = NoName]
      /\ job' = [job EXCEPT ![w] = Idle]
      /\ UNCHANGED <<vars, content, slotCache, storeCache, refs, torn>>
  BY DEF UnregisterCert, Goto
<1>2. StorageInv /\ ObjectsInv /\ ResourceInv BY DEF CertInv
<1>3. PICK c \in Client, e \in Entry : c = job[w][2] /\ e = job[w][3]
  BY <1>1, <1>2, JobFacts DEF ObjectsInv, ServiceType
<1>4. StorageInv' BY <1>1, <1>2, StorageStep
<1>5. Has(w, c, e) BY <1>1, <1>3 DEF Has
<1>6. \A v \in Holder : job'[v] = IF v = w THEN Idle ELSE job[v] BY <1>1, <1>2 DEF ObjectsInv, ServiceType
<1>7. ServiceType'
  <2>1. \A v \in Holder : JobOK(job'[v])
    <3>1. JobOK(Idle) BY DEF JobOK
    <3>2. \A v \in Holder : JobOK(job[v]) BY <1>2 DEF ObjectsInv, ServiceType
    <3> QED BY <3>1, <3>2, <1>6
  <2>2. job' = [v \in Holder |-> job'[v]] BY <1>1, <1>2 DEF ObjectsInv, ServiceType
  <2>3. certs' \in [Entry -> Client \cup {NoName}] BY <1>1, <1>2, <1>3 DEF ObjectsInv, ServiceType
  <2> QED BY <2>1, <2>2, <2>3, <1>1, <1>2 DEF ObjectsInv, ServiceType, JobOK
<1>8. ObjectsInv' BY <1>1, <1>2, <1>3, <1>5, <1>7, EntryGoes
<1>9. ASSUME NEW d \in Client PROVE ResourcesOf(d)'
  <2>1. SamePart(d) BY <1>1 DEF vars, SamePart
  <2>2. Idle[2] = NoName /\ NoName # d BY Jobs, CertConstantsOK
  <2>3. \A v \in Holder : job'[v][2] = job[v][2] \/ job'[v][2] # d BY <2>2, <1>6
  <2>4. ~Connected(d) => Drained(d)' BY <2>3, <1>1, <1>2, DownDrained, StaysDrained DEF vars
  <2> QED BY <2>1, <2>4, <1>2, SameResources DEF ResourceInv
<1> QED BY <1>4, <1>8, <1>9 DEF Preserved, ResourceInv

\* A read begins: its object is its client's already.
LEMMA LookupStep ==
  ASSUME CertInv, NEW w \in Holder, NEW c \in Client, NEW id \in Id, Lookup(w, c, id)
  PROVE  StorageInv' /\ Preserved
<1>1. Connected(c) /\ GetNodeAccessor(w, c, id) /\ UNCHANGED <<content, certs, slotCache, storeCache, refs, job, torn>>
  BY DEF Lookup, serviceVars
<1>2. StorageInv /\ ObjectsInv /\ ResourceInv BY DEF CertInv
<1>3. [Next]_vars BY <1>1 DEF Next
<1>4. StorageInv' BY <1>2, <1>3, StorageStep
<1>5. PICK n \in Node : n = nodeMap[c][id]
  <2>1. nodeMap[c][id] # NoNode BY <1>1 DEF GetNodeAccessor, Stored
  <2>2. nodeMap[c][id] \in Node \cup {NoNode} BY <1>2 DEF StorageInv, TypeOK
  <2> QED BY <2>1, <2>2
<1> DEFINE a == [node |-> n, client |-> c, id |-> id, exclusive |-> n \in Exclusive]
<1>6. /\ accessor' = [accessor EXCEPT ![w] = a] /\ ~Holds(w)
      /\ UNCHANGED <<nodeMap, parent>>
  BY <1>1, <1>5 DEF GetNodeAccessor
<1>7. \A v \in Holder : accessor'[v] = IF v = w THEN a ELSE accessor[v] BY <1>6, <1>2 DEF StorageInv, TypeOK
<1>8. a.node = n /\ a.client = c OBVIOUS
<1> HIDE DEF a
<1>9. \A m \in Node, d \in Client : Belongs(m, d)' <=> Belongs(m, d)
  <2> SUFFICES ASSUME NEW m \in Node, NEW d \in Client PROVE Belongs(m, d)' <=> Belongs(m, d)
    OBVIOUS
  <2>1. StoredBy(m, d)' <=> StoredBy(m, d) BY <1>6 DEF StoredBy
  <2>2. StoredBy(n, c) BY <1>5 DEF StoredBy
  <2>3. HeldFor(m, d) => HeldFor(m, d)' BY <1>6, <1>7 DEF HeldFor, Holds
  <2>4. ASSUME HeldFor(m, d)' PROVE HeldFor(m, d) \/ (m = n /\ d = c)
    <3>1. PICK v \in Holder : accessor'[v] # NoAccessor /\ accessor'[v].node = m /\ accessor'[v].client = d
      BY <2>4 DEF HeldFor, Holds
    <3>2. CASE v = w BY <3>1, <3>2, <1>7, <1>8
    <3>3. CASE v # w BY <3>1, <3>3, <1>7 DEF HeldFor, Holds
    <3> QED BY <3>2, <3>3
  <2> QED BY <2>1, <2>2, <2>3, <2>4 DEF Belongs
<1>10. \A v \in Holder, d \in Client, e \in Entry : Has(v, d, e)' <=> Has(v, d, e) BY <1>1 DEF Has
<1>11. ServiceType' BY <1>1, <1>2 DEF ObjectsInv, ServiceType
<1>12. \A d \in Client : ~Connected(d) => Drained(d)'
  <2> SUFFICES ASSUME NEW d \in Client, ~Connected(d) PROVE Drained(d)'
    OBVIOUS
  <2>1. \A v \in Holder : accessor'[v] = accessor[v] \/ accessor'[v].client # d BY <1>1, <1>7, <1>8
  <2> QED BY <2>1, <1>1, <1>2, DownDrained, StaysDrained
<1> QED BY <1>1, <1>2, <1>4, <1>6, <1>9, <1>10, <1>11, <1>12, CalmStep

\* Steps that change nothing of the objects, and one client's part only.
LEMMA QuietStep ==
  ASSUME CertInv, NEW c \in Client, ServiceType', UNCHANGED <<vars, content, certs, job>>,
         \A d \in Client : d # c => /\ slotCache'[d] = slotCache[d] /\ storeCache'[d] = storeCache[d]
                                    /\ refs'[d] = refs[d] /\ torn'[d] = torn[d],
         Registered(c)' = Registered(c) \/ \A e \in Entry : ~Live(c, e),
         RootsOf(c)' => ResourcesOf(c)'
  PROVE  StorageInv' /\ Preserved
<1>1. StorageInv /\ ObjectsInv /\ ResourceInv BY DEF CertInv
<1>2. StorageInv' BY <1>1, StorageStep
<1>3. UNCHANGED <<nodeMap, parent, accessor>> BY DEF vars
<1>4. \A n \in Node, d \in Client : Belongs(n, d)' <=> Belongs(n, d) BY <1>3 DEF Belongs, StoredBy, HeldFor, Holds
<1>5. \A w \in Holder, d \in Client, e \in Entry : Has(w, d, e)' <=> Has(w, d, e) BY DEF Has
<1>6. \A d \in Client : d # c => Registered(d)' = Registered(d) BY DEF Registered, Connected
<1>7. ObjectsInv' BY <1>1, <1>4, <1>5, <1>6, Unmoved
<1>8. ASSUME NEW d \in Client, d # c PROVE ResourcesOf(d)'
  <2>1. SamePart(d) BY <1>3, <1>8 DEF SamePart
  <2>2. ~Connected(d) => Drained(d)' BY <1>1, <1>3, DownDrained DEF Drained, Holds
  <2> QED BY <2>1, <2>2, <1>1, SameResources DEF ResourceInv
<1>9. RootsOf(c)' BY <1>1, <1>3 DEF ResourceInv, ResourcesOf, RootsOf, ResourceAt, SlotAt, StoreAt, IsSlot, IsStore
<1> QED BY <1>2, <1>7, <1>8, <1>9 DEF Preserved, ResourceInv

LEMMA RefStep ==
  ASSUME CertInv, NEW c \in Client, NEW t \in Store, AddRef(c, t) \/ ReleaseRef(c, t)
  PROVE  StorageInv' /\ Preserved
<1>1. /\ Connected(c) /\ UNCHANGED <<vars, content, certs, slotCache, storeCache, job, torn>>
      /\ \/ storeCache[c][t] # 0 /\ refs' = [refs EXCEPT ![c] = @ \cup {t}]
         \/ refs' = [refs EXCEPT ![c] = @ \ {t}]
  BY DEF AddRef, ReleaseRef
<1>2. ObjectsInv /\ ResourceInv BY DEF CertInv
<1>3. refs \in [Client -> SUBSET Store] BY <1>2 DEF ObjectsInv, ServiceType
<1>4. /\ refs' \in [Client -> SUBSET Store]
      /\ \A d \in Client : d # c => refs'[d] = refs[d]
      /\ \A u \in refs'[c] : u \in refs[c] \/ storeCache[c][u] # 0
  BY <1>1, <1>3
<1>5. ServiceType'
  <2>1. ServiceType BY <1>2 DEF ObjectsInv
  <2> QED BY <2>1, <1>1, <1>4 DEF ServiceType
<1>6. Registered(c)' = Registered(c) /\ Connected(c)' BY <1>1 DEF Registered, Connected
<1>7. NodesOf(c)'
  <2>1. NodesOf(c) BY <1>1, <1>2 DEF ResourceInv, ResourcesOf
  <2>2. nodeMap' = nodeMap BY <1>1 DEF vars
  <2>3. \A i \in Id : \A s : (SlotAt(c, i, s)' <=> SlotAt(c, i, s)) /\ (StoreAt(c, i, s)' <=> StoreAt(c, i, s))
    BY <2>2, <1>1 DEF SlotAt, StoreAt, IsSlot, IsStore
  <2>4. \A s \in Slot, i \in Id : SlotAt(c, i, s)' <=> slotCache'[c][s] = i BY <2>1, <2>3, <1>1 DEF NodesOf
  <2>5. \A u \in Store, i \in Id : StoreAt(c, i, u)' <=> storeCache'[c][u] = i BY <2>1, <2>3, <1>1 DEF NodesOf
  <2>6. \A u \in refs'[c] : storeCache'[c][u] # 0 BY <2>1, <1>1, <1>4 DEF NodesOf
  <2> QED BY <2>4, <2>5, <2>6 DEF NodesOf
<1>8. RootsOf(c)' => ResourcesOf(c)' BY <1>6, <1>7 DEF ResourcesOf
<1> QED BY <1>1, <1>4, <1>5, <1>6, <1>8, QuietStep

LEMMA DisconnectStep ==
  ASSUME CertInv, NEW c \in Client, Disconnect(c)
  PROVE  StorageInv' /\ Preserved
<1>1. /\ Connected(c) /\ Drained(c) /\ torn' = [torn EXCEPT ![c] = {}]
      /\ UNCHANGED <<vars, content, certs, slotCache, storeCache, refs, job>>
  BY DEF Disconnect
<1>2. ObjectsInv BY DEF CertInv
<1>3. torn \in [Client -> SUBSET Parts] BY <1>2 DEF ObjectsInv, ServiceType
<1>4. torn'[c] = {} /\ torn' \in [Client -> SUBSET Parts] /\ \A d \in Client : d # c => torn'[d] = torn[d]
  BY <1>1, <1>3
<1>5. ServiceType'
  <2>1. ServiceType BY <1>2 DEF ObjectsInv
  <2> QED BY <2>1, <1>1, <1>4 DEF ServiceType
<1>6. Registered(c)' = Registered(c) /\ ~Connected(c)' BY <1>1, <1>4 DEF Registered, Connected, Parts
<1>7. Drained(c)' BY <1>1 DEF Drained, Holds, vars
<1>8. TornDown(c)' BY <1>4, <1>7 DEF TornDown
<1>9. RootsOf(c)' => ResourcesOf(c)' BY <1>6, <1>8 DEF ResourcesOf
<1> QED BY <1>1, <1>4, <1>5, <1>6, <1>9, QuietStep

\* A client whose nodes are gone has no certificates.
LEMMA NotLive ==
  ASSUME NEW c \in Client, TornDown(c), "nodes" \in torn[c]
  PROVE  \A e \in Entry : ~Live(c, e)
<1>1. NoNode \notin Node BY ConstantsOK
<1>2. \A n \in Node : ~StoredBy(n, c) BY <1>1 DEF StoredBy, TornDown
<1>3. \A n \in Node : ~HeldFor(n, c) BY DEF HeldFor, TornDown, Drained
<1>4. \A w \in Holder, e \in Entry : ~Has(w, c, e) BY DEF Has, TornDown, Drained
<1> QED BY <1>2, <1>3, <1>4 DEF Live, Belongs

\* What CleanupClient does, part by part.
LEMMA CleanFacts ==
  ASSUME CertInv, NEW c \in Client, NEW part \in {"caches", "refs", "registry"}, NEW before, Does(c, part, before),
         UNCHANGED <<vars, job>>
  PROVE  /\ torn'[c] = torn[c] \cup {part} /\ torn' \in [Client -> SUBSET Parts]
         /\ \A d \in Client : d # c => torn'[d] = torn[d]
         /\ TornDown(c) /\ Drained(c)'
         /\ "nodes" \in torn'[c] => \A i \in Id : nodeMap'[c][i] = NoNode
         /\ Connected(c)' => \A e \in Entry : ~Live(c, e)
         /\ part # "registry" => Registered(c)' = Registered(c) \/ \A e \in Entry : ~Live(c, e)
         /\ part = "registry" => ~Registered(c)' \/ \A e \in Entry : ~Live(c, e)
<1>1. StorageInv /\ ObjectsInv /\ ResourceInv BY DEF CertInv
<1>2. part \in Parts /\ part # "nodes" BY SMT DEF Parts
<1>3. /\ ~Connected(c) /\ torn'[c] = torn[c] \cup {part}
      /\ \A d \in Client \ {c} : torn'[d] = torn[d]
      /\ torn' \in [Client -> SUBSET Parts]
  BY <1>1, <1>2, Done
<1>4. TornDown(c) BY <1>1, <1>3 DEF ResourceInv, ResourcesOf
<1>5. Drained(c)' BY <1>4 DEF TornDown, Drained, Holds, vars
<1>6. "nodes" \in torn'[c] => "nodes" \in torn[c] BY <1>2, <1>3
<1>7. "nodes" \in torn'[c] => \A i \in Id : nodeMap'[c][i] = NoNode BY <1>4, <1>6 DEF TornDown, vars
<1>8. Connected(c)' => \A e \in Entry : ~Live(c, e)
  <2>1. Connected(c)' => "nodes" \in torn'[c] BY DEF Connected, Parts
  <2> QED BY <2>1, <1>4, <1>6, NotLive
<1>9. part # "registry" /\ ~Connected(c)' => Registered(c)' = Registered(c)
  <2>1. part # "registry" => ("registry" \in torn'[c] <=> "registry" \in torn[c]) BY <1>3
  <2> QED BY <2>1, <1>3 DEF Registered
<1>10. part = "registry" /\ ~Connected(c)' => ~Registered(c)' BY <1>3 DEF Registered
<1> QED BY <1>3, <1>4, <1>5, <1>7, <1>8, <1>9, <1>10

LEMMA CleanStep ==
  ASSUME CertInv, NEW c \in Client, CleanCaches(c) \/ CleanRefs(c)
  PROVE  StorageInv' /\ Preserved
<1>1. ObjectsInv /\ UNCHANGED <<vars, content, certs, job>> BY DEF CertInv, CleanCaches, CleanRefs
<1>2. /\ slotCache \in [Client -> [Slot -> 0..MaxId]] /\ storeCache \in [Client -> [Store -> 0..MaxId]]
      /\ refs \in [Client -> SUBSET Store]
  BY <1>1 DEF ObjectsInv, ServiceType
<1>3. 0 \in 0..MaxId BY ConstantsOK, SMT
<1>4. (\A d \in Client : TornDown(d) /\ RootsOf(d) => ResourcesOf(d))'
  <2>1. DownIsNew' BY WhollyDown, PTL
  <2> QED BY <2>1 DEF DownIsNew
<1>5. CASE CleanCaches(c)
  <2>1. /\ Does(c, "caches", {}) /\ refs' = refs
        /\ slotCache' = [slotCache EXCEPT ![c] = [s \in Slot |-> 0]]
        /\ storeCache' = [storeCache EXCEPT ![c] = [t \in Store |-> 0]]
    BY <1>5 DEF CleanCaches
  <2>2. /\ torn'[c] = torn[c] \cup {"caches"} /\ torn' \in [Client -> SUBSET Parts]
        /\ \A d \in Client : d # c => torn'[d] = torn[d]
        /\ TornDown(c) /\ Drained(c)'
        /\ "nodes" \in torn'[c] => \A i \in Id : nodeMap'[c][i] = NoNode
        /\ Registered(c)' = Registered(c) \/ \A e \in Entry : ~Live(c, e)
    BY <2>1, <1>1, CleanFacts
  <2>3. /\ slotCache' \in [Client -> [Slot -> 0..MaxId]] /\ storeCache' \in [Client -> [Store -> 0..MaxId]]
        /\ \A d \in Client : d # c => slotCache'[d] = slotCache[d] /\ storeCache'[d] = storeCache[d]
        /\ \A s \in Slot : slotCache'[c][s] = 0
        /\ \A t \in Store : storeCache'[c][t] = 0
    BY <2>1, <1>2, <1>3
  <2>4. ServiceType' BY <2>1, <2>2, <2>3, <1>1 DEF ObjectsInv, ServiceType
  <2>5. "refs" \in torn'[c] => refs'[c] = {} BY <2>1, <2>2 DEF TornDown
  <2>6. TornDown(c)' BY <2>2, <2>3, <2>5 DEF TornDown
  <2>7. RootsOf(c)' => ResourcesOf(c)' BY <2>6, <1>4
  <2> QED BY <2>1, <2>2, <2>3, <2>4, <2>7, <1>1, QuietStep
<1>6. CASE CleanRefs(c)
  <2>1. /\ Does(c, "refs", {"caches"}) /\ UNCHANGED <<slotCache, storeCache>>
        /\ refs' = [refs EXCEPT ![c] = {}]
    BY <1>6 DEF CleanRefs
  <2>2. /\ torn'[c] = torn[c] \cup {"refs"} /\ torn' \in [Client -> SUBSET Parts]
        /\ \A d \in Client : d # c => torn'[d] = torn[d]
        /\ TornDown(c) /\ Drained(c)'
        /\ "nodes" \in torn'[c] => \A i \in Id : nodeMap'[c][i] = NoNode
        /\ Registered(c)' = Registered(c) \/ \A e \in Entry : ~Live(c, e)
    BY <2>1, <1>1, CleanFacts
  <2>3. /\ refs' \in [Client -> SUBSET Store] /\ refs'[c] = {}
        /\ \A d \in Client : d # c => refs'[d] = refs[d]
    BY <2>1, <1>2
  <2>4. ServiceType' BY <2>1, <2>2, <2>3, <1>1 DEF ObjectsInv, ServiceType
  <2>5. "caches" \in torn'[c] => "caches" \in torn[c] BY <2>2
  <2>6. TornDown(c)' BY <2>1, <2>2, <2>3, <2>5 DEF TornDown
  <2>7. RootsOf(c)' => ResourcesOf(c)' BY <2>6, <1>4
  <2> QED BY <2>1, <2>2, <2>3, <2>4, <2>7, <1>1, QuietStep
<1> QED BY <1>5, <1>6

LEMMA CleanRegistryStep ==
  ASSUME CertInv, NEW c \in Client, CleanRegistry(c)
  PROVE  StorageInv' /\ Preserved
<1>1. /\ Does(c, "registry", {"caches", "refs"})
      /\ certs' = [e \in Entry |-> IF certs[e] = c THEN NoName ELSE certs[e]]
      /\ UNCHANGED <<vars, content, slotCache, storeCache, refs, job>>
  BY DEF CleanRegistry
<1>2. StorageInv /\ ObjectsInv /\ ResourceInv BY DEF CertInv
<1>3. /\ torn'[c] = torn[c] \cup {"registry"} /\ torn' \in [Client -> SUBSET Parts]
      /\ \A d \in Client : d # c => torn'[d] = torn[d]
      /\ TornDown(c) /\ Drained(c)'
      /\ "nodes" \in torn'[c] => \A i \in Id : nodeMap'[c][i] = NoNode
      /\ ~Registered(c)' \/ \A e \in Entry : ~Live(c, e)
  BY <1>1, CleanFacts
<1>4. StorageInv' BY <1>1, <1>2, StorageStep
<1>5. UNCHANGED <<nodeMap, parent, accessor>> BY <1>1 DEF vars
<1>6. ServiceType'
  <2>1. certs' \in [Entry -> Client \cup {NoName}] BY <1>1, <1>2 DEF ObjectsInv, ServiceType
  <2> QED BY <2>1, <1>1, <1>2, <1>3 DEF ObjectsInv, ServiceType
<1>7. \A d \in Client \ {c} : Registered(d)' = Registered(d) BY <1>3 DEF Registered, Connected
<1>8. ObjectsInv' BY <1>1, <1>2, <1>3, <1>6, <1>7, EntriesGo
<1>9. ASSUME NEW d \in Client, d # c PROVE ResourcesOf(d)'
  <2>1. SamePart(d) BY <1>1, <1>3, <1>5, <1>9 DEF SamePart
  <2>2. ~Connected(d) => Drained(d)' BY <1>1, <1>2, <1>5, DownDrained, StaysDrained
  <2> QED BY <2>1, <2>2, <1>2, SameResources DEF ResourceInv
<1>10. ResourcesOf(c)'
  <2>1. RootsOf(c)'
    BY <1>1, <1>2, <1>5 DEF ResourceInv, ResourcesOf, RootsOf, ResourceAt, SlotAt, StoreAt, IsSlot, IsStore
  <2>2. "caches" # "registry" /\ "refs" # "registry" BY SMT
  <2>3. TornDown(c)' BY <2>2, <1>1, <1>3 DEF TornDown
  <2>4. DownIsNew' BY WhollyDown, PTL
  <2> QED BY <2>1, <2>3, <2>4 DEF DownIsNew
<1> QED BY <1>4, <1>8, <1>9, <1>10 DEF Preserved, ResourceInv

\* A slot's or a store's node is added, or there is no id for it.
LEMMA ResolveStep ==
  ASSUME CertInv, NEW c \in Client, NEW s \in Slot, ResolveCertSlotNode(c, s)
  PROVE  StorageInv' /\ Preserved
<1>1. /\ Connected(c) /\ slotCache[c][s] = 0 /\ UNCHANGED <<certs, storeCache, refs, job, torn>>
      /\ \/ /\ \E n \in Node : Construct(c, 0, n, <<"slot", s>>)
            /\ slotCache' = [slotCache EXCEPT ![c][s] = idCounter'[c]]
         \/ QuotaExceeded(c) /\ UNCHANGED <<content, slotCache>>
  BY DEF ResolveCertSlotNode
<1>2. CASE QuotaExceeded(c) /\ UNCHANGED <<content, slotCache>> BY <1>1, <1>2, QuotaCalm DEF serviceVars
<1>3. ASSUME NEW n \in Node, Construct(c, 0, n, <<"slot", s>>),
             slotCache' = [slotCache EXCEPT ![c][s] = idCounter'[c]]
      PROVE  StorageInv' /\ Preserved
  BY <1>1, <1>3, SlotStep
<1> QED BY <1>1, <1>2, <1>3

LEMMA ResolveStoreStep ==
  ASSUME CertInv, NEW c \in Client, NEW r, ResolveTrustStoreNode(c, r)
  PROVE  StorageInv' /\ Preserved
<1>1. PICK t : t = StoreOfResource(UidOf[c], r) OBVIOUS
<1>2. /\ Connected(c) /\ t # NoName /\ storeCache[c][t] = 0 /\ UNCHANGED <<certs, slotCache, refs, job, torn>>
      /\ \/ /\ \E n \in Node : Construct(c, 0, n, <<"store", t>>)
            /\ storeCache' = [storeCache EXCEPT ![c][t] = idCounter'[c]]
         \/ QuotaExceeded(c) /\ UNCHANGED <<content, storeCache>>
  BY <1>1 DEF ResolveTrustStoreNode
<1>3. t \in Store BY <1>1, <1>2, Resolves
<1>4. CASE QuotaExceeded(c) /\ UNCHANGED <<content, storeCache>> BY <1>2, <1>4, QuotaCalm DEF serviceVars
<1>5. ASSUME NEW n \in Node, Construct(c, 0, n, <<"store", t>>),
             storeCache' = [storeCache EXCEPT ![c][t] = idCounter'[c]]
      PROVE  StorageInv' /\ Preserved
  BY <1>2, <1>3, <1>5, StoreStep
<1> QED BY <1>2, <1>4, <1>5

\* A certificate's node is added or not.
LEMMA AddCertNodeStep ==
  ASSUME CertInv, NEW w \in Holder, AddCertNode(w)
  PROVE  StorageInv' /\ Preserved
<1>1. CASE /\ job[w][4] \in Stored(job[w][2])
           /\ \E n \in Node : Construct(job[w][2], job[w][4], n, <<"cert", job[w][3]>>)
           /\ Goto(w, Idle)
  BY <1>1, AddCertStep DEF AddCertNode
<1>2. CASE /\ IF job[w][4] \in Stored(job[w][2]) THEN QuotaExceeded(job[w][2]) ELSE UNCHANGED vars
           /\ Goto(w, <<"unregister", job[w][2], job[w][3]>>)
           /\ content' = content
  BY <1>2, NotAddedStep DEF AddCertNode
<1> QED BY <1>1, <1>2 DEF AddCertNode

LEMMA CertStep == CertInv /\ [CertNext]_certVars => CertInv'
<1> SUFFICES ASSUME CertInv, [CertNext]_certVars PROVE StorageInv' /\ Preserved
  BY DEF CertInv, Preserved
<1>1. CASE UNCHANGED certVars
  <2>1. UNCHANGED vars /\ UNCHANGED serviceVars BY <1>1 DEF certVars
  <2>2. UNCHANGED <<nodeMap, parent, accessor>> BY <2>1 DEF vars
  <2>3. UNCHANGED <<content, certs, slotCache, storeCache, refs, job, torn>> BY <2>1 DEF serviceVars
  <2>4. StorageInv /\ ObjectsInv /\ ResourceInv BY DEF CertInv
  <2>5. StorageInv' BY <2>1, <2>4, StorageStep
  <2>6. ServiceType' BY <2>3, <2>4 DEF ObjectsInv, ServiceType
  <2>7. \A n \in Node, d \in Client : Belongs(n, d)' <=> Belongs(n, d) BY <2>2 DEF Belongs, StoredBy, HeldFor, Holds
  <2>8. \A w \in Holder, d \in Client, e \in Entry : Has(w, d, e)' <=> Has(w, d, e) BY <2>3 DEF Has
  <2>9. \A d \in Client : ~Connected(d) => Drained(d)' BY <2>2, <2>3, <2>4, DownDrained DEF Drained, Holds
  <2> QED BY <2>2, <2>3, <2>4, <2>5, <2>6, <2>7, <2>8, <2>9, CalmStep
<1>2. ASSUME NEW c \in Client, NEW n \in Node, AddOther(c, n) PROVE StorageInv' /\ Preserved BY <1>2, OtherStep
<1>3. ASSUME NEW c \in Client, NEW id \in Id, DeleteOther(c, id) \/ ReleaseCertificate(c, id)
      PROVE  StorageInv' /\ Preserved
  BY <1>3, DeleteStep DEF DeleteOther, ReleaseCertificate
<1>4. ASSUME NEW c \in Client, NEW r, ResolveSlotResource(c, r) PROVE StorageInv' /\ Preserved
  BY <1>4, Resolves, ResolveStep DEF ResolveSlotResource
<1>5. ASSUME NEW c \in Client, NEW r, ResolveTrustStoreNode(c, r) PROVE StorageInv' /\ Preserved
  BY <1>5, ResolveStoreStep
<1>6. ASSUME NEW c \in Client, NEW t \in Store, AddRef(c, t) \/ ReleaseRef(c, t) PROVE StorageInv' /\ Preserved
  BY <1>6, RefStep
<1>7. ASSUME NEW c \in Client, NEW t \in Store, NEW s \in Slot, ResolveMemberSlot(c, t, s)
      PROVE  StorageInv' /\ Preserved
  BY <1>7, ResolveStep DEF ResolveMemberSlot
<1>8. ASSUME NEW c \in Client, Disconnect(c) \/ CleanCaches(c) \/ CleanRefs(c) \/ CleanRegistry(c) \/ DropNodes(c)
      PROVE  StorageInv' /\ Preserved
  BY <1>8, DisconnectStep, CleanStep, CleanRegistryStep, DropStep
<1>9. ASSUME NEW w \in Holder, AddCertNode(w) \/ UnregisterCert(w) \/ Return(w) PROVE StorageInv' /\ Preserved
  BY <1>9, AddCertNodeStep, UnregisterStep, ReturnStep
<1>10. ASSUME NEW w \in Holder, NEW c \in Client, NEW id \in Id,
              \/ Lookup(w, c, id) \/ RegisterCertificate(w, c, id)
              \/ \E p \in Id : LoadCertificate(w, c, id, p)
       PROVE  StorageInv' /\ Preserved
  BY <1>10, LookupStep, RegisterStep DEF LoadCertificate
<1>11. CASE \E c \in Client :
          \/ \E n \in Node : AddOther(c, n)
          \/ \E id \in Id : DeleteOther(c, id) \/ ReleaseCertificate(c, id)
          \/ \E r \in Resources : ResolveSlotResource(c, r) \/ ResolveTrustStoreNode(c, r)
          \/ \E t \in Store :
                \/ AddRef(c, t) \/ ReleaseRef(c, t)
                \/ \E s \in Slot : ResolveMemberSlot(c, t, s)
          \/ Disconnect(c) \/ CleanCaches(c) \/ CleanRefs(c) \/ CleanRegistry(c) \/ DropNodes(c)
  BY <1>11, <1>2, <1>3, <1>4, <1>5, <1>6, <1>7, <1>8
<1>12. CASE \E w \in Holder :
          \/ AddCertNode(w) \/ UnregisterCert(w) \/ Return(w)
          \/ \E c \in Client, id \in Id :
                \/ Lookup(w, c, id) \/ RegisterCertificate(w, c, id)
                \/ \E p \in Id : LoadCertificate(w, c, id, p)
  BY <1>12, <1>9, <1>10
<1> QED BY <1>1, <1>11, <1>12 DEF CertNext

LEMMA CertInitInv == CertInit => CertInv
<1> SUFFICES ASSUME CertInit PROVE CertInv
  OBVIOUS
<1>1. StorageInv BY StorageInit DEF CertInit
<1>2. NoNode \notin Node /\ 0 \in 0..MaxId /\ \A i \in Id : i # 0 BY ConstantsOK, SMT DEF Id
<1>3. ServiceType BY <1>2 DEF CertInit, ServiceType, JobOK
<1>4. \A n \in Node, c \in Client : ~Belongs(n, c) BY <1>2 DEF CertInit, Init, Belongs, StoredBy, HeldFor, Holds
<1>5. \A n \in Node : content[n] = Nothing BY DEF CertInit
<1>6. \A n \in Node, e \in Entry : ~IsCert(n, e) BY <1>5, Existing
<1>7. \A w \in Holder, c \in Client, e \in Entry : ~Has(w, c, e) BY Jobs DEF CertInit, Has
<1>8. \A c \in Client, e \in Entry : ~Live(c, e) /\ certs[e] # c
  <2>1. NoName \notin Client BY CertConstantsOK
  <2> QED BY <2>1, <1>6, <1>7 DEF Live, CertInit
<1>9. ObjectsInv
  BY <1>3, <1>4, <1>5, <1>6, <1>7, <1>8 DEF ObjectsInv, Exists, OneClient, OneObject, OneJob, Entries
<1>10. ASSUME NEW c \in Client PROVE ResourcesOf(c)
  <2>1. \A i \in Id : nodeMap[c][i] = NoNode BY DEF CertInit, Init
  <2>2. \A i \in Id : \A s : ~SlotAt(c, i, s) /\ ~StoreAt(c, i, s) BY <2>1, <1>2 DEF SlotAt, StoreAt
  <2>3. NodesOf(c) BY <2>2, <1>2 DEF CertInit, NodesOf
  <2>4. RootsOf(c) BY <2>2 DEF RootsOf, ResourceAt
  <2>5. Connected(c) BY DEF CertInit, Connected
  <2> QED BY <2>3, <2>4, <2>5 DEF ResourcesOf
<1> QED BY <1>1, <1>9, <1>10 DEF CertInv, ResourceInv

LEMMA CertInvHolds == CertSpec => []CertInv
  BY CertInitInv, CertStep, PTL DEF CertSpec

----------------------------------------------------------------------------
(* Theorems.                                                               *)

\* The object of a stored node is of the kind that GetNodeType says.
LEMMA StoredKind ==
  ASSUME CertInv, NEW c \in Client, NEW i \in Id
  PROVE  /\ i \in Stored(c) <=> nodeMap[c][i] \in Node
         /\ i \in Stored(c) => content[nodeMap[c][i]] # Nothing
<1>1. nodeMap[c][i] \in Node \cup {NoNode} BY DEF CertInv, StorageInv, TypeOK
<1>2. i \in Stored(c) <=> nodeMap[c][i] \in Node BY <1>1, ConstantsOK DEF Stored
<1>3. ASSUME NEW n \in Node, nodeMap[c][i] = n PROVE content[n] # Nothing
  <2>1. Belongs(n, c) BY <1>3 DEF Belongs, StoredBy
  <2> QED BY <2>1 DEF CertInv, ObjectsInv, Exists
<1> QED BY <1>2, <1>3

\* The live entries, as the registry sees them.
LEMMA LiveAre ==
  ASSUME CertInv, NEW c \in Client, NEW e \in Entry
  PROVE  e \in LiveEntries(c) <=> Live(c, e)
<1>1. NoName # e BY CertConstantsOK
<1>2. ServiceType /\ TypeOK BY DEF CertInv, ObjectsInv, StorageInv
<1>3. ASSUME NEW i \in Id PROVE ResolveCertEntry(c, i) = e <=> nodeMap[c][i] \in Node /\ IsCert(nodeMap[c][i], e)
  <2>1. ASSUME ResolveCertEntry(c, i) = e PROVE nodeMap[c][i] \in Node /\ IsCert(nodeMap[c][i], e)
    <3>1. i \in Stored(c) /\ Kind(nodeMap[c][i]) = "cert" /\ content[nodeMap[c][i]][2] = e
      BY <2>1, <1>1 DEF ResolveCertEntry
    <3> QED BY <3>1, <1>2, StoredKind, Kinds
  <2>2. ASSUME nodeMap[c][i] \in Node, IsCert(nodeMap[c][i], e) PROVE ResolveCertEntry(c, i) = e
    <3>1. i \in Stored(c) BY <2>2, StoredKind
    <3>2. Kind(nodeMap[c][i]) = "cert" /\ content[nodeMap[c][i]][2] = e BY <2>2, KindOf
    <3> QED BY <3>1, <3>2 DEF ResolveCertEntry
  <2> QED BY <2>1, <2>2
<1>4. (\E i \in Id : ResolveCertEntry(c, i) = e) <=> \E n \in Node : IsCert(n, e) /\ StoredBy(n, c)
  BY <1>3 DEF StoredBy
<1>5. \A w \in Holder : Holds(w) => accessor[w].node \in Node BY <1>2 DEF TypeOK, Holds, Accessor
<1>6. (\E w \in Holder : Holds(w) /\ accessor[w].client = c /\ content[accessor[w].node] = <<"cert", e>>) <=>
        \E n \in Node : IsCert(n, e) /\ HeldFor(n, c)
  BY <1>5 DEF IsCert, HeldFor
<1> QED BY <1>4, <1>6 DEF LiveEntries, Live, Belongs, Has

\* The data manager's trees stay sound under the service and its callers, which
\* add to them and delete from them through teardowns: TreesSound of CertSpec,
\* whose steps CertManagementService, CleanupClient and deleteClientNodes take.
THEOREM ServiceKeepsTrees == CertSpec => []TreesSound
<1>1. CertInv => TreesSound BY DEF CertInv, StorageInv, TreesSound
<1> QED BY <1>1, CertInvHolds, PTL

\* CertRegistry has exactly the certificates that exist for a client, or that a
\* call is about to store or drop, through failed registrations, cascading
\* deletes and reads that outlive their node; after CleanupClient it has none,
\* whichever of CleanupClient and deleteClientNodes comes first.
THEOREM RegistryExactHolds == CertSpec => []RegistryExact
<1>1. CertInv => RegistryExact
  <2> SUFFICES ASSUME CertInv, NEW c \in Client
               PROVE  {e \in Entry : certs[e] = c} =
                        IF Connected(c) \/ "registry" \notin torn[c] THEN LiveEntries(c) ELSE {}
    BY DEF RegistryExact
  <2>1. \A e \in Entry : certs[e] = c <=> Registered(c) /\ Live(c, e) BY DEF CertInv, ObjectsInv, Entries
  <2>2. \A e \in Entry : e \in LiveEntries(c) <=> Live(c, e) BY LiveAre
  <2>3. LiveEntries(c) \subseteq Entry BY DEF LiveEntries
  <2>4. CASE Registered(c)
    <3>1. {e \in Entry : certs[e] = c} = LiveEntries(c) BY <2>1, <2>2, <2>3, <2>4
    <3> QED BY <3>1, <2>4 DEF Registered
  <2>5. CASE ~Registered(c)
    <3>1. {e \in Entry : certs[e] = c} = {} BY <2>1, <2>5
    <3> QED BY <3>1, <2>5 DEF Registered
  <2> QED BY <2>4, <2>5
<1> QED BY <1>1, CertInvHolds, PTL

\* A connected client has one node for each slot and each trust store it has
\* resolved, the one ResolveCertSlotNode and ResolveTrustStoreNode return from
\* their caches; references are to stores with a node, and a client that connects
\* again after CleanupClient finds nothing of before.
THEOREM ResourceNodesExactHolds == CertSpec => []ResourceNodesExact
<1>1. CertInv => ResourceNodesExact
  <2> SUFFICES ASSUME CertInv, NEW c \in Client, Connected(c)
               PROVE  /\ \A s \in Slot : {i \in Id : ResolveCertSlotHandle(c, i) = s} = {slotCache[c][s]} \ {0}
                      /\ \A t \in Store : {i \in Id : ResolveTrustStoreHandle(c, i) = t} = {storeCache[c][t]} \ {0}
                      /\ refs[c] \subseteq {t \in Store : storeCache[c][t] # 0}
    BY DEF ResourceNodesExact
  <2>1. NodesOf(c) /\ ServiceType BY DEF CertInv, ResourceInv, ResourcesOf, ObjectsInv
  <2>2. NoName \notin Slot /\ NoName \notin Store BY CertConstantsOK
  <2>3. \A x \in 0..MaxId : x # 0 => x \in Id BY ConstantsOK, SMT DEF Id
  <2>4. \A i \in Id : i # 0 BY ConstantsOK, SMT DEF Id
  <2>5. ASSUME NEW s \in Slot, NEW i \in Id PROVE ResolveCertSlotHandle(c, i) = s <=> SlotAt(c, i, s)
    <3>1. ASSUME ResolveCertSlotHandle(c, i) = s PROVE SlotAt(c, i, s)
      <4>1. i \in Stored(c) /\ Kind(nodeMap[c][i]) = "slot" /\ content[nodeMap[c][i]][2] = s
        BY <3>1, <2>2 DEF ResolveCertSlotHandle
      <4> QED BY <4>1, <2>1, StoredKind, Kinds DEF SlotAt
    <3>2. ASSUME SlotAt(c, i, s) PROVE ResolveCertSlotHandle(c, i) = s
      <4>1. i \in Stored(c) BY <3>2, StoredKind DEF SlotAt
      <4>2. Kind(nodeMap[c][i]) = "slot" /\ content[nodeMap[c][i]][2] = s BY <3>2, KindOf DEF SlotAt
      <4> QED BY <4>1, <4>2 DEF ResolveCertSlotHandle
    <3> QED BY <3>1, <3>2
  <2>6. ASSUME NEW t \in Store, NEW i \in Id PROVE ResolveTrustStoreHandle(c, i) = t <=> StoreAt(c, i, t)
    <3>1. ASSUME ResolveTrustStoreHandle(c, i) = t PROVE StoreAt(c, i, t)
      <4>1. i \in Stored(c) /\ Kind(nodeMap[c][i]) = "store" /\ content[nodeMap[c][i]][2] = t
        BY <3>1, <2>2 DEF ResolveTrustStoreHandle
      <4> QED BY <4>1, <2>1, StoredKind, Kinds DEF StoreAt
    <3>2. ASSUME StoreAt(c, i, t) PROVE ResolveTrustStoreHandle(c, i) = t
      <4>1. i \in Stored(c) BY <3>2, StoredKind DEF StoreAt
      <4>2. Kind(nodeMap[c][i]) = "store" /\ content[nodeMap[c][i]][2] = t BY <3>2, KindOf DEF StoreAt
      <4> QED BY <4>1, <4>2 DEF ResolveTrustStoreHandle
    <3> QED BY <3>1, <3>2
  <2>7. ASSUME NEW s \in Slot PROVE {i \in Id : ResolveCertSlotHandle(c, i) = s} = {slotCache[c][s]} \ {0}
    <3>1. \A i \in Id : ResolveCertSlotHandle(c, i) = s <=> slotCache[c][s] = i BY <2>1, <2>5 DEF NodesOf
    <3>2. slotCache[c][s] \in 0..MaxId BY <2>1 DEF ServiceType
    <3> QED BY <3>1, <3>2, <2>3, <2>4
  <2>8. ASSUME NEW t \in Store PROVE {i \in Id : ResolveTrustStoreHandle(c, i) = t} = {storeCache[c][t]} \ {0}
    <3>1. \A i \in Id : ResolveTrustStoreHandle(c, i) = t <=> storeCache[c][t] = i BY <2>1, <2>6 DEF NodesOf
    <3>2. storeCache[c][t] \in 0..MaxId BY <2>1 DEF ServiceType
    <3> QED BY <3>1, <3>2, <2>3, <2>4
  <2>9. refs[c] \subseteq {t \in Store : storeCache[c][t] # 0} BY <2>1 DEF ServiceType, NodesOf
  <2> QED BY <2>7, <2>8, <2>9
<1> QED BY <1>1, CertInvHolds, PTL
================================================================================
