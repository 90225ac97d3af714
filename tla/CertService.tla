----------------------------- MODULE CertService -----------------------------
(***************************************************************************)
(* CertManagementService: the certificates, slots and trust stores that    *)
(* clients see as data nodes, the registry of live certificates, the       *)
(* caches that give a client one node per slot and per store, and the      *)
(* teardown of a client (daemon/cert_management/core).  It uses the data   *)
(* manager next to its other users, whose nodes are the parents of         *)
(* certificates.  Writes to slots are in CertSlotCache, and what a trust   *)
(* store makes of them in TrustStore.                                      *)
(*                                                                         *)
(* The registry, the two caches and the reference counts have a mutex      *)
(* each; the service has none.  What one mutex covers is one step.  A call *)
(* that is refused leaves everything as it was.                            *)
(*                                                                         *)
(* The callers' side, as the class comment and ReleaseCertificate state    *)
(* it: only certificate nodes are released, and a client is torn down when *)
(* its requests are admitted no longer and the running ones have ended.    *)
(***************************************************************************)
EXTENDS DataManager, CertCatalog

CONSTANTS
    UidOf,    \* GetUidFromClientId
    Entry,    \* CertRegistryIds; an id that nothing refers to is as good as new
    Nothing   \* the contents of an object that does not exist

VARIABLES
    content,    \* the members of each DataNode object
    certs,      \* CertRegistry::m_certs: the owner of each entry, or NoName
    slotCache,  \* m_cert_slot_dedup_cache: client -> slot -> id, 0 for none
    storeCache, \* m_trust_store_dedup_cache
    refs,       \* m_client_ref_counts: the stores each client holds
    job,        \* the call each worker is in the middle of
    torn        \* the parts of the teardown that are done; all when connected

serviceVars == <<content, certs, slotCache, storeCache, refs, job, torn>>
certVars == <<vars, serviceVars>>

Parts == {"caches", "refs", "registry", "nodes"}
Connected(c) == torn[c] = Parts
Idle == <<"idle", NoName>>

\* GetNodeType of an object that exists.
Kind(n) == content[n][1]

\* The members of an object that exists: what it stands for.
Contents ==
    {<<"other">>} \cup ({"cert"} \X Entry) \cup ({"slot"} \X Slot) \cup ({"store"} \X Store)

ASSUME CertConstantsOK ==
    /\ ModuleCreated
    /\ UidOf \in [Client -> Nat]
    /\ NoName \notin UNION {Client, Entry, Slot, Store}
    /\ Nothing \notin Contents
    /\ \A t \in Store : \A m \in Range(StoreConfig(t).members) : m.kind \in {"static", "exclusive", "conditional"}

CertInit ==
    /\ Init
    /\ content = [n \in Node |-> Nothing]
    /\ certs = [e \in Entry |-> NoName]
    /\ slotCache = [c \in Client |-> [s \in Slot |-> 0]]
    /\ storeCache = [c \in Client |-> [t \in Store |-> 0]]
    /\ refs = [c \in Client |-> {}]
    /\ job = [w \in Holder |-> Idle]
    /\ torn = [c \in Client |-> Parts]

----------------------------------------------------------------------------
(* Nodes.                                                                  *)

\* An object that nothing refers to after the step is destroyed, and
\* ~CertDataNode takes its certificate out of the registry.
Destroyed == {n \in Node : content[n] # Nothing /\ Unreferenced(n)'}

Dropped == {e \in Entry : \E n \in Destroyed : Kind(n) = "cert" /\ content[n][2] = e}

Destroy ==
    /\ content' = [n \in Node |-> IF n \in Destroyed THEN Nothing ELSE content[n]]
    /\ certs' = [e \in Entry |-> IF e \in Dropped THEN NoName ELSE certs[e]]
    /\ UNCHANGED <<slotCache, storeCache, refs, job, torn>>

\* A new object becomes a child of p, or a root; the id it gets is idCounter'.
Construct(c, p, n, x) ==
    /\ content[n] = Nothing /\ n \notin Exclusive
    /\ Unreferenced(n)
    /\ Attach(c, p, n)
    /\ content' = [content EXCEPT ![n] = x]

\* Contexts and their like, of the service's callers.
AddOther(c, n) ==
    /\ Connected(c) /\ content[n] = Nothing /\ n \in Exclusive
    /\ \/ AddNode(c, n)
       \/ \E p \in Id : AddChildNode(c, p, n) \/ AddSiblingNode(c, p, n)
    /\ content' = IF InStorage(n)' THEN [content EXCEPT ![n] = <<"other">>] ELSE content
    /\ UNCHANGED <<certs, slotCache, storeCache, refs, job, torn>>

DeleteOther(c, id) ==
    /\ Connected(c) /\ id \in Stored(c) /\ Kind(nodeMap[c][id]) = "other"
    /\ DeleteNode(c, id)
    /\ Destroy

----------------------------------------------------------------------------
(* What each read answers for a node id: the slot, store or entry, or none. *)

ResolveCertSlotHandle(c, id) ==
    IF id \in Stored(c) /\ Kind(nodeMap[c][id]) = "slot" THEN content[nodeMap[c][id]][2] ELSE NoName

ResolveTrustStoreHandle(c, id) ==
    IF id \in Stored(c) /\ Kind(nodeMap[c][id]) = "store" THEN content[nodeMap[c][id]][2] ELSE NoName

ResolveCertEntry(c, id) ==
    IF id \in Stored(c) /\ Kind(nodeMap[c][id]) = "cert" THEN content[nodeMap[c][id]][2] ELSE NoName

----------------------------------------------------------------------------
(* Certificates.                                                           *)

Free(w) == job[w] = Idle /\ ~Holds(w)

Goto(w, j) == job' = [job EXCEPT ![w] = j]

FreshEntry(e) ==
    /\ certs[e] = NoName
    /\ \A n \in Node : content[n] # Nothing /\ Kind(n) = "cert" => content[n][2] # e
    /\ \A w \in Holder : job[w][1] \in {"register", "unregister"} => job[w][3] # e

\* The entry is registered first, and p need not exist.
RegisterCertificate(w, c, p) ==
    /\ Free(w) /\ Connected(c)
    /\ \E e \in Entry :
        /\ FreshEntry(e)
        /\ certs' = [certs EXCEPT ![e] = c]
        /\ Goto(w, <<"register", c, e, p>>)
    /\ UNCHANGED <<vars, content, slotCache, storeCache, refs, torn>>

\* LoadCertificate reads the slot that the node id stands for, which needs the
\* slot's handler, and registers what it read; a read that fails changes nothing.
LoadCertificate(w, c, id, p) ==
    /\ ResolveCertSlotHandle(c, id) # NoName
    /\ GetOrCreate(ResolveCertSlotHandle(c, id))
    /\ RegisterCertificate(w, c, p)

\* addChildNode fails when the parent is gone or no id is free.
AddCertNode(w) ==
    /\ job[w][1] = "register"
    /\ LET c == job[w][2]
           e == job[w][3]
           p == job[w][4]
       IN \/ /\ p \in Stored(c)
             /\ \E n \in Node : Construct(c, p, n, <<"cert", e>>)
             /\ Goto(w, Idle)
          \/ /\ IF p \in Stored(c) THEN QuotaExceeded(c) ELSE UNCHANGED vars
             /\ Goto(w, <<"unregister", c, e>>)
             /\ content' = content
    /\ UNCHANGED <<certs, slotCache, storeCache, refs, torn>>

\* ~CertDataNode of the node that was not added.
UnregisterCert_Forgotten(w) ==
    /\ job[w][1] = "unregister"
    /\ Goto(w, Idle)
    /\ UNCHANGED <<vars, content, certs, slotCache, storeCache, refs, torn>>

UnregisterCert(w) ==
    /\ job[w][1] = "unregister"
    /\ certs' = [certs EXCEPT ![job[w][3]] = NoName]
    /\ Goto(w, Idle)
    /\ UNCHANGED <<vars, content, slotCache, storeCache, refs, torn>>

ReleaseCertificate(c, id) ==
    /\ Connected(c) /\ id \in Stored(c) /\ Kind(nodeMap[c][id]) = "cert"
    /\ DeleteNode(c, id)
    /\ Destroy

----------------------------------------------------------------------------
(* Nodes of slots and of trust stores.  A node that the cache has is       *)
(* returned and nothing changes.                                           *)

ResolveCertSlotNode(c, s) ==
    /\ Connected(c) /\ slotCache[c][s] = 0
    /\ \/ /\ \E n \in Node : Construct(c, 0, n, <<"slot", s>>)
          /\ slotCache' = [slotCache EXCEPT ![c][s] = idCounter'[c]]
       \/ QuotaExceeded(c) /\ UNCHANGED <<content, slotCache>>
    /\ UNCHANGED <<certs, storeCache, refs, job, torn>>

\* By application resource, ResolveAppResource first.
ResolveSlotResource(c, r) ==
    /\ SlotOfResource(UidOf[c], r) # NoName
    /\ ResolveCertSlotNode(c, SlotOfResource(UidOf[c], r))

\* By handle: BuildTrustStoreMemberIdListResponse and ...MemberObjectResponse
\* ask for the node of each member; when one fails, the nodes before it stay.
ResolveMemberSlot(c, t, s) ==
    /\ storeCache[c][t] # 0
    /\ s \in MemberSlots(t) \cap Slot
    /\ ResolveCertSlotNode(c, s)

ResolveTrustStoreNode(c, r) ==
    LET t == StoreOfResource(UidOf[c], r) IN
    /\ Connected(c) /\ t # NoName
    /\ storeCache[c][t] = 0
    /\ \/ /\ \E n \in Node : Construct(c, 0, n, <<"store", t>>)
          /\ storeCache' = [storeCache EXCEPT ![c][t] = idCounter'[c]]
       \/ QuotaExceeded(c) /\ UNCHANGED <<content, storeCache>>
    /\ UNCHANGED <<certs, slotCache, refs, job, torn>>

----------------------------------------------------------------------------
(* Reads hold an accessor from the lookup to their return.                 *)

Lookup(w, c, id) ==
    /\ Free(w) /\ Connected(c)
    /\ GetNodeAccessor(w, c, id)
    /\ UNCHANGED serviceVars

Return(w) == ReleaseNodeAccessor(w) /\ Destroy

----------------------------------------------------------------------------
(* References.                                                             *)

AddRef(c, t) ==
    /\ Connected(c) /\ storeCache[c][t] # 0
    /\ refs' = [refs EXCEPT ![c] = @ \cup {t}]
    /\ UNCHANGED <<vars, content, certs, slotCache, storeCache, job, torn>>

ReleaseRef(c, t) ==
    /\ Connected(c) /\ t \in refs[c]
    /\ refs' = [refs EXCEPT ![c] = @ \ {t}]
    /\ UNCHANGED <<vars, content, certs, slotCache, storeCache, job, torn>>

----------------------------------------------------------------------------
(* Teardown: CleanupClient's three critical sections, and the deletion of  *)
(* the client's nodes before, between or after them.                       *)

Drained(c) ==
    \A w \in Holder : job[w][2] # c /\ (Holds(w) => accessor[w].client # c)

Disconnect(c) ==
    /\ Connected(c) /\ Drained(c)
    /\ torn' = [torn EXCEPT ![c] = {}]
    /\ UNCHANGED <<vars, content, certs, slotCache, storeCache, refs, job>>

Does(c, part, before) ==
    /\ part \notin torn[c] /\ before \subseteq torn[c]
    /\ torn' = [torn EXCEPT ![c] = @ \cup {part}]

CleanCaches_KeepsStores(c) ==
    /\ Does(c, "caches", {})
    /\ slotCache' = [slotCache EXCEPT ![c] = [s \in Slot |-> 0]]
    /\ UNCHANGED <<vars, content, certs, storeCache, refs, job>>

CleanCaches(c) ==
    /\ Does(c, "caches", {})
    /\ slotCache' = [slotCache EXCEPT ![c] = [s \in Slot |-> 0]]
    /\ storeCache' = [storeCache EXCEPT ![c] = [t \in Store |-> 0]]
    /\ UNCHANGED <<vars, content, certs, refs, job>>

CleanRefs(c) ==
    /\ Does(c, "refs", {"caches"})
    /\ refs' = [refs EXCEPT ![c] = {}]
    /\ UNCHANGED <<vars, content, certs, slotCache, storeCache, job>>

CleanRegistry(c) ==
    /\ Does(c, "registry", {"caches", "refs"})
    /\ certs' = [e \in Entry |-> IF certs[e] = c THEN NoName ELSE certs[e]]
    /\ UNCHANGED <<vars, content, slotCache, storeCache, refs, job>>

DropNodes(c) ==
    /\ Does(c, "nodes", {})
    /\ IF entryNodes[c] # {} THEN DeleteClientNodes(c) ELSE UNCHANGED vars
    /\ content' = [n \in Node |-> IF n \in Destroyed THEN Nothing ELSE content[n]]
    /\ certs' = [e \in Entry |-> IF e \in Dropped THEN NoName ELSE certs[e]]
    /\ UNCHANGED <<slotCache, storeCache, refs, job>>

----------------------------------------------------------------------------
Resources == {m.resource : m \in Range(SlotMappings) \cup Range(StoreMappings)}

CertNext ==
    \/ \E c \in Client :
          \/ \E n \in Node : AddOther(c, n)
          \/ \E id \in Id : DeleteOther(c, id) \/ ReleaseCertificate(c, id)
          \/ \E r \in Resources : ResolveSlotResource(c, r) \/ ResolveTrustStoreNode(c, r)
          \/ \E t \in Store :
                \/ AddRef(c, t) \/ ReleaseRef(c, t)
                \/ \E s \in Slot : ResolveMemberSlot(c, t, s)
          \/ Disconnect(c) \/ CleanCaches(c) \/ CleanRefs(c) \/ CleanRegistry(c) \/ DropNodes(c)
    \/ \E w \in Holder :
          \/ AddCertNode(w) \/ UnregisterCert(w) \/ Return(w)
          \/ \E c \in Client, id \in Id :
                \/ Lookup(w, c, id) \/ RegisterCertificate(w, c, id)
                \/ \E p \in Id : LoadCertificate(w, c, id, p)

\* An accessor is a local of a call, which returns.
CertSpec == CertInit /\ [][CertNext]_certVars /\ \A w \in Holder : WF_certVars(Return(w))

----------------------------------------------------------------------------
(* Properties.                                                             *)

\* The entries of certificate objects that exist for c, and those of calls that
\* have registered theirs and not yet added it.
LiveEntries(c) ==
    {e \in Entry :
        \/ \E i \in Id : ResolveCertEntry(c, i) = e
        \/ \E w \in Holder :
              \/ Holds(w) /\ accessor[w].client = c /\ content[accessor[w].node] = <<"cert", e>>
              \/ job[w][1] \in {"register", "unregister"} /\ job[w][2] = c /\ job[w][3] = e}

\* The registry of a connected client has the certificates that exist, through
\* failed registrations, cascading deletes and reads that outlive their node;
\* once CleanupClient has come to it, it has none, whenever the nodes go.
RegistryExact ==
    \A c \in Client :
        {e \in Entry : certs[e] = c} =
            IF Connected(c) \/ "registry" \notin torn[c] THEN LiveEntries(c) ELSE {}

\* A connected client has one node for each slot and each store it resolved,
\* the one the cache returns: the id in the cache resolves back to the slot or
\* store ("resolving the same slot repeatedly for one client reuses its
\* resource node"), and a client that connects again finds nothing of before.
ResourceNodesExact ==
    \A c \in Client : Connected(c) =>
        /\ \A s \in Slot : {i \in Id : ResolveCertSlotHandle(c, i) = s} = {slotCache[c][s]} \ {0}
        /\ \A t \in Store : {i \in Id : ResolveTrustStoreHandle(c, i) = t} = {storeCache[c][t]} \ {0}
        /\ refs[c] \subseteq {t \in Store : storeCache[c][t] # 0}

=============================================================================
