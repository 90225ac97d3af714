---------------------------- MODULE KeyRegistry ----------------------------
(***************************************************************************)
(* Live keys of one provider: the KeyRegistry (m_keys, m_slot_to_id), the  *)
(* reference count of each KeyEntry, and the KeyDataNodes of the clients'  *)
(* trees that hold the references (daemon/key_management/core and nodes).  *)
(*                                                                         *)
(* The registry's methods and KeyEntry::AddRef/Release each take their own *)
(* mutex, and KeyManagementService takes none: LoadOrShare and             *)
(* RegisterKeyMaterial are sequences of critical sections, so a worker     *)
(* thread takes one step per critical section and threads interleave.      *)
(*                                                                         *)
(* A KeyEntry lives as long as a shared_ptr to it does: in m_keys, in a    *)
(* KeyDataNode or in a local of a worker.  m_referencing_clients is left   *)
(* out, nothing reads it.  A KeyDataNode is a child of a context's node;   *)
(* the context goes with all its children (CTX_CLOSE).                     *)
(***************************************************************************)
EXTENDS Integers, FiniteSets

CONSTANTS
    Worker,    \* threads that execute requests
    Context,   \* context nodes of the clients' trees
    Slot,      \* the key slots of the provider
    Entry,     \* KeyEntry objects
    Ref,       \* KeyDataNode objects
    MaxRegId,  \* bound on m_next_id (64 bits in the code)
    MaxCount,  \* largest m_ref_count, 2^32 - 1 in the code
    NoContext, NoSlot, NoEntry, NoRef

ASSUME ConstantsOK ==
    /\ MaxRegId \in Nat
    /\ MaxCount \in Nat
    /\ IsFiniteSet(Ref)
    /\ Cardinality(Ref) <= MaxCount
    /\ NoContext \notin Context
    /\ NoSlot \notin Slot
    /\ NoEntry \notin Entry
    /\ NoRef \notin Ref
    /\ NoRef \notin [entry : Entry, rid : 0..MaxRegId, ctx : Context,
                     attached : BOOLEAN]

VARIABLES
    keys,      \* m_keys: id -> entry
    slotToId,  \* m_slot_to_id, 0 where the slot is not mapped
    nextId,    \* m_next_id
    refCount,  \* KeyEntry::m_ref_count
    node,      \* the KeyDataNode objects; attached: stored in the data manager
    contexts,  \* the contexts stored in the data manager
    job        \* where each worker is in its request, with its locals

vars == <<keys, slotToId, nextId, refCount, node, contexts, job>>

----------------------------------------------------------------------------
RegId == 1..MaxRegId

\* What a worker does next is its pc.  src: the node whose accessor it holds; using:
\* the entry whose handler an operation uses, held: the entry its shared_ptr keeps
\* alive; more: nodes deleteNode has still to destroy, locked: it holds the data
\* manager's mutex; out: the node whose id the reply carries.
Idle == [pc |-> "idle", ctx |-> NoContext, slot |-> NoSlot, entry |-> NoEntry,
         rid |-> 0, ref |-> NoRef, src |-> NoRef, using |-> NoEntry,
         held |-> NoEntry, more |-> {}, locked |-> FALSE, out |-> NoRef]

At(w, pc) == job[w].pc = pc

Goto(w, pc) == job' = [job EXCEPT ![w].pc = pc]

\* std::make_shared: memory no shared_ptr refers to.
FreshEntry(e) ==
    /\ \A i \in RegId : keys[i] # e
    /\ \A r \in Ref : node[r] # NoRef => node[r].entry # e
    /\ \A w \in Worker : job[w].entry # e /\ job[w].held # e

FreshRef(r) ==
    /\ node[r] = NoRef
    /\ \A w \in Worker : job[w].ref # r /\ job[w].src # r /\ job[w].out # r

\* addChildNode, deleteNode and getNodeAccessor wait for the data manager's
\* mutex, which deleteNode keeps while it destroys the nodes it removed.
DataManagerFree == \A w \in Worker : ~job[w].locked

Attached(r) == node[r] # NoRef /\ node[r].attached

\* w's accessor is the only owner of the node it gives access to.
LastOwner(w) ==
    LET r == job[w].src IN
    /\ r # NoRef
    /\ ~node[r].attached
    /\ \A v \in Worker \ {w} : job[v].src # r

\* The destructor of a node is done: the next one, or the request goes on.
Proceed(w, j) ==
    \/ /\ j.more = {}
       /\ job' = [job EXCEPT ![w] =
            [j EXCEPT !.pc = IF j.using # NoEntry THEN "use" ELSE "leave",
                      !.ref = NoRef, !.entry = NoEntry, !.locked = FALSE]]
    \/ \E r \in j.more :
        job' = [job EXCEPT ![w] = [j EXCEPT !.pc = "destroy", !.ref = r,
                                            !.entry = NoEntry, !.more = @ \ {r}]]

----------------------------------------------------------------------------
(* LoadOrShare and RegisterKeyMaterial, one step per critical section.     *)

FindBySlot(s) ==
    IF slotToId[s] # 0 /\ keys[slotToId[s]] # NoEntry THEN keys[slotToId[s]] ELSE NoEntry

\* LoadOrShare is called with a slot: is it loaded already?
LoadOrShare(w, c, s) ==
    /\ At(w, "idle")
    /\ job' = [job EXCEPT ![w] =
         [Idle EXCEPT !.pc = IF FindBySlot(s) # NoEntry THEN "found" ELSE "load",
                      !.ctx = c, !.slot = s, !.entry = FindBySlot(s)]]
    /\ UNCHANGED <<keys, slotToId, nextId, refCount, node, contexts>>

\* The id of the entry found, in a critical section of its own.
FindSlotRegistryId(w) ==
    /\ At(w, "found")
    /\ job' = [job EXCEPT ![w].pc = "create", ![w].rid = slotToId[job[w].slot]]
    /\ UNCHANGED <<keys, slotToId, nextId, refCount, node, contexts>>

\* LoadKey gives a handler, which RegisterKeyMaterial wraps in a KeyEntry.
LoadKey(w) ==
    /\ At(w, "load")
    /\ \E e \in Entry :
        /\ FreshEntry(e)
        /\ refCount' = [refCount EXCEPT ![e] = 0]
        /\ job' = [job EXCEPT ![w].pc = "register", ![w].entry = e]
    /\ UNCHANGED <<keys, slotToId, nextId, node, contexts>>

LoadKeyFails(w) ==
    /\ At(w, "load")
    /\ Goto(w, "recheck")
    /\ UNCHANGED <<keys, slotToId, nextId, refCount, node, contexts>>

\* After a failed load: was the slot registered in the meantime?
Recheck(w) ==
    /\ At(w, "recheck")
    /\ LET e == FindBySlot(job[w].slot) IN
        job' = [job EXCEPT ![w].pc = IF e # NoEntry THEN "found" ELSE "leave",
                           ![w].entry = e]
    /\ UNCHANGED <<keys, slotToId, nextId, refCount, node, contexts>>

\* Faulty variant: the slot is mapped to the new id whether it was mapped or not.
RegisterSlotKey_Overwrites(w) ==
    /\ At(w, "register")
    /\ nextId <= MaxRegId
    /\ keys' = [keys EXCEPT ![nextId] = job[w].entry]
    /\ slotToId' = [slotToId EXCEPT ![job[w].slot] = nextId]
    /\ nextId' = nextId + 1
    /\ job' = [job EXCEPT ![w].pc = "create", ![w].rid = nextId]
    /\ UNCHANGED <<refCount, node, contexts>>

\* RegisterSlotKey: refused, with id 0, when another thread was faster.
RegisterSlotKey(w) ==
    /\ At(w, "register")
    /\ \/ /\ slotToId[job[w].slot] = 0
          /\ nextId <= MaxRegId
          /\ keys' = [keys EXCEPT ![nextId] = job[w].entry]
          /\ slotToId' = [slotToId EXCEPT ![job[w].slot] = nextId]
          /\ nextId' = nextId + 1
          /\ job' = [job EXCEPT ![w].pc = "create", ![w].rid = nextId]
       \/ /\ slotToId[job[w].slot] # 0
          /\ Goto(w, "lost")
          /\ UNCHANGED <<keys, slotToId, nextId, contexts>>
    /\ UNCHANGED <<refCount, node, contexts>>

\* The winner's id, and then the winner's entry, which replaces the loaded one;
\* either may be gone by then (kInternalError).
FindWinnerId(w) ==
    /\ At(w, "lost")
    /\ LET i == slotToId[job[w].slot] IN
        job' = [job EXCEPT ![w].pc = IF i # 0 THEN "winner" ELSE "leave", ![w].rid = i,
                           ![w].entry = IF i # 0 THEN @ ELSE NoEntry]
    /\ UNCHANGED <<keys, slotToId, nextId, refCount, node, contexts>>

FindById(w) ==
    /\ At(w, "winner")
    /\ LET e == keys[job[w].rid] IN
        job' = [job EXCEPT ![w].pc = IF e # NoEntry THEN "create" ELSE "leave",
                           ![w].entry = e]
    /\ UNCHANGED <<keys, slotToId, nextId, refCount, node, contexts>>

\* RegisterKeyMaterial of a generated or imported key, or of the secret an
\* operation on another key gave: no slot.
RegisterEphemeralKey(w, c) ==
    /\ At(w, "idle") \/ (At(w, "use") /\ c = job[w].ctx)
    /\ nextId <= MaxRegId
    /\ \E e \in Entry :
        /\ FreshEntry(e)
        /\ refCount' = [refCount EXCEPT ![e] = 0]
        /\ keys' = [keys EXCEPT ![nextId] = e]
        /\ job' = [job EXCEPT ![w] = [Idle EXCEPT !.pc = "create", !.ctx = c, !.entry = e,
                                                  !.rid = nextId, !.held = job[w].held]]
    /\ nextId' = nextId + 1
    /\ UNCHANGED <<slotToId, node, contexts>>

\* BindKeyToContext of a loaded key: a second node for the same entry.  The
\* accessor of the first node stays alive until the call returns.
BindLoadedKey(w, r, c) ==
    /\ At(w, "idle")
    /\ DataManagerFree
    /\ Attached(r)
    /\ job' = [job EXCEPT ![w] =
         [Idle EXCEPT !.pc = "create", !.ctx = c, !.entry = node[r].entry,
                      !.rid = node[r].rid, !.src = r]]
    /\ UNCHANGED <<keys, slotToId, nextId, refCount, node, contexts>>

----------------------------------------------------------------------------
(* An operation on a loaded key: AcquireKeyForOperation and its return.    *)

\* Faulty variant: the operation keeps the handler and not the entry.
AcquireKeyForOperation_HandlerOnly(w, c, r) ==
    /\ At(w, "idle")
    /\ DataManagerFree
    /\ Attached(r)
    /\ job' = [job EXCEPT ![w] = [Idle EXCEPT !.pc = "acquired", !.ctx = c, !.src = r,
                                              !.using = node[r].entry]]
    /\ UNCHANGED <<keys, slotToId, nextId, refCount, node, contexts>>

\* The accessor gives the node's entry, of which the operation keeps a shared_ptr.
AcquireKeyForOperation(w, c, r) ==
    /\ At(w, "idle")
    /\ DataManagerFree
    /\ Attached(r)
    /\ job' = [job EXCEPT ![w] = [Idle EXCEPT !.pc = "acquired", !.ctx = c, !.src = r,
                                              !.using = node[r].entry,
                                              !.held = node[r].entry]]
    /\ UNCHANGED <<keys, slotToId, nextId, refCount, node, contexts>>

\* The accessor goes out of scope when the function returns.
AccessorGone(w) ==
    /\ At(w, "acquired")
    /\ job' = [job EXCEPT ![w].pc = IF LastOwner(w) THEN "destroy" ELSE "use",
                          ![w].ref = IF LastOwner(w) THEN job[w].src ELSE NoRef,
                          ![w].src = NoRef]
    /\ UNCHANGED <<keys, slotToId, nextId, refCount, node, contexts>>

\* The operation used the key and leaves its state alone.
KeyUsed(w) ==
    /\ At(w, "use")
    /\ job' = [job EXCEPT ![w].pc = "leave", ![w].using = NoEntry]
    /\ UNCHANGED <<keys, slotToId, nextId, refCount, node, contexts>>

----------------------------------------------------------------------------
(* CreateKeyDataNode and the life of a KeyDataNode.                        *)

\* The constructor: KeyEntry::AddRef.
ConstructKeyDataNode(w) ==
    /\ At(w, "create")
    /\ \E r \in Ref :
        /\ FreshRef(r)
        /\ node' = [node EXCEPT ![r] =
              [entry |-> job[w].entry, rid |-> job[w].rid,
               ctx |-> job[w].ctx, attached |-> FALSE]]
        /\ job' = [job EXCEPT ![w].pc = "attach", ![w].ref = r]
    /\ refCount' = [refCount EXCEPT ![job[w].entry] = IF @ = MaxCount THEN 0 ELSE @ + 1]
    /\ UNCHANGED <<keys, slotToId, nextId, contexts>>

\* addChildNode stores the node ...
AttachKeyDataNode(w) ==
    /\ At(w, "attach")
    /\ DataManagerFree
    /\ job[w].ctx \in contexts
    /\ node' = [node EXCEPT ![job[w].ref].attached = TRUE]
    /\ job' = [job EXCEPT ![w].pc = "leave", ![w].entry = NoEntry, ![w].ref = NoRef,
                          ![w].out = job[w].ref]
    /\ UNCHANGED <<keys, slotToId, nextId, refCount, contexts>>

\* ... or fails (the parent is gone, or the quota is used up), and the node goes out of scope.
AttachFails(w) ==
    /\ At(w, "attach")
    /\ DataManagerFree
    /\ job' = [job EXCEPT ![w].pc = "destroy", ![w].entry = NoEntry]
    /\ UNCHANGED <<keys, slotToId, nextId, refCount, node, contexts>>

\* removeNodesFromStorage: the nodes leave the storage.  Their objects are
\* destroyed before the mutex is released, unless an accessor holds them.
RemoveNodes(w, doomed) ==
    LET unowned == {r \in doomed : \A v \in Worker : job[v].src # r} IN
    /\ At(w, "idle")
    /\ DataManagerFree
    /\ node' = [r \in Ref |-> IF r \in doomed THEN [node[r] EXCEPT !.attached = FALSE]
                                             ELSE node[r]]
    /\ Proceed(w, [Idle EXCEPT !.more = unowned, !.locked = unowned # {}])
    /\ UNCHANGED <<keys, slotToId, nextId, refCount>>

\* deleteNode of a key's node (ReleaseKeyMaterial).
DeleteKeyDataNode(w, r) ==
    /\ Attached(r)
    /\ RemoveNodes(w, {r})
    /\ UNCHANGED contexts

\* deleteNode of a context's node (CTX_CLOSE), with the nodes below it.
CloseContext(w, c) ==
    /\ c \in contexts
    /\ RemoveNodes(w, {r \in Ref : Attached(r) /\ node[r].ctx = c})
    /\ contexts' = contexts \ {c}

\* ~KeyDataNode: KeyEntry::Release tells whether this was the last reference.
ReleaseRef(w) ==
    /\ At(w, "destroy")
    /\ LET n == node[job[w].ref] IN
        /\ refCount' = [refCount EXCEPT ![n.entry] = IF @ = 0 THEN MaxCount ELSE @ - 1]
        /\ \/ /\ refCount[n.entry] = 1
              /\ job' = [job EXCEPT ![w].pc = "unregister", ![w].ref = NoRef,
                                    ![w].entry = n.entry, ![w].rid = n.rid]
           \/ /\ refCount[n.entry] # 1
              /\ Proceed(w, job[w])
    /\ node' = [node EXCEPT ![job[w].ref] = NoRef]
    /\ UNCHANGED <<keys, slotToId, nextId, contexts>>

\* The callback of the last reference: KeyRegistry::Unregister(m_registry_id);
\* an id that is not registered is ignored.
Unregister(w) ==
    /\ At(w, "unregister")
    /\ keys' = [i \in RegId |-> IF i = job[w].rid THEN NoEntry ELSE keys[i]]
    /\ slotToId' = [s \in Slot |->
                      IF slotToId[s] = job[w].rid THEN 0 ELSE slotToId[s]]
    /\ Proceed(w, job[w])
    /\ UNCHANGED <<nextId, refCount, node, contexts>>

\* The request's locals go out of scope.  An accessor that was the last owner
\* of a node deleted meanwhile destroys it here, without the manager's mutex.
Leave(w) ==
    /\ At(w, "leave")
    /\ job' = [job EXCEPT ![w] = IF LastOwner(w)
                                 THEN [Idle EXCEPT !.pc = "destroy", !.ref = job[w].src]
                                 ELSE Idle]
    /\ UNCHANGED <<keys, slotToId, nextId, refCount, node, contexts>>

----------------------------------------------------------------------------
NoKeys ==
    /\ keys = [i \in RegId |-> NoEntry]
    /\ slotToId = [s \in Slot |-> 0]
    /\ nextId = 1
    /\ refCount = [e \in Entry |-> 0]
    /\ node = [r \in Ref |-> NoRef]
    /\ job = [w \in Worker |-> Idle]

Init == NoKeys /\ contexts = Context

Request(w) ==
    \/ \E c \in Context, s \in Slot : LoadOrShare(w, c, s)
    \/ \E c \in Context : RegisterEphemeralKey(w, c)
    \/ \E r \in Ref, c \in Context : BindLoadedKey(w, r, c)
    \/ \E r \in Ref, c \in Context : AcquireKeyForOperation(w, c, r)
    \/ \E r \in Ref : DeleteKeyDataNode(w, r)
    \/ \E c \in Context : CloseContext(w, c)

Step(w) ==
    \/ FindSlotRegistryId(w)
    \/ LoadKey(w)
    \/ LoadKeyFails(w)
    \/ Recheck(w)
    \/ RegisterSlotKey(w)
    \/ FindWinnerId(w)
    \/ FindById(w)
    \/ ConstructKeyDataNode(w)
    \/ AttachKeyDataNode(w)
    \/ AttachFails(w)
    \/ ReleaseRef(w)
    \/ Unregister(w)
    \/ AccessorGone(w)
    \/ KeyUsed(w)
    \/ Leave(w)

Next == \E w \in Worker : Request(w) \/ Step(w)

Spec == Init /\ [][Next]_vars

----------------------------------------------------------------------------
(* Properties.                                                             *)

References(e) == {r \in Ref : node[r] # NoRef /\ node[r].entry = e}

\* key_data_node.hpp: one KeyDataNode is one AddRef/Release pair, and
\* ReleaseKeyMaterial: "When the last reference is dropped, the key is
\* unregistered".  However threads interleave, m_ref_count is the number of nodes
\* that hold the entry, and a registered key without references is one that a
\* worker is just about to reference, or to unregister under its very id.
ReferencesExact ==
    /\ \A e \in Entry : refCount[e] = Cardinality(References(e))
    /\ \A i \in RegId : (keys[i] # NoEntry /\ refCount[keys[i]] = 0) =>
        \E w \in Worker :
            /\ job[w].pc \in {"create", "unregister"}
            /\ job[w].entry = keys[i]
            /\ job[w].rid = i

\* ResolveKeyForOperation: "The caller keeps it alive for the duration of the
\* operation so a concurrent release from another context cannot run ~KeyEntry
\* [...] and free the key material mid-use."  The key that an operation uses is
\* still owned by somebody.
KeyInUseOwned == \A w \in Worker : job[w].using # NoEntry => ~FreshEntry(job[w].using)

\* key_registry.hpp: the registry "Holds shared ownership of every KeyEntry
\* produced by a single provider".  A key that a client's tree refers to is
\* registered, under the id its node will unregister.
LiveKeyRegistered ==
    \A r \in Ref : Attached(r) =>
        /\ node[r].rid # 0
        /\ keys[node[r].rid] = node[r].entry

=============================================================================
