---------------------------- MODULE RequestPath ----------------------------
(***************************************************************************)
(* How requests use the data manager: the ConnectionHandler and the        *)
(* mediator, run by the threads of the gRPC server, create connections,    *)
(* contexts with a bound key, key slots and shared memory, run operations  *)
(* on contexts and close what was created.  Every access to the store is   *)
(* an action of DataManager; between two of them other threads run.        *)
(*                                                                         *)
(* A request that is refused before it changed anything (a malformed       *)
(* parameter, no provider for the context, a busy or missing node, an      *)
(* exceeded quota) is a stuttering step that no action describes.  The     *)
(* clients share one uid, so one shared-memory quota.                      *)
(***************************************************************************)
EXTENDS DataManager, Sequences, FiniteSetsExt

CONSTANTS
    Connection, \* the objects that are plain DataNodes made by CONNECTION_OPEN
    Context,    \* ContextDataNodes, each with its handler
    BoundKey,   \* KeyDataNodes made by BindKeyToContext
    Slot,       \* KeySlotDataNodes
    Shm,        \* ShmDataNodes
    Size,       \* the size of each ShmDataNode
    MaxBytes    \* kMaxBytesPerClient, 8 MiB in the code

\* An object is of one class.  Sizes are such that their sum with the quota does
\* not wrap in a size_t.
ASSUME PathConstantsOK ==
    /\ Node = UNION {Connection, Context, BoundKey, Slot, Shm}
    /\ Connection \cap UNION {Context, BoundKey, Slot, Shm} = {}
    /\ Context \cap UNION {BoundKey, Slot, Shm} = {}
    /\ BoundKey \cap (Slot \cup Shm) = {}
    /\ Slot \cap Shm = {}
    /\ Exclusive = Connection \cup Context
    /\ Size \in [Shm -> Nat \ {0}]
    /\ MaxBytes \in Nat

VARIABLES
    job,        \* what the thread does for its request
    known,      \* the ids a client was told and has not closed
    ready,      \* the contexts whose InitializeContext succeeded
    bound,      \* the key a context's handler was initialised with
    slotCache,  \* m_slot_node_cache, for one resource name; 0: no entry
    usage       \* ShmRegistry::m_usage_per_uid

pathVars == <<job, known, ready, bound, slotCache, usage>>
allVars == <<vars, pathVars>>

Worker == Holder

\* base: the connection the request is made on.  node, id: the object the
\* request is about and its id once it has one.  keyed: CTX_CREATE names a key.
\* dying: the ShmDataNodes whose destructor has not yet run.
Idle == [pc |-> "idle", client |-> 0, base |-> 0, node |-> NoNode, id |-> 0,
         keyed |-> FALSE, dying |-> {}]

IdOf(c, n) == {i \in Id : nodeMap'[c][i] = n}
IsA(kind, c, i) == nodeMap[c][i] \in kind

\* The destructors of deleted nodes run before deleteNode gives up m_mutex.
StoreUnlocked == \A w \in Worker : job[w].pc # "destroy"

\* A newly constructed object.
New(n) == Unreferenced(n) /\ \A w \in Worker : n # job[w].node /\ n \notin job[w].dying

Goto(w, pc) == job' = [job EXCEPT ![w].pc = pc]
Respond(w) == job' = [job EXCEPT ![w] = Idle]

\* The only reference to the ShmDataNode that is being created goes away.
Discard(w) == job' = [job EXCEPT ![w].pc = "rollback", ![w].node = NoNode,
                                 ![w].dying = {job[w].node}]

\* The response tells the client the ids.
Tell(c, ids) == known' = [known EXCEPT ![c] = @ \cup ids]

\* addChildNode from the point of view of its caller: the object is stored
\* under the id it is given, or the call fails.
Added(c, p, n) == p \in Stored(c) /\ Attach(c, p, n)
AddFails(c, p) == IF p \in Stored(c) THEN QuotaExceeded(c) ELSE UNCHANGED vars

----------------------------------------------------------------------------
(* What the client library lets a client do.                               *)

\* The library closes a context, a memory or a connection when the last object
\* that uses it is destroyed: no request on it, or below it, is in progress.
NotInUse(c, i) ==
    \A w \in Worker : job[w].client = c =>
        {job[w].base, job[w].id} \cap Gone(c, {i}) = {}

\* A request is made on a connection the client knows.
OnConnection(c, i) == i \in known[c] /\ IsA(Connection, c, i)

----------------------------------------------------------------------------
(* Connections.                                                            *)

\* CONNECTION_OPEN.
ProcessConnectionCreation(w, c) ==
    /\ job[w].pc = "idle" /\ StoreUnlocked
    /\ \E n \in Connection : New(n) /\ AddNode(c, n) /\ Tell(c, IdOf(c, n))
    /\ UNCHANGED <<job, ready, bound, slotCache, usage>>

\* The ShmDataNodes among the nodes that deleting i removes.
DyingShm(c, i) == {nodeMap[c][j] : j \in Gone(c, {i})} \cap Shm

\* deleteNode removes the node and everything below it; the destructors of the
\* removed ShmDataNodes then return their quota, one by one.
DeleteNodeAndRespond(w, c, i) ==
    /\ DeleteNode(c, i)
    /\ known' = [known EXCEPT ![c] = @ \ Gone(c, {i})]
    /\ job' = [job EXCEPT ![w] = [Idle EXCEPT !.pc = "destroy", !.client = c,
                                  !.dying = DyingShm(c, i)]]
    /\ UNCHANGED <<ready, bound, slotCache, usage>>

\* Faulty variant: a close does not wait for the requests in progress.
Close_InUse(w, c, i) ==
    /\ job[w].pc = "idle" /\ StoreUnlocked
    /\ i \in known[c]
    /\ nodeMap[c][i] \in UNION {Connection, Context, Shm}
    /\ DeleteNodeAndRespond(w, c, i)

\* CONNECTION_CLOSE, CTX_CLOSE and SHM_DESTROY_OBJECT.
Close(w, c, i) ==
    /\ job[w].pc = "idle" /\ StoreUnlocked
    /\ i \in known[c]
    /\ nodeMap[c][i] \in UNION {Connection, Context, Shm}
    /\ NotInUse(c, i)
    /\ DeleteNodeAndRespond(w, c, i)

\* ~ShmDataNode calls Unregister, which does not go below zero.
Unregister(w) ==
    /\ job[w].pc \in {"destroy", "rollback"}
    /\ \E s \in job[w].dying :
        /\ usage' = IF usage >= Size[s] THEN usage - Size[s] ELSE 0
        /\ job' = [job EXCEPT ![w].dying = @ \ {s}]
    /\ UNCHANGED <<vars, known, ready, bound, slotCache>>

Destroyed(w) ==
    /\ job[w].pc \in {"destroy", "rollback"}
    /\ job[w].dying = {}
    /\ Respond(w)
    /\ UNCHANGED <<vars, known, ready, bound, slotCache, usage>>

----------------------------------------------------------------------------
(* Shared memory: SHM_SETUP.                                               *)

Fits(s) == usage + Size[s] <= MaxBytes

\* HandleShmCreateObject, up to the reservation made by ShmRegistry::Register.
ShmRegister(w, c, p) ==
    /\ job[w].pc = "idle"
    /\ OnConnection(c, p)
    /\ \E s \in Shm :
        /\ New(s)
        /\ Fits(s)
        /\ usage' = usage + Size[s]
        /\ job' = [job EXCEPT ![w] = [Idle EXCEPT !.pc = "map", !.client = c,
                                      !.base = p, !.node = s]]
    /\ UNCHANGED <<vars, known, ready, bound, slotCache>>

\* Faulty variant: the reservation is not rolled back.
ShmCreate_NoRollback(w) ==
    /\ job[w].pc = "map"
    /\ Goto(w, "attachShm") \/ Respond(w)
    /\ UNCHANGED <<vars, known, ready, bound, slotCache, usage>>

\* The object in shared memory is created, or the reservation is rolled back.
ShmCreate(w) ==
    /\ job[w].pc = "map"
    /\ \/ Goto(w, "attachShm")
       \/ Discard(w)
    /\ UNCHANGED <<vars, known, ready, bound, slotCache, usage>>

\* The node is stored below the connection and its id returned; if it cannot be
\* stored the only reference goes away and the destructor runs.
ShmAttach(w) ==
    /\ job[w].pc = "attachShm" /\ StoreUnlocked
    /\ LET j == job[w] IN
        \/ /\ Added(j.client, j.base, j.node)
           /\ Tell(j.client, IdOf(j.client, j.node))
           /\ Respond(w)
        \/ /\ AddFails(j.client, j.base)
           /\ Discard(w)
           /\ UNCHANGED known
    /\ UNCHANGED <<ready, bound, slotCache, usage>>

----------------------------------------------------------------------------
(* Key slots: RESOLVE_RESOURCE.                                            *)

\* Faulty variant: the slot node is put below the connection.
ResolveKeySlot_BelowConnection(w, c, p) ==
    /\ job[w].pc = "idle" /\ StoreUnlocked
    /\ OnConnection(c, p)
    /\ slotCache[c] = 0
    /\ \E n \in Slot :
        /\ New(n) /\ Added(c, p, n)
        /\ \E i \in IdOf(c, n) :
            job' = [job EXCEPT ![w] = [Idle EXCEPT !.pc = "cacheSlot", !.client = c,
                                       !.base = p, !.id = i]]
    /\ UNCHANGED <<known, ready, bound, slotCache, usage>>

\* A name that is not in the cache gets a new root node.
ResolveKeySlot(w, c, p) ==
    /\ job[w].pc = "idle" /\ StoreUnlocked
    /\ OnConnection(c, p)
    /\ slotCache[c] = 0
    /\ \E n \in Slot :
        /\ New(n) /\ Attach(c, 0, n)
        /\ \E i \in IdOf(c, n) :
            job' = [job EXCEPT ![w] = [Idle EXCEPT !.pc = "cacheSlot", !.client = c,
                                       !.base = p, !.id = i]]
    /\ UNCHANGED <<known, ready, bound, slotCache, usage>>

\* The id is entered in the cache, over the entry of a thread that was faster.
CacheSlot(w) ==
    /\ job[w].pc = "cacheSlot"
    /\ slotCache' = [slotCache EXCEPT ![job[w].client] = job[w].id]
    /\ Tell(job[w].client, {job[w].id})
    /\ Respond(w)
    /\ UNCHANGED <<vars, ready, bound, usage>>

----------------------------------------------------------------------------
(* Contexts: CTX_CREATE.                                                   *)

\* The parameters are accepted and a provider has made the handler.
ResolveProviderAndCreateHandler(w, c, p, keyed) ==
    /\ job[w].pc = "idle"
    /\ OnConnection(c, p)
    /\ keyed => slotCache[c] # 0
    /\ \E n \in Context :
        /\ New(n)
        /\ job' = [job EXCEPT ![w] = [Idle EXCEPT !.pc = "attach", !.client = c,
                                      !.base = p, !.node = n, !.keyed = keyed]]
    /\ UNCHANGED <<vars, known, ready, bound, slotCache, usage>>

\* The context's node is stored first; its id is not yet returned.
AttachContext(w) ==
    /\ job[w].pc = "attach" /\ StoreUnlocked
    /\ LET j == job[w] IN
        \/ /\ Added(j.client, j.base, j.node)
           /\ \E i \in IdOf(j.client, j.node) :
                job' = [job EXCEPT ![w].pc = IF j.keyed THEN "bind" ELSE "init",
                                   ![w].id = i]
        \/ AddFails(j.client, j.base) /\ Respond(w)
    /\ ready' = ready \ {job[w].node}
    /\ bound' = [bound EXCEPT ![job[w].node] = NoNode]
    /\ UNCHANGED <<known, slotCache, usage>>

\* BindAndAuthorizeKey refuses on what PeekKeyHandle shows, or goes on to
\* BindKeyToContext, which holds an accessor of the slot.
BindAndAuthorizeKey(w) ==
    /\ job[w].pc = "bind"
    /\ \/ Goto(w, "cleanup") /\ UNCHANGED vars
       \/ /\ StoreUnlocked
          /\ GetNodeAccessor(w, job[w].client, slotCache[job[w].client])
          /\ Goto(w, "load")
    /\ UNCHANGED <<known, ready, bound, slotCache, usage>>

\* Faulty variant: the reference is a child of the connection.
BindKeyToContext_BelowConnection(w) ==
    /\ job[w].pc = "load" /\ StoreUnlocked
    /\ LET j == job[w] IN
        \/ \E k \in BoundKey :
            /\ New(k)
            /\ \/ /\ Added(j.client, j.base, k)
                  /\ bound' = [bound EXCEPT ![j.node] = k]
                  /\ Goto(w, "bound")
               \/ AddFails(j.client, j.base) /\ Goto(w, "unbound") /\ UNCHANGED bound
        \/ Goto(w, "unbound") /\ UNCHANGED <<vars, bound>>
    /\ UNCHANGED <<known, ready, slotCache, usage>>

\* The key is loaded or shared and a reference to it is stored below the
\* context; loading or storing may fail.
BindKeyToContext(w) ==
    /\ job[w].pc = "load" /\ StoreUnlocked
    /\ LET j == job[w] IN
        \/ \E k \in BoundKey :
            /\ New(k)
            /\ \/ /\ Added(j.client, j.id, k)
                  /\ bound' = [bound EXCEPT ![j.node] = k]
                  /\ Goto(w, "bound")
               \/ AddFails(j.client, j.id) /\ Goto(w, "unbound") /\ UNCHANGED bound
        \/ Goto(w, "unbound") /\ UNCHANGED <<vars, bound>>
    /\ UNCHANGED <<known, ready, slotCache, usage>>

\* BindKeyToContext returns and its accessor goes out of scope.
BindReturns(w) ==
    /\ job[w].pc \in {"bound", "unbound"} /\ StoreUnlocked
    /\ ReleaseNodeAccessor(w)
    /\ Goto(w, IF job[w].pc = "bound" THEN "init" ELSE "cleanup")
    /\ UNCHANGED <<known, ready, bound, slotCache, usage>>

\* Faulty variant: the context of a failed initialisation stays.
InitializeContext_NoCleanup(w) ==
    /\ job[w].pc = "init"
    /\ \/ /\ ready' = ready \cup {job[w].node}
          /\ Tell(job[w].client, {job[w].id})
          /\ Respond(w)
       \/ Respond(w) /\ UNCHANGED <<ready, known>>
    /\ UNCHANGED <<vars, bound, slotCache, usage>>

\* The handler is initialised and the id of the context returned, or it fails.
InitializeContext(w) ==
    /\ job[w].pc = "init"
    /\ \/ /\ ready' = ready \cup {job[w].node}
          /\ Tell(job[w].client, {job[w].id})
          /\ Respond(w)
       \/ Goto(w, "cleanup") /\ UNCHANGED <<ready, known>>
    /\ UNCHANGED <<vars, bound, slotCache, usage>>

\* The context is deleted by its id after a failure.
CleanupContext(w) ==
    /\ job[w].pc = "cleanup" /\ StoreUnlocked
    /\ DeleteNode(job[w].client, job[w].id)
    /\ Respond(w)
    /\ UNCHANGED <<known, ready, bound, slotCache, usage>>

----------------------------------------------------------------------------
(* Operations on a context.                                                *)

\* ForwardSingleOperation: the accessor is held while the handler executes.
ForwardSingleOperation(w, c, i) ==
    /\ job[w].pc = "idle" /\ StoreUnlocked
    /\ i \in known[c] /\ IsA(Context, c, i)
    /\ GetNodeAccessor(w, c, i)
    /\ job' = [job EXCEPT ![w] = [Idle EXCEPT !.pc = "execute", !.client = c,
                                  !.node = nodeMap[c][i], !.id = i]]
    /\ UNCHANGED <<known, ready, bound, slotCache, usage>>

ExecuteReturns(w) ==
    /\ job[w].pc = "execute" /\ StoreUnlocked
    /\ ReleaseNodeAccessor(w)
    /\ Respond(w)
    /\ UNCHANGED <<known, ready, bound, slotCache, usage>>

----------------------------------------------------------------------------
PathInit ==
    /\ Init
    /\ job = [w \in Worker |-> Idle]
    /\ known = [c \in Client |-> {}]
    /\ ready = {}
    /\ bound = [n \in Context |-> NoNode]
    /\ slotCache = [c \in Client |-> 0]
    /\ usage = 0

Begin(w, c) ==
    \/ ProcessConnectionCreation(w, c)
    \/ \E i \in Id :
        \/ Close(w, c, i)
        \/ ShmRegister(w, c, i)
        \/ ResolveKeySlot(w, c, i)
        \/ \E keyed \in BOOLEAN : ResolveProviderAndCreateHandler(w, c, i, keyed)
        \/ ForwardSingleOperation(w, c, i)

Continue(w) ==
    \/ Unregister(w) \/ Destroyed(w)
    \/ ShmCreate(w) \/ ShmAttach(w)
    \/ CacheSlot(w)
    \/ AttachContext(w) \/ BindAndAuthorizeKey(w) \/ BindKeyToContext(w)
    \/ BindReturns(w) \/ InitializeContext(w) \/ CleanupContext(w)
    \/ ExecuteReturns(w)

PathNext == \E w \in Worker : Continue(w) \/ \E c \in Client : Begin(w, c)

PathSpec == PathInit /\ [][PathNext]_allVars

----------------------------------------------------------------------------
(* Properties.                                                             *)

\* The memories that exist: stored, held by the request that creates them, or
\* on their way out.
LiveShm ==
    {s \in Shm : \/ InStorage(s)
                 \/ \E w \in Worker : s = job[w].node \/ s \in job[w].dying}

\* ShmRegistry counts the bytes of the memories that exist and no others,
\* through failed creations, cascading deletes and requests of other threads:
\* quota is neither lost for good nor given twice, nor exceeded ("8 MiB per-uid
\* quota", shm_registry.hpp).
QuotaExact ==
    /\ usage = MapThenSumSet(LAMBDA s : Size[s], LiveShm)
    /\ usage <= MaxBytes

\* A context that is stored was initialised, or a CTX_CREATE that will remove it
\* or initialise it is in progress: a creation that fails at any of its steps
\* leaves no half-made context behind.
StoredContextReady ==
    \A n \in Context : InStorage(n) =>
        n \in ready \/ \E w \in Worker : job[w].node = n /\ job[w].pc # "execute"

\* Handlers keep the raw pointer InitializationParams::bound_key_handler and use
\* it in later operations (sign, reset), although it is documented as "valid for
\* the duration of the InitializeContext() call only".  While an operation
\* executes, the key's node is stored below the context's, so the pointer is good.
BoundKeyAlive ==
    \A w \in Worker : job[w].pc = "execute" =>
        LET c == job[w].client
            k == bound[job[w].node]
        IN k # NoNode => \E i \in children[c][job[w].id] : nodeMap[c][i] = k

\* m_slot_node_cache is never invalidated; the id it returns designates a
\* stored slot whatever connections were closed since.
CachedSlotStored ==
    \A c \in Client : slotCache[c] # 0 => IsA(Slot, c, slotCache[c])

\* What the data manager asks of its users ("we do not expect the user to
\* retrieve an node accessor and remove the same node", data_manager.cpp): the
\* request path, driven by the client library, is such a user.
StoreUsedCarefully == CarefulSpec

=============================================================================
