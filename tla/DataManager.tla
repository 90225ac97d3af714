---------------------------- MODULE DataManager ----------------------------
(***************************************************************************)
(* The daemon's store of data nodes (daemon/data_manager).  Nodes are      *)
(* indexed by client and by an id the manager assigns, they form one       *)
(* forest per client, and a node that requires exclusive access is marked  *)
(* busy while a DataNodeAccessor holds it.                                 *)
(*                                                                         *)
(* Every public operation runs under m_mutex from beginning to end, so     *)
(* each one is a single action.  An operation that returns an error leaves *)
(* the state unchanged, with one exception (QuotaExceeded), and is then a  *)
(* stuttering step that no action describes.                               *)
(*                                                                         *)
(* A DataNode object is told apart from the id that designates it: an      *)
(* accessor keeps its object alive after the id has been freed, and the id *)
(* may by then designate another object.                                   *)
(***************************************************************************)
EXTENDS Integers, FiniteSets

CONSTANTS
    Client,     \* client identifiers
    Node,       \* DataNode objects
    Exclusive,  \* the objects constructed with exclusiveAccess = true
    Holder,     \* the places (locals of worker threads) that hold an accessor
    MaxId,      \* DATA_NODE_VALUE_MAX, 2^56 - 1 in the code
    MaxNodes,   \* m_max_nodes_per_client, 1000 in the code
    NoNode,     \* no object
    NoAccessor  \* what a holder without an accessor has

ASSUME ConstantsOK ==
    /\ MaxId \in Nat
    /\ MaxNodes \in Nat
    /\ MaxNodes < MaxId
    /\ Exclusive \subseteq Node
    /\ NoNode \notin Node
    /\ NoAccessor \notin [node : Node, client : Client, id : 1..MaxId,
                          exclusive : BOOLEAN]

VARIABLES
    nodeMap,     \* m_node_map: client -> id -> object
    entryNodes,  \* m_entry_nodes_per_client: the ids of the root nodes
    idCounter,   \* m_id_counter_per_client
    busyNodes,   \* m_busy_nodes
    parent,      \* DataNode::m_parent of a stored node, as an id; 0 for none
    children,    \* DataNode::m_children of a stored node, as ids
    accessor     \* the DataNodeAccessor each holder has, if any

vars == <<nodeMap, entryNodes, idCounter, busyNodes, parent, children, accessor>>

----------------------------------------------------------------------------
Id == 1..MaxId

\* exclusive: m_manager is set, so that the destructor of the accessor calls
\* releaseNodeAccessor.
Accessor == [node : Node, client : Client, id : Id, exclusive : BOOLEAN]

Stored(c) == {i \in Id : nodeMap[c][i] # NoNode}
InStorage(n) == \E c \in Client : \E i \in Id : nodeMap[c][i] = n
Holds(h) == accessor[h] # NoAccessor
HeldBy(n) == {h \in Holder : Holds(h) /\ accessor[h].node = n}

\* Callers construct a new object for every add; an object whose last
\* reference is gone can be the memory of a new one.
Unreferenced(n) == ~InStorage(n) /\ HeldBy(n) = {}

----------------------------------------------------------------------------
(* Choice of an id: getNextNodeIdLocked.                                   *)

\* The counter after k increments, wrapping from MaxId to 1.
Ahead(i, k) == ((i - 1 + k) % MaxId) + 1

IsFree(c, i) == nodeMap[c][i] = NoNode

\* The first free id among the MaxNodes + 1 that are tried.  The counter stays
\* on the id that was found: it moves on only when a later call finds it taken.
FindsId(c, id) ==
    \E k \in 0..MaxNodes :
        /\ id = Ahead(idCounter[c], k)
        /\ IsFree(c, id)
        /\ \A j \in 0..(k - 1) : ~IsFree(c, Ahead(idCounter[c], j))

NoIdFound(c) == \A k \in 0..MaxNodes : ~IsFree(c, Ahead(idCounter[c], k))

\* kQuotaExceeded: the only failure that leaves a trace, the moved counter.
QuotaExceeded(c) ==
    /\ NoIdFound(c)
    /\ idCounter' = [idCounter EXCEPT ![c] = Ahead(@, MaxNodes + 1)]
    /\ UNCHANGED <<nodeMap, entryNodes, busyNodes, parent, children, accessor>>

----------------------------------------------------------------------------
(* Adding nodes.                                                           *)

\* The object gets the id found and becomes a child of p, or, when p is 0, a
\* root listed among the client's entry nodes.
Attach(c, p, n) ==
    \E id \in Id :
        /\ FindsId(c, id)
        /\ nodeMap' = [nodeMap EXCEPT ![c][id] = n]
        /\ idCounter' = [idCounter EXCEPT ![c] = id]
        /\ parent' = [parent EXCEPT ![c][id] = p]
        /\ children' = [children EXCEPT ![c] =
                 [i \in Id |-> IF i = p THEN @[i] \cup {id} ELSE @[i]]]
        /\ entryNodes' = [entryNodes EXCEPT ![c] = IF p = 0 THEN @ \cup {id} ELSE @]
        /\ UNCHANGED <<busyNodes, accessor>>

\* addNode: a root node.
AddNode(c, n) ==
    /\ Unreferenced(n)
    /\ Attach(c, 0, n) \/ QuotaExceeded(c)

\* addChildNode: the parent must be stored for the same client.
AddChildNode(c, p, n) ==
    /\ Unreferenced(n)
    /\ p \in Stored(c)
    /\ Attach(c, p, n) \/ QuotaExceeded(c)

\* addSiblingNode: a child of the parent of s; refused when s is a root.
AddSiblingNode(c, s, n) ==
    /\ Unreferenced(n)
    /\ s \in Stored(c)
    /\ parent[c][s] \in Stored(c)
    /\ Attach(c, parent[c][s], n) \/ QuotaExceeded(c)

----------------------------------------------------------------------------
(* Removing nodes.                                                         *)

\* Every id found among the children of a stored node of S is in S.
ClosedUnderChildren(c, S) == \A i \in S \cap Stored(c) : children[c][i] \subseteq S

\* What the stack of removeNodesFromStorage visits: the least closed set of
\* ids that contains the roots.
Visited(c, roots) ==
    {j \in Id : \A S \in SUBSET Id :
        (roots \subseteq S /\ ClosedUnderChildren(c, S)) => j \in S}

\* The nodes it collects: an id that is not stored is skipped.
Gone(c, roots) == Visited(c, roots) \cap Stored(c)

\* Faulty variant: a removed node is not detached from its parent.
RemoveNodesFromStorage_Attached(c, roots) ==
    LET gone == Gone(c, roots) IN
    /\ nodeMap' = [nodeMap EXCEPT ![c] =
                     [i \in Id |-> IF i \in gone THEN NoNode ELSE @[i]]]
    /\ entryNodes' = [entryNodes EXCEPT ![c] = @ \ gone]
    /\ children' = [children EXCEPT ![c] =
                     [i \in Id |-> IF i \in gone THEN {} ELSE @[i]]]
    /\ parent' = [parent EXCEPT ![c] =
                     [i \in Id |-> IF i \in gone THEN 0 ELSE @[i]]]
    /\ busyNodes' = [busyNodes EXCEPT ![c] = @ \ gone]
    /\ UNCHANGED <<idCounter, accessor>>

\* The collected nodes leave their parents' child lists or the entry list, the
\* node map and the busy set, deepest first, in one critical section.
RemoveNodesFromStorage(c, roots) ==
    LET gone == Gone(c, roots) IN
    /\ nodeMap' = [nodeMap EXCEPT ![c] =
                     [i \in Id |-> IF i \in gone THEN NoNode ELSE @[i]]]
    /\ entryNodes' = [entryNodes EXCEPT ![c] =
                     @ \ {j \in gone : parent[c][j] = 0}]
    /\ children' = [children EXCEPT ![c] =
                     [i \in Id |-> IF i \in gone THEN {}
                                   ELSE @[i] \ {j \in gone : parent[c][j] = i}]]
    /\ parent' = [parent EXCEPT ![c] =
                     [i \in Id |-> IF i \in gone THEN 0 ELSE @[i]]]
    /\ busyNodes' = [busyNodes EXCEPT ![c] = @ \ gone]
    /\ UNCHANGED <<idCounter, accessor>>

\* deleteNode does not ask whether the node, or one below it, is busy.
DeleteNode(c, id) ==
    /\ id \in Stored(c)
    /\ RemoveNodesFromStorage(c, {id})

\* deleteClientNodes removes the tree of every entry node in turn.
DeleteClientNodes(c) ==
    /\ entryNodes[c] # {}
    /\ RemoveNodesFromStorage(c, entryNodes[c])

----------------------------------------------------------------------------
(* Accessors.                                                              *)

\* getNodeAccessor: kResourceBusy when the node is exclusive and marked.
GetNodeAccessor(h, c, id) ==
    /\ ~Holds(h)
    /\ id \in Stored(c)
    /\ LET n == nodeMap[c][id] IN
        /\ n \in Exclusive => id \notin busyNodes[c]
        /\ accessor' = [accessor EXCEPT ![h] =
             [node |-> n, client |-> c, id |-> id, exclusive |-> n \in Exclusive]]
        /\ busyNodes' = IF n \in Exclusive
                        THEN [busyNodes EXCEPT ![c] = @ \cup {id}]
                        ELSE busyNodes
    /\ UNCHANGED <<nodeMap, entryNodes, idCounter, parent, children>>

\* Faulty variant: the accessor goes away without telling the manager.
ReleaseNodeAccessor_KeepMark(h) ==
    /\ Holds(h)
    /\ accessor' = [accessor EXCEPT ![h] = NoAccessor]
    /\ UNCHANGED <<nodeMap, entryNodes, idCounter, busyNodes, parent, children>>

\* ~DataNodeAccessor: releaseNodeAccessor clears the mark of (client, id),
\* which it identifies by the ids of the object and not by the object.
ReleaseNodeAccessor(h) ==
    /\ Holds(h)
    /\ LET a == accessor[h] IN
        busyNodes' = IF a.exclusive
                     THEN [busyNodes EXCEPT ![a.client] = @ \ {a.id}]
                     ELSE busyNodes
    /\ accessor' = [accessor EXCEPT ![h] = NoAccessor]
    /\ UNCHANGED <<nodeMap, entryNodes, idCounter, parent, children>>

----------------------------------------------------------------------------
Init ==
    /\ nodeMap = [c \in Client |-> [i \in Id |-> NoNode]]
    /\ entryNodes = [c \in Client |-> {}]
    /\ idCounter = [c \in Client |-> 1]
    /\ busyNodes = [c \in Client |-> {}]
    /\ parent = [c \in Client |-> [i \in Id |-> 0]]
    /\ children = [c \in Client |-> [i \in Id |-> {}]]
    /\ accessor = [h \in Holder |-> NoAccessor]

Next ==
    \/ \E c \in Client, n \in Node : AddNode(c, n)
    \/ \E c \in Client, p \in Id, n \in Node : AddChildNode(c, p, n)
    \/ \E c \in Client, s \in Id, n \in Node : AddSiblingNode(c, s, n)
    \/ \E c \in Client, id \in Id : DeleteNode(c, id)
    \/ \E c \in Client : DeleteClientNodes(c)
    \/ \E h \in Holder, c \in Client, id \in Id : GetNodeAccessor(h, c, id)
    \/ \E h \in Holder : ReleaseNodeAccessor(h)

Spec == Init /\ [][Next]_vars

\* The users' side of the contract, as removeSingleNodeFromStorage states it:
\* "we do not expect the user to retrieve an node accessor and remove the same
\* node".  No exclusive node leaves storage while an accessor holds it.
RespectsAccessors ==
    \A h \in Holder :
        (Holds(h) /\ accessor[h].exclusive) =>
            nodeMap'[accessor[h].client][accessor[h].id] = accessor[h].node

CarefulNext == Next /\ RespectsAccessors
CarefulSpec == Init /\ [][CarefulNext]_vars

\* An accessor is a local of a request's handler, so it goes out of scope.
FairSpec == Spec /\ \A h \in Holder : WF_vars(ReleaseNodeAccessor(h))

----------------------------------------------------------------------------
(* Properties.                                                             *)

\* The type invariant: the indexes, counters and accessors of the manager.
TypeOK ==
    /\ nodeMap \in [Client -> [Id -> Node \cup {NoNode}]]
    /\ entryNodes \in [Client -> SUBSET Id]
    /\ idCounter \in [Client -> Id]
    /\ busyNodes \in [Client -> SUBSET Id]
    /\ parent \in [Client -> [Id -> 0..MaxId]]
    /\ children \in [Client -> [Id -> SUBSET Id]]
    /\ accessor \in [Holder -> Accessor \cup {NoAccessor}]

\* The three indexes agree after any sequence of adds and cascading deletes:
\* the entry list is the set of stored roots, a stored node's parent is stored
\* and lists it, and child lists name stored nodes only (so the traversal in
\* removeNodesFromStorage never meets an unknown id and deleteNode of a stored
\* node never reports an error).
Forest ==
    \A c \in Client :
        /\ entryNodes[c] = {i \in Stored(c) : parent[c][i] = 0}
        /\ \A i \in Stored(c) : parent[c][i] # 0 =>
              parent[c][i] \in Stored(c) /\ i \in children[c][parent[c][i]]
        /\ \A i \in Id : \A j \in children[c][i] :
              i \in Stored(c) /\ j \in Stored(c) /\ parent[c][j] = i

\* "preventing orphaned resources" (data_manager/docs): every stored node is
\* reached from an entry node, so deleting the roots deletes everything.
NoOrphans == \A c \in Client : Stored(c) \subseteq Visited(c, entryNodes[c])

\* Both: what is stored is exactly the trees below the entry nodes.
TreesSound == Forest /\ NoOrphans

\* An object is stored under one id of one client.
StoredOnce ==
    \A c, d \in Client : \A i, j \in Id :
        (nodeMap[c][i] = nodeMap[d][j] /\ nodeMap[c][i] # NoNode) => c = d /\ i = j

\* A busy mark belongs to a living accessor of the node it marks, whatever was
\* deleted and re-added under the id meanwhile: no node is busy for good.
BusyMarkIsHeld ==
    \A c \in Client : \A i \in busyNodes[c] :
        \E h \in HeldBy(nodeMap[c][i]) :
            /\ accessor[h].exclusive
            /\ accessor[h].client = c
            /\ accessor[h].id = i

\* data_node.hpp: an exclusive node "may only be held by a single
\* DataNodeAccessor at a time".
ExclusiveAccess == \A n \in Exclusive : \A g, h \in HeldBy(n) : g = h

\* Seen through its accessors alone, the data manager whose users do not delete
\* what they hold is the abstract one: a busy node is never handed out again.
Access == INSTANCE ExclusiveAccess WITH holders <- [n \in Node |-> HeldBy(n)]
AccessRefinement == Access!Spec

\* Every busy mark is cleared: a node refused with kResourceBusy becomes
\* available again once requests finish.
BusyMarkIsCleared ==
    \A c \in Client : \A i \in Id : i \in busyNodes[c] ~> i \notin busyNodes[c]

=============================================================================
