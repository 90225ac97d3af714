------------------------- MODULE RequestPathProofs -------------------------
(***************************************************************************)
(* Theorems about RequestPath for every number of clients, threads and     *)
(* objects of each class: the request path keeps its side of the data      *)
(* manager's contract, so what DataManagerProofs shows of such users holds *)
(* of it, and what it needs of the store it finds there.                   *)
(***************************************************************************)
EXTENDS RequestPath, DataManagerProofs

\* Most steps are first-order; SMT is cited for those about numbers and records.
USE ZenonT(30)

----------------------------------------------------------------------------
(* The inductive invariant.                                                *)

\* The stages of a request that is about to store an object, of a CTX_CREATE
\* whose context is stored and not yet told, and, among these, those at which
\* BindKeyToContext holds its accessor.
Before == {"map", "attachShm", "attach"}
Making == {"bind", "load", "bound", "unbound", "init", "cleanup"}
Loading == {"load", "bound", "unbound"}
Leaving == {"destroy", "rollback"}
Stage == {"idle", "cacheSlot", "execute"} \cup Before \cup Making \cup Leaving

Job == [pc : Stage, client : Client \cup {0}, base : 0..MaxId,
        node : Node \cup {NoNode}, id : 0..MaxId, keyed : BOOLEAN, dying : SUBSET Shm]

PathType ==
    /\ job \in [Worker -> Job]
    /\ known \in [Client -> SUBSET Id]
    /\ ready \in SUBSET Context
    /\ bound \in [Context -> BoundKey \cup {NoNode}]
    /\ slotCache \in [Client -> 0..MaxId]

\* Connections and slots are roots, contexts and memories are below a
\* connection and bound keys below a context.
Hierarchy ==
    \A c \in Client : \A i \in Id :
        /\ nodeMap[c][i] \in Connection \cup Slot => parent[c][i] = 0
        /\ nodeMap[c][i] \in Context \cup Shm =>
              parent[c][i] \in Id /\ nodeMap[c][parent[c][i]] \in Connection
        /\ nodeMap[c][i] \in BoundKey =>
              parent[c][i] \in Id /\ nodeMap[c][parent[c][i]] \in Context

\* What a client was told designates an object that it may use.
KnownStored ==
    \A c \in Client : \A i \in known[c] :
        nodeMap[c][i] \in UNION {Connection, Context, Slot, Shm}

\* What a request relies on at each of its stages.
JobOK(w) ==
    LET j == job[w] IN
    /\ j.pc # "idle" => j.client \in Client
    /\ j.pc \in {"idle", "cacheSlot"} \cup Leaving => j.node = NoNode
    /\ j.pc \in Before => /\ j.base \in Id /\ nodeMap[j.client][j.base] \in Connection
                          /\ Unreferenced(j.node)
    /\ j.pc \in {"map", "attachShm"} => j.node \in Shm
    /\ j.pc \in Making \cup {"attach", "execute"} => j.node \in Context
    /\ j.pc \in Making \cup {"execute"} => j.id \in Id /\ nodeMap[j.client][j.id] = j.node
    /\ j.pc \in Making => j.id \notin known[j.client]
    /\ j.pc = "execute" => j.id \in known[j.client]
    /\ j.pc = "cacheSlot" => j.id \in Id /\ nodeMap[j.client][j.id] \in Slot

\* Only BindKeyToContext, for a slot, and an operation, for its context, hold
\* an accessor.
HoldsOwn(w) ==
    LET j == job[w] IN
    /\ j.pc \in Loading => Holds(w) /\ ~accessor[w].exclusive
    /\ j.pc = "execute" => Holds(w) /\ accessor[w].client = j.client /\ accessor[w].id = j.id
    /\ j.pc \notin Loading \cup {"execute"} => ~Holds(w)

\* The object a request creates is its own.
OwnNode ==
    \A v, w \in Worker :
        (v # w /\ job[w].pc \in Before \cup Making) => job[v].node # job[w].node

\* The key of a stored context is stored below it.
BoundBelow ==
    \A c \in Client : \A i \in Id :
        (nodeMap[c][i] \in Context /\ bound[nodeMap[c][i]] # NoNode) =>
            \E k \in children[c][i] : nodeMap[c][k] = bound[nodeMap[c][i]]

PathRest ==
    /\ PathType
    /\ Hierarchy
    /\ KnownStored
    /\ \A w \in Worker : JobOK(w) /\ HoldsOwn(w)
    /\ OwnNode
    /\ BoundBelow
    /\ StoredContextReady
    /\ CachedSlotStored

PathInv == CarefulInv /\ PathRest

----------------------------------------------------------------------------
(* What the steps of the store do to the nodes of the clients.             *)

\* An object is stored under a new id, below p.
Grows(c, p, n, id) ==
    /\ id \in Id /\ id \notin Stored(c)
    /\ nodeMap'[c][id] = n /\ parent'[c][id] = p
    /\ p \in Id => id \in children'[c][p]
    /\ \A d \in Client : \A i \in Id :
          /\ children[d][i] \subseteq children'[d][i]
          /\ (d # c \/ i # id) => nodeMap'[d][i] = nodeMap[d][i] /\ parent'[d][i] = parent[d][i]
    /\ IdOf(c, n) = {id}
    /\ accessor' = accessor

\* The node under r and what is below it leave the store.
Shrinks(c, r) ==
    /\ r \in Stored(c)
    /\ \A d \in Client : \A i \in Id :
          IF d = c /\ i \in Gone(c, {r})
          THEN nodeMap'[d][i] = NoNode
          ELSE /\ nodeMap'[d][i] = nodeMap[d][i]
               /\ parent'[d][i] = parent[d][i]
               /\ \A k \in children[d][i] :
                     (d = c /\ k \in Gone(c, {r})) \/ k \in children'[d][i]
    /\ accessor' = accessor

SameNodes == UNCHANGED <<nodeMap, parent, children>>

\* The classes of the objects.
LEMMA Classes ==
  /\ Connection \subseteq Node /\ Context \subseteq Node /\ BoundKey \subseteq Node
  /\ Slot \subseteq Node /\ Shm \subseteq Node
  /\ \A n \in Connection : n \notin Context /\ n \notin BoundKey /\ n \notin Slot /\ n \notin Shm
  /\ \A n \in Context : n \notin BoundKey /\ n \notin Slot /\ n \notin Shm
  /\ \A n \in BoundKey : n \notin Slot /\ n \notin Shm
  /\ \A n \in Slot : n \notin Shm
  /\ NoNode \notin Connection /\ NoNode \notin Context /\ NoNode \notin BoundKey
  /\ NoNode \notin Slot /\ NoNode \notin Shm
  BY PathConstantsOK, ConstantsOK

LEMMA AttachGrows ==
  ASSUME StorageInv, NEW c \in Client, NEW p \in 0..MaxId, NEW n \in Node, ~InStorage(n),
         Attach(c, p, n)
  PROVE  \E id \in Id : Grows(c, p, n, id)
  <1>0. TypeOK /\ n # NoNode
    BY ConstantsOK DEF StorageInv
  <1>1. PICK id \in Id :
           /\ id \notin Stored(c)
           /\ nodeMap' = [nodeMap EXCEPT ![c][id] = n]
           /\ parent' = [parent EXCEPT ![c][id] = p]
           /\ children' = [children EXCEPT ![c] =
                 [i \in Id |-> IF i = p THEN @[i] \cup {id} ELSE @[i]]]
           /\ UNCHANGED <<busyNodes, accessor>>
    BY <1>0, AttachEffect, SMT
  <1>a. /\ nodeMap'[c][id] = n
        /\ \A d \in Client : \A i \in Id : (d # c \/ i # id) => nodeMap'[d][i] = nodeMap[d][i]
    BY <1>0, <1>1 DEF TypeOK
  <1>b. /\ parent'[c][id] = p
        /\ \A d \in Client : \A i \in Id : (d # c \/ i # id) => parent'[d][i] = parent[d][i]
    BY <1>0, <1>1 DEF TypeOK
  <1>2. /\ nodeMap'[c][id] = n
        /\ parent'[c][id] = p
        /\ \A d \in Client : \A i \in Id :
              (d # c \/ i # id) => nodeMap'[d][i] = nodeMap[d][i] /\ parent'[d][i] = parent[d][i]
    BY <1>a, <1>b
  <1>3. /\ p \in Id => id \in children'[c][p]
        /\ \A d \in Client : \A i \in Id : children[d][i] \subseteq children'[d][i]
    BY <1>0, <1>1, SMT DEF TypeOK
  <1>4. \A i \in Id : nodeMap[c][i] # n
    BY DEF InStorage
  <1>5. \A i : i \in IdOf(c, n) <=> i = id
    BY <1>2, <1>4 DEF IdOf
  <1>6. IdOf(c, n) = {id}
    BY <1>5
  <1> QED BY <1>1, <1>2, <1>3, <1>6 DEF Grows

LEMMA DeleteShrinks ==
  ASSUME StorageInv, NEW c \in Client, NEW r \in Id, DeleteNode(c, r)
  PROVE  Shrinks(c, r)
  <1>0. TypeOK /\ r \in Stored(c) /\ RemoveNodesFromStorage(c, {r}) /\ {r} \in SUBSET Id
    BY DEF StorageInv, DeleteNode
  <1>1. \A i \in Id : nodeMap'[c][i] = IF i \in Gone(c, {r}) THEN NoNode ELSE nodeMap[c][i]
    BY <1>0, RemovalEffect
  <1>2. \A i \in Id : \A j : j \in children'[c][i] <=>
                /\ i \notin Gone(c, {r})
                /\ j \in children[c][i]
                /\ ~(j \in Gone(c, {r}) /\ parent[c][j] = i)
    BY <1>0, RemovalEffect
  <1>3. \A i \in Id : parent'[c][i] = IF i \in Gone(c, {r}) THEN 0 ELSE parent[c][i]
    BY <1>0, RemovalEffect
  <1>4. accessor' = accessor
    BY <1>0, RemovalEffect
  <1>5. \A d \in Client : d # c => /\ nodeMap'[d] = nodeMap[d]
                                   /\ parent'[d] = parent[d]
                                   /\ children'[d] = children[d]
    BY <1>0, SMT DEF TypeOK, RemoveNodesFromStorage
  <1> QED BY <1>0, <1>1, <1>2, <1>3, <1>4, <1>5 DEF Shrinks

\* What the traversal of removeNodesFromStorage collects below its root, it
\* reached from the parent.
LEMMA GoneParent ==
  ASSUME StorageInv, NEW c \in Client, NEW r \in Id, NEW j \in Gone(c, {r}), j # r
  PROVE  parent[c][j] \in Gone(c, {r})
  <1>1. j \in Visited(c, {r}) /\ j \in Stored(c) /\ j \in Id
    BY DEF Gone, Visited
  <1>2. \A i \in Id : j \in children[c][i] => parent[c][j] = i /\ i \in Stored(c)
    BY DEF StorageInv, Forest
  <1>3. SUFFICES ASSUME parent[c][j] \notin Gone(c, {r}) PROVE FALSE
    OBVIOUS
  <1>4. PICK S \in SUBSET Id : /\ r \in S /\ ClosedUnderChildren(c, S)
                               /\ parent[c][j] \in Stored(c) => parent[c][j] \notin S
    <2>1. CASE parent[c][j] \in Stored(c)
      <3>1. parent[c][j] \notin Visited(c, {r}) /\ parent[c][j] \in Id
        BY <1>3, <2>1 DEF Gone, Stored
      <3> QED BY <3>1 DEF Visited
    <2>2. CASE parent[c][j] \notin Stored(c)
      <3>1. ClosedUnderChildren(c, Id)
        BY DEF ClosedUnderChildren, StorageInv, TypeOK, Stored
      <3> QED BY <2>2, <3>1
    <2> QED BY <2>1, <2>2
  <1>5. S \ {j} \in SUBSET Id /\ {r} \subseteq S \ {j}
    BY <1>4
  <1>6. ClosedUnderChildren(c, S \ {j})
    <2>1. SUFFICES ASSUME NEW i \in (S \ {j}) \cap Stored(c), NEW k \in children[c][i]
                   PROVE  k \in S /\ k # j
      BY DEF ClosedUnderChildren
    <2>2. k \in S
      BY <1>4 DEF ClosedUnderChildren
    <2>3. ASSUME k = j PROVE FALSE
      <3>1. i \in Id /\ j \in children[c][i]
        BY <1>4, <2>3
      <3>2. parent[c][j] = i /\ i \in Stored(c)
        BY <1>2, <3>1
      <3> QED BY <1>4, <3>2
    <2> QED BY <2>2, <2>3
  <1> QED BY <1>1, <1>5, <1>6 DEF Visited

\* The root goes, and the children of what goes.
LEMMA GoneClosed ==
  ASSUME StorageInv, NEW c \in Client, NEW r \in Stored(c)
  PROVE  /\ r \in Gone(c, {r})
         /\ \A i \in Stored(c) : parent[c][i] \in Gone(c, {r}) => i \in Gone(c, {r})
  <1>0. TypeOK /\ {r} \in SUBSET Id
    BY DEF StorageInv, Stored
  <1>1. r \in Visited(c, {r}) /\ ClosedUnderChildren(c, Visited(c, {r}))
    BY <1>0, VisitedRoots, VisitedClosed
  <1>2. ASSUME NEW i \in Stored(c), parent[c][i] \in Gone(c, {r})
        PROVE  i \in Gone(c, {r})
    <2>1. parent[c][i] \in Visited(c, {r}) /\ parent[c][i] \in Stored(c) /\ parent[c][i] \in Id
      BY <1>2 DEF Gone, Stored
    <2>2. parent[c][i] # 0
      BY <2>1, SMT DEF Id
    <2>3. i \in children[c][parent[c][i]]
      BY <2>2 DEF StorageInv, Forest
    <2> QED BY <1>1, <2>1, <2>3 DEF ClosedUnderChildren, Gone
  <1> QED BY <1>1, <1>2 DEF Gone

\* Ids are numbers from 1, so 0 is none of them.
LEMMA ZeroNoId == 0 \notin Id
  BY SMT DEF Id

\* The classes of what goes with r: a root goes only as r itself, and a context
\* takes nothing but its bound keys.
LEMMA GoneClasses ==
  ASSUME StorageInv, Hierarchy, NEW c \in Client, NEW r \in Id, NEW j \in Gone(c, {r}), j # r
  PROVE  /\ j \in Id /\ nodeMap[c][j] \in UNION {Context, Shm, BoundKey}
         /\ nodeMap[c][r] \in Context => nodeMap[c][j] \in BoundKey
         /\ nodeMap[c][j] \in BoundKey => parent[c][j] \in Gone(c, {r})
  <1>1. j \in Id /\ nodeMap[c][j] # NoNode
    BY DEF Gone, Visited, Stored
  <1>2. nodeMap[c][j] \in Node
    BY <1>1, SMT DEF StorageInv, TypeOK
  <1>3. parent[c][j] \in Gone(c, {r})
    BY GoneParent
  <1>4. parent[c][j] \in Id
    BY <1>3 DEF Gone, Visited
  <1>5. nodeMap[c][j] \notin Connection \cup Slot
    BY <1>1, <1>4, ZeroNoId DEF Hierarchy
  <1>6. nodeMap[c][j] \in UNION {Context, Shm, BoundKey}
    BY <1>2, <1>5, PathConstantsOK
  <1>7. ASSUME nodeMap[c][r] \in Context, nodeMap[c][j] \in Context \cup Shm PROVE FALSE
    <2>1. nodeMap[c][parent[c][j]] \in Connection
      BY <1>1, <1>7 DEF Hierarchy
    <2>2. parent[c][j] # r
      BY <1>7, <2>1, Classes
    <2>3. parent[c][parent[c][j]] \in Gone(c, {r})
      BY <1>3, <2>2, GoneParent
    <2>4. parent[c][parent[c][j]] \in Id
      BY <2>3 DEF Gone, Visited
    <2>5. parent[c][parent[c][j]] = 0
      BY <1>4, <2>1 DEF Hierarchy
    <2> QED BY <2>4, <2>5, ZeroNoId
  <1> QED BY <1>1, <1>3, <1>6, <1>7

\* Where an object of each class is put.
Placed(c, p, n) ==
    /\ n \in Connection \cup Slot => p = 0
    /\ n \in Context \cup Shm => p \in Id /\ nodeMap[c][p] \in Connection
    /\ n \in BoundKey => p \in Id /\ nodeMap[c][p] \in Context

LEMMA GrowsHierarchy ==
  ASSUME Hierarchy, NEW c \in Client, NEW p, NEW n, NEW id, Grows(c, p, n, id), Placed(c, p, n)
  PROVE  Hierarchy'
  <1>1. SUFFICES ASSUME NEW d \in Client, NEW i \in Id
                 PROVE  /\ nodeMap'[d][i] \in Connection \cup Slot => parent'[d][i] = 0
                        /\ nodeMap'[d][i] \in Context \cup Shm =>
                              parent'[d][i] \in Id /\ nodeMap'[d][parent'[d][i]] \in Connection
                        /\ nodeMap'[d][i] \in BoundKey =>
                              parent'[d][i] \in Id /\ nodeMap'[d][parent'[d][i]] \in Context
    BY DEF Hierarchy
  <1>2. nodeMap[c][id] = NoNode
    BY DEF Grows, Stored
  <1>3. \A e \in Client : \A k \in Id :
          nodeMap[e][k] \in Connection \cup Context => nodeMap'[e][k] = nodeMap[e][k]
    BY <1>2, Classes DEF Grows
  <1>4. CASE d = c /\ i = id
    BY <1>3, <1>4 DEF Grows, Placed
  <1>5. CASE d # c \/ i # id
    <2>1. nodeMap'[d][i] = nodeMap[d][i] /\ parent'[d][i] = parent[d][i]
      BY <1>5 DEF Grows
    <2> QED BY <1>3, <2>1, SMT DEF Hierarchy
  <1> QED BY <1>4, <1>5

LEMMA ShrinksHierarchy ==
  ASSUME StorageInv, Hierarchy, NEW c \in Client, NEW r \in Id, Shrinks(c, r)
  PROVE  Hierarchy'
  <1>1. SUFFICES ASSUME NEW d \in Client, NEW i \in Id
                 PROVE  /\ nodeMap'[d][i] \in Connection \cup Slot => parent'[d][i] = 0
                        /\ nodeMap'[d][i] \in Context \cup Shm =>
                              parent'[d][i] \in Id /\ nodeMap'[d][parent'[d][i]] \in Connection
                        /\ nodeMap'[d][i] \in BoundKey =>
                              parent'[d][i] \in Id /\ nodeMap'[d][parent'[d][i]] \in Context
    BY DEF Hierarchy
  <1>2. CASE d = c /\ i \in Gone(c, {r})
    BY <1>2, Classes DEF Shrinks
  <1>3. CASE ~(d = c /\ i \in Gone(c, {r}))
    <2>1. nodeMap'[d][i] = nodeMap[d][i] /\ parent'[d][i] = parent[d][i]
      BY <1>3 DEF Shrinks
    <2>2. CASE nodeMap[d][i] = NoNode
      BY <2>1, <2>2, Classes
    <2>3. CASE nodeMap[d][i] # NoNode
      <3>1. ~(d = c /\ parent[d][i] \in Gone(c, {r}))
        BY <1>3, <2>3, GoneClosed DEF Shrinks, Stored
      <3>2. parent[d][i] \in Id => nodeMap'[d][parent[d][i]] = nodeMap[d][parent[d][i]]
        BY <3>1 DEF Shrinks
      <3> QED BY <2>1, <3>2 DEF Hierarchy
    <2> QED BY <2>2, <2>3
  <1> QED BY <1>2, <1>3

----------------------------------------------------------------------------
(* What the other requests and the tables keep.                            *)

\* What is stored keeps its place when something is added.
LEMMA GrowsKeeps ==
  ASSUME NEW c \in Client, NEW p, NEW n, NEW id, Grows(c, p, n, id)
  PROVE  /\ \A d \in Client : \A i \in Id :
               nodeMap[d][i] # NoNode => nodeMap'[d][i] = nodeMap[d][i]
         /\ \A m : InStorage(m)' => m = n \/ InStorage(m)
         /\ \A m : HeldBy(m)' = HeldBy(m)
  <1>1. nodeMap[c][id] = NoNode
    BY DEF Grows, Stored
  <1>2. \A m : HeldBy(m)' = HeldBy(m)
    BY DEF Grows, HeldBy, Holds
  <1>3. ASSUME NEW d \in Client, NEW i \in Id, nodeMap[d][i] # NoNode
        PROVE  nodeMap'[d][i] = nodeMap[d][i]
    <2>1. d # c \/ i # id
      BY <1>1, <1>3
    <2> QED BY <2>1 DEF Grows
  <1>4. ASSUME NEW m, InStorage(m)', m # n
        PROVE  InStorage(m)
    <2>1. PICK d \in Client, i \in Id : nodeMap'[d][i] = m
      BY <1>4 DEF InStorage
    <2>2. nodeMap'[c][id] = n
      BY DEF Grows
    <2>3. d # c \/ i # id
      BY <1>4, <2>1, <2>2
    <2>4. nodeMap'[d][i] = nodeMap[d][i]
      BY <2>3 DEF Grows
    <2> QED BY <2>1, <2>4 DEF InStorage
  <1> QED BY <1>2, <1>3, <1>4

LEMMA ShrinksKeeps ==
  ASSUME NEW c \in Client, NEW r, Shrinks(c, r)
  PROVE  /\ \A m : m # NoNode /\ InStorage(m)' => InStorage(m)
         /\ \A m : HeldBy(m)' = HeldBy(m)
  <1>2. \A m : HeldBy(m)' = HeldBy(m)
    BY DEF Shrinks, HeldBy, Holds
  <1> QED BY <1>2 DEF Shrinks, InStorage

LEMMA ChildOf ==
  ASSUME StorageInv, NEW c \in Client, NEW i \in Id, NEW k \in children[c][i]
  PROVE  k \in Id /\ nodeMap[c][k] # NoNode /\ parent[c][k] = i
  <1>1. k \in Stored(c) /\ parent[c][k] = i
    BY DEF StorageInv, Forest
  <1> QED BY <1>1 DEF Stored

LEMMA GrowsBound ==
  ASSUME StorageInv, BoundBelow, NEW c \in Client, NEW p, NEW n, NEW id, Grows(c, p, n, id),
         NEW d \in Client, NEW i \in Id, nodeMap[d][i] \in Context,
         bound[nodeMap[d][i]] # NoNode
  PROVE  \E k \in children'[d][i] : nodeMap'[d][k] = bound[nodeMap[d][i]]
  <1>1. PICK k \in children[d][i] : nodeMap[d][k] = bound[nodeMap[d][i]]
    BY DEF BoundBelow
  <1>2. k \in Id /\ nodeMap[d][k] # NoNode
    BY ChildOf
  <1>3. nodeMap'[d][k] = nodeMap[d][k]
    BY <1>2, GrowsKeeps
  <1>4. k \in children'[d][i]
    BY DEF Grows
  <1> QED BY <1>1, <1>3, <1>4

LEMMA ShrinksBound ==
  ASSUME StorageInv, PathType, Hierarchy, BoundBelow, NEW c \in Client, NEW r \in Id,
         Shrinks(c, r), nodeMap[c][r] \notin BoundKey,
         NEW d \in Client, NEW i \in Id, nodeMap[d][i] \in Context,
         bound[nodeMap[d][i]] # NoNode, ~(d = c /\ i \in Gone(c, {r}))
  PROVE  \E k \in children'[d][i] : nodeMap'[d][k] = bound[nodeMap[d][i]]
  <1>1. PICK k \in children[d][i] : nodeMap[d][k] = bound[nodeMap[d][i]]
    BY DEF BoundBelow
  <1>2. k \in Id /\ parent[d][k] = i
    BY ChildOf
  <1>3. nodeMap[d][k] \in BoundKey
    BY <1>1 DEF PathType
  <1>4. ~(d = c /\ k \in Gone(c, {r}))
    BY <1>2, <1>3, GoneClasses
  <1> QED BY <1>1, <1>2, <1>4 DEF Shrinks

\* The slots in the cache stay.
LEMMA GrowsCached ==
  ASSUME PathType, CachedSlotStored, NEW c \in Client, NEW p, NEW n, NEW id,
         Grows(c, p, n, id), slotCache' = slotCache
  PROVE  CachedSlotStored'
  <1>1. SUFFICES ASSUME NEW d \in Client, slotCache[d] # 0
                 PROVE  nodeMap'[d][slotCache[d]] \in Slot
    BY DEF CachedSlotStored, IsA
  <1>2. slotCache[d] \in Id
    BY <1>1, SMT DEF PathType, Id
  <1>3. nodeMap[d][slotCache[d]] \in Slot
    BY <1>1 DEF CachedSlotStored, IsA
  <1> QED BY <1>2, <1>3, GrowsKeeps, Classes

LEMMA ShrinksCached ==
  ASSUME StorageInv, Hierarchy, PathType, CachedSlotStored, NEW c \in Client, NEW r \in Id,
         Shrinks(c, r), nodeMap[c][r] \notin Slot, slotCache' = slotCache
  PROVE  CachedSlotStored'
  <1>1. SUFFICES ASSUME NEW d \in Client, slotCache[d] # 0
                 PROVE  nodeMap'[d][slotCache[d]] \in Slot
    BY DEF CachedSlotStored, IsA
  <1>2. slotCache[d] \in Id
    BY <1>1, SMT DEF PathType, Id
  <1>3. nodeMap[d][slotCache[d]] \in Slot
    BY <1>1 DEF CachedSlotStored, IsA
  <1>4. ~(d = c /\ slotCache[d] \in Gone(c, {r}))
    BY <1>3, GoneClasses, Classes
  <1> QED BY <1>2, <1>3, <1>4 DEF Shrinks

\* A request that takes no part in a step keeps what it relies on: when another
\* one stores an object,
LEMMA OthersGrow ==
  ASSUME NEW v \in Worker, JobOK(v), job'[v] = job[v],
         NEW c \in Client, NEW p, NEW n, NEW id, Grows(c, p, n, id),
         job[v].pc \in Before => n # job[v].node,
         \A d \in Client : known[d] \subseteq known'[d],
         \A d \in Client : \A i \in known'[d] : i \in known[d] \/ (d = c /\ i = id)
  PROVE  JobOK(v)'
  <1>1. job[v].pc \in Before => Unreferenced(job[v].node)'
    <2>1. ASSUME job[v].pc \in Before PROVE Unreferenced(job[v].node)'
      <3>1. ~InStorage(job[v].node) /\ HeldBy(job[v].node) = {}
        BY <2>1 DEF JobOK, Unreferenced
      <3>2. ~InStorage(job[v].node)' /\ HeldBy(job[v].node)' = {}
        BY <2>1, <3>1, GrowsKeeps
      <3> QED BY <3>2 DEF Unreferenced
    <2> QED BY <2>1
  <1>2. \A d \in Client : \A i \in Id : nodeMap[d][i] \in Node => nodeMap'[d][i] = nodeMap[d][i]
    BY GrowsKeeps, ConstantsOK
  <1>3. job[v].pc \in Making => job[v].id \notin known'[job[v].client]
    <2>1. SUFFICES ASSUME job[v].pc \in Making, job[v].id \in known'[job[v].client]
                   PROVE  FALSE
      OBVIOUS
    <2>2. job[v].pc # "idle"
      BY <2>1 DEF Making
    <2>3. job[v].client \in Client /\ nodeMap[job[v].client][job[v].id] = job[v].node
          /\ job[v].node \in Context /\ job[v].id \notin known[job[v].client]
      BY <2>1, <2>2 DEF JobOK
    <2>4. job[v].client = c /\ job[v].id = id
      BY <2>1, <2>3
    <2>5. id \in Id /\ nodeMap[c][id] = NoNode
      BY DEF Grows, Stored
    <2> QED BY <2>3, <2>4, <2>5, Classes
  <1>4. ASSUME job[v].pc \in Before
        PROVE  /\ job[v].client \in Client /\ job[v].base \in Id
               /\ nodeMap'[job[v].client][job[v].base] \in Connection
    <2>1. /\ job[v].client \in Client /\ job[v].base \in Id
          /\ nodeMap[job[v].client][job[v].base] \in Connection
      BY <1>4 DEF JobOK, Before
    <2> QED BY <2>1, <1>2, Classes
  <1>5. ASSUME job[v].pc \in Making \cup {"execute"}
        PROVE  /\ job[v].client \in Client /\ job[v].id \in Id
               /\ nodeMap'[job[v].client][job[v].id] = job[v].node
    <2>1. /\ job[v].client \in Client /\ job[v].id \in Id
          /\ nodeMap[job[v].client][job[v].id] = job[v].node /\ job[v].node \in Context
      BY <1>5 DEF JobOK, Making
    <2> QED BY <2>1, <1>2, Classes
  <1>6. ASSUME job[v].pc = "cacheSlot"
        PROVE  /\ job[v].client \in Client /\ job[v].id \in Id
               /\ nodeMap'[job[v].client][job[v].id] \in Slot
    <2>1. /\ job[v].client \in Client /\ job[v].id \in Id
          /\ nodeMap[job[v].client][job[v].id] \in Slot
      BY <1>6 DEF JobOK
    <2> QED BY <2>1, <1>2, Classes
  <1>7. ASSUME job[v].pc = "execute"
        PROVE  job[v].id \in known'[job[v].client]
    <2>1. job[v].client \in Client /\ job[v].id \in known[job[v].client]
      BY <1>7 DEF JobOK
    <2> QED BY <2>1
  <1> QED BY <1>1, <1>3, <1>4, <1>5, <1>6, <1>7 DEF JobOK

\* when another one deletes nodes it does not use,
Spared(v, c, r) ==
    job[v].client = c =>
        /\ job[v].pc \in Before => job[v].base \notin Gone(c, {r})
        /\ job[v].pc \in Making \cup {"execute", "cacheSlot"} => job[v].id \notin Gone(c, {r})

LEMMA OthersShrink ==
  ASSUME NEW v \in Worker, JobOK(v), job'[v] = job[v],
         NEW c \in Client, NEW r, Shrinks(c, r), Spared(v, c, r),
         \A d \in Client : known'[d] \subseteq known[d],
         \A d \in Client : \A i \in known[d] : i \in known'[d] \/ (d = c /\ i \in Gone(c, {r}))
  PROVE  JobOK(v)'
  <1>1. job[v].pc \in Before => Unreferenced(job[v].node)'
    BY ShrinksKeeps, Classes DEF JobOK, Unreferenced, Before
  <1>4. ASSUME job[v].pc \in Before
        PROVE  /\ job[v].client \in Client /\ job[v].base \in Id
               /\ nodeMap'[job[v].client][job[v].base] \in Connection
    <2>1. /\ job[v].client \in Client /\ job[v].base \in Id
          /\ nodeMap[job[v].client][job[v].base] \in Connection
      BY <1>4 DEF JobOK, Before
    <2>2. ~(job[v].client = c /\ job[v].base \in Gone(c, {r}))
      BY <1>4 DEF Spared
    <2>3. nodeMap'[job[v].client][job[v].base] = nodeMap[job[v].client][job[v].base]
      BY <2>1, <2>2 DEF Shrinks
    <2> QED BY <2>1, <2>3
  <1>5. ASSUME job[v].pc \in Making \cup {"execute"}
        PROVE  /\ job[v].client \in Client /\ job[v].id \in Id
               /\ nodeMap'[job[v].client][job[v].id] = job[v].node
    <2>1. /\ job[v].client \in Client /\ job[v].id \in Id
          /\ nodeMap[job[v].client][job[v].id] = job[v].node /\ job[v].node \in Context
      BY <1>5 DEF JobOK, Making
    <2>2. ~(job[v].client = c /\ job[v].id \in Gone(c, {r}))
      BY <1>5 DEF Spared
    <2>3. nodeMap'[job[v].client][job[v].id] = nodeMap[job[v].client][job[v].id]
      BY <2>1, <2>2 DEF Shrinks
    <2> QED BY <2>1, <2>3
  <1>6. ASSUME job[v].pc = "cacheSlot"
        PROVE  /\ job[v].client \in Client /\ job[v].id \in Id
               /\ nodeMap'[job[v].client][job[v].id] \in Slot
    <2>1. /\ job[v].client \in Client /\ job[v].id \in Id
          /\ nodeMap[job[v].client][job[v].id] \in Slot
      BY <1>6 DEF JobOK
    <2>2. ~(job[v].client = c /\ job[v].id \in Gone(c, {r}))
      BY <1>6 DEF Spared
    <2>3. nodeMap'[job[v].client][job[v].id] = nodeMap[job[v].client][job[v].id]
      BY <2>1, <2>2 DEF Shrinks
    <2> QED BY <2>1, <2>3
  <1>7. ASSUME job[v].pc = "execute"
        PROVE  job[v].id \in known'[job[v].client]
    <2>1. job[v].client \in Client /\ job[v].id \in known[job[v].client]
      BY <1>7 DEF JobOK
    <2> QED BY <1>7, <2>1 DEF Spared
  <1>8. ASSUME job[v].pc \in Making PROVE job[v].id \notin known'[job[v].client]
    BY <1>5, <1>8 DEF JobOK
  <1> QED BY <1>1, <1>4, <1>5, <1>6, <1>7, <1>8 DEF JobOK

\* and when the nodes stay as they are.
LEMMA OthersSame ==
  ASSUME NEW v \in Worker, JobOK(v), job'[v] = job[v], SameNodes,
         \A m : Unreferenced(m) => Unreferenced(m)',
         \A d \in Client : known[d] \subseteq known'[d],
         job[v].pc \in Making => job[v].id \notin known'[job[v].client]
  PROVE  JobOK(v)'
  BY DEF JobOK, Before, Making, SameNodes

----------------------------------------------------------------------------
(* The three kinds of steps: the nodes stay, one is stored, some go.       *)

\* The other requests stay where they are, and the object that w has next is
\* not that of another one.
OthersStay(w) ==
    \A v \in Worker \ {w} :
        /\ job'[v] = job[v] /\ accessor'[v] = accessor[v]
        /\ {job[v].pc, job'[w].pc} \cap (Before \cup Making) # {} => job'[w].node # job[v].node

\* A stored context that w made is ready, or w still works on it.
MadeOrReady(w, n) ==
    n \in ready' \/ (job'[w].node = n /\ job'[w].pc # "execute")

Quiet(w) ==
    /\ SameNodes
    /\ \A m : Unreferenced(m) => Unreferenced(m)'
    /\ OthersStay(w)
    /\ \A d \in Client : known[d] \subseteq known'[d]
    /\ \A d \in Client : \A i \in known'[d] :
          i \in known[d] \/ (/\ job[w].pc \in {"init", "cacheSlot"}
                             /\ d = job[w].client /\ i = job[w].id)
    /\ \A n \in Context : InStorage(n) =>
          /\ bound'[n] = bound[n]
          /\ n \in ready => n \in ready'
          /\ (job[w].node = n /\ job[w].pc # "execute") => MadeOrReady(w, n)
    /\ \A d \in Client : slotCache'[d] # slotCache[d] => nodeMap[d][slotCache'[d]] \in Slot

LEMMA OwnNodeKept ==
  ASSUME OwnNode, NEW w \in Worker, OthersStay(w)
  PROVE  OwnNode'
  <1>1. SUFFICES ASSUME NEW u \in Worker, NEW v \in Worker, u # v,
                        job'[v].pc \in Before \cup Making
                 PROVE  job'[u].node # job'[v].node
    BY DEF OwnNode
  <1>2. CASE u = w
    <2>1. job'[v] = job[v] /\ job[v].pc \in {job[v].pc, job'[w].pc} \cap (Before \cup Making)
      BY <1>1, <1>2 DEF OthersStay
    <2> QED BY <1>1, <1>2, <2>1 DEF OthersStay
  <1>3. CASE v = w
    <2>1. job'[u] = job[u] /\ job'[w].pc \in {job[u].pc, job'[w].pc} \cap (Before \cup Making)
      BY <1>1, <1>3 DEF OthersStay
    <2> QED BY <1>1, <1>3, <2>1 DEF OthersStay
  <1>4. CASE u # w /\ v # w
    BY <1>1, <1>4 DEF OthersStay, OwnNode
  <1> QED BY <1>2, <1>3, <1>4

LEMMA HoldsOwnKept ==
  ASSUME NEW w \in Worker, OthersStay(w), NEW v \in Worker, v # w, HoldsOwn(v)
  PROVE  HoldsOwn(v)'
  BY DEF OthersStay, HoldsOwn, Holds

\* A request that makes a context is the only one that knows its id.
LEMMA MakesAlone ==
  ASSUME PathInv, NEW v \in Worker, NEW w \in Worker, v # w,
         job[v].pc \in Making, job[w].pc \in {"init", "cacheSlot"},
         job[v].client = job[w].client
  PROVE  job[v].id # job[w].id
  <1>1. job[v].client \in Client /\ job[v].id \in Id /\ job[v].node \in Context
        /\ nodeMap[job[v].client][job[v].id] = job[v].node
    BY DEF PathInv, PathRest, JobOK, Making
  <1>2. CASE job[w].pc = "init"
    <2>1. job[w].pc \in Making
      BY <1>2 DEF Making
    <2>2. nodeMap[job[w].client][job[w].id] = job[w].node
      BY <2>1 DEF PathInv, PathRest, JobOK
    <2>3. job[v].node # job[w].node
      BY <2>1 DEF PathInv, PathRest, OwnNode
    <2> QED BY <1>1, <2>2, <2>3
  <1>3. CASE job[w].pc = "cacheSlot"
    <2>1. nodeMap[job[w].client][job[w].id] \in Slot
      BY <1>3 DEF PathInv, PathRest, JobOK
    <2> QED BY <1>1, <2>1, Classes
  <1> QED BY <1>2, <1>3

LEMMA QuietStep ==
  ASSUME PathInv, NEW w \in Worker, Quiet(w), PathType', JobOK(w)', HoldsOwn(w)'
  PROVE  PathRest'
  <1>0. PathRest /\ StorageInv
    BY DEF PathInv, CarefulInv
  <1>1. Hierarchy'
    BY <1>0 DEF PathRest, Hierarchy, Quiet, SameNodes
  <1>2. KnownStored'
    <2>1. SUFFICES ASSUME NEW d \in Client, NEW i \in known'[d]
                   PROVE  nodeMap[d][i] \in UNION {Connection, Context, Slot, Shm}
      BY DEF KnownStored, Quiet, SameNodes
    <2>2. CASE i \in known[d]
      BY <1>0, <2>2 DEF PathRest, KnownStored
    <2>3. CASE job[w].pc \in {"init", "cacheSlot"} /\ d = job[w].client /\ i = job[w].id
      <3>1. JobOK(w)
        BY <1>0 DEF PathRest
      <3>2. nodeMap[d][i] \in Context \cup Slot
        BY <2>3, <3>1 DEF JobOK, Making
      <3> QED BY <3>2
    <2> QED BY <2>2, <2>3 DEF Quiet
  <1>3. ASSUME NEW v \in Worker PROVE JobOK(v)' /\ HoldsOwn(v)'
    <2>1. CASE v = w
      BY <2>1
    <2>2. CASE v # w
      <3>1. JobOK(v) /\ HoldsOwn(v) /\ job'[v] = job[v]
        BY <1>0, <2>2 DEF PathRest, Quiet, OthersStay
      <3>2. ASSUME job[v].pc \in Making PROVE job[v].id \notin known'[job[v].client]
        <4>1. job[v].client \in Client /\ job[v].id \notin known[job[v].client]
          BY <3>1, <3>2 DEF JobOK, Making
        <4> QED BY <4>1, <2>2, <3>2, MakesAlone DEF Quiet
      <3>3. JobOK(v)'
        BY <3>1, <3>2, OthersSame DEF Quiet
      <3> QED BY <2>2, <3>1, <3>3, HoldsOwnKept DEF Quiet
    <2> QED BY <2>1, <2>2
  <1>4. OwnNode'
    BY <1>0, OwnNodeKept DEF PathRest, Quiet
  <1>5. BoundBelow'
    <2>1. ASSUME NEW d \in Client, NEW i \in Id, nodeMap[d][i] \in Context
          PROVE  bound'[nodeMap[d][i]] = bound[nodeMap[d][i]]
      BY <2>1 DEF Quiet, InStorage
    <2>2. nodeMap' = nodeMap /\ children' = children
      BY DEF Quiet, SameNodes
    <2>3. SUFFICES ASSUME NEW d \in Client, NEW i \in Id, nodeMap[d][i] \in Context,
                          bound'[nodeMap[d][i]] # NoNode
                   PROVE  \E k \in children[d][i] : nodeMap[d][k] = bound'[nodeMap[d][i]]
      BY <2>2 DEF BoundBelow
    <2>4. bound[nodeMap[d][i]] = bound'[nodeMap[d][i]]
      BY <2>1, <2>3
    <2> QED BY <1>0, <2>3, <2>4 DEF PathRest, BoundBelow
  <1>6. StoredContextReady'
    <2>1. SUFFICES ASSUME NEW n \in Context, InStorage(n)
                   PROVE  n \in ready' \/ \E v \in Worker : job'[v].node = n /\ job'[v].pc # "execute"
      BY DEF StoredContextReady, InStorage, Quiet, SameNodes
    <2>2. CASE n \in ready
      BY <2>1, <2>2 DEF Quiet
    <2>3. ASSUME NEW v \in Worker, job[v].node = n, job[v].pc # "execute"
          PROVE  n \in ready' \/ \E u \in Worker : job'[u].node = n /\ job'[u].pc # "execute"
      <3>1. CASE v = w
        BY <2>1, <2>3, <3>1 DEF Quiet, MadeOrReady
      <3>2. CASE v # w
        <4>1. job'[v] = job[v]
          BY <3>2 DEF Quiet, OthersStay
        <4> QED BY <2>3, <4>1
      <3> QED BY <3>1, <3>2
    <2> QED BY <1>0, <2>1, <2>2, <2>3 DEF PathRest, StoredContextReady
  <1>7. CachedSlotStored'
    BY <1>0 DEF PathRest, CachedSlotStored, IsA, Quiet, SameNodes
  <1> QED BY <1>1, <1>2, <1>3, <1>4, <1>5, <1>6, <1>7 DEF PathRest

Adds(w, c, p, n, id) ==
    /\ Grows(c, p, n, id) /\ Placed(c, p, n)
    /\ OthersStay(w)
    /\ \A v \in Worker \ {w} : job[v].node # n
    /\ \A d \in Client : known[d] \subseteq known'[d]
    /\ \A d \in Client : \A i \in known'[d] :
          i \in known[d] \/ (d = c /\ i = id /\ n \notin BoundKey)
    /\ \A d \in Client : \A i \in Id : nodeMap[d][i] \in Context =>
          \/ bound'[nodeMap[d][i]] = bound[nodeMap[d][i]]
          \/ \E k \in children'[d][i] : nodeMap'[d][k] = bound'[nodeMap[d][i]]
    /\ n \in Context => bound'[n] = NoNode
    /\ \A m \in Context : InStorage(m) =>
          /\ m \in ready => m \in ready'
          /\ (job[w].node = m /\ job[w].pc # "execute") => MadeOrReady(w, m)
    /\ n \in Context => MadeOrReady(w, n)
    /\ slotCache' = slotCache

LEMMA AddsStep ==
  ASSUME PathInv, NEW w \in Worker, NEW c \in Client, NEW p, NEW n \in Node, NEW id,
         Adds(w, c, p, n, id), PathType', JobOK(w)', HoldsOwn(w)'
  PROVE  PathRest'
  <1>0. PathRest /\ StorageInv /\ Grows(c, p, n, id) /\ id \in Id /\ nodeMap'[c][id] = n
    BY DEF PathInv, CarefulInv, Adds, Grows
  <1>1. Hierarchy'
    BY <1>0, GrowsHierarchy DEF PathRest, Adds
  <1>2. KnownStored'
    <2>1. SUFFICES ASSUME NEW d \in Client, NEW i \in known'[d]
                   PROVE  nodeMap'[d][i] \in UNION {Connection, Context, Slot, Shm}
      BY DEF KnownStored
    <2>2. CASE i \in known[d]
      <3>1. nodeMap[d][i] \in UNION {Connection, Context, Slot, Shm} /\ i \in Id
        BY <1>0, <2>2 DEF PathRest, KnownStored, PathType
      <3>2. nodeMap[d][i] # NoNode
        BY <3>1, Classes
      <3> QED BY <1>0, <3>1, <3>2, GrowsKeeps
    <2>3. CASE d = c /\ i = id /\ n \notin BoundKey
      BY <1>0, <2>3, PathConstantsOK
    <2> QED BY <2>2, <2>3 DEF Adds
  <1>3. ASSUME NEW v \in Worker PROVE JobOK(v)' /\ HoldsOwn(v)'
    <2>1. CASE v = w
      BY <2>1
    <2>2. CASE v # w
      <3>1. JobOK(v) /\ HoldsOwn(v) /\ job'[v] = job[v] /\ n # job[v].node
        BY <1>0, <2>2 DEF PathRest, Adds, OthersStay
      <3>2. /\ \A d \in Client : known[d] \subseteq known'[d]
            /\ \A d \in Client : \A i \in known'[d] : i \in known[d] \/ (d = c /\ i = id)
        BY DEF Adds
      <3>3. JobOK(v)'
        BY <1>0, <3>1, <3>2, OthersGrow
      <3> QED BY <2>2, <3>1, <3>3, HoldsOwnKept DEF Adds
    <2> QED BY <2>1, <2>2
  <1>4. OwnNode'
    BY <1>0, OwnNodeKept DEF PathRest, Adds
  <1>5. BoundBelow'
    <2>1. SUFFICES ASSUME NEW d \in Client, NEW i \in Id, nodeMap'[d][i] \in Context,
                          bound'[nodeMap'[d][i]] # NoNode
                   PROVE  \E k \in children'[d][i] : nodeMap'[d][k] = bound'[nodeMap'[d][i]]
      BY DEF BoundBelow
    <2>2. d # c \/ i # id
      BY <1>0, <2>1 DEF Adds
    <2>3. nodeMap'[d][i] = nodeMap[d][i]
      BY <1>0, <2>2 DEF Grows
    <2>4. CASE bound'[nodeMap[d][i]] = bound[nodeMap[d][i]]
      <3>1. \E k \in children'[d][i] : nodeMap'[d][k] = bound[nodeMap[d][i]]
        BY <1>0, <2>1, <2>3, <2>4, GrowsBound DEF PathRest
      <3> QED BY <2>3, <2>4, <3>1
    <2> QED BY <2>1, <2>3, <2>4 DEF Adds
  <1>6. StoredContextReady'
    <2>1. SUFFICES ASSUME NEW m \in Context, InStorage(m)'
                   PROVE  m \in ready' \/ \E v \in Worker : job'[v].node = m /\ job'[v].pc # "execute"
      BY DEF StoredContextReady
    <2>2. CASE m = n
      BY <2>2 DEF Adds, MadeOrReady
    <2>3. CASE m # n
      <3>1. InStorage(m)
        BY <1>0, <2>1, <2>3, GrowsKeeps
      <3>2. CASE m \in ready
        BY <3>1, <3>2 DEF Adds
      <3>3. ASSUME NEW v \in Worker, job[v].node = m, job[v].pc # "execute"
            PROVE  m \in ready' \/ \E u \in Worker : job'[u].node = m /\ job'[u].pc # "execute"
        <4>1. CASE v = w
          BY <3>1, <3>3, <4>1 DEF Adds, MadeOrReady
        <4>2. CASE v # w
          <5>1. job'[v] = job[v]
            BY <4>2 DEF Adds, OthersStay
          <5> QED BY <3>3, <5>1
        <4> QED BY <4>1, <4>2
      <3> QED BY <1>0, <3>1, <3>2, <3>3 DEF PathRest, StoredContextReady
    <2> QED BY <2>2, <2>3
  <1>7. CachedSlotStored'
    BY <1>0, GrowsCached DEF PathRest, Adds
  <1> QED BY <1>1, <1>2, <1>3, <1>4, <1>5, <1>6, <1>7 DEF PathRest

Drops(w, c, r) ==
    /\ Shrinks(c, r) /\ nodeMap[c][r] \in UNION {Connection, Context, Shm}
    /\ OthersStay(w)
    /\ \A v \in Worker \ {w} : Spared(v, c, r)
    /\ \A d \in Client : known'[d] \subseteq known[d]
    /\ \A d \in Client : \A i \in known[d] : i \in known'[d] \/ (d = c /\ i \in Gone(c, {r}))
    /\ \A i \in known'[c] : i \notin Gone(c, {r})
    /\ \A m \in Context : (job[w].node = m /\ job[w].pc # "execute") => ~InStorage(m)'
    /\ UNCHANGED <<ready, bound, slotCache>>

LEMMA DropsStep ==
  ASSUME PathInv, NEW w \in Worker, NEW c \in Client, NEW r \in Id, Drops(w, c, r),
         PathType', JobOK(w)', HoldsOwn(w)'
  PROVE  PathRest'
  <1>0. PathRest /\ StorageInv /\ Shrinks(c, r)
    BY DEF PathInv, CarefulInv, Drops
  <1>1. Hierarchy'
    BY <1>0, ShrinksHierarchy DEF PathRest
  <1>2. KnownStored'
    <2>1. SUFFICES ASSUME NEW d \in Client, NEW i \in known'[d]
                   PROVE  nodeMap'[d][i] \in UNION {Connection, Context, Slot, Shm}
      BY DEF KnownStored
    <2>2. nodeMap[d][i] \in UNION {Connection, Context, Slot, Shm} /\ i \in Id
      BY <1>0 DEF PathRest, KnownStored, PathType, Drops
    <2>3. ~(d = c /\ i \in Gone(c, {r}))
      BY DEF Drops
    <2>4. nodeMap'[d][i] = nodeMap[d][i]
      BY <1>0, <2>2, <2>3 DEF Shrinks
    <2> QED BY <2>2, <2>4
  <1>3. ASSUME NEW v \in Worker PROVE JobOK(v)' /\ HoldsOwn(v)'
    <2>1. CASE v = w
      BY <2>1
    <2>2. CASE v # w
      <3>1. JobOK(v) /\ HoldsOwn(v) /\ job'[v] = job[v] /\ Spared(v, c, r)
        BY <1>0, <2>2 DEF PathRest, Drops, OthersStay
      <3>2. JobOK(v)'
        BY <1>0, <3>1, OthersShrink DEF Drops
      <3> QED BY <2>2, <3>1, <3>2, HoldsOwnKept DEF Drops
    <2> QED BY <2>1, <2>2
  <1>4. OwnNode'
    BY <1>0, OwnNodeKept DEF PathRest, Drops
  <1>5. BoundBelow'
    <2>1. SUFFICES ASSUME NEW d \in Client, NEW i \in Id, nodeMap'[d][i] \in Context,
                          bound'[nodeMap'[d][i]] # NoNode
                   PROVE  \E k \in children'[d][i] : nodeMap'[d][k] = bound'[nodeMap'[d][i]]
      BY DEF BoundBelow
    <2>2. ~(d = c /\ i \in Gone(c, {r}))
      BY <1>0, <2>1, Classes DEF Shrinks
    <2>3. nodeMap'[d][i] = nodeMap[d][i] /\ bound' = bound
      BY <1>0, <2>2 DEF Shrinks, Drops
    <2>4. nodeMap[c][r] \notin BoundKey
      BY Classes DEF Drops
    <2>5. nodeMap[d][i] \in Context /\ bound[nodeMap[d][i]] # NoNode
      BY <2>1, <2>3
    <2>6. \E k \in children'[d][i] : nodeMap'[d][k] = bound[nodeMap[d][i]]
      BY <1>0, <2>2, <2>4, <2>5, ShrinksBound DEF PathRest
    <2> QED BY <2>3, <2>6
  <1>6. StoredContextReady'
    <2>1. SUFFICES ASSUME NEW m \in Context, InStorage(m)'
                   PROVE  m \in ready' \/ \E v \in Worker : job'[v].node = m /\ job'[v].pc # "execute"
      BY DEF StoredContextReady
    <2>2. InStorage(m)
      BY <1>0, <2>1, ShrinksKeeps, Classes
    <2>3. CASE m \in ready
      BY <2>3 DEF Drops
    <2>4. ASSUME NEW v \in Worker, job[v].node = m, job[v].pc # "execute"
          PROVE  \E u \in Worker : job'[u].node = m /\ job'[u].pc # "execute"
      <3>1. v # w
        BY <2>1, <2>4 DEF Drops
      <3>2. job'[v] = job[v]
        BY <3>1 DEF Drops, OthersStay
      <3> QED BY <2>4, <3>2
    <2> QED BY <1>0, <2>2, <2>3, <2>4 DEF PathRest, StoredContextReady
  <1>7. CachedSlotStored'
    <2>1. nodeMap[c][r] \notin Slot
      BY Classes DEF Drops
    <2> QED BY <1>0, <2>1, ShrinksCached DEF PathRest, Drops
  <1> QED BY <1>1, <1>2, <1>3, <1>4, <1>5, <1>6, <1>7 DEF PathRest

----------------------------------------------------------------------------
(* How a step changes the request it belongs to.                           *)

OnlyJob(w) ==
    /\ job' \in [Worker -> Job]
    /\ \A v \in Worker \ {w} : job'[v] = job[v]

SameSubject(w) ==
    /\ job'[w].client = job[w].client /\ job'[w].base = job[w].base
    /\ job'[w].node = job[w].node /\ job'[w].id = job[w].id

LEMMA IdleJob ==
  /\ Idle \in Job
  /\ Idle.pc = "idle" /\ Idle.node = NoNode
  BY ConstantsOK, SMT DEF Idle, Job, Stage, Id

LEMMA GotoMoves ==
  ASSUME PathType, NEW w \in Worker, NEW pc \in Stage, Goto(w, pc)
  PROVE  OnlyJob(w) /\ SameSubject(w) /\ job'[w].pc = pc
  BY SMT DEF PathType, Goto, OnlyJob, SameSubject, Job

LEMMA RespondMoves ==
  ASSUME PathType, NEW w \in Worker, Respond(w)
  PROVE  OnlyJob(w) /\ job'[w].pc = "idle" /\ job'[w].node = NoNode
  <1>1. job' = [job EXCEPT ![w] = Idle] /\ job \in [Worker -> Job]
    BY DEF Respond, PathType
  <1>2. job' \in [Worker -> Job]
    BY <1>1, IdleJob
  <1>3. job'[w] = Idle /\ \A v \in Worker \ {w} : job'[v] = job[v]
    BY <1>1
  <1> QED BY <1>2, <1>3, IdleJob DEF OnlyJob

\* The jobs that begin, made from the idle one.
LEMMA JobFields ==
  ASSUME NEW x \in Job, NEW pc \in Stage, NEW c \in Client, NEW p \in 0..MaxId,
         NEW n \in Node \cup {NoNode}, NEW i \in 0..MaxId, NEW k \in BOOLEAN
  PROVE  /\ [x EXCEPT !.pc = pc, !.client = c, !.base = p, !.node = n] \in Job
         /\ [x EXCEPT !.pc = pc, !.client = c, !.base = p, !.node = n, !.keyed = k] \in Job
         /\ [x EXCEPT !.pc = pc, !.client = c, !.base = p, !.id = i] \in Job
         /\ [x EXCEPT !.pc = pc, !.client = c, !.node = n, !.id = i] \in Job
  BY DEF Job

LEMMA BeginMoves ==
  ASSUME PathType, NEW w \in Worker, NEW j \in Job, job' = [job EXCEPT ![w] = j]
  PROVE  OnlyJob(w) /\ job'[w] = j
  BY DEF PathType, OnlyJob

\* A request without a context under construction, or one that goes on with it.
LEMMA RequestRests ==
  ASSUME NEW w \in Worker, job'[w].pc \in {"idle"} \cup Leaving,
         job'[w].pc # "idle" => job'[w].client \in Client, job'[w].node = NoNode
  PROVE  JobOK(w)'
  BY DEF JobOK, Before, Making, Leaving

\* The store keeps everything in a step that does not use it.
LEMMA StoreSame ==
  ASSUME UNCHANGED vars
  PROVE  /\ SameNodes /\ accessor' = accessor
         /\ \A m : Unreferenced(m) => Unreferenced(m)'
  BY DEF vars, SameNodes, Unreferenced, InStorage, HeldBy, Holds

\* The objects of requests are objects.
LEMMA JobNodes ==
  ASSUME PathInv, NEW v \in Worker, job[v].pc \in Before \cup Making
  PROVE  job[v].node # NoNode /\ job[v].node \in Context \cup Shm
  <1>1. JobOK(v)
    BY DEF PathInv, PathRest
  <1> QED BY <1>1, Classes DEF JobOK, Before, Making

\* Whatever w does next, its object is its own if it is the one it had, none,
\* or new.
LEMMA StaysApart ==
  ASSUME PathInv, NEW w \in Worker, OnlyJob(w),
         \A v \in Worker \ {w} : accessor'[v] = accessor[v],
         \/ job'[w].node = NoNode /\ job'[w].pc \notin Before \cup Making
         \/ job'[w].node = job[w].node /\ job[w].pc \in Before \cup Making
         \/ \A v \in Worker : job'[w].node # job[v].node
  PROVE  OthersStay(w)
  <1>1. SUFFICES ASSUME NEW v \in Worker \ {w},
                        {job[v].pc, job'[w].pc} \cap (Before \cup Making) # {}
                 PROVE  job'[w].node # job[v].node
    BY DEF OthersStay, OnlyJob
  <1>2. CASE job'[w].node = NoNode /\ job'[w].pc \notin Before \cup Making
    BY <1>1, <1>2, JobNodes
  <1>3. CASE job'[w].node = job[w].node /\ job[w].pc \in Before \cup Making
    BY <1>1, <1>3 DEF PathInv, PathRest, OwnNode
  <1> QED BY <1>2, <1>3

\* A step that changes nothing but the request.
LEMMA JobStep ==
  ASSUME PathInv, NEW w \in Worker, OnlyJob(w), OthersStay(w),
         UNCHANGED <<vars, known, ready, bound, slotCache>>,
         JobOK(w)',
         job[w].pc \in Loading \cup {"execute"} => job'[w].pc = job[w].pc \/
             (job[w].pc \in Loading /\ job'[w].pc \in Loading),
         job'[w].pc \in Loading \cup {"execute"} => job[w].pc \in Loading,
         \A n \in Context : (InStorage(n) /\ job[w].node = n /\ job[w].pc # "execute") =>
             MadeOrReady(w, n)
  PROVE  [CarefulNext]_vars /\ PathRest'
  <1>0. PathRest /\ JobOK(w) /\ HoldsOwn(w)
    BY DEF PathInv, PathRest
  <1>1. /\ SameNodes /\ accessor' = accessor
        /\ \A m : Unreferenced(m) => Unreferenced(m)'
    BY StoreSame
  <1>2. PathType'
    BY <1>0 DEF PathRest, PathType, OnlyJob
  <1>3. HoldsOwn(w)'
    BY <1>0, <1>1 DEF HoldsOwn, Holds, Loading
  <1>4. Quiet(w)
    BY <1>1 DEF Quiet
  <1>5. PathRest'
    BY <1>2, <1>3, <1>4, QuietStep
  <1> QED BY <1>5

----------------------------------------------------------------------------
(* The actions that do not use the store.                                  *)

LEMMA UnregisterStep ==
  ASSUME PathInv, NEW w \in Worker, Unregister(w)
  PROVE  [CarefulNext]_vars /\ PathRest'
  <1>0. PathRest /\ PathType /\ JobOK(w)
    BY DEF PathInv, PathRest
  <1>1. /\ job[w].pc \in Leaving
        /\ \E s \in job[w].dying : job' = [job EXCEPT ![w].dying = @ \ {s}]
        /\ UNCHANGED <<vars, known, ready, bound, slotCache>>
    BY DEF Unregister, Leaving
  <1>2. OnlyJob(w) /\ SameSubject(w) /\ job'[w].pc = job[w].pc
    BY <1>0, <1>1, SMT DEF PathType, OnlyJob, SameSubject, Job
  <1>3. accessor' = accessor
    BY <1>1 DEF vars
  <1>4. OthersStay(w)
    <2>1. SUFFICES ASSUME NEW v \in Worker \ {w}, job[v].pc \in Before \cup Making
                   PROVE  job'[w].node # job[v].node
      BY <1>1, <1>2, <1>3 DEF OthersStay, OnlyJob, Leaving, Before, Making
    <2> QED BY <1>0, <1>2, <2>1 DEF PathRest, OwnNode, SameSubject
  <1>5. JobOK(w)'
    BY <1>0, <1>1, <1>2, RequestRests DEF JobOK, Leaving, SameSubject
  <1> QED
    BY <1>1, <1>2, <1>4, <1>5, JobStep DEF SameSubject, MadeOrReady, Leaving, Loading

LEMMA DestroyedStep ==
  ASSUME PathInv, NEW w \in Worker, Destroyed(w)
  PROVE  [CarefulNext]_vars /\ PathRest'
  <1>0. PathRest /\ PathType /\ JobOK(w)
    BY DEF PathInv, PathRest
  <1>1. job[w].pc \in Leaving /\ Respond(w) /\ UNCHANGED <<vars, known, ready, bound, slotCache>>
    BY DEF Destroyed, Leaving
  <1>2. OnlyJob(w) /\ job'[w].pc = "idle" /\ job'[w].node = NoNode
    BY <1>0, <1>1, RespondMoves
  <1>3. accessor' = accessor
    BY <1>1 DEF vars
  <1>4. OthersStay(w)
    BY <1>2, <1>3, StaysApart DEF Before, Making
  <1>5. JobOK(w)'
    BY <1>2, RequestRests
  <1>6. job[w].node = NoNode
    BY <1>0, <1>1 DEF JobOK
  <1> QED
    BY <1>1, <1>2, <1>4, <1>5, <1>6, JobStep, Classes DEF MadeOrReady, Leaving, Loading

LEMMA ShmRegisterStep ==
  ASSUME PathInv, NEW w \in Worker, NEW c \in Client, NEW p \in Id, ShmRegister(w, c, p)
  PROVE  [CarefulNext]_vars /\ PathRest'
  <1>0. PathRest /\ PathType /\ JobOK(w)
    BY DEF PathInv, PathRest
  <1>1. PICK s \in Shm :
          /\ New(s)
          /\ job' = [job EXCEPT ![w] = [Idle EXCEPT !.pc = "map", !.client = c,
                                        !.base = p, !.node = s]]
    BY DEF ShmRegister
  <1>2. /\ job[w].pc = "idle" /\ OnConnection(c, p)
        /\ UNCHANGED <<vars, known, ready, bound, slotCache>>
    BY DEF ShmRegister
  <1>3. s \in Node
    BY Classes
  <1>4. /\ OnlyJob(w) /\ job'[w].pc = "map" /\ job'[w].client = c
        /\ job'[w].base = p /\ job'[w].node = s
    <2>1. p \in 0..MaxId /\ "map" \in Stage
      BY SMT DEF Id, Stage, Before
    <2>2. [Idle EXCEPT !.pc = "map", !.client = c, !.base = p, !.node = s] \in Job
      BY <1>3, <2>1, IdleJob, JobFields
    <2>3. /\ OnlyJob(w)
          /\ job'[w] = [Idle EXCEPT !.pc = "map", !.client = c, !.base = p, !.node = s]
      BY <1>0, <1>1, <2>2, BeginMoves
    <2> QED BY <2>3 DEF Idle
  <1>5. nodeMap' = nodeMap /\ accessor' = accessor /\ Unreferenced(s)'
    BY <1>1, <1>2, StoreSame DEF SameNodes, New
  <1>6. OthersStay(w)
    BY <1>1, <1>4, <1>5, StaysApart DEF New
  <1>7. JobOK(w)'
    BY <1>2, <1>4, <1>5 DEF JobOK, Before, Making, Leaving, OnConnection, IsA
  <1>8. job[w].node = NoNode
    BY <1>0, <1>2 DEF JobOK
  <1> QED
    BY <1>2, <1>4, <1>6, <1>7, <1>8, JobStep, Classes DEF Loading

\* The reservation is rolled back and the memory discarded.
LEMMA DiscardMoves ==
  ASSUME PathType, NEW w \in Worker, job[w].node \in Shm, Discard(w)
  PROVE  /\ OnlyJob(w) /\ job'[w].pc = "rollback" /\ job'[w].node = NoNode
         /\ job'[w].client = job[w].client
  <1>1. job[w] \in Job /\ job \in [Worker -> Job]
    BY DEF PathType
  <1>2. job' = [job EXCEPT ![w] = [job[w] EXCEPT !.pc = "rollback", !.node = NoNode,
                                                 !.dying = {job[w].node}]]
    BY <1>1 DEF Discard, Job
  <1>3. "rollback" \in Stage /\ {job[w].node} \in SUBSET Shm
    BY DEF Stage, Leaving
  <1>4. [job[w] EXCEPT !.pc = "rollback", !.node = NoNode, !.dying = {job[w].node}] \in Job
    BY <1>1, <1>3 DEF Job
  <1>5. /\ OnlyJob(w)
        /\ job'[w] = [job[w] EXCEPT !.pc = "rollback", !.node = NoNode, !.dying = {job[w].node}]
    BY <1>2, <1>4, BeginMoves
  <1> QED BY <1>1, <1>5, SMT DEF Job

LEMMA ShmCreateStep ==
  ASSUME PathInv, NEW w \in Worker, ShmCreate(w)
  PROVE  [CarefulNext]_vars /\ PathRest'
  <1>0. PathRest /\ PathType /\ JobOK(w)
    BY DEF PathInv, PathRest
  <1>1. job[w].pc = "map" /\ UNCHANGED <<vars, known, ready, bound, slotCache>>
    BY DEF ShmCreate
  <1>2. /\ SameNodes /\ accessor' = accessor
        /\ \A m : Unreferenced(m) => Unreferenced(m)'
    BY <1>1, StoreSame
  <1>3. job[w].pc \in Before /\ job[w].node \in Shm /\ job[w].client \in Client
    BY <1>0, <1>1 DEF JobOK, Before
  <1>4. CASE Goto(w, "attachShm")
    <2>1. OnlyJob(w) /\ SameSubject(w) /\ job'[w].pc = "attachShm"
      BY <1>0, <1>4, GotoMoves DEF Stage, Before
    <2>2. OthersStay(w)
      BY <1>2, <1>3, <2>1, StaysApart DEF SameSubject
    <2>3. JobOK(w)'
      BY <1>0, <1>1, <1>2, <2>1 DEF JobOK, SameSubject, SameNodes, Before, Making, Leaving
    <2> QED BY <1>1, <1>3, <2>1, <2>2, <2>3, JobStep, Classes DEF Loading
  <1>5. CASE Discard(w)
    <2>1. /\ OnlyJob(w) /\ job'[w].pc = "rollback" /\ job'[w].node = NoNode
          /\ job'[w].client = job[w].client
      BY <1>0, <1>3, <1>5, DiscardMoves
    <2>2. OthersStay(w)
      BY <1>2, <2>1, StaysApart DEF Before, Making
    <2>3. JobOK(w)'
      BY <1>3, <2>1, RequestRests DEF Leaving
    <2> QED BY <1>1, <1>3, <2>1, <2>2, <2>3, JobStep, Classes DEF Loading
  <1> QED BY <1>4, <1>5 DEF ShmCreate

LEMMA CreateHandlerStep ==
  ASSUME PathInv, NEW w \in Worker, NEW c \in Client, NEW p \in Id, NEW keyed \in BOOLEAN,
         ResolveProviderAndCreateHandler(w, c, p, keyed)
  PROVE  [CarefulNext]_vars /\ PathRest'
  <1>0. PathRest /\ PathType /\ JobOK(w)
    BY DEF PathInv, PathRest
  <1>1. PICK n \in Context :
          /\ New(n)
          /\ job' = [job EXCEPT ![w] = [Idle EXCEPT !.pc = "attach", !.client = c,
                                        !.base = p, !.node = n, !.keyed = keyed]]
    BY DEF ResolveProviderAndCreateHandler
  <1>2. /\ job[w].pc = "idle" /\ OnConnection(c, p)
        /\ UNCHANGED <<vars, known, ready, bound, slotCache>>
    BY DEF ResolveProviderAndCreateHandler
  <1>3. n \in Node
    BY Classes
  <1>4. /\ OnlyJob(w) /\ job'[w].pc = "attach" /\ job'[w].client = c
        /\ job'[w].base = p /\ job'[w].node = n
    <2>1. p \in 0..MaxId /\ "attach" \in Stage
      BY SMT DEF Id, Stage, Before
    <2>2. [Idle EXCEPT !.pc = "attach", !.client = c, !.base = p, !.node = n, !.keyed = keyed] \in Job
      BY <1>3, <2>1, IdleJob, JobFields
    <2>3. /\ OnlyJob(w)
          /\ job'[w] = [Idle EXCEPT !.pc = "attach", !.client = c, !.base = p, !.node = n, !.keyed = keyed]
      BY <1>0, <1>1, <2>2, BeginMoves
    <2> QED BY <2>3 DEF Idle
  <1>5. nodeMap' = nodeMap /\ accessor' = accessor /\ Unreferenced(n)'
    BY <1>1, <1>2, StoreSame DEF SameNodes, New
  <1>6. OthersStay(w)
    BY <1>1, <1>4, <1>5, StaysApart DEF New
  <1>7. JobOK(w)'
    BY <1>2, <1>4, <1>5 DEF JobOK, Before, Making, Leaving, OnConnection, IsA
  <1>8. job[w].node = NoNode
    BY <1>0, <1>2 DEF JobOK
  <1> QED
    BY <1>2, <1>4, <1>6, <1>7, <1>8, JobStep, Classes DEF Loading

\* A request goes from one stage of CTX_CREATE to another one.
LEMMA GoesOn ==
  ASSUME NEW w \in Worker, JobOK(w), job[w].pc \in Making, job'[w].pc \in Making,
         SameSubject(w), nodeMap' = nodeMap, known' = known
  PROVE  JobOK(w)'
  BY DEF JobOK, SameSubject, Before, Making, Leaving

LEMMA InitializeStep ==
  ASSUME PathInv, NEW w \in Worker, InitializeContext(w)
  PROVE  [CarefulNext]_vars /\ PathRest'
  <1>0. PathRest /\ PathType /\ JobOK(w) /\ HoldsOwn(w)
    BY DEF PathInv, PathRest
  <1>1. job[w].pc = "init" /\ UNCHANGED <<vars, bound, slotCache>>
    BY DEF InitializeContext
  <1>2. /\ SameNodes /\ accessor' = accessor
        /\ \A m : Unreferenced(m) => Unreferenced(m)'
    BY <1>1, StoreSame
  <1>3. /\ job[w].pc \in Making /\ job[w].node \in Context /\ job[w].client \in Client
        /\ job[w].id \in Id
    BY <1>0, <1>1 DEF JobOK, Making
  <1>4. ASSUME ready' = ready \cup {job[w].node}, Tell(job[w].client, {job[w].id}), Respond(w)
        PROVE  PathRest'
    <2>1. OnlyJob(w) /\ job'[w].pc = "idle" /\ job'[w].node = NoNode
      BY <1>0, <1>4, RespondMoves
    <2>2. OthersStay(w)
      BY <1>2, <2>1, StaysApart DEF Before, Making
    <2>3. JobOK(w)'
      BY <2>1, RequestRests
    <2>4. HoldsOwn(w)'
      BY <1>0, <1>1, <1>2, <2>1 DEF HoldsOwn, Holds, Loading
    <2>5. /\ known' \in [Client -> SUBSET Id]
          /\ \A d \in Client : known[d] \subseteq known'[d]
          /\ \A d \in Client : \A i \in known'[d] :
                i \in known[d] \/ (d = job[w].client /\ i = job[w].id)
      BY <1>0, <1>3, <1>4 DEF Tell, PathType
    <2>6. PathType'
      BY <1>0, <1>1, <1>3, <1>4, <2>1, <2>5 DEF PathType, OnlyJob
    <2>7. Quiet(w)
      BY <1>1, <1>2, <1>4, <2>2, <2>5 DEF Quiet, MadeOrReady
    <2> QED BY <2>3, <2>4, <2>6, <2>7, QuietStep
  <1>5. ASSUME Goto(w, "cleanup"), UNCHANGED <<ready, known>>
        PROVE  PathRest'
    <2>1. OnlyJob(w) /\ SameSubject(w) /\ job'[w].pc = "cleanup"
      BY <1>0, <1>5, GotoMoves DEF Stage, Making
    <2>2. OthersStay(w)
      BY <1>2, <1>3, <2>1, StaysApart DEF SameSubject
    <2>3. JobOK(w)'
      BY <1>0, <1>2, <1>3, <1>5, <2>1, GoesOn DEF SameNodes, Making
    <2> QED BY <1>1, <1>5, <2>1, <2>2, <2>3, JobStep DEF Loading, SameSubject, MadeOrReady
  <1>6. PathRest'
    BY <1>4, <1>5 DEF InitializeContext
  <1> QED BY <1>1, <1>6

LEMMA CacheSlotStep ==
  ASSUME PathInv, NEW w \in Worker, CacheSlot(w)
  PROVE  [CarefulNext]_vars /\ PathRest'
  <1>0. PathRest /\ PathType /\ JobOK(w) /\ HoldsOwn(w)
    BY DEF PathInv, PathRest
  <1>1. /\ job[w].pc = "cacheSlot" /\ Respond(w)
        /\ slotCache' = [slotCache EXCEPT ![job[w].client] = job[w].id]
        /\ Tell(job[w].client, {job[w].id}) /\ UNCHANGED <<vars, ready, bound, usage>>
    BY DEF CacheSlot
  <1>2. /\ SameNodes /\ accessor' = accessor
        /\ \A m : Unreferenced(m) => Unreferenced(m)'
    BY <1>1, StoreSame
  <1>3. /\ job[w].client \in Client /\ job[w].id \in Id /\ job[w].id \in 0..MaxId
        /\ nodeMap[job[w].client][job[w].id] \in Slot
    BY <1>0, <1>1, SMT DEF JobOK, Id
  <1>4. OnlyJob(w) /\ job'[w].pc = "idle" /\ job'[w].node = NoNode
    BY <1>0, <1>1, RespondMoves
  <1>5. OthersStay(w)
    BY <1>2, <1>4, StaysApart DEF Before, Making
  <1>6. JobOK(w)'
    BY <1>4, RequestRests
  <1>7. HoldsOwn(w)'
    BY <1>0, <1>1, <1>2, <1>4 DEF HoldsOwn, Holds, Loading
  <1>8. /\ known' \in [Client -> SUBSET Id]
        /\ \A d \in Client : known[d] \subseteq known'[d]
        /\ \A d \in Client : \A i \in known'[d] :
              i \in known[d] \/ (d = job[w].client /\ i = job[w].id)
    BY <1>0, <1>1, <1>3 DEF Tell, PathType
  <1>9. /\ slotCache' \in [Client -> 0..MaxId]
        /\ \A d \in Client : slotCache'[d] # slotCache[d] => nodeMap[d][slotCache'[d]] \in Slot
    BY <1>0, <1>1, <1>3 DEF PathType
  <1>10. PathType'
    BY <1>0, <1>1, <1>4, <1>8, <1>9 DEF PathType, OnlyJob
  <1>11. job[w].node = NoNode
    BY <1>0, <1>1 DEF JobOK
  <1>12. Quiet(w)
    BY <1>1, <1>2, <1>5, <1>8, <1>9, <1>11, Classes DEF Quiet
  <1>13. PathRest'
    BY <1>6, <1>7, <1>10, <1>12, QuietStep
  <1> QED BY <1>1, <1>13

----------------------------------------------------------------------------
(* The actions that get or release an accessor.                            *)

\* A step that leaves the nodes where they are respects the accessors.
LEMMA SameRespects ==
  ASSUME CarefulInv, nodeMap' = nodeMap
  PROVE  RespectsAccessors
  BY DEF CarefulInv, AccessorInv, RespectsAccessors

LEMMA GetKeeps ==
  ASSUME CarefulInv, NEW w \in Worker, NEW c \in Client, NEW i, GetNodeAccessor(w, c, i)
  PROVE  /\ SameNodes /\ CarefulNext
         /\ \A m : Unreferenced(m) => Unreferenced(m)'
         /\ \A v \in Worker \ {w} : accessor'[v] = accessor[v]
         /\ Holds(w)' /\ accessor'[w].client = c /\ accessor'[w].id = i
         /\ accessor'[w].exclusive => nodeMap[c][i] \in Exclusive
  <1>0. w \in Holder /\ TypeOK /\ accessor \in [Holder -> Accessor \cup {NoAccessor}]
    BY DEF Worker, CarefulInv, StorageInv, TypeOK
  <1>1. i \in Stored(c) /\ i \in Id /\ nodeMap[c][i] # NoNode
    BY DEF GetNodeAccessor, Stored
  <1>2. SameNodes
    BY DEF GetNodeAccessor, SameNodes
  <1>3. PICK b \in BOOLEAN :
          /\ b => nodeMap[c][i] \in Exclusive
          /\ accessor' = [accessor EXCEPT ![w] = [node |-> nodeMap[c][i], client |-> c, id |-> i,
                                                 exclusive |-> b]]
    <2>1. CASE nodeMap[c][i] \in Exclusive
      <3>1. accessor' = [accessor EXCEPT ![w] = [node |-> nodeMap[c][i], client |-> c, id |-> i,
                                                 exclusive |-> TRUE]]
        BY <2>1 DEF GetNodeAccessor
      <3> QED BY <2>1, <3>1
    <2>2. CASE nodeMap[c][i] \notin Exclusive
      <3>0. (nodeMap[c][i] \in Exclusive) = FALSE
        BY <2>2, SMT
      <3>1. accessor' = [accessor EXCEPT ![w] = [node |-> nodeMap[c][i], client |-> c, id |-> i,
                                                 exclusive |-> FALSE]]
        BY <3>0 DEF GetNodeAccessor
      <3> QED BY <2>2, <3>1
    <2> QED BY <2>1, <2>2
  <1>4. /\ accessor'[w] = [node |-> nodeMap[c][i], client |-> c, id |-> i, exclusive |-> b]
        /\ \A v \in Holder \ {w} : accessor'[v] = accessor[v]
    BY <1>0, <1>3
  <1>5. /\ accessor'[w].client = c /\ accessor'[w].id = i
        /\ accessor'[w].node = nodeMap[c][i]
        /\ accessor'[w].exclusive = b
    BY <1>4, SMT
  <1>6. accessor'[w] # NoAccessor
    <2>1. nodeMap[c][i] \in Node
      BY <1>0, <1>1, SMT DEF TypeOK
    <2>2. accessor'[w] \in [node : Node, client : Client, id : Id, exclusive : BOOLEAN]
      BY <1>1, <1>4, <2>1, SMT
    <2> QED BY <2>2, ConstantsOK DEF Id
  <1>7. ASSUME NEW m, Unreferenced(m) PROVE Unreferenced(m)'
    <2>1. m # nodeMap[c][i]
      BY <1>1, <1>7 DEF Unreferenced, InStorage
    <2>2. ~InStorage(m)'
      BY <1>2, <1>7 DEF Unreferenced, InStorage, SameNodes
    <2>3. \A h \in Holder : ~(accessor'[h] # NoAccessor /\ accessor'[h].node = m)
      BY <1>4, <1>5, <1>7, <2>1 DEF Unreferenced, HeldBy, Holds
    <2> QED BY <2>2, <2>3 DEF Unreferenced, HeldBy, Holds
  <1>8. CarefulNext
    BY <1>0, <1>1, <1>2, SameRespects DEF SameNodes, CarefulNext, Next
  <1> QED BY <1>2, <1>3, <1>4, <1>5, <1>6, <1>7, <1>8 DEF Worker, Holds

LEMMA ReleaseKeeps ==
  ASSUME CarefulInv, NEW w \in Worker, ReleaseNodeAccessor(w)
  PROVE  /\ SameNodes /\ CarefulNext
         /\ \A m : Unreferenced(m) => Unreferenced(m)'
         /\ \A v \in Worker \ {w} : accessor'[v] = accessor[v]
         /\ ~Holds(w)'
  <1>0. w \in Holder /\ accessor \in [Holder -> Accessor \cup {NoAccessor}]
    BY DEF Worker, CarefulInv, StorageInv, TypeOK
  <1>1. SameNodes /\ accessor' = [accessor EXCEPT ![w] = NoAccessor]
    BY DEF ReleaseNodeAccessor, SameNodes
  <1>2. accessor'[w] = NoAccessor /\ \A v \in Holder \ {w} : accessor'[v] = accessor[v]
    BY <1>0, <1>1
  <1>3. ASSUME NEW m, Unreferenced(m) PROVE Unreferenced(m)'
    <2>1. ~InStorage(m)'
      BY <1>1, <1>3 DEF Unreferenced, InStorage, SameNodes
    <2>2. \A h \in Holder : ~(accessor'[h] # NoAccessor /\ accessor'[h].node = m)
      BY <1>2, <1>3 DEF Unreferenced, HeldBy, Holds
    <2> QED BY <2>1, <2>2 DEF Unreferenced, HeldBy, Holds
  <1>4. CarefulNext
    BY <1>0, <1>1, SameRespects DEF SameNodes, CarefulNext, Next
  <1> QED BY <1>1, <1>2, <1>3, <1>4 DEF Worker, Holds

\* A step of an accessor that tells the client nothing new.
LEMMA AccessStep ==
  ASSUME PathInv, NEW w \in Worker, SameNodes, OnlyJob(w), OthersStay(w),
         \A m : Unreferenced(m) => Unreferenced(m)',
         UNCHANGED <<known, ready, bound, slotCache>>, JobOK(w)', HoldsOwn(w)',
         \A n \in Context : (InStorage(n) /\ job[w].node = n /\ job[w].pc # "execute") =>
             MadeOrReady(w, n)
  PROVE  PathRest'
  <1>1. PathType'
    BY DEF PathInv, PathRest, PathType, OnlyJob
  <1>2. Quiet(w)
    BY DEF Quiet
  <1> QED BY <1>1, <1>2, QuietStep

LEMMA AuthorizeStep ==
  ASSUME PathInv, NEW w \in Worker, BindAndAuthorizeKey(w)
  PROVE  [CarefulNext]_vars /\ PathRest'
  <1>0. CarefulInv /\ PathType /\ JobOK(w) /\ HoldsOwn(w) /\ CachedSlotStored
    BY DEF PathInv, PathRest
  <1>1. job[w].pc = "bind" /\ UNCHANGED <<known, ready, bound, slotCache, usage>>
    BY DEF BindAndAuthorizeKey
  <1>2. job[w].pc \in Making /\ job[w].client \in Client
    BY <1>0, <1>1 DEF JobOK, Making
  <1>3. ASSUME Goto(w, "cleanup"), UNCHANGED vars
        PROVE  [CarefulNext]_vars /\ PathRest'
    <2>1. OnlyJob(w) /\ SameSubject(w) /\ job'[w].pc = "cleanup"
      BY <1>0, <1>3, GotoMoves DEF Stage, Making
    <2>2. SameNodes /\ accessor' = accessor
      BY <1>3, StoreSame
    <2>3. OthersStay(w)
      BY <1>2, <2>1, <2>2, StaysApart DEF SameSubject
    <2>4. JobOK(w)'
      BY <1>0, <1>1, <1>2, <2>1, <2>2, GoesOn DEF SameNodes, Making
    <2> QED BY <1>1, <1>3, <2>1, <2>3, <2>4, JobStep DEF Loading, SameSubject, MadeOrReady
  <1>4. ASSUME GetNodeAccessor(w, job[w].client, slotCache[job[w].client]), Goto(w, "load")
        PROVE  [CarefulNext]_vars /\ PathRest'
    <2>1. OnlyJob(w) /\ SameSubject(w) /\ job'[w].pc = "load"
      BY <1>0, <1>4, GotoMoves DEF Stage, Making
    <2>2. /\ SameNodes /\ CarefulNext
          /\ \A m : Unreferenced(m) => Unreferenced(m)'
          /\ \A v \in Worker \ {w} : accessor'[v] = accessor[v]
          /\ Holds(w)'
          /\ accessor'[w].exclusive =>
               nodeMap[job[w].client][slotCache[job[w].client]] \in Exclusive
      BY <1>0, <1>2, <1>4, GetKeeps
    <2>3. slotCache[job[w].client] # 0
      BY <1>4, ZeroNoId DEF GetNodeAccessor, Stored
    <2>4. nodeMap[job[w].client][slotCache[job[w].client]] \in Slot
      BY <1>0, <1>2, <2>3 DEF CachedSlotStored, IsA
    <2>5. nodeMap[job[w].client][slotCache[job[w].client]] \notin Exclusive
      BY <2>4, Classes, PathConstantsOK
    <2>6. HoldsOwn(w)'
      BY <2>1, <2>2, <2>5 DEF HoldsOwn, Loading
    <2>7. OthersStay(w)
      BY <1>2, <2>1, <2>2, StaysApart DEF SameSubject
    <2>8. JobOK(w)'
      BY <1>0, <1>1, <1>2, <2>1, <2>2, GoesOn DEF SameNodes, Making
    <2>9. PathRest'
      BY <1>1, <2>1, <2>2, <2>6, <2>7, <2>8, AccessStep DEF SameSubject, MadeOrReady
    <2> QED BY <2>2, <2>9
  <1> QED BY <1>3, <1>4 DEF BindAndAuthorizeKey

LEMMA BindReturnsStep ==
  ASSUME PathInv, NEW w \in Worker, BindReturns(w)
  PROVE  [CarefulNext]_vars /\ PathRest'
  <1>0. CarefulInv /\ PathType /\ JobOK(w)
    BY DEF PathInv, PathRest
  <1>1. /\ job[w].pc \in {"bound", "unbound"} /\ ReleaseNodeAccessor(w)
        /\ UNCHANGED <<known, ready, bound, slotCache, usage>>
    BY DEF BindReturns
  <1>2. PICK pc \in {"init", "cleanup"} : Goto(w, pc)
    BY DEF BindReturns
  <1>3. job[w].pc \in Making
    BY <1>1 DEF Making
  <1>4. OnlyJob(w) /\ SameSubject(w) /\ job'[w].pc = pc
    BY <1>0, <1>2, GotoMoves DEF Stage, Making
  <1>5. /\ SameNodes /\ CarefulNext
        /\ \A m : Unreferenced(m) => Unreferenced(m)'
        /\ \A v \in Worker \ {w} : accessor'[v] = accessor[v]
        /\ ~Holds(w)'
    BY <1>0, <1>1, ReleaseKeeps
  <1>6. HoldsOwn(w)'
    BY <1>4, <1>5 DEF HoldsOwn, Loading
  <1>7. OthersStay(w)
    BY <1>3, <1>4, <1>5, StaysApart DEF SameSubject
  <1>8. JobOK(w)'
    BY <1>0, <1>1, <1>3, <1>4, <1>5, GoesOn DEF SameNodes, Making
  <1>9. PathRest'
    BY <1>1, <1>4, <1>5, <1>6, <1>7, <1>8, AccessStep DEF SameSubject, MadeOrReady
  <1> QED BY <1>5, <1>9

LEMMA ForwardStep ==
  ASSUME PathInv, NEW w \in Worker, NEW c \in Client, NEW i \in Id,
         ForwardSingleOperation(w, c, i)
  PROVE  [CarefulNext]_vars /\ PathRest'
  <1>0. CarefulInv /\ StorageInv /\ PathType /\ JobOK(w)
    BY DEF PathInv, PathRest, CarefulInv
  <1>1. /\ job[w].pc = "idle" /\ i \in known[c] /\ nodeMap[c][i] \in Context
        /\ GetNodeAccessor(w, c, i)
        /\ job' = [job EXCEPT ![w] = [Idle EXCEPT !.pc = "execute", !.client = c,
                                      !.node = nodeMap[c][i], !.id = i]]
        /\ UNCHANGED <<known, ready, bound, slotCache, usage>>
    BY DEF ForwardSingleOperation, IsA
  <1>2. /\ OnlyJob(w) /\ job'[w].pc = "execute" /\ job'[w].client = c
        /\ job'[w].node = nodeMap[c][i] /\ job'[w].id = i
    <2>1. i \in 0..MaxId /\ "execute" \in Stage /\ nodeMap[c][i] \in Node
      BY <1>1, Classes, SMT DEF Id, Stage
    <2>2. [Idle EXCEPT !.pc = "execute", !.client = c, !.node = nodeMap[c][i], !.id = i] \in Job
      BY <2>1, IdleJob, JobFields
    <2>3. /\ OnlyJob(w)
          /\ job'[w] = [Idle EXCEPT !.pc = "execute", !.client = c, !.node = nodeMap[c][i], !.id = i]
      BY <1>0, <1>1, <2>2, BeginMoves
    <2> QED BY <2>3 DEF Idle
  <1>3. /\ SameNodes /\ CarefulNext
        /\ \A m : Unreferenced(m) => Unreferenced(m)'
        /\ \A v \in Worker \ {w} : accessor'[v] = accessor[v]
        /\ Holds(w)' /\ accessor'[w].client = c /\ accessor'[w].id = i
    BY <1>0, <1>1, GetKeeps
  <1>4. ASSUME NEW v \in Worker \ {w}, job[v].pc \in Before \cup Making
        PROVE  job[v].node # nodeMap[c][i]
    <2>1. JobOK(v)
      BY DEF PathInv, PathRest
    <2>2. CASE job[v].pc \in Before
      <3>1. ~InStorage(job[v].node)
        BY <2>1, <2>2 DEF JobOK, Unreferenced
      <3> QED BY <3>1 DEF InStorage
    <2>3. CASE job[v].pc \in Making
      <3>1. /\ job[v].client \in Client /\ job[v].id \in Id /\ job[v].node \in Context
            /\ nodeMap[job[v].client][job[v].id] = job[v].node
            /\ job[v].id \notin known[job[v].client]
        BY <2>1, <2>3 DEF JobOK, Making
      <3>2. job[v].client # c \/ job[v].id # i
        BY <1>1, <3>1
      <3>3. nodeMap[c][i] # NoNode
        BY <1>1, Classes
      <3>4. nodeMap[job[v].client][job[v].id] # nodeMap[c][i]
        <4>1. ASSUME nodeMap[job[v].client][job[v].id] = nodeMap[c][i] PROVE FALSE
          <5>1. job[v].client = c /\ job[v].id = i
            BY <1>0, <3>1, <3>3, <4>1, SMT DEF StorageInv, StoredOnce
          <5> QED BY <3>2, <5>1
        <4> QED BY <4>1
      <3> QED BY <3>1, <3>4
    <2> QED BY <1>4, <2>2, <2>3
  <1>5. OthersStay(w)
    BY <1>2, <1>3, <1>4 DEF OthersStay, OnlyJob, Before, Making
  <1>6. JobOK(w)'
    BY <1>1, <1>2, <1>3 DEF JobOK, SameNodes, Before, Making, Leaving
  <1>7. HoldsOwn(w)'
    BY <1>2, <1>3 DEF HoldsOwn, Loading
  <1>8. job[w].node = NoNode
    BY <1>0, <1>1 DEF JobOK
  <1>9. PathRest'
    BY <1>1, <1>2, <1>3, <1>5, <1>6, <1>7, <1>8, AccessStep, Classes
  <1> QED BY <1>3, <1>9

LEMMA ExecuteReturnsStep ==
  ASSUME PathInv, NEW w \in Worker, ExecuteReturns(w)
  PROVE  [CarefulNext]_vars /\ PathRest'
  <1>0. CarefulInv /\ PathType
    BY DEF PathInv, PathRest
  <1>1. /\ job[w].pc = "execute" /\ ReleaseNodeAccessor(w) /\ Respond(w)
        /\ UNCHANGED <<known, ready, bound, slotCache, usage>>
    BY DEF ExecuteReturns
  <1>2. OnlyJob(w) /\ job'[w].pc = "idle" /\ job'[w].node = NoNode
    BY <1>0, <1>1, RespondMoves
  <1>3. /\ SameNodes /\ CarefulNext
        /\ \A m : Unreferenced(m) => Unreferenced(m)'
        /\ \A v \in Worker \ {w} : accessor'[v] = accessor[v]
        /\ ~Holds(w)'
    BY <1>0, <1>1, ReleaseKeeps
  <1>4. OthersStay(w)
    BY <1>2, <1>3, StaysApart DEF Before, Making
  <1>5. JobOK(w)'
    BY <1>2, RequestRests
  <1>6. HoldsOwn(w)'
    BY <1>2, <1>3 DEF HoldsOwn, Loading
  <1>7. PathRest'
    BY <1>1, <1>2, <1>3, <1>4, <1>5, <1>6, AccessStep
  <1> QED BY <1>3, <1>7

----------------------------------------------------------------------------
(* The actions that store an object.                                       *)

\* Storing an object moves no other one, so no accessor loses its node.
LEMMA GrowsRespects ==
  ASSUME CarefulInv, NEW c \in Client, NEW p, NEW n, NEW id, Grows(c, p, n, id)
  PROVE  RespectsAccessors
  <1>1. SUFFICES ASSUME NEW h \in Holder, Holds(h), accessor[h].exclusive
                 PROVE  nodeMap'[accessor[h].client][accessor[h].id] = accessor[h].node
    BY DEF RespectsAccessors
  <1>2. accessor[h] \in Accessor
    BY <1>1 DEF CarefulInv, StorageInv, TypeOK, Holds
  <1>3. accessor[h].client \in Client /\ accessor[h].id \in Id /\ accessor[h].node \in Node
    BY <1>2 DEF Accessor
  <1>4. nodeMap[accessor[h].client][accessor[h].id] = accessor[h].node
    BY <1>1 DEF CarefulInv, AccessorInv
  <1>5. nodeMap[accessor[h].client][accessor[h].id] # NoNode
    BY <1>3, <1>4, ConstantsOK
  <1> QED BY <1>3, <1>4, <1>5, GrowsKeeps

LEMMA RootAdded ==
  ASSUME CarefulInv, NEW c \in Client, NEW n \in Node, Unreferenced(n), Attach(c, 0, n)
  PROVE  CarefulNext /\ \E id \in Id : Grows(c, 0, n, id)
  <1>1. 0 \in 0..MaxId
    BY ConstantsOK, SMT
  <1>2. PICK id \in Id : Grows(c, 0, n, id)
    BY <1>1, AttachGrows DEF CarefulInv, Unreferenced
  <1>3. Next
    BY DEF Next, AddNode
  <1> QED BY <1>2, <1>3, GrowsRespects DEF CarefulNext

LEMMA ChildAdded ==
  ASSUME CarefulInv, NEW c \in Client, NEW p, NEW n \in Node, Unreferenced(n), Added(c, p, n)
  PROVE  CarefulNext /\ \E id \in Id : Grows(c, p, n, id)
  <1>0. p \in Stored(c) /\ p \in Id /\ Attach(c, p, n)
    BY DEF Added, Stored
  <1>1. p \in 0..MaxId
    BY <1>0, SMT DEF Id
  <1>2. PICK id \in Id : Grows(c, p, n, id)
    BY <1>0, <1>1, AttachGrows DEF CarefulInv, Unreferenced
  <1>3. Next
    BY <1>0 DEF Next, AddChildNode
  <1> QED BY <1>2, <1>3, GrowsRespects DEF CarefulNext

\* A full table only moves the counter.
LEMMA QuotaKeeps ==
  ASSUME NEW c, QuotaExceeded(c)
  PROVE  /\ SameNodes /\ accessor' = accessor
         /\ \A m : Unreferenced(m) => Unreferenced(m)'
  BY DEF QuotaExceeded, SameNodes, Unreferenced, InStorage, HeldBy, Holds

LEMMA AddFailsKeeps ==
  ASSUME CarefulInv, NEW c \in Client, NEW p, NEW n \in Node, Unreferenced(n), AddFails(c, p)
  PROVE  /\ SameNodes /\ accessor' = accessor
         /\ \A m : Unreferenced(m) => Unreferenced(m)'
         /\ [CarefulNext]_vars
  <1>1. CASE p \in Stored(c)
    <2>1. QuotaExceeded(c) /\ p \in Id
      BY <1>1 DEF AddFails, Stored
    <2>2. Next
      BY <1>1, <2>1 DEF Next, AddChildNode
    <2> QED BY <2>1, <2>2, QuotaKeeps, SameRespects DEF CarefulNext, SameNodes
  <1>2. CASE p \notin Stored(c)
    <2>1. UNCHANGED vars
      BY <1>2 DEF AddFails
    <2> QED BY <2>1, StoreSame
  <1> QED BY <1>1, <1>2

\* Telling an id keeps what the client knows.
LEMMA TellAdds ==
  ASSUME PathType, NEW c \in Client, NEW S \in SUBSET Id, Tell(c, S)
  PROVE  /\ known' \in [Client -> SUBSET Id]
         /\ \A d \in Client : known[d] \subseteq known'[d]
         /\ \A d \in Client : \A i \in known'[d] : i \in known[d] \/ (d = c /\ i \in S)
  BY DEF PathType, Tell

LEMMA ConnectionStep ==
  ASSUME PathInv, NEW w \in Worker, NEW c \in Client, ProcessConnectionCreation(w, c)
  PROVE  [CarefulNext]_vars /\ PathRest'
  <1>0. CarefulInv /\ PathRest /\ PathType /\ JobOK(w) /\ HoldsOwn(w)
    BY DEF PathInv, PathRest
  <1>1. PICK n \in Connection : New(n) /\ AddNode(c, n) /\ Tell(c, IdOf(c, n))
    BY DEF ProcessConnectionCreation
  <1>2. job[w].pc = "idle" /\ UNCHANGED <<job, ready, bound, slotCache, usage>>
    BY DEF ProcessConnectionCreation
  <1>3. n \in Node /\ Unreferenced(n) /\ \A v \in Worker : n # job[v].node
    BY <1>1, Classes DEF New
  <1>4. OnlyJob(w) /\ job'[w].pc = "idle" /\ job'[w].node = NoNode /\ job[w].node = NoNode
    BY <1>0, <1>2 DEF OnlyJob, PathType, JobOK
  <1>5. JobOK(w)'
    BY <1>4, RequestRests
  <1>6. CASE Attach(c, 0, n)
    <2>1. CarefulNext /\ \E id \in Id : Grows(c, 0, n, id)
      BY <1>0, <1>3, <1>6, RootAdded
    <2>2. PICK id \in Id : Grows(c, 0, n, id)
      BY <2>1
    <2>3. IdOf(c, n) = {id} /\ accessor' = accessor
      BY <2>2 DEF Grows
    <2>4. /\ known' \in [Client -> SUBSET Id]
          /\ \A d \in Client : known[d] \subseteq known'[d]
          /\ \A d \in Client : \A i \in known'[d] : i \in known[d] \/ (d = c /\ i = id)
      BY <1>0, <1>1, <2>3, TellAdds
    <2>5. OthersStay(w)
      BY <1>4, <2>3, StaysApart DEF Before, Making
    <2>6. HoldsOwn(w)'
      BY <1>0, <1>2, <2>3 DEF HoldsOwn, Holds
    <2>7. PathType'
      BY <1>0, <1>2, <2>4 DEF PathType
    <2>8. Adds(w, c, 0, n, id)
      BY <1>2, <1>3, <1>4, <2>2, <2>4, <2>5, Classes DEF Adds, Placed
    <2>9. PathRest'
      BY <1>3, <1>5, <2>6, <2>7, <2>8, AddsStep
    <2> QED BY <2>1, <2>9
  <1>7. CASE QuotaExceeded(c)
    <2>1. /\ SameNodes /\ accessor' = accessor
          /\ \A m : Unreferenced(m) => Unreferenced(m)'
      BY <1>7, QuotaKeeps
    <2>2. IdOf(c, n) = {}
      BY <1>3, <2>1 DEF IdOf, SameNodes, Unreferenced, InStorage
    <2>3. /\ known' \in [Client -> SUBSET Id]
          /\ \A d \in Client : known[d] \subseteq known'[d]
          /\ \A d \in Client : \A i \in known'[d] : i \in known[d] \/ (d = c /\ i \in {})
      BY <1>0, <1>1, <2>2, TellAdds
    <2>4. OthersStay(w)
      BY <1>4, <2>1, StaysApart DEF Before, Making
    <2>5. HoldsOwn(w)'
      BY <1>0, <1>2, <2>1 DEF HoldsOwn, Holds
    <2>6. PathType'
      BY <1>0, <1>2, <2>3 DEF PathType
    <2>7. Quiet(w)
      BY <1>2, <1>4, <2>1, <2>3, <2>4, Classes DEF Quiet
    <2>8. PathRest'
      BY <1>5, <2>5, <2>6, <2>7, QuietStep
    <2>9. CarefulNext
      BY <1>0, <1>1, <1>3, <2>1, SameRespects DEF CarefulNext, Next, SameNodes
    <2> QED BY <2>8, <2>9
  <1> QED BY <1>1, <1>6, <1>7 DEF AddNode

LEMMA ShmAttachStep ==
  ASSUME PathInv, NEW w \in Worker, ShmAttach(w)
  PROVE  [CarefulNext]_vars /\ PathRest'
  <1>0. CarefulInv /\ PathRest /\ PathType /\ JobOK(w) /\ HoldsOwn(w)
    BY DEF PathInv, PathRest
  <1>1. job[w].pc = "attachShm" /\ UNCHANGED <<ready, bound, slotCache, usage>>
    BY DEF ShmAttach
  <1>2. PICK c, p, n : c = job[w].client /\ p = job[w].base /\ n = job[w].node
    OBVIOUS
  <1>3. /\ c \in Client /\ p \in Id /\ nodeMap[c][p] \in Connection
        /\ n \in Shm /\ Unreferenced(n) /\ job[w].pc \in Before
    BY <1>0, <1>1, <1>2 DEF JobOK, Before
  <1>4. n \in Node /\ n \notin Context /\ n \notin BoundKey
    BY <1>3, Classes
  <1>5. \A v \in Worker \ {w} : job[v].node # n
    BY <1>0, <1>2, <1>3 DEF PathRest, OwnNode
  <1>6. ASSUME Added(c, p, n), Tell(c, IdOf(c, n)), Respond(w)
        PROVE  [CarefulNext]_vars /\ PathRest'
    <2>1. CarefulNext /\ \E id \in Id : Grows(c, p, n, id)
      BY <1>0, <1>3, <1>4, <1>6, ChildAdded
    <2>2. PICK id \in Id : Grows(c, p, n, id)
      BY <2>1
    <2>3. IdOf(c, n) = {id} /\ accessor' = accessor
      BY <2>2 DEF Grows
    <2>4. /\ known' \in [Client -> SUBSET Id]
          /\ \A d \in Client : known[d] \subseteq known'[d]
          /\ \A d \in Client : \A i \in known'[d] : i \in known[d] \/ (d = c /\ i = id)
      BY <1>0, <1>3, <1>6, <2>3, TellAdds
    <2>5. OnlyJob(w) /\ job'[w].pc = "idle" /\ job'[w].node = NoNode
      BY <1>0, <1>6, RespondMoves
    <2>6. OthersStay(w)
      BY <2>3, <2>5, StaysApart DEF Before, Making
    <2>7. JobOK(w)'
      BY <2>5, RequestRests
    <2>8. HoldsOwn(w)'
      BY <1>0, <1>1, <2>3, <2>5 DEF HoldsOwn, Holds, Loading
    <2>9. PathType'
      BY <1>0, <1>1, <2>4, <2>5 DEF PathType, OnlyJob
    <2>10. Placed(c, p, n)
      BY <1>3, Classes DEF Placed
    <2>11. Adds(w, c, p, n, id)
      BY <1>1, <1>2, <1>4, <1>5, <2>2, <2>4, <2>6, <2>10 DEF Adds
    <2>12. PathRest'
      BY <1>3, <1>4, <2>7, <2>8, <2>9, <2>11, AddsStep
    <2> QED BY <2>1, <2>12
  <1>7. ASSUME AddFails(c, p), Discard(w), UNCHANGED known
        PROVE  [CarefulNext]_vars /\ PathRest'
    <2>1. /\ SameNodes /\ accessor' = accessor
          /\ \A m : Unreferenced(m) => Unreferenced(m)'
          /\ [CarefulNext]_vars
      BY <1>0, <1>3, <1>4, <1>7, AddFailsKeeps
    <2>2. /\ OnlyJob(w) /\ job'[w].pc = "rollback" /\ job'[w].node = NoNode
          /\ job'[w].client = job[w].client
      BY <1>0, <1>2, <1>3, <1>7, DiscardMoves
    <2>3. OthersStay(w)
      BY <2>1, <2>2, StaysApart DEF Before, Making
    <2>4. JobOK(w)'
      BY <1>2, <1>3, <2>2, RequestRests DEF Leaving
    <2>5. HoldsOwn(w)'
      BY <1>0, <1>1, <2>1, <2>2 DEF HoldsOwn, Holds, Loading
    <2>6. PathRest'
      BY <1>1, <1>2, <1>4, <1>7, <2>1, <2>2, <2>3, <2>4, <2>5, AccessStep
    <2> QED BY <2>1, <2>6
  <1> QED BY <1>2, <1>6, <1>7 DEF ShmAttach

LEMMA ResolveKeySlotStep ==
  ASSUME PathInv, NEW w \in Worker, NEW c \in Client, NEW p \in Id, ResolveKeySlot(w, c, p)
  PROVE  [CarefulNext]_vars /\ PathRest'
  <1>0. CarefulInv /\ PathRest /\ PathType /\ JobOK(w) /\ HoldsOwn(w)
    BY DEF PathInv, PathRest
  <1>1. PICK n \in Slot :
          /\ New(n) /\ Attach(c, 0, n)
          /\ \E i \in IdOf(c, n) :
               job' = [job EXCEPT ![w] = [Idle EXCEPT !.pc = "cacheSlot", !.client = c,
                                          !.base = p, !.id = i]]
    BY DEF ResolveKeySlot
  <1>2. job[w].pc = "idle" /\ UNCHANGED <<known, ready, bound, slotCache, usage>>
    BY DEF ResolveKeySlot
  <1>3. n \in Node /\ Unreferenced(n) /\ \A v \in Worker : n # job[v].node
    BY <1>1, Classes DEF New
  <1>4. CarefulNext /\ \E id \in Id : Grows(c, 0, n, id)
    BY <1>0, <1>1, <1>3, RootAdded
  <1>5. PICK id \in Id : Grows(c, 0, n, id)
    BY <1>4
  <1>6. IdOf(c, n) = {id} /\ accessor' = accessor /\ nodeMap'[c][id] = n
    BY <1>5 DEF Grows
  <1>7. job' = [job EXCEPT ![w] = [Idle EXCEPT !.pc = "cacheSlot", !.client = c,
                                   !.base = p, !.id = id]]
    BY <1>1, <1>6
  <1>8. /\ OnlyJob(w) /\ job'[w].pc = "cacheSlot" /\ job'[w].client = c
        /\ job'[w].id = id /\ job'[w].node = NoNode
    <2>1. p \in 0..MaxId /\ id \in 0..MaxId /\ "cacheSlot" \in Stage
      BY SMT DEF Id, Stage
    <2>2. [Idle EXCEPT !.pc = "cacheSlot", !.client = c, !.base = p, !.id = id] \in Job
      BY <2>1, IdleJob, JobFields
    <2>3. /\ OnlyJob(w)
          /\ job'[w] = [Idle EXCEPT !.pc = "cacheSlot", !.client = c, !.base = p, !.id = id]
      BY <1>0, <1>7, <2>2, BeginMoves
    <2> QED BY <2>3 DEF Idle
  <1>9. OthersStay(w)
    BY <1>6, <1>8, StaysApart DEF Before, Making
  <1>10. JobOK(w)'
    BY <1>6, <1>8 DEF JobOK, Before, Making, Leaving
  <1>11. HoldsOwn(w)'
    BY <1>0, <1>2, <1>6, <1>8 DEF HoldsOwn, Holds, Loading
  <1>12. PathType'
    BY <1>0, <1>2, <1>8 DEF PathType, OnlyJob
  <1>13. job[w].node = NoNode
    BY <1>0, <1>2 DEF JobOK
  <1>14. Adds(w, c, 0, n, id)
    BY <1>2, <1>3, <1>5, <1>9, <1>13, Classes DEF Adds, Placed
  <1>15. PathRest'
    BY <1>3, <1>10, <1>11, <1>12, <1>14, AddsStep
  <1> QED BY <1>4, <1>15

\* The job of a CTX_CREATE whose context has got its id.
LEMMA AttachedMoves ==
  ASSUME PathType, NEW w \in Worker, NEW pc \in Stage, NEW i \in 0..MaxId,
         job' = [job EXCEPT ![w].pc = pc, ![w].id = i]
  PROVE  /\ OnlyJob(w) /\ job'[w].pc = pc /\ job'[w].id = i
         /\ job'[w].node = job[w].node /\ job'[w].client = job[w].client
  <1>1. job[w] \in Job /\ job \in [Worker -> Job]
    BY DEF PathType
  <1>2. job' = [job EXCEPT ![w] = [job[w] EXCEPT !.pc = pc, !.id = i]]
    BY <1>1 DEF Job
  <1>3. [job[w] EXCEPT !.pc = pc, !.id = i] \in Job
    BY <1>1 DEF Job
  <1>4. OnlyJob(w) /\ job'[w] = [job[w] EXCEPT !.pc = pc, !.id = i]
    BY <1>2, <1>3, BeginMoves
  <1> QED BY <1>1, <1>4 DEF Job

LEMMA AttachContextStep ==
  ASSUME PathInv, NEW w \in Worker, AttachContext(w)
  PROVE  [CarefulNext]_vars /\ PathRest'
  <1>0. CarefulInv /\ PathRest /\ PathType /\ JobOK(w) /\ HoldsOwn(w)
    BY DEF PathInv, PathRest
  <1>1. /\ job[w].pc = "attach" /\ UNCHANGED <<known, slotCache, usage>>
        /\ ready' = ready \ {job[w].node}
        /\ bound' = [bound EXCEPT ![job[w].node] = NoNode]
    BY DEF AttachContext
  <1>2. PICK c, p, n : c = job[w].client /\ p = job[w].base /\ n = job[w].node
    OBVIOUS
  <1>3. /\ c \in Client /\ p \in Id /\ nodeMap[c][p] \in Connection
        /\ n \in Context /\ Unreferenced(n) /\ job[w].pc \in Before
    BY <1>0, <1>1, <1>2 DEF JobOK, Before
  <1>4. n \in Node /\ n \notin BoundKey /\ ~InStorage(n)
    BY <1>3, Classes DEF Unreferenced
  <1>5. \A v \in Worker \ {w} : job[v].node # n
    BY <1>0, <1>2, <1>3 DEF PathRest, OwnNode
  <1>6. /\ ready' \in SUBSET Context
        /\ bound' \in [Context -> BoundKey \cup {NoNode}]
        /\ bound'[n] = NoNode
        /\ \A m \in Context : m # n => bound'[m] = bound[m] /\ (m \in ready => m \in ready')
    BY <1>0, <1>1, <1>2, <1>3 DEF PathType
  <1>7. ASSUME Added(c, p, n),
               NEW pc \in {"bind", "init"}, NEW i \in IdOf(c, n),
               job' = [job EXCEPT ![w].pc = pc, ![w].id = i]
        PROVE  [CarefulNext]_vars /\ PathRest'
    <2>1. CarefulNext /\ \E id \in Id : Grows(c, p, n, id)
      BY <1>0, <1>3, <1>4, <1>7, ChildAdded
    <2>2. PICK id \in Id : Grows(c, p, n, id)
      BY <2>1
    <2>3. /\ IdOf(c, n) = {id} /\ accessor' = accessor /\ nodeMap'[c][id] = n
          /\ nodeMap[c][id] = NoNode
      BY <2>2 DEF Grows, Stored
    <2>4. i = id /\ i \in 0..MaxId /\ pc \in Stage /\ pc \in Making
      BY <1>7, <2>3, SMT DEF Stage, Making, Id
    <2>5. /\ OnlyJob(w) /\ job'[w].pc = pc /\ job'[w].id = id
          /\ job'[w].node = n /\ job'[w].client = c
      BY <1>0, <1>2, <1>7, <2>4, AttachedMoves
    <2>6. OthersStay(w)
      BY <1>2, <1>3, <2>3, <2>5, StaysApart
    <2>7. id \notin known[c]
      BY <1>0, <1>3, <2>3, Classes DEF PathRest, KnownStored
    <2>8. JobOK(w)'
      BY <1>1, <1>3, <1>7, <2>3, <2>5, <2>7 DEF JobOK, Before, Making, Leaving
    <2>9. HoldsOwn(w)'
      BY <1>0, <1>1, <1>7, <2>3, <2>5 DEF HoldsOwn, Holds, Loading
    <2>10. PathType'
      BY <1>0, <1>1, <1>6, <2>5 DEF PathType, OnlyJob
    <2>11. Placed(c, p, n)
      BY <1>3, Classes DEF Placed
    <2>12. MadeOrReady(w, n)
      BY <1>7, <2>5 DEF MadeOrReady
    <2>13. \A d \in Client : \A k \in Id : nodeMap[d][k] \in Context =>
              bound'[nodeMap[d][k]] = bound[nodeMap[d][k]]
      BY <1>4, <1>6 DEF InStorage
    <2>14. \A m \in Context : InStorage(m) =>
              /\ m \in ready => m \in ready'
              /\ (job[w].node = m /\ job[w].pc # "execute") => MadeOrReady(w, m)
      BY <1>2, <1>4, <1>6
    <2>15. Adds(w, c, p, n, id)
      BY <1>1, <1>4, <1>5, <1>6, <2>2, <2>6, <2>11, <2>12, <2>13, <2>14 DEF Adds
    <2>16. PathRest'
      BY <1>3, <1>4, <2>8, <2>9, <2>10, <2>15, AddsStep
    <2> QED BY <2>1, <2>16
  <1>8. ASSUME AddFails(c, p), Respond(w)
        PROVE  [CarefulNext]_vars /\ PathRest'
    <2>1. /\ SameNodes /\ accessor' = accessor
          /\ \A m : Unreferenced(m) => Unreferenced(m)'
          /\ [CarefulNext]_vars
      BY <1>0, <1>3, <1>4, <1>8, AddFailsKeeps
    <2>2. OnlyJob(w) /\ job'[w].pc = "idle" /\ job'[w].node = NoNode
      BY <1>0, <1>8, RespondMoves
    <2>3. OthersStay(w)
      BY <2>1, <2>2, StaysApart DEF Before, Making
    <2>4. JobOK(w)'
      BY <2>2, RequestRests
    <2>5. HoldsOwn(w)'
      BY <1>0, <1>1, <2>1, <2>2 DEF HoldsOwn, Holds, Loading
    <2>6. PathType'
      BY <1>0, <1>1, <1>6, <2>2 DEF PathType, OnlyJob
    <2>7. \A m \in Context : InStorage(m) => m # n
      BY <1>4
    <2>8. Quiet(w)
      BY <1>1, <1>2, <1>6, <2>1, <2>3, <2>7 DEF Quiet
    <2>9. PathRest'
      BY <2>4, <2>5, <2>6, <2>8, QuietStep
    <2> QED BY <2>1, <2>9
  <1>9. \/ /\ Added(c, p, n)
           /\ \E i \in IdOf(c, n) : \E pc \in {"bind", "init"} :
                job' = [job EXCEPT ![w].pc = pc, ![w].id = i]
        \/ AddFails(c, p) /\ Respond(w)
    BY <1>2 DEF AttachContext
  <1> QED BY <1>7, <1>8, <1>9

LEMMA BindKeyStep ==
  ASSUME PathInv, NEW w \in Worker, BindKeyToContext(w)
  PROVE  [CarefulNext]_vars /\ PathRest'
  <1>0. CarefulInv /\ PathRest /\ PathType /\ JobOK(w) /\ HoldsOwn(w) /\ StorageInv
    BY DEF PathInv, PathRest, CarefulInv
  <1>1. job[w].pc = "load" /\ UNCHANGED <<known, ready, slotCache, usage>>
    BY DEF BindKeyToContext
  <1>2. PICK c, i, x : c = job[w].client /\ i = job[w].id /\ x = job[w].node
    OBVIOUS
  <1>3. /\ c \in Client /\ i \in Id /\ nodeMap[c][i] = x /\ x \in Context
        /\ job[w].pc \in Making
    BY <1>0, <1>1, <1>2 DEF JobOK, Making
  <1>4. ASSUME accessor' = accessor, NEW pc \in {"bound", "unbound"}, Goto(w, pc)
        PROVE  /\ OnlyJob(w) /\ SameSubject(w) /\ job'[w].pc = pc
               /\ OthersStay(w) /\ HoldsOwn(w)'
    <2>1. OnlyJob(w) /\ SameSubject(w) /\ job'[w].pc = pc
      BY <1>0, <1>4, GotoMoves DEF Stage, Making
    <2>2. OthersStay(w)
      BY <1>3, <1>4, <2>1, StaysApart DEF SameSubject
    <2> QED BY <1>0, <1>1, <1>4, <2>1, <2>2 DEF HoldsOwn, Holds, Loading
  <1>5. ASSUME NEW k \in BoundKey, New(k), Added(c, i, k),
               bound' = [bound EXCEPT ![x] = k], Goto(w, "bound")
        PROVE  [CarefulNext]_vars /\ PathRest'
    <2>1. k \in Node /\ Unreferenced(k) /\ \A v \in Worker : k # job[v].node
      BY <1>5, Classes DEF New
    <2>2. CarefulNext /\ \E id \in Id : Grows(c, i, k, id)
      BY <1>0, <1>3, <1>5, <2>1, ChildAdded
    <2>3. PICK id \in Id : Grows(c, i, k, id)
      BY <2>2
    <2>4. accessor' = accessor /\ nodeMap'[c][id] = k /\ id \in children'[c][i]
      BY <1>3, <2>3 DEF Grows
    <2>5. /\ OnlyJob(w) /\ SameSubject(w) /\ job'[w].pc = "bound"
          /\ OthersStay(w) /\ HoldsOwn(w)'
      BY <1>4, <1>5, <2>4
    <2>6. nodeMap'[c][i] = x
      BY <1>3, <2>3, GrowsKeeps, Classes
    <2>7. JobOK(w)'
      BY <1>0, <1>1, <1>2, <1>3, <2>5, <2>6 DEF JobOK, SameSubject, Before, Making, Leaving
    <2>8. /\ bound' \in [Context -> BoundKey \cup {NoNode}] /\ bound'[x] = k
          /\ \A m \in Context : m # x => bound'[m] = bound[m]
      BY <1>0, <1>3, <1>5 DEF PathType
    <2>9. PathType'
      BY <1>0, <1>1, <2>5, <2>8 DEF PathType, OnlyJob
    <2>10. ASSUME NEW d \in Client, NEW e \in Id, nodeMap[d][e] \in Context
           PROVE  \/ bound'[nodeMap[d][e]] = bound[nodeMap[d][e]]
                  \/ \E y \in children'[d][e] : nodeMap'[d][y] = bound'[nodeMap[d][e]]
      <3>1. CASE nodeMap[d][e] # x
        BY <2>8, <2>10, <3>1
      <3>2. CASE nodeMap[d][e] = x
        <4>1. nodeMap[d][e] # NoNode
          BY <2>10, Classes
        <4>2. d = c /\ e = i
          BY <1>0, <1>3, <3>2, <4>1, SMT DEF StorageInv, StoredOnce
        <4> QED BY <2>4, <2>8, <3>2, <4>2
      <3> QED BY <3>1, <3>2
    <2>11. Placed(c, i, k) /\ k \notin Context
      BY <1>3, Classes DEF Placed
    <2>12. \A m \in Context : (job[w].node = m /\ job[w].pc # "execute") => MadeOrReady(w, m)
      BY <2>5 DEF MadeOrReady, SameSubject
    <2>13. Adds(w, c, i, k, id)
      BY <1>1, <2>1, <2>3, <2>5, <2>10, <2>11, <2>12 DEF Adds
    <2>14. PathRest'
      BY <1>3, <2>1, <2>5, <2>7, <2>9, <2>13, AddsStep
    <2> QED BY <2>2, <2>14
  <1>6. ASSUME SameNodes, accessor' = accessor, \A m : Unreferenced(m) => Unreferenced(m)',
               Goto(w, "unbound"), bound' = bound
        PROVE  PathRest'
    <2>1. /\ OnlyJob(w) /\ SameSubject(w) /\ job'[w].pc = "unbound"
          /\ OthersStay(w) /\ HoldsOwn(w)'
      BY <1>4, <1>6
    <2>2. JobOK(w)'
      BY <1>0, <1>1, <1>3, <1>6, <2>1, GoesOn DEF SameNodes, Making
    <2> QED BY <1>1, <1>6, <2>1, <2>2, AccessStep DEF SameSubject, MadeOrReady
  <1>7. ASSUME NEW k \in BoundKey, New(k), AddFails(c, i), Goto(w, "unbound"), UNCHANGED bound
        PROVE  [CarefulNext]_vars /\ PathRest'
    <2>1. k \in Node /\ Unreferenced(k)
      BY <1>7, Classes DEF New
    <2>2. /\ SameNodes /\ accessor' = accessor
          /\ \A m : Unreferenced(m) => Unreferenced(m)'
          /\ [CarefulNext]_vars
      BY <1>0, <1>3, <1>7, <2>1, AddFailsKeeps
    <2> QED BY <1>6, <1>7, <2>2
  <1>8. ASSUME Goto(w, "unbound"), UNCHANGED <<vars, bound>>
        PROVE  [CarefulNext]_vars /\ PathRest'
    <2>1. /\ SameNodes /\ accessor' = accessor
          /\ \A m : Unreferenced(m) => Unreferenced(m)'
      BY <1>8, StoreSame
    <2> QED BY <1>6, <1>8, <2>1
  <1> QED BY <1>2, <1>5, <1>7, <1>8 DEF BindKeyToContext

\* An accessor that excludes others is held for an operation on its node, so a
\* deletion that spares the other requests keeps to the contract of the store.
LEMMA DropsRespects ==
  ASSUME PathInv, NEW w \in Worker, NEW c \in Client, NEW r \in Id, DeleteNode(c, r),
         \A v \in Worker \ {w} : Spared(v, c, r),
         job[w].pc \notin Loading \cup {"execute"}
  PROVE  CarefulNext /\ Shrinks(c, r)
  <1>0. CarefulInv /\ StorageInv /\ PathRest
    BY DEF PathInv, CarefulInv
  <1>1. Shrinks(c, r)
    BY <1>0, DeleteShrinks
  <1>2. Next
    BY DEF Next
  <1>3. RespectsAccessors
    <2>1. SUFFICES ASSUME NEW h \in Holder, Holds(h), accessor[h].exclusive
                   PROVE  nodeMap'[accessor[h].client][accessor[h].id] = accessor[h].node
      BY DEF RespectsAccessors
    <2>2. h \in Worker /\ HoldsOwn(h) /\ JobOK(h)
      BY <1>0, <2>1 DEF PathRest, Worker
    <2>3. job[h].pc = "execute" /\ accessor[h].client = job[h].client /\ accessor[h].id = job[h].id
      BY <2>1, <2>2 DEF HoldsOwn
    <2>4. h # w /\ Spared(h, c, r)
      BY <2>2, <2>3
    <2>5. job[h].client \in Client /\ job[h].id \in Id
      BY <2>2, <2>3 DEF JobOK
    <2>6. ~(job[h].client = c /\ job[h].id \in Gone(c, {r}))
      BY <2>3, <2>4 DEF Spared
    <2>7. nodeMap'[job[h].client][job[h].id] = nodeMap[job[h].client][job[h].id]
      BY <1>1, <2>5, <2>6 DEF Shrinks
    <2>8. nodeMap[accessor[h].client][accessor[h].id] = accessor[h].node
      BY <1>0, <2>1 DEF CarefulInv, AccessorInv
    <2> QED BY <2>3, <2>7, <2>8
  <1> QED BY <1>1, <1>2, <1>3 DEF CarefulNext

LEMMA CloseStep ==
  ASSUME PathInv, NEW w \in Worker, NEW c \in Client, NEW r \in Id, Close(w, c, r)
  PROVE  [CarefulNext]_vars /\ PathRest'
  <1>0. CarefulInv /\ PathRest /\ PathType /\ JobOK(w) /\ HoldsOwn(w)
    BY DEF PathInv, PathRest
  <1>1. /\ job[w].pc = "idle" /\ NotInUse(c, r) /\ DeleteNode(c, r)
        /\ nodeMap[c][r] \in UNION {Connection, Context, Shm}
        /\ known' = [known EXCEPT ![c] = @ \ Gone(c, {r})]
        /\ job' = [job EXCEPT ![w] = [Idle EXCEPT !.pc = "destroy", !.client = c,
                                      !.dying = DyingShm(c, r)]]
        /\ UNCHANGED <<ready, bound, slotCache, usage>>
    BY DEF Close, DeleteNodeAndRespond
  <1>2. \A v \in Worker : Spared(v, c, r)
    BY <1>1 DEF NotInUse, Spared
  <1>3. CarefulNext /\ Shrinks(c, r) /\ accessor' = accessor
    BY <1>1, <1>2, DropsRespects DEF Loading, Shrinks
  <1>4. OnlyJob(w) /\ job'[w].pc = "destroy" /\ job'[w].client = c /\ job'[w].node = NoNode
    <2>1. PICK s \in SUBSET Shm : s = DyingShm(c, r)
      BY DEF DyingShm
    <2>2. [Idle EXCEPT !.pc = "destroy", !.client = c, !.dying = s] \in Job
      <3>1. PICK x \in Job : x = Idle
        BY IdleJob
      <3>2. "destroy" \in Stage
        BY DEF Stage, Leaving
      <3>3. [x EXCEPT !.pc = "destroy", !.client = c, !.dying = s] \in Job
        BY <3>2 DEF Job
      <3> QED BY <3>1, <3>3
    <2>3. /\ OnlyJob(w)
          /\ job'[w] = [Idle EXCEPT !.pc = "destroy", !.client = c, !.dying = s]
      BY <1>0, <1>1, <2>1, <2>2, BeginMoves
    <2> QED BY <2>3 DEF Idle
  <1>5. OthersStay(w)
    BY <1>3, <1>4, StaysApart DEF Before, Making
  <1>6. JobOK(w)'
    BY <1>4, RequestRests DEF Leaving
  <1>7. HoldsOwn(w)'
    BY <1>0, <1>1, <1>3, <1>4 DEF HoldsOwn, Holds, Loading
  <1>8. /\ known' \in [Client -> SUBSET Id]
        /\ \A d \in Client : known'[d] \subseteq known[d]
        /\ \A d \in Client : \A i \in known[d] : i \in known'[d] \/ (d = c /\ i \in Gone(c, {r}))
        /\ \A i \in known'[c] : i \notin Gone(c, {r})
    BY <1>0, <1>1 DEF PathType
  <1>9. PathType'
    BY <1>0, <1>1, <1>4, <1>8 DEF PathType, OnlyJob
  <1>10. job[w].node \notin Context
    BY <1>0, <1>1, Classes DEF JobOK
  <1>11. Drops(w, c, r)
    BY <1>1, <1>2, <1>3, <1>5, <1>8, <1>10 DEF Drops
  <1>12. PathRest'
    BY <1>6, <1>7, <1>9, <1>11, DropsStep
  <1> QED BY <1>3, <1>12

LEMMA CleanupStep ==
  ASSUME PathInv, NEW w \in Worker, CleanupContext(w)
  PROVE  [CarefulNext]_vars /\ PathRest'
  <1>0. /\ CarefulInv /\ StorageInv /\ PathRest /\ PathType /\ Hierarchy
        /\ \A v \in Worker : JobOK(v) /\ HoldsOwn(v)
    BY DEF PathInv, PathRest, CarefulInv
  <1>1. PICK c, r, x : c = job[w].client /\ r = job[w].id /\ x = job[w].node
    OBVIOUS
  <1>2. /\ job[w].pc = "cleanup" /\ DeleteNode(c, r) /\ Respond(w)
        /\ UNCHANGED <<known, ready, bound, slotCache, usage>>
    BY <1>1 DEF CleanupContext
  <1>3. /\ c \in Client /\ r \in Id /\ nodeMap[c][r] = x /\ x \in Context
        /\ r \notin known[c] /\ job[w].pc \in Making
    BY <1>0, <1>1, <1>2 DEF JobOK, Making
  <1>4. \A j \in Gone(c, {r}) : j # r => nodeMap[c][j] \in BoundKey
    BY <1>0, <1>3, GoneClasses
  <1>5. ASSUME NEW v \in Worker \ {w} PROVE Spared(v, c, r)
    <2>1. SUFFICES ASSUME job[v].client = c
                   PROVE  /\ job[v].pc \in Before => job[v].base \notin Gone(c, {r})
                          /\ job[v].pc \in Making \cup {"execute", "cacheSlot"} =>
                                job[v].id \notin Gone(c, {r})
      BY DEF Spared
    <2>2. JobOK(v) /\ job[v].node # x
      BY <1>0, <1>1, <1>3 DEF PathRest, OwnNode
    <2>3. job[v].pc \in Before => job[v].base \notin Gone(c, {r})
      BY <1>3, <1>4, <2>1, <2>2, Classes DEF JobOK, Before
    <2>4. job[v].pc \in Making \cup {"execute"} => job[v].id \notin Gone(c, {r})
      BY <1>3, <1>4, <2>1, <2>2, Classes DEF JobOK, Making
    <2>5. job[v].pc = "cacheSlot" => job[v].id \notin Gone(c, {r})
      BY <1>3, <1>4, <2>1, <2>2, Classes DEF JobOK
    <2> QED BY <2>3, <2>4, <2>5
  <1>6. CarefulNext /\ Shrinks(c, r) /\ accessor' = accessor
    BY <1>2, <1>3, <1>5, DropsRespects DEF Loading, Shrinks
  <1>7. OnlyJob(w) /\ job'[w].pc = "idle" /\ job'[w].node = NoNode
    BY <1>0, <1>2, RespondMoves
  <1>8. OthersStay(w)
    BY <1>6, <1>7, StaysApart DEF Before, Making
  <1>9. JobOK(w)'
    BY <1>7, RequestRests
  <1>10. HoldsOwn(w)'
    BY <1>0, <1>2, <1>6, <1>7 DEF HoldsOwn, Holds, Loading
  <1>11. PathType'
    BY <1>0, <1>2, <1>7 DEF PathType, OnlyJob
  <1>12. \A i \in known[c] : i \notin Gone(c, {r})
    BY <1>0, <1>3, <1>4, Classes DEF PathRest, KnownStored
  <1>13. ~InStorage(x)'
    <2>1. SUFFICES ASSUME NEW d \in Client, NEW i \in Id, nodeMap'[d][i] = x PROVE FALSE
      BY DEF InStorage
    <2>2. x # NoNode /\ r \in Stored(c)
      BY <1>3, Classes DEF Stored
    <2>3. ~(d = c /\ i \in Gone(c, {r})) /\ nodeMap[d][i] = x
      BY <1>6, <2>1, <2>2 DEF Shrinks
    <2>4. d = c /\ i = r
      BY <1>0, <1>3, <2>2, <2>3, SMT DEF StorageInv, StoredOnce
    <2> QED BY <1>0, <1>3, <2>2, <2>3, <2>4, GoneClosed
  <1>14. \A m \in Context : (job[w].node = m /\ job[w].pc # "execute") => ~InStorage(m)'
    BY <1>1, <1>13
  <1>15. Drops(w, c, r)
    BY <1>2, <1>3, <1>5, <1>6, <1>8, <1>12, <1>14 DEF Drops
  <1>16. PathRest'
    BY <1>3, <1>9, <1>10, <1>11, <1>15, DropsStep
  <1> QED BY <1>6, <1>16

----------------------------------------------------------------------------
(* The invariant holds.                                                    *)

LEMMA PathInitial ==
  ASSUME PathInit
  PROVE  PathInv
  <1>0. /\ Init /\ job = [w \in Worker |-> Idle] /\ known = [c \in Client |-> {}]
        /\ ready = {} /\ bound = [n \in Context |-> NoNode]
        /\ slotCache = [c \in Client |-> 0]
    BY DEF PathInit
  <1>1. CarefulInv
    BY <1>0, StorageInit DEF Init, CarefulInv, AccessorInv, Holds
  <1>2. \A c \in Client : \A i \in Id : nodeMap[c][i] = NoNode
    BY <1>0 DEF Init
  <1>3. \A n \in Node : ~InStorage(n)
    BY <1>2, ConstantsOK DEF InStorage
  <1>4. \A w \in Worker : /\ job[w].pc = "idle" /\ job[w].node = NoNode
                          /\ ~Holds(w)
    BY <1>0, IdleJob DEF Init, Holds, Worker
  <1>5. PathType
    <2>1. 0 \in 0..MaxId
      BY ConstantsOK, SMT
    <2> QED BY <1>0, <2>1, IdleJob DEF PathType
  <1>6. \A w \in Worker : JobOK(w) /\ HoldsOwn(w)
    BY <1>4 DEF JobOK, HoldsOwn, Before, Making, Leaving, Loading
  <1>7. Hierarchy /\ BoundBelow
    BY <1>2, Classes DEF Hierarchy, BoundBelow
  <1>8. KnownStored /\ CachedSlotStored
    BY <1>0 DEF KnownStored, CachedSlotStored
  <1>9. OwnNode
    BY <1>4 DEF OwnNode, Before, Making
  <1>10. StoredContextReady
    BY <1>3, Classes DEF StoredContextReady
  <1> QED BY <1>1, <1>5, <1>6, <1>7, <1>8, <1>9, <1>10 DEF PathInv, PathRest

LEMMA PathStutter ==
  ASSUME PathInv, UNCHANGED allVars
  PROVE  PathInv' /\ UNCHANGED vars
  <1>1. UNCHANGED <<job, known, ready, bound, slotCache>> /\ UNCHANGED vars
    BY SMT DEF allVars, pathVars
  <1>2. SameNodes /\ accessor' = accessor /\ \A m : Unreferenced(m) => Unreferenced(m)'
    BY <1>1, StoreSame
  <1>3. CarefulInv'
    BY <1>1, StorageStep, AccessorStep DEF PathInv, CarefulInv, StorageInv
  <1>4. \A w \in Worker : JobOK(w)' /\ HoldsOwn(w)'
    BY <1>1, <1>2 DEF PathInv, PathRest, JobOK, HoldsOwn, Holds, SameNodes
  <1>5. PathType' /\ Hierarchy' /\ KnownStored' /\ OwnNode' /\ BoundBelow'
    BY <1>1, <1>2 DEF PathInv, PathRest, PathType, Hierarchy, KnownStored, OwnNode,
       BoundBelow, SameNodes
  <1>6. StoredContextReady' /\ CachedSlotStored'
    BY <1>1, <1>2 DEF PathInv, PathRest, StoredContextReady, CachedSlotStored, IsA, SameNodes,
       InStorage
  <1>7. PathRest'
    BY <1>4, <1>5, <1>6 DEF PathRest
  <1> QED BY <1>1, <1>3, <1>7 DEF PathInv

LEMMA PathStep ==
  ASSUME PathInv, [PathNext]_allVars
  PROVE  [CarefulNext]_vars /\ PathInv'
  <1>1. ASSUME NEW w \in Worker, Continue(w) PROVE [CarefulNext]_vars /\ PathRest'
    BY <1>1, UnregisterStep, DestroyedStep, ShmCreateStep, ShmAttachStep, CacheSlotStep,
       AttachContextStep, AuthorizeStep, BindKeyStep, BindReturnsStep, InitializeStep,
       CleanupStep, ExecuteReturnsStep DEF Continue
  <1>2. ASSUME NEW w \in Worker, NEW c \in Client, Begin(w, c)
        PROVE  [CarefulNext]_vars /\ PathRest'
    BY <1>2, ConnectionStep, CloseStep, ShmRegisterStep, ResolveKeySlotStep,
       CreateHandlerStep, ForwardStep DEF Begin
  <1>3. PathNext => [CarefulNext]_vars /\ PathRest'
    BY <1>1, <1>2 DEF PathNext
  <1>4. ASSUME [CarefulNext]_vars PROVE CarefulInv'
    BY <1>4, StorageStep, AccessorStep DEF PathInv, CarefulInv, StorageInv, CarefulNext
  <1> QED BY <1>3, <1>4, PathStutter DEF PathInv

LEMMA PathInvariance == PathSpec => []PathInv
  BY PathInitial, PathStep, PTL DEF PathSpec

----------------------------------------------------------------------------
(* The theorems.                                                           *)

\* The requests of any number of threads and clients add, look up and delete
\* nodes only as the data manager asks of its users: none deletes a node under
\* an operation that has it to itself.
THEOREM RequestsUseStore == PathSpec => StoreUsedCarefully
  <1>1. PathInit => Init
    BY DEF PathInit
  <1> QED BY <1>1, PathStep, PathInvariance, PTL DEF PathSpec, StoreUsedCarefully, CarefulSpec

\* So the daemon, whatever requests it serves, gives out its nodes as the
\* abstract node access promises: shared, or to one request.
THEOREM RequestsAccess == PathSpec => AccessRefinement
  BY RequestsUseStore, ImplementsAccess, PTL DEF StoreUsedCarefully

\* CTX_CREATE, in whatever order its steps meet those of other requests and
\* wherever it fails, leaves no context in the store that was not initialised.
THEOREM ContextsReady == PathSpec => []StoredContextReady
  <1>1. PathInv => StoredContextReady
    BY DEF PathInv, PathRest
  <1> QED BY <1>1, PathInvariance, PTL

\* The key handler whose pointer a context keeps from InitializeContext is
\* stored below the context while an operation executes on it.
THEOREM BoundKeysAlive == PathSpec => []BoundKeyAlive
  <1>1. PathInv => BoundKeyAlive
    <2>1. SUFFICES ASSUME PathInv, NEW w \in Worker, job[w].pc = "execute",
                          bound[job[w].node] # NoNode
                   PROVE  \E i \in children[job[w].client][job[w].id] :
                              nodeMap[job[w].client][i] = bound[job[w].node]
      BY DEF BoundKeyAlive
    <2>2. /\ job[w].client \in Client /\ job[w].id \in Id /\ job[w].node \in Context
          /\ nodeMap[job[w].client][job[w].id] = job[w].node
      BY <2>1 DEF PathInv, PathRest, JobOK
    <2> QED BY <2>1, <2>2 DEF PathInv, PathRest, BoundBelow
  <1> QED BY <1>1, PathInvariance, PTL

\* The slot id that the mediator remembers of a client designates a stored slot
\* for as long as the daemon runs, though it is never invalidated.
THEOREM CachedSlotsStored == PathSpec => []CachedSlotStored
  <1>1. PathInv => CachedSlotStored
    BY DEF PathInv, PathRest
  <1> QED BY <1>1, PathInvariance, PTL

=============================================================================
