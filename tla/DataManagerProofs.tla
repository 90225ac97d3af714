------------------------- MODULE DataManagerProofs -------------------------
(***************************************************************************)
(* Theorems about DataManager for every number of clients, objects and     *)
(* holders, and for every MaxId and MaxNodes.                              *)
(***************************************************************************)
EXTENDS DataManager, TLAPS

\* Most steps are first-order; SMT is cited for those about numbers and records.
USE ZenonT(30)

----------------------------------------------------------------------------
(* Type correctness.                                                       *)

\* The wrapped counter is an id (getNextNodeIdLocked).
LEMMA AheadIsId == ASSUME NEW i \in Id, NEW k \in Nat PROVE Ahead(i, k) \in Id
  <1>1. MaxId \in Nat /\ MaxId > 0 /\ i - 1 + k \in Int
    BY ConstantsOK, SMT DEF Id
  <1>2. (i - 1 + k) % MaxId \in 0..(MaxId - 1)
    BY <1>1, SMT
  <1> QED BY <1>1, <1>2, SMT DEF Ahead, Id

\* Whatever deleteNode and deleteClientNodes remove, the types stay.
LEMMA RemovalTyped ==
  ASSUME TypeOK, NEW c \in Client, NEW roots, RemoveNodesFromStorage(c, roots)
  PROVE  TypeOK'
  BY ConstantsOK, SMT DEF RemoveNodesFromStorage, TypeOK

\* The add operations, which differ in the parent they choose.
LEMMA AttachTyped ==
  ASSUME TypeOK, NEW c \in Client, NEW p \in 0..MaxId, NEW n \in Node, Attach(c, p, n)
  PROVE  TypeOK'
  <1>1. PICK id \in Id :
          /\ nodeMap' = [nodeMap EXCEPT ![c][id] = n]
          /\ idCounter' = [idCounter EXCEPT ![c] = id]
          /\ parent' = [parent EXCEPT ![c][id] = p]
          /\ children' = [children EXCEPT ![c] =
                 [i \in Id |-> IF i = p THEN @[i] \cup {id} ELSE @[i]]]
          /\ entryNodes' = [entryNodes EXCEPT ![c] = IF p = 0 THEN @ \cup {id} ELSE @]
          /\ UNCHANGED <<busyNodes, accessor>>
    BY DEF Attach
  <1> QED BY <1>1 DEF TypeOK

LEMMA QuotaTyped ==
  ASSUME TypeOK, NEW c \in Client, QuotaExceeded(c)
  PROVE  TypeOK'
  <1>1. Ahead(idCounter[c], MaxNodes + 1) \in Id
    BY AheadIsId, ConstantsOK, SMT DEF TypeOK
  <1> QED BY <1>1 DEF QuotaExceeded, TypeOK

\* A step of the data manager is an Attach under some parent, a full table, a
\* removal, or a step of an accessor.
LEMMA StepKinds ==
  ASSUME TypeOK, [Next]_vars
  PROVE  \/ \E c \in Client, n \in Node :
              /\ Unreferenced(n)
              /\ \E p \in 0..MaxId : (p = 0 \/ p \in Stored(c)) /\ Attach(c, p, n)
         \/ \E c \in Client : QuotaExceeded(c)
         \/ \E c \in Client, roots \in SUBSET Id : RemoveNodesFromStorage(c, roots)
         \/ \E h \in Holder, c \in Client, id \in Id : GetNodeAccessor(h, c, id)
         \/ \E h \in Holder : ReleaseNodeAccessor(h)
         \/ UNCHANGED vars
  <1>1. 0 \in 0..MaxId /\ Id \subseteq 0..MaxId
    BY ConstantsOK, SMT DEF Id
  <1>2. ASSUME NEW c \in Client, NEW n \in Node, AddNode(c, n)
        PROVE  \/ Unreferenced(n) /\ \E p \in 0..MaxId : p = 0 /\ Attach(c, p, n)
               \/ QuotaExceeded(c)
    BY <1>1, <1>2 DEF AddNode
  <1>3. ASSUME NEW c \in Client, NEW q \in Id, NEW n \in Node, AddChildNode(c, q, n)
        PROVE  \/ Unreferenced(n) /\ \E p \in 0..MaxId : p \in Stored(c) /\ Attach(c, p, n)
               \/ QuotaExceeded(c)
    BY <1>1, <1>3 DEF AddChildNode
  <1>4. ASSUME NEW c \in Client, NEW s \in Id, NEW n \in Node, AddSiblingNode(c, s, n)
        PROVE  \/ Unreferenced(n) /\ \E p \in 0..MaxId : p \in Stored(c) /\ Attach(c, p, n)
               \/ QuotaExceeded(c)
    BY <1>1, <1>4 DEF AddSiblingNode, Stored
  <1>5. ASSUME NEW c \in Client, NEW id \in Id, DeleteNode(c, id)
        PROVE  \E roots \in SUBSET Id : RemoveNodesFromStorage(c, roots)
    BY <1>5 DEF DeleteNode
  <1>6. ASSUME NEW c \in Client, DeleteClientNodes(c)
        PROVE  \E roots \in SUBSET Id : RemoveNodesFromStorage(c, roots)
    BY <1>6 DEF DeleteClientNodes, TypeOK
  <1> QED BY <1>2, <1>3, <1>4, <1>5, <1>6 DEF Next

LEMMA TypeInit == Init => TypeOK
  BY ConstantsOK, SMT DEF Init, TypeOK, Id

LEMMA TypeStep == TypeOK /\ [Next]_vars => TypeOK'
  <1> SUFFICES ASSUME TypeOK, [Next]_vars PROVE TypeOK'
    OBVIOUS
  <1>1. ASSUME NEW h \in Holder, NEW c \in Client, NEW id \in Id, GetNodeAccessor(h, c, id)
        PROVE TypeOK'
    BY <1>1, SMT DEF GetNodeAccessor, TypeOK, Accessor, Stored
  <1>2. ASSUME NEW h \in Holder, ReleaseNodeAccessor(h) PROVE TypeOK'
    BY <1>2 DEF ReleaseNodeAccessor, TypeOK, Accessor, Holds
  <1>3. CASE UNCHANGED vars
    BY <1>3 DEF vars, TypeOK
  <1> QED
    BY <1>1, <1>2, <1>3, StepKinds, RemovalTyped, AttachTyped, QuotaTyped

\* Every operation keeps the indexes, the counter and the accessors well typed.
THEOREM TypeCorrect == Spec => []TypeOK
  BY TypeInit, TypeStep, PTL DEF Spec

----------------------------------------------------------------------------
(* The forest.                                                             *)

\* The traversal of removeNodesFromStorage visits its roots.
LEMMA VisitedRoots ==
  ASSUME NEW c \in Client, NEW roots \in SUBSET Id
  PROVE  roots \subseteq Visited(c, roots)
  BY DEF Visited

\* It visits the children of what it visits.
LEMMA VisitedClosed ==
  ASSUME TypeOK, NEW c \in Client, NEW roots \in SUBSET Id
  PROVE  ClosedUnderChildren(c, Visited(c, roots))
  <1> SUFFICES ASSUME NEW i \in Visited(c, roots) \cap Stored(c), NEW j \in children[c][i]
               PROVE  j \in Visited(c, roots)
    BY DEF ClosedUnderChildren
  <1>1. i \in Id /\ j \in Id
    BY SMT DEF TypeOK, Stored
  <1>2. ASSUME NEW S \in SUBSET Id, roots \subseteq S, ClosedUnderChildren(c, S)
        PROVE  j \in S
    <2>1. i \in S
      BY <1>2 DEF Visited
    <2> QED BY <1>2, <2>1 DEF ClosedUnderChildren
  <1> QED BY <1>1, <1>2 DEF Visited

\* What an Attach does to one client: a free id is stored under p.
LEMMA AttachEffect ==
  ASSUME TypeOK, NEW c \in Client, NEW p \in 0..MaxId, NEW n \in Node, Attach(c, p, n)
  PROVE  \E id \in Id :
           /\ id \notin Stored(c)
           /\ Stored(c)' = Stored(c) \cup {id}
           /\ nodeMap' = [nodeMap EXCEPT ![c][id] = n]
           /\ parent' = [parent EXCEPT ![c][id] = p]
           /\ children' = [children EXCEPT ![c] =
                 [i \in Id |-> IF i = p THEN @[i] \cup {id} ELSE @[i]]]
           /\ entryNodes' = [entryNodes EXCEPT ![c] = IF p = 0 THEN @ \cup {id} ELSE @]
           /\ UNCHANGED <<busyNodes, accessor>>
  <1>1. PICK id \in Id :
          /\ FindsId(c, id)
          /\ nodeMap' = [nodeMap EXCEPT ![c][id] = n]
          /\ parent' = [parent EXCEPT ![c][id] = p]
          /\ children' = [children EXCEPT ![c] =
                 [i \in Id |-> IF i = p THEN @[i] \cup {id} ELSE @[i]]]
          /\ entryNodes' = [entryNodes EXCEPT ![c] = IF p = 0 THEN @ \cup {id} ELSE @]
          /\ UNCHANGED <<busyNodes, accessor>>
    BY DEF Attach
  <1>2. id \notin Stored(c)
    BY <1>1 DEF FindsId, IsFree, Stored
  <1>3. Stored(c)' = Stored(c) \cup {id}
    BY <1>1, ConstantsOK, SMT DEF Stored, TypeOK
  <1> QED BY <1>1, <1>2, <1>3

\* The other clients' part of the store is not touched.
LEMMA AttachElsewhere ==
  ASSUME TypeOK, NEW c \in Client, NEW p \in 0..MaxId, NEW n \in Node, Attach(c, p, n),
         NEW d \in Client, d # c
  PROVE  /\ Stored(d)' = Stored(d)
         /\ nodeMap'[d] = nodeMap[d]
         /\ parent'[d] = parent[d]
         /\ children'[d] = children[d]
         /\ entryNodes'[d] = entryNodes[d]
  <1>1. PICK id \in Id :
           /\ nodeMap' = [nodeMap EXCEPT ![c][id] = n]
           /\ parent' = [parent EXCEPT ![c][id] = p]
           /\ children' = [children EXCEPT ![c] =
                 [i \in Id |-> IF i = p THEN @[i] \cup {id} ELSE @[i]]]
           /\ entryNodes' = [entryNodes EXCEPT ![c] = IF p = 0 THEN @ \cup {id} ELSE @]
    BY AttachEffect, SMT
  <1> QED BY <1>1 DEF TypeOK, Stored

\* What a removal does to its client, and that the others keep what they have.
LEMMA RemovalEffect ==
  ASSUME TypeOK, NEW c \in Client, NEW roots \in SUBSET Id, RemoveNodesFromStorage(c, roots)
  PROVE  /\ Stored(c)' = Stored(c) \ Gone(c, roots)
         /\ \A i \in Id : nodeMap'[c][i] = IF i \in Gone(c, roots) THEN NoNode ELSE nodeMap[c][i]
         /\ \A i : i \in entryNodes'[c] <=>
                i \in entryNodes[c] /\ ~(i \in Gone(c, roots) /\ parent[c][i] = 0)
         /\ \A i \in Id : \A j : j \in children'[c][i] <=>
                /\ i \notin Gone(c, roots)
                /\ j \in children[c][i]
                /\ ~(j \in Gone(c, roots) /\ parent[c][j] = i)
         /\ \A i \in Id : parent'[c][i] = IF i \in Gone(c, roots) THEN 0 ELSE parent[c][i]
         /\ busyNodes' = [busyNodes EXCEPT ![c] = @ \ Gone(c, roots)]
         /\ accessor' = accessor
         /\ \A d \in Client \ {c} :
              /\ Stored(d)' = Stored(d)
              /\ nodeMap'[d] = nodeMap[d]
              /\ parent'[d] = parent[d]
              /\ children'[d] = children[d]
              /\ entryNodes'[d] = entryNodes[d]
  BY DEF RemoveNodesFromStorage, TypeOK, Stored

\* Forest and NoOrphans for one client.
ForestOf(c) ==
    /\ entryNodes[c] = {i \in Stored(c) : parent[c][i] = 0}
    /\ \A i \in Stored(c) : parent[c][i] # 0 =>
          parent[c][i] \in Stored(c) /\ i \in children[c][parent[c][i]]
    /\ \A i \in Id : \A j \in children[c][i] :
          i \in Stored(c) /\ j \in Stored(c) /\ parent[c][j] = i

NoOrphansOf(c) == Stored(c) \subseteq Visited(c, entryNodes[c])

\* A client whose part of the store does not change keeps its forest.
LEMMA SameForest ==
  ASSUME NEW d \in Client, ForestOf(d), NoOrphansOf(d),
         Stored(d)' = Stored(d), parent'[d] = parent[d],
         children'[d] = children[d], entryNodes'[d] = entryNodes[d]
  PROVE  ForestOf(d)' /\ NoOrphansOf(d)'
  <1>1. ForestOf(d)'
    BY SMT DEF ForestOf
  <1>2. Visited(d, entryNodes[d])' = Visited(d, entryNodes[d])
    BY DEF Visited, ClosedUnderChildren
  <1> QED BY <1>1, <1>2 DEF NoOrphansOf

\* addNode, addChildNode and addSiblingNode keep the forest of their client.
LEMMA AttachForest ==
  ASSUME TypeOK, NEW c \in Client, NEW p \in 0..MaxId, NEW n \in Node, Attach(c, p, n),
         p = 0 \/ p \in Stored(c), ForestOf(c), NoOrphansOf(c)
  PROVE  ForestOf(c)' /\ NoOrphansOf(c)'
  <1>1. PICK id \in Id :
           /\ id \notin Stored(c)
           /\ Stored(c)' = Stored(c) \cup {id}
           /\ parent' = [parent EXCEPT ![c][id] = p]
           /\ children' = [children EXCEPT ![c] =
                 [i \in Id |-> IF i = p THEN @[i] \cup {id} ELSE @[i]]]
           /\ entryNodes' = [entryNodes EXCEPT ![c] = IF p = 0 THEN @ \cup {id} ELSE @]
    BY AttachEffect, SMT
  <1>2. Stored(c) \subseteq Id /\ 0 \notin Id
    BY SMT DEF Stored, Id
  <1>3. id \notin Stored(c) /\ Stored(c)' = Stored(c) \cup {id}
    BY <1>1
  <1>4. parent'[c][id] = p /\ \A i \in Id \ {id} : parent'[c][i] = parent[c][i]
    BY <1>1 DEF TypeOK
  <1>5. \A i \in Id : \A j : j \in children'[c][i] <=> j \in children[c][i] \/ (i = p /\ j = id)
    BY <1>1 DEF TypeOK
  <1>6. \A i : i \in entryNodes'[c] <=> i \in entryNodes[c] \/ (p = 0 /\ i = id)
    BY <1>1 DEF TypeOK
  <1>7. entryNodes'[c] = {i \in Stored(c)' : parent'[c][i] = 0}
    BY <1>2, <1>3, <1>4, <1>6, SMT DEF ForestOf
  <1>8. ASSUME NEW i \in Stored(c)', parent'[c][i] # 0
        PROVE  parent'[c][i] \in Stored(c)' /\ i \in children'[c][parent'[c][i]]
    <2>1. CASE i = id
      BY <1>2, <1>3, <1>4, <1>5, <1>8, <2>1
    <2>2. CASE i # id
      <3>1. i \in Stored(c) /\ parent'[c][i] = parent[c][i]
        BY <1>2, <1>3, <1>4, <2>2
      <3>2. parent[c][i] \in Stored(c) /\ i \in children[c][parent[c][i]]
        BY <1>8, <3>1 DEF ForestOf
      <3> QED BY <1>2, <1>3, <1>5, <3>1, <3>2
    <2> QED BY <2>1, <2>2
  <1>9. ASSUME NEW i \in Id, NEW j \in children'[c][i]
        PROVE  i \in Stored(c)' /\ j \in Stored(c)' /\ parent'[c][j] = i
    BY <1>2, <1>3, <1>4, <1>5, SMT DEF ForestOf
  <1>10. NoOrphansOf(c)'
    <2> SUFFICES ASSUME NEW j \in Stored(c)', NEW S \in SUBSET Id,
                        entryNodes'[c] \subseteq S, ClosedUnderChildren(c, S)'
                 PROVE  j \in S
      BY <1>2, <1>3 DEF NoOrphansOf, Visited
    <2>1. \A i \in S \cap Stored(c)' : children'[c][i] \subseteq S
      BY DEF ClosedUnderChildren
    <2>2. ClosedUnderChildren(c, S)
      BY <1>2, <1>3, <1>5, <2>1 DEF ClosedUnderChildren
    <2>3. entryNodes[c] \subseteq S
      BY <1>6
    <2>4. Stored(c) \subseteq S
      BY <1>2, <2>2, <2>3 DEF NoOrphansOf, Visited
    <2>5. id \in S
      <3>1. CASE p = 0
        BY <1>6, <3>1
      <3>2. CASE p \in Stored(c)
        <4>1. p \in S \cap Stored(c)' /\ id \in children'[c][p]
          BY <1>2, <1>3, <1>5, <2>4, <3>2
        <4> QED BY <2>1, <4>1
      <3> QED BY <3>1, <3>2
    <2> QED BY <1>3, <2>4, <2>5
  <1> QED BY <1>7, <1>8, <1>9, <1>10 DEF ForestOf

\* The cascading delete keeps the forest of its client: what stays behind is
\* neither below what went nor cut off from the entry nodes.
LEMMA RemovalForest ==
  ASSUME TypeOK, NEW c \in Client, NEW roots \in SUBSET Id, RemoveNodesFromStorage(c, roots),
         ForestOf(c), NoOrphansOf(c)
  PROVE  ForestOf(c)' /\ NoOrphansOf(c)'
  <1> DEFINE gone == Gone(c, roots)
  <1>1. Stored(c)' = Stored(c) \ gone
    BY RemovalEffect
  <1>2. \A i : i \in entryNodes'[c] <=> i \in entryNodes[c] /\ ~(i \in gone /\ parent[c][i] = 0)
    BY RemovalEffect
  <1>3. \A i \in Id : \A j : j \in children'[c][i] <=>
           i \notin gone /\ j \in children[c][i] /\ ~(j \in gone /\ parent[c][j] = i)
    BY RemovalEffect, SMT
  <1>4. \A i \in Id : parent'[c][i] = IF i \in gone THEN 0 ELSE parent[c][i]
    BY RemovalEffect
  <1>5. gone \subseteq Id /\ Stored(c) \subseteq Id
    BY DEF Stored, Gone
  <1>6. \A i \in gone : children[c][i] \subseteq gone
    <2>1. \A i \in gone : children[c][i] \subseteq Visited(c, roots)
      BY VisitedClosed DEF ClosedUnderChildren, Gone
    <2>2. \A i \in gone : children[c][i] \subseteq Stored(c)
      BY <1>5 DEF ForestOf
    <2> QED BY <2>1, <2>2 DEF Gone
  <1> HIDE DEF gone
  <1>7. entryNodes'[c] = {i \in Stored(c)' : parent'[c][i] = 0}
    BY <1>1, <1>2, <1>4, <1>5 DEF ForestOf
  <1>8. ASSUME NEW i \in Stored(c)', parent'[c][i] # 0
        PROVE  parent'[c][i] \in Stored(c)' /\ i \in children'[c][parent'[c][i]]
    <2>1. i \in Stored(c) /\ i \notin gone /\ i \in Id /\ parent'[c][i] = parent[c][i]
      BY <1>1, <1>4, <1>5
    <2>2. parent[c][i] \in Stored(c) /\ i \in children[c][parent[c][i]]
      BY <1>8, <2>1 DEF ForestOf
    <2>3. parent[c][i] \notin gone
      BY <1>6, <2>1, <2>2
    <2>4. i \in children'[c][parent[c][i]]
      BY <1>3, <1>5, <2>1, <2>2, <2>3
    <2> QED BY <1>1, <2>1, <2>2, <2>3, <2>4
  <1>9. ASSUME NEW i \in Id, NEW j \in children'[c][i]
        PROVE  i \in Stored(c)' /\ j \in Stored(c)' /\ parent'[c][j] = i
    <2>1. i \notin gone /\ j \in children[c][i] /\ ~(j \in gone /\ parent[c][j] = i)
      BY <1>3
    <2>2. i \in Stored(c) /\ j \in Stored(c) /\ parent[c][j] = i
      BY <2>1 DEF ForestOf
    <2> QED BY <1>1, <1>4, <1>5, <2>1, <2>2
  <1>10. NoOrphansOf(c)'
    <2> SUFFICES ASSUME NEW j \in Stored(c)', NEW S \in SUBSET Id,
                        entryNodes'[c] \subseteq S, ClosedUnderChildren(c, S)'
                 PROVE  j \in S
      BY <1>1, <1>5 DEF NoOrphansOf, Visited
    <2>1. \A i \in S \cap Stored(c)' : children'[c][i] \subseteq S
      BY DEF ClosedUnderChildren
    <2>2. ClosedUnderChildren(c, S \cup gone)
      BY <1>1, <1>3, <1>5, <1>6, <2>1 DEF ClosedUnderChildren
    <2>3. entryNodes[c] \subseteq S \cup gone
      BY <1>2
    <2>4. j \in S \cup gone
      BY <1>1, <1>5, <2>2, <2>3 DEF NoOrphansOf, Visited
    <2> QED BY <1>1, <2>4
  <1> QED BY <1>7, <1>8, <1>9, <1>10 DEF ForestOf

\* For any number of nodes and any sequence of adds and deletes the indexes
\* agree, no node is cut off from the entry nodes, and no object is stored
\* twice.
StorageInv == TypeOK /\ Forest /\ NoOrphans /\ StoredOnce

LEMMA StorageStep == StorageInv /\ [Next]_vars => StorageInv'
  <1> SUFFICES ASSUME StorageInv, [Next]_vars PROVE StorageInv'
    OBVIOUS
  <1>1. TypeOK /\ StoredOnce
    BY DEF StorageInv
  <1>2. \A c \in Client : ForestOf(c) /\ NoOrphansOf(c)
    BY DEF StorageInv, Forest, NoOrphans, ForestOf, NoOrphansOf
  <1>3. TypeOK'
    BY <1>1, TypeStep
  <1>4. ASSUME NEW c \in Client, NEW n \in Node, Unreferenced(n), NEW p \in 0..MaxId,
               p = 0 \/ p \in Stored(c), Attach(c, p, n)
        PROVE  (\A d \in Client : ForestOf(d)' /\ NoOrphansOf(d)') /\ StoredOnce'
    <2>1. ForestOf(c)' /\ NoOrphansOf(c)'
      BY <1>1, <1>2, <1>4, AttachForest
    <2>2. \A d \in Client \ {c} : ForestOf(d)' /\ NoOrphansOf(d)'
      BY <1>1, <1>2, <1>4, AttachElsewhere, SameForest
    <2>3. PICK id \in Id : nodeMap' = [nodeMap EXCEPT ![c][id] = n]
      BY <1>1, <1>4, AttachEffect, SMT
    <2>4. StoredOnce'
      BY <1>1, <1>4, <2>3, SMT DEF StoredOnce, Unreferenced, InStorage, TypeOK
    <2> QED BY <2>1, <2>2, <2>4
  <1>5. ASSUME NEW c \in Client, NEW roots \in SUBSET Id, RemoveNodesFromStorage(c, roots)
        PROVE  (\A d \in Client : ForestOf(d)' /\ NoOrphansOf(d)') /\ StoredOnce'
    <2>1. ForestOf(c)' /\ NoOrphansOf(c)'
      BY <1>1, <1>2, <1>5, RemovalForest
    <2>2. \A d \in Client \ {c} : ForestOf(d)' /\ NoOrphansOf(d)'
      BY <1>1, <1>2, <1>5, RemovalEffect, SameForest, SMT
    <2>3. \A d \in Client : \A i \in Id : nodeMap'[d][i] = nodeMap[d][i] \/ nodeMap'[d][i] = NoNode
      BY <1>1, <1>5, RemovalEffect, SMT
    <2>4. StoredOnce'
      BY <1>1, <2>3, SMT DEF StoredOnce
    <2> QED BY <2>1, <2>2, <2>4
  <1>6. ASSUME UNCHANGED <<nodeMap, entryNodes, parent, children>>
        PROVE  (\A d \in Client : ForestOf(d)' /\ NoOrphansOf(d)') /\ StoredOnce'
    <2>1. \A d \in Client : Stored(d)' = Stored(d)
      BY <1>6 DEF Stored
    <2>2. \A d \in Client : ForestOf(d)' /\ NoOrphansOf(d)'
      BY <1>2, <1>6, <2>1, SameForest
    <2>3. StoredOnce'
      BY <1>1, <1>6, SMT DEF StoredOnce
    <2> QED BY <2>2, <2>3
  <1>7. (\A d \in Client : ForestOf(d)' /\ NoOrphansOf(d)') /\ StoredOnce'
    BY <1>1, <1>4, <1>5, <1>6, StepKinds
       DEF QuotaExceeded, GetNodeAccessor, ReleaseNodeAccessor, vars
  <1> QED BY <1>3, <1>7 DEF StorageInv, Forest, NoOrphans, ForestOf, NoOrphansOf

\* Initially the store is empty.
LEMMA StorageInit == Init => StorageInv
  <1> SUFFICES ASSUME Init PROVE StorageInv
    OBVIOUS
  <1>1. TypeOK
    BY TypeInit
  <1>2. \A c \in Client : Stored(c) = {}
    BY DEF Init, Stored
  <1> QED BY <1>1, <1>2 DEF Init, StorageInv, Forest, NoOrphans, StoredOnce

\* The entry list, the parents and the child lists of every client always
\* agree with the node map.
THEOREM ForestHolds == Spec => []Forest
  <1>1. StorageInv => Forest
    BY DEF StorageInv
  <1> QED BY <1>1, StorageInit, StorageStep, PTL DEF Spec

\* No cascade of deletes ever leaves a node that its client's entry nodes do
\* not reach.
THEOREM NoOrphansHolds == Spec => []NoOrphans
  <1>1. StorageInv => NoOrphans
    BY DEF StorageInv
  <1> QED BY <1>1, StorageInit, StorageStep, PTL DEF Spec

\* After any sequence of operations, what is stored is exactly the trees below
\* the clients' entry nodes, as the three indexes describe them.
THEOREM TreesSoundHolds == Spec => []TreesSound
  BY ForestHolds, NoOrphansHolds, PTL DEF TreesSound

----------------------------------------------------------------------------
(* Busy marks and accessors.                                               *)

LEMMA BusyStep == TypeOK /\ BusyMarkIsHeld /\ [Next]_vars => BusyMarkIsHeld'
  <1> SUFFICES ASSUME TypeOK, BusyMarkIsHeld, [Next]_vars,
                      NEW d \in Client, NEW i \in busyNodes'[d]
               PROVE  \E g \in Holder :
                        /\ accessor'[g] # NoAccessor
                        /\ accessor'[g].node = nodeMap'[d][i]
                        /\ accessor'[g].exclusive
                        /\ accessor'[g].client = d
                        /\ accessor'[g].id = i
    BY SMT DEF BusyMarkIsHeld, HeldBy, Holds
  <1> DEFINE Marks(g) == /\ accessor[g] # NoAccessor
                         /\ accessor[g].node = nodeMap[d][i]
                         /\ accessor[g].exclusive
                         /\ accessor[g].client = d
                         /\ accessor[g].id = i
  <1>1. i \in busyNodes[d] => \E g \in Holder : Marks(g)
    BY SMT DEF BusyMarkIsHeld, HeldBy, Holds
  <1>2. ASSUME NEW g \in Holder, Marks(g) PROVE i \in Stored(d)
    BY <1>2, ConstantsOK DEF TypeOK, Accessor, Stored
  <1>3. ASSUME NEW c \in Client, NEW n \in Node, NEW p \in 0..MaxId, Attach(c, p, n)
        PROVE  \E g \in Holder : Marks(g)'
    <2>1. PICK id \in Id : /\ id \notin Stored(c)
                           /\ nodeMap' = [nodeMap EXCEPT ![c][id] = n]
                           /\ UNCHANGED <<busyNodes, accessor>>
      BY <1>3, AttachEffect
    <2>2. PICK g \in Holder : Marks(g)
      BY <1>1, <2>1
    <2>3. nodeMap'[d][i] = nodeMap[d][i]
      BY <1>2, <2>1, <2>2 DEF TypeOK, Stored
    <2> QED BY <2>1, <2>2, <2>3
  <1>4. ASSUME NEW c \in Client, NEW roots \in SUBSET Id, RemoveNodesFromStorage(c, roots)
        PROVE  \E g \in Holder : Marks(g)'
    <2>1. /\ busyNodes' = [busyNodes EXCEPT ![c] = @ \ Gone(c, roots)]
          /\ accessor' = accessor
          /\ \A j \in Id : nodeMap'[c][j] = IF j \in Gone(c, roots) THEN NoNode ELSE nodeMap[c][j]
          /\ c # d => nodeMap'[d] = nodeMap[d]
      BY <1>4, RemovalEffect
    <2>2. i \in busyNodes[d] /\ i \in Id /\ (c = d => i \notin Gone(c, roots))
      BY <2>1 DEF TypeOK
    <2>3. nodeMap'[d][i] = nodeMap[d][i]
      BY <2>1, <2>2, SMT
    <2> QED BY <1>1, <2>1, <2>2, <2>3
  <1>5. ASSUME NEW h \in Holder, NEW c \in Client, NEW id \in Id, GetNodeAccessor(h, c, id)
        PROVE  \E g \in Holder : Marks(g)'
    <2>1. CASE i \in busyNodes[d]
      <3>1. PICK g \in Holder : Marks(g)
        BY <1>1, <2>1
      <3>2. g # h
        BY <1>5, <3>1 DEF GetNodeAccessor, Holds
      <3>3. accessor'[g] = accessor[g] /\ nodeMap' = nodeMap
        BY <1>5, <3>2 DEF GetNodeAccessor, TypeOK
      <3> QED BY <3>1, <3>3
    <2>2. CASE i \notin busyNodes[d]
      <3>1. d = c /\ i = id /\ nodeMap[c][id] \in Exclusive
        BY <1>5, <2>2 DEF GetNodeAccessor, TypeOK
      <3>2. accessor'[h] = [node |-> nodeMap[c][id], client |-> c, id |-> id, exclusive |-> TRUE]
        BY <1>5, <3>1 DEF GetNodeAccessor, TypeOK
      <3>3. accessor'[h] \in Accessor /\ nodeMap' = nodeMap
        BY <1>5, <3>2, SMT DEF GetNodeAccessor, Accessor, TypeOK, Stored
      <3>4. accessor'[h] # NoAccessor
        BY <3>3, ConstantsOK DEF Accessor, Id
      <3> QED BY <3>1, <3>2, <3>3, <3>4, SMT
    <2> QED BY <2>1, <2>2
  <1>6. ASSUME NEW h \in Holder, ReleaseNodeAccessor(h)
        PROVE  \E g \in Holder : Marks(g)'
    <2>1. i \in busyNodes[d]
      BY <1>6 DEF ReleaseNodeAccessor, TypeOK, Accessor, Holds
    <2>2. PICK g \in Holder : Marks(g)
      BY <1>1, <2>1
    <2>3. g # h
      BY <1>6, <2>2 DEF ReleaseNodeAccessor, TypeOK
    <2>4. accessor'[g] = accessor[g] /\ nodeMap' = nodeMap
      BY <1>6, <2>3 DEF ReleaseNodeAccessor, TypeOK
    <2> QED BY <2>2, <2>4
  <1>7. ASSUME UNCHANGED <<nodeMap, busyNodes, accessor>>
        PROVE  \E g \in Holder : Marks(g)'
    BY <1>1, <1>7
  <1>8. \E g \in Holder : Marks(g)'
    BY <1>3, <1>4, <1>5, <1>6, <1>7, StepKinds DEF QuotaExceeded, vars
  <1> QED BY <1>8

\* A busy mark always belongs to an accessor of the node that it marks, even
\* when nodes are deleted and ids reused while accessors are held.
THEOREM BusyMarkHolds == Spec => []BusyMarkIsHeld
  <1>1. Init => BusyMarkIsHeld
    BY DEF Init, BusyMarkIsHeld
  <1> QED BY <1>1, TypeCorrect, BusyStep, PTL DEF Spec

\* When the users keep their side of the contract, an exclusive accessor's node
\* stays stored under its id and marked, and no two accessors share a mark.
\* This is what makes the busy set, which only knows ids, protect objects.
AccessorInv ==
    /\ \A h \in Holder : Holds(h) =>
          /\ accessor[h].exclusive = (accessor[h].node \in Exclusive)
          /\ accessor[h].exclusive =>
               /\ nodeMap[accessor[h].client][accessor[h].id] = accessor[h].node
               /\ accessor[h].id \in busyNodes[accessor[h].client]
    /\ \A g, h \in Holder :
          (/\ Holds(g) /\ accessor[g].exclusive
           /\ Holds(h) /\ accessor[h].exclusive
           /\ accessor[g].client = accessor[h].client
           /\ accessor[g].id = accessor[h].id) => g = h

LEMMA AccessorStep == TypeOK /\ AccessorInv /\ [CarefulNext]_vars => AccessorInv'
  <1> SUFFICES ASSUME TypeOK, AccessorInv, [CarefulNext]_vars PROVE AccessorInv'
    OBVIOUS
  <1>1. ASSUME accessor' = accessor, RespectsAccessors,
               \A d \in Client : \A i \in busyNodes[d] :
                  nodeMap'[d][i] # NoNode => i \in busyNodes'[d]
        PROVE  AccessorInv'
    <2>1. \A h \in Holder : Holds(h) => accessor[h].node # NoNode /\ accessor[h].client \in Client
      BY ConstantsOK DEF TypeOK, Accessor, Holds
    <2> QED BY <1>1, <2>1 DEF AccessorInv, RespectsAccessors, Holds
  <1>2. ASSUME NEW c \in Client, NEW n \in Node, NEW p \in 0..MaxId, Attach(c, p, n),
               RespectsAccessors
        PROVE  AccessorInv'
    BY <1>1, <1>2, AttachEffect
  <1>3. ASSUME NEW c \in Client, QuotaExceeded(c), RespectsAccessors PROVE AccessorInv'
    BY <1>1, <1>3 DEF QuotaExceeded
  <1>4. ASSUME NEW c \in Client, NEW roots \in SUBSET Id, RemoveNodesFromStorage(c, roots),
               RespectsAccessors
        PROVE  AccessorInv'
    <2>1. /\ busyNodes' = [busyNodes EXCEPT ![c] = @ \ Gone(c, roots)]
          /\ accessor' = accessor
          /\ \A j \in Id : nodeMap'[c][j] = IF j \in Gone(c, roots) THEN NoNode ELSE nodeMap[c][j]
      BY <1>4, RemovalEffect
    <2>2. \A d \in Client : \A i \in busyNodes[d] :
             nodeMap'[d][i] # NoNode => i \in busyNodes'[d]
      BY <2>1 DEF TypeOK
    <2> QED BY <1>1, <1>4, <2>1, <2>2
  <1>5. ASSUME NEW h \in Holder, NEW c \in Client, NEW id \in Id, GetNodeAccessor(h, c, id)
        PROVE  AccessorInv'
    <2> DEFINE n == nodeMap[c][id]
               a == [node |-> n, client |-> c, id |-> id, exclusive |-> n \in Exclusive]
    <2>1. /\ n \in Exclusive => id \notin busyNodes[c]
          /\ accessor' = [accessor EXCEPT ![h] = a]
          /\ nodeMap' = nodeMap
          /\ busyNodes' = IF n \in Exclusive THEN [busyNodes EXCEPT ![c] = @ \cup {id}]
                          ELSE busyNodes
      BY <1>5 DEF GetNodeAccessor
    <2>2. /\ accessor'[h] = a
          /\ \A g \in Holder \ {h} : accessor'[g] = accessor[g]
          /\ \A d \in Client : busyNodes[d] \subseteq busyNodes'[d]
          /\ n \in Exclusive => id \in busyNodes'[c]
      BY <2>1 DEF TypeOK
    <2>3. /\ a.node = n /\ a.client = c /\ a.id = id
          /\ a.exclusive = (n \in Exclusive)
      OBVIOUS
    <2> HIDE DEF a
    <2>4. \A g \in Holder : Holds(g) => accessor[g].client \in Client
      BY DEF TypeOK, Holds, Accessor
    <2>5. ASSUME NEW g \in Holder, Holds(g)'
          PROVE /\ accessor'[g].exclusive = (accessor'[g].node \in Exclusive)
                /\ accessor'[g].exclusive =>
                     /\ nodeMap'[accessor'[g].client][accessor'[g].id] = accessor'[g].node
                     /\ accessor'[g].id \in busyNodes'[accessor'[g].client]
      <3>1. CASE g = h
        BY <2>1, <2>2, <2>3, <3>1
      <3>2. CASE g # h
        BY <2>1, <2>2, <2>4, <2>5, <3>2, SMT DEF AccessorInv, Holds
      <3> QED BY <3>1, <3>2
    <2>6. ASSUME NEW g \in Holder, g # h, Holds(g), accessor[g].exclusive, n \in Exclusive
          PROVE  ~(accessor[g].client = c /\ accessor[g].id = id)
      BY <2>1, <2>6 DEF AccessorInv
    <2>7. ASSUME NEW f \in Holder, NEW g \in Holder,
                 Holds(f)', accessor'[f].exclusive, Holds(g)', accessor'[g].exclusive,
                 accessor'[f].client = accessor'[g].client,
                 accessor'[f].id = accessor'[g].id
          PROVE  f = g
      <3>1. CASE f # h /\ g # h
        BY <2>2, <2>7, <3>1, SMT DEF AccessorInv, Holds
      <3>2. CASE f = h /\ g # h
        BY <2>2, <2>3, <2>6, <2>7, <3>2 DEF Holds
      <3>3. CASE f # h /\ g = h
        BY <2>2, <2>3, <2>6, <2>7, <3>3 DEF Holds
      <3> QED BY <3>1, <3>2, <3>3
    <2> QED BY <2>5, <2>7 DEF AccessorInv
  <1>6. ASSUME NEW h \in Holder, ReleaseNodeAccessor(h) PROVE AccessorInv'
    <2>1. /\ Holds(h)
          /\ accessor'[h] = NoAccessor
          /\ \A g \in Holder \ {h} : accessor'[g] = accessor[g]
          /\ nodeMap' = nodeMap
      BY <1>6 DEF ReleaseNodeAccessor, TypeOK
    <2>2. \A g \in Holder : Holds(g) => accessor[g].client \in Client
      BY DEF TypeOK, Holds, Accessor
    <2>3. \A d \in Client : \A i \in busyNodes[d] :
             \/ i \in busyNodes'[d]
             \/ accessor[h].exclusive /\ d = accessor[h].client /\ i = accessor[h].id
      BY <1>6, <2>1, <2>2 DEF ReleaseNodeAccessor, TypeOK
    <2> QED BY <2>1, <2>2, <2>3, SMT DEF AccessorInv, Holds
  <1>7. ASSUME UNCHANGED vars PROVE AccessorInv'
    BY <1>7 DEF AccessorInv, Holds, vars
  <1>8. UNCHANGED vars \/ ([Next]_vars /\ RespectsAccessors)
    BY DEF CarefulNext
  <1> QED BY <1>2, <1>3, <1>4, <1>5, <1>6, <1>7, <1>8, StepKinds

CarefulInv == StorageInv /\ AccessorInv

LEMMA CarefulInvHolds == CarefulSpec => []CarefulInv
  <1>1. Init => CarefulInv
    BY StorageInit DEF Init, CarefulInv, AccessorInv, Holds
  <1>2. CarefulInv /\ [CarefulNext]_vars => CarefulInv'
    BY StorageStep, AccessorStep DEF CarefulInv, StorageInv, CarefulNext
  <1> QED BY <1>1, <1>2, PTL DEF CarefulSpec

\* An exclusive accessor and any other accessor of the same node are the same.
LEMMA OneHolder ==
  ASSUME CarefulInv, NEW n \in Exclusive, NEW h \in HeldBy(n)
  PROVE  /\ accessor[h].exclusive
         /\ accessor[h].client \in Client /\ accessor[h].id \in Id
         /\ nodeMap[accessor[h].client][accessor[h].id] = n
         /\ accessor[h].id \in busyNodes[accessor[h].client]
  BY DEF CarefulInv, StorageInv, AccessorInv, HeldBy, Holds, TypeOK, Accessor

\* As long as no one deletes a node while an accessor holds it, an exclusive
\* node has at most one accessor.
THEOREM ExclusiveAccessHolds == CarefulSpec => []ExclusiveAccess
  <1>1. CarefulInv => ExclusiveAccess
    <2> SUFFICES ASSUME CarefulInv, NEW n \in Exclusive, NEW g \in HeldBy(n), NEW h \in HeldBy(n)
                 PROVE  g = h
      BY DEF ExclusiveAccess
    <2>1. n # NoNode /\ g \in Holder /\ h \in Holder /\ Holds(g) /\ Holds(h)
      BY ConstantsOK DEF HeldBy
    <2>2. accessor[g].client = accessor[h].client /\ accessor[g].id = accessor[h].id
      BY <2>1, OneHolder, SMT DEF CarefulInv, StorageInv, StoredOnce
    <2> QED BY <2>1, <2>2, OneHolder DEF CarefulInv, AccessorInv
  <1> QED BY <1>1, CarefulInvHolds, PTL

\* With such users the data manager implements the abstract access control.
THEOREM ImplementsAccess == CarefulSpec => AccessRefinement
  <1>1. Init => Access!Init
    BY DEF Init, Access!Init, HeldBy, Holds
  <1>2. CarefulInv /\ [CarefulNext]_vars => [Access!Next]_([n \in Node |-> HeldBy(n)])
    <2> DEFINE holders == [n \in Node |-> HeldBy(n)]
    <2> SUFFICES ASSUME CarefulInv, [CarefulNext]_vars PROVE [Access!Next]_holders
      OBVIOUS
    <2>1. TypeOK /\ [Next]_vars
      BY DEF CarefulInv, StorageInv, CarefulNext
    <2>2. ASSUME accessor' = accessor PROVE holders' = holders
      BY <2>2 DEF HeldBy, Holds
    <2>3. ASSUME NEW c \in Client, NEW n \in Node, NEW p \in 0..MaxId, Attach(c, p, n)
          PROVE  holders' = holders
      BY <2>1, <2>2, <2>3, AttachEffect
    <2>4. ASSUME NEW c \in Client, NEW roots \in SUBSET Id, RemoveNodesFromStorage(c, roots)
          PROVE  holders' = holders
      BY <2>1, <2>2, <2>4, RemovalEffect
    <2>5. ASSUME NEW h \in Holder, NEW c \in Client, NEW id \in Id, GetNodeAccessor(h, c, id)
          PROVE  Access!Next
      <3> DEFINE n == nodeMap[c][id]
      <3>1. /\ n \in Node
            /\ ~Holds(h)
            /\ n \in Exclusive => id \notin busyNodes[c]
            /\ accessor'[h] \in Accessor /\ accessor'[h].node = n
            /\ \A g \in Holder \ {h} : accessor'[g] = accessor[g]
        BY <2>1, <2>5, SMT DEF GetNodeAccessor, TypeOK, Stored, Accessor
      <3>2. accessor'[h] # NoAccessor
        BY <3>1, ConstantsOK DEF Accessor, Id
      <3>3. n \in Exclusive => HeldBy(n) = {}
        <4> SUFFICES ASSUME n \in Exclusive, NEW g \in HeldBy(n) PROVE FALSE
          OBVIOUS
        <4>1. accessor[g].client = c /\ accessor[g].id = id
          BY <3>1, OneHolder, ConstantsOK, SMT DEF CarefulInv, StorageInv, StoredOnce
        <4> QED BY <3>1, <4>1, OneHolder
      <3>4. \A m \in Node : h \notin HeldBy(m)
        BY <3>1 DEF HeldBy
      <3>5. \A m \in Node : HeldBy(m)' = IF m = n THEN HeldBy(m) \cup {h} ELSE HeldBy(m)
        BY <3>1, <3>2 DEF HeldBy, Holds
      <3> HIDE DEF n
      <3>6. holders' = [holders EXCEPT ![n] = @ \cup {h}]
        BY <3>1, <3>5
      <3>7. Access!Acquire(h, n)
        BY <3>1, <3>3, <3>4, <3>6 DEF Access!Acquire
      <3> QED BY <3>1, <3>7 DEF Access!Next
    <2>6. ASSUME NEW h \in Holder, ReleaseNodeAccessor(h) PROVE Access!Next
      <3> DEFINE n == accessor[h].node
      <3>1. /\ n \in Node
            /\ Holds(h)
            /\ accessor'[h] = NoAccessor
            /\ \A g \in Holder \ {h} : accessor'[g] = accessor[g]
        BY <2>1, <2>6 DEF ReleaseNodeAccessor, TypeOK, Holds, Accessor
      <3>2. \A m \in Node : HeldBy(m)' = IF m = n THEN HeldBy(m) \ {h} ELSE HeldBy(m)
        BY <3>1 DEF HeldBy, Holds
      <3>3. h \in HeldBy(n)
        BY <3>1 DEF HeldBy
      <3> HIDE DEF n
      <3>4. holders' = [holders EXCEPT ![n] = @ \ {h}]
        BY <3>1, <3>2
      <3>5. Access!Release(h, n)
        BY <3>1, <3>3, <3>4 DEF Access!Release
      <3> QED BY <3>1, <3>5 DEF Access!Next
    <2> QED
      BY <2>1, <2>2, <2>3, <2>4, <2>5, <2>6, StepKinds DEF QuotaExceeded, vars
  <1> QED
    BY <1>1, <1>2, CarefulInvHolds, PTL DEF CarefulSpec, AccessRefinement, Access!Spec

=============================================================================
