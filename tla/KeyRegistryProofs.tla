------------------------- MODULE KeyRegistryProofs -------------------------
(***************************************************************************)
(* Theorems about the key registry for any number of threads, contexts,    *)
(* slots and keys, however the critical sections interleave: the reference *)
(* counts are exact, a key without references is about to get one or to be *)
(* unregistered, and the key that an operation uses has an owner.  Then    *)
(* the registry with the daemon's requests: the invariant of the clients'  *)
(* calls and guards, and that a request that starts or goes on keeps it.   *)
(***************************************************************************)
EXTENDS KeyManagement, FiniteSetTheorems, TLAPS

\* Most steps are first-order; SMT is cited for those about numbers and records.
USE ZenonT(30)

Pc == {"idle", "found", "load", "recheck", "register", "lost", "winner", "create", "attach",
       "destroy", "unregister", "acquired", "use", "leave"}

Job == [pc : Pc, ctx : Context \cup {NoContext}, slot : Slot \cup {NoSlot},
        entry : Entry \cup {NoEntry}, rid : 0..MaxRegId, ref : Ref \cup {NoRef},
        src : Ref \cup {NoRef}, using : Entry \cup {NoEntry}, held : Entry \cup {NoEntry},
        more : SUBSET Ref, locked : BOOLEAN, out : Ref \cup {NoRef}]

NodeRecord == [entry : Entry, rid : 0..MaxRegId, ctx : Context, attached : BOOLEAN]

\* The locals a worker has at each point of its request.
JobOK(j) ==
    /\ j \in Job
    /\ j.ref # NoRef <=> j.pc \in {"attach", "destroy"}
    /\ j.pc \notin {"destroy", "unregister"} => j.more = {}
    /\ j.ref \notin j.more
    /\ j.pc \in {"found", "register", "create"} => j.entry \in Entry
    /\ j.pc \in {"found", "load", "recheck", "register", "lost"} => j.slot \in Slot
    /\ j.pc \in {"found", "load", "recheck", "register", "lost", "winner", "create"}
          => j.ctx \in Context
    /\ j.pc = "winner" => j.rid \in RegId
    /\ j.using \in {NoEntry, j.held}

RegistryType ==
    /\ keys \in [RegId -> Entry \cup {NoEntry}]
    /\ slotToId \in [Slot -> 0..MaxRegId]
    /\ nextId \in Nat \ {0}
    /\ refCount \in [Entry -> Nat]
    /\ node \in [Ref -> NodeRecord \cup {NoRef}]
    /\ job \in [Worker -> Job]
    /\ \A w \in Worker : JobOK(job[w])

\* The nodes that a worker will attach or destroy.
Mine(j) == {r \in Ref : r = j.ref \/ r \in j.more}

\* Such a node is in no tree, no other worker will destroy it, and no accessor
\* refers to it: an object is destroyed once.
Owners ==
    /\ \A w \in Worker : \A r \in Mine(job[w]) : node[r] # NoRef /\ ~node[r].attached
    /\ \A v, w \in Worker : v # w => Mine(job[v]) \cap Mine(job[w]) = {}
    /\ \A w \in Worker : job[w].src # NoRef =>
        node[job[w].src] # NoRef /\ \A v \in Worker : job[w].src \notin Mine(job[v])

\* m_ref_count is the number of nodes.
Counts == \A e \in Entry : refCount[e] = Cardinality(References(e))

\* The entry that a worker has loaded and not registered yet is known to nobody else.
Private(w) ==
    /\ \A i \in RegId : keys[i] # job[w].entry
    /\ \A r \in Ref : node[r] # NoRef => node[r].entry # job[w].entry
    /\ \A v \in Worker \ {w} : job[v].entry # job[w].entry

\* An entry is registered under one id, and as long as it is, every node and
\* every worker that got hold of it has that id.
Ids ==
    /\ \A i, k \in RegId : keys[i] = keys[k] /\ keys[i] # NoEntry => i = k
    /\ \A i \in RegId : \A r \in Ref : node[r] # NoRef /\ node[r].entry = keys[i] => node[r].rid = i
    /\ \A i \in RegId : \A w \in Worker : At(w, "create") /\ job[w].entry = keys[i] => job[w].rid = i
    /\ \A i \in RegId : \A w \in Worker : At(w, "found") /\ job[w].entry = keys[i] => slotToId[job[w].slot] = i
    /\ \A w \in Worker : At(w, "register") => Private(w)

AboutTo(w, i) ==
    /\ job[w].pc \in {"create", "unregister"}
    /\ job[w].entry = keys[i] /\ job[w].rid = i

CountedKeys ==
    \A i \in RegId : keys[i] # NoEntry /\ refCount[keys[i]] = 0 => \E w \in Worker : AboutTo(w, i)

\* The inductive invariant.
RegistryInv == RegistryType /\ Owners /\ Counts /\ Ids /\ CountedKeys

----------------------------------------------------------------------------
(* What a step of one worker has to show for each part.                    *)

\* The worker's new job is well formed, and nobody else's changes.
LEMMA WorkerStep ==
  ASSUME RegistryType, NEW w \in Worker, NEW j, JobOK(j), job' = [job EXCEPT ![w] = j]
  PROVE  /\ job'[w] = j /\ \A v \in Worker \ {w} : job'[v] = job[v]
         /\ job' \in [Worker -> Job] /\ \A v \in Worker : JobOK(job'[v])
<1>1. j \in Job BY DEF JobOK
<1>2. job'[w] = j /\ \A v \in Worker \ {w} : job'[v] = job[v] BY DEF RegistryType
<1>3. job' \in [Worker -> Job] BY <1>1 DEF RegistryType
<1> QED BY <1>2, <1>3 DEF RegistryType

LEMMA OwnersStep ==
  ASSUME RegistryType, Owners, NEW w \in Worker, NEW j, JobOK(j), job' = [job EXCEPT ![w] = j],
         \A v \in Worker \ {w} : \A r \in Mine(job[v]) :
            node'[r] # NoRef /\ ~node'[r].attached /\ r \notin Mine(j) /\ r # j.src,
         \A v \in Worker \ {w} : job[v].src # NoRef =>
            node'[job[v].src] # NoRef /\ job[v].src \notin Mine(j),
         \A r \in Mine(j) : node'[r] # NoRef /\ ~node'[r].attached,
         j.src # NoRef => node'[j.src] # NoRef /\ j.src \notin Mine(j)
  PROVE  Owners'
<1>1. job'[w] = j /\ \A v \in Worker \ {w} : job'[v] = job[v]
  BY WorkerStep
<1>2. ASSUME NEW v \in Worker, NEW r \in Mine(job'[v]) PROVE node'[r] # NoRef /\ ~node'[r].attached
  BY <1>1, <1>2
<1>3. ASSUME NEW u \in Worker, NEW v \in Worker, u # v
      PROVE  Mine(job'[u]) \cap Mine(job'[v]) = {}
  <2>1. CASE u # w /\ v # w BY <1>1, <1>3, <2>1 DEF Owners
  <2>2. CASE u = w BY <1>1, <1>3, <2>2
  <2>3. CASE v = w BY <1>1, <1>3, <2>3
  <2> QED BY <2>1, <2>2, <2>3
<1>4. ASSUME NEW v \in Worker, job'[v].src # NoRef
      PROVE  node'[job'[v].src] # NoRef /\ \A u \in Worker : job'[v].src \notin Mine(job'[u])
  <2>1. CASE v # w BY <1>1, <1>4, <2>1 DEF Owners
  <2>2. CASE v = w BY <1>1, <1>4, <2>2
  <2> QED BY <2>1, <2>2
<1> QED BY <1>2, <1>3, <1>4 DEF Owners, Mine

\* A step that takes no node: what the worker had, at most.
LEMMA OwnersQuiet ==
  ASSUME RegistryType, Owners, NEW w \in Worker, NEW j, JobOK(j), job' = [job EXCEPT ![w] = j],
         node' = node, Mine(j) \subseteq Mine(job[w]), j.src \in {job[w].src, NoRef}
  PROVE  Owners'
<1>1. \A v \in Worker \ {w} : \A r \in Mine(job[v]) :
         node'[r] # NoRef /\ ~node'[r].attached /\ r \notin Mine(j) /\ r # j.src
  <2> SUFFICES ASSUME NEW v \in Worker \ {w}, NEW r \in Mine(job[v])
               PROVE  node'[r] # NoRef /\ ~node'[r].attached /\ r \notin Mine(j) /\ r # j.src
    OBVIOUS
  <2>1. r \in Ref /\ r # NoRef BY ConstantsOK DEF Mine
  <2> QED BY <2>1 DEF Owners
<1>2. \A v \in Worker \ {w} : job[v].src # NoRef => node'[job[v].src] # NoRef /\ job[v].src \notin Mine(j)
  BY DEF Owners
<1>3. \A r \in Mine(j) : node'[r] # NoRef /\ ~node'[r].attached BY DEF Owners
<1>4. j.src # NoRef => node'[j.src] # NoRef /\ j.src \notin Mine(j) BY DEF Owners
<1> QED BY <1>1, <1>2, <1>3, <1>4, OwnersStep

\* A step that registers nothing; a node it creates gets the worker's entry.
LEMMA IdsStep ==
  ASSUME RegistryType, Ids, NEW w \in Worker, NEW j, JobOK(j), job' = [job EXCEPT ![w] = j],
         \A i \in RegId : keys'[i] \in {keys[i], NoEntry},
         \A s \in Slot : \A i \in RegId : slotToId[s] = i /\ keys'[i] # NoEntry => slotToId'[s] = i,
         \A r \in Ref : node'[r] # NoRef =>
            \/ node[r] # NoRef /\ node'[r].entry = node[r].entry /\ node'[r].rid = node[r].rid
            \/ At(w, "create") /\ node'[r].entry = job[w].entry /\ node'[r].rid = job[w].rid,
         \A v \in Worker \ {w} : At(v, "register") => j.entry # job[v].entry,
         \A i \in RegId : j.pc = "create" /\ j.entry = keys[i] => j.rid = i,
         \A i \in RegId : j.pc = "found" /\ j.entry = keys[i] => slotToId'[j.slot] = i \/ keys'[i] = NoEntry,
         j.pc # "register"
  PROVE  Ids'
<1>1. job'[w] = j /\ \A v \in Worker \ {w} : job'[v] = job[v] /\ JobOK(job[v])
  BY WorkerStep DEF RegistryType
<1>2. \A i \in RegId : keys[i] \in Entry \cup {NoEntry} BY DEF RegistryType
<1>3. ASSUME NEW i \in RegId, NEW k \in RegId, keys'[i] = keys'[k], keys'[i] # NoEntry PROVE i = k
  BY <1>3, SMT DEF Ids
<1>4. ASSUME NEW i \in RegId, NEW r \in Ref, node'[r] # NoRef, node'[r].entry = keys'[i]
      PROVE  node'[r].rid = i
  <2>1. CASE node[r] # NoRef /\ node'[r].entry = node[r].entry /\ node'[r].rid = node[r].rid
    <3>1. node[r].entry \in Entry BY <2>1 DEF RegistryType, NodeRecord
    <3>2. keys'[i] = keys[i] BY <1>4, <2>1, <3>1, ConstantsOK
    <3>3. node[r].entry = keys[i] BY <1>4, <2>1, <3>2
    <3>4. node[r].rid = i BY <2>1, <3>3 DEF Ids
    <3> QED BY <2>1, <3>4
  <2>2. CASE At(w, "create") /\ node'[r].entry = job[w].entry /\ node'[r].rid = job[w].rid
    <3>1. job[w].entry \in Entry BY <2>2 DEF RegistryType, JobOK, At
    <3>2. keys'[i] = keys[i] BY <1>4, <2>2, <3>1, ConstantsOK
    <3> QED BY <1>4, <2>2, <3>2 DEF Ids
  <2> QED BY <1>4, <2>1, <2>2
<1>5. ASSUME NEW i \in RegId, NEW v \in Worker, job'[v].pc = "create", job'[v].entry = keys'[i]
      PROVE  job'[v].rid = i
  <2>1. job'[v].entry \in Entry BY <1>1, <1>5 DEF JobOK
  <2>2. keys'[i] = keys[i] BY <1>5, <2>1, ConstantsOK
  <2> QED BY <1>1, <1>5, <2>2, SMT DEF Ids, At
<1>6. ASSUME NEW i \in RegId, NEW v \in Worker, job'[v].pc = "found", job'[v].entry = keys'[i]
      PROVE  slotToId'[job'[v].slot] = i
  <2>1. job'[v].entry \in Entry /\ job'[v].slot \in Slot BY <1>1, <1>6 DEF JobOK
  <2>2. keys'[i] = keys[i] /\ keys'[i] # NoEntry BY <1>6, <2>1, ConstantsOK
  <2> QED BY <1>1, <1>6, <2>1, <2>2, SMT DEF Ids, At
<1>7. ASSUME NEW v \in Worker, job'[v].pc = "register"
      PROVE  /\ \A i \in RegId : keys'[i] # job'[v].entry
             /\ \A r \in Ref : node'[r] # NoRef => node'[r].entry # job'[v].entry
             /\ \A u \in Worker \ {v} : job'[u].entry # job'[v].entry
  <2>1. v # w /\ job'[v] = job[v] /\ job[v].entry \in Entry BY <1>1, <1>7 DEF JobOK
  <2>2. Private(v) /\ At(v, "register") BY <1>7, <2>1 DEF Ids, At
  <2> QED BY <1>1, <2>1, <2>2, ConstantsOK, SMT DEF Private
<1> QED BY <1>3, <1>4, <1>5, <1>6, <1>7, SMT DEF Ids, At, Private

\* A step that registers nothing and drops no reference to a registered entry.
LEMMA CountedStep ==
  ASSUME RegistryType, CountedKeys, NEW w \in Worker, NEW j, JobOK(j), job' = [job EXCEPT ![w] = j],
         \A i \in RegId : keys'[i] \in {keys[i], NoEntry},
         \A i \in RegId : keys'[i] # NoEntry /\ refCount'[keys[i]] = 0 =>
            /\ refCount[keys[i]] = 0
            /\ ~AboutTo(w, i)
  PROVE  CountedKeys'
<1>1. job'[w] = j /\ \A v \in Worker \ {w} : job'[v] = job[v]
  BY WorkerStep
<1> SUFFICES ASSUME NEW i \in RegId, keys'[i] # NoEntry, refCount'[keys'[i]] = 0
             PROVE  \E v \in Worker : AboutTo(v, i)'
  BY DEF CountedKeys
<1>2. keys'[i] = keys[i] /\ refCount[keys[i]] = 0 /\ ~AboutTo(w, i) OBVIOUS
<1>3. PICK v \in Worker : AboutTo(v, i) BY <1>2 DEF CountedKeys
<1> QED BY <1>1, <1>2, <1>3 DEF AboutTo

----------------------------------------------------------------------------
(* Steps that change nothing but the worker's locals.                      *)

LEMMA LocalStep ==
  ASSUME RegistryInv, NEW w \in Worker, NEW j, JobOK(j), job' = [job EXCEPT ![w] = j],
         UNCHANGED <<keys, slotToId, nextId, refCount, node>>,
         job[w].pc \notin {"create", "unregister"}, j.pc # "register",
         Owners',
         \A v \in Worker \ {w} : At(v, "register") => j.entry # job[v].entry,
         \A i \in RegId : j.pc = "create" /\ j.entry = keys[i] => j.rid = i,
         \A i \in RegId : j.pc = "found" /\ j.entry = keys[i] => slotToId[j.slot] = i
  PROVE  RegistryInv'
<1>1. RegistryType' BY WorkerStep DEF RegistryInv, RegistryType
<1>2. Counts' BY DEF RegistryInv, Counts, References
<1>3. Ids'
  <2>1. \A r \in Ref : node'[r] # NoRef =>
           node[r] # NoRef /\ node'[r].entry = node[r].entry /\ node'[r].rid = node[r].rid
    OBVIOUS
  <2> QED BY <2>1, IdsStep DEF RegistryInv
<1>4. CountedKeys' BY CountedStep DEF RegistryInv, AboutTo
<1> QED BY <1>1, <1>2, <1>3, <1>4 DEF RegistryInv

\* What is registered or in a node is not private.
LEMMA SharedNotPrivate ==
  ASSUME RegistryType, Ids, NEW v \in Worker, At(v, "register")
  PROVE  /\ job[v].entry # NoEntry
         /\ \A i \in RegId : keys[i] # job[v].entry
         /\ \A r \in Ref : node[r] # NoRef => node[r].entry # job[v].entry
         /\ \A u \in Worker \ {v} : job[u].entry # job[v].entry
  BY ConstantsOK DEF RegistryType, JobOK, Ids, Private, At

LEMMA FoundBySlot ==
  ASSUME RegistryType, Ids, NEW s \in Slot
  PROVE  /\ FindBySlot(s) \in Entry \cup {NoEntry}
         /\ \A v \in Worker : At(v, "register") => FindBySlot(s) # job[v].entry
         /\ \A i \in RegId : FindBySlot(s) # NoEntry /\ FindBySlot(s) = keys[i] => slotToId[s] = i
<1>1. slotToId[s] # 0 => slotToId[s] \in RegId BY ConstantsOK, SMT DEF RegistryType, RegId
<1>2. FindBySlot(s) # NoEntry => /\ slotToId[s] \in RegId /\ FindBySlot(s) = keys[slotToId[s]]
                                 /\ FindBySlot(s) \in Entry
  BY <1>1 DEF FindBySlot, RegistryType
<1>3. \A v \in Worker : At(v, "register") => FindBySlot(s) # job[v].entry
  BY <1>2, SharedNotPrivate
<1> QED BY <1>2, <1>3 DEF Ids

LEMMA IdleJobOK ==
  /\ Idle \in Job
  /\ Idle.pc = "idle" /\ Idle.ref = NoRef /\ Idle.src = NoRef /\ Idle.more = {}
  /\ Idle.entry = NoEntry /\ Idle.using = NoEntry /\ Idle.held = NoEntry
  /\ Idle.ctx = NoContext /\ Idle.rid = 0
  BY ConstantsOK, SMT DEF Idle, Job, Pc

LEMMA LoadOrShareInv ==
  ASSUME RegistryInv, NEW w \in Worker, NEW c \in Context, NEW s \in Slot, LoadOrShare(w, c, s)
  PROVE  RegistryInv'
<1> DEFINE e == FindBySlot(s)
           pc == IF e # NoEntry THEN "found" ELSE "load"
           j == [Idle EXCEPT !.pc = pc, !.ctx = c, !.slot = s, !.entry = e]
<1>1. /\ job' = [job EXCEPT ![w] = j] /\ At(w, "idle")
      /\ UNCHANGED <<keys, slotToId, nextId, refCount, node>>
  BY DEF LoadOrShare
<1>2. /\ e \in Entry \cup {NoEntry}
      /\ \A v \in Worker : At(v, "register") => e # job[v].entry
      /\ \A i \in RegId : e # NoEntry /\ e = keys[i] => slotToId[s] = i
  BY FoundBySlot DEF RegistryInv
<1>3. pc \in Pc /\ ((pc = "found" /\ e # NoEntry) \/ pc = "load") BY DEF Pc
<1> HIDE DEF e, pc
<1>4. /\ j \in Job /\ j.pc = pc /\ j.ctx = c /\ j.slot = s /\ j.entry = e
      /\ j.ref = NoRef /\ j.src = NoRef /\ j.more = {} /\ j.using = NoEntry /\ j.held = NoEntry
  BY <1>2, <1>3, IdleJobOK DEF Job
<1> HIDE DEF j
<1>5. JobOK(j) BY <1>2, <1>3, <1>4 DEF JobOK
<1>6. Mine(j) = {} BY <1>4, ConstantsOK DEF Mine
<1>7. Owners' BY <1>1, <1>4, <1>5, <1>6, OwnersQuiet DEF RegistryInv
<1> QED BY <1>1, <1>2, <1>3, <1>4, <1>5, <1>7, LocalStep DEF At

\* The worker keeps its nodes and its accessor, and its other locals may change.
LEMMA OwnStep ==
  ASSUME RegistryInv, NEW w \in Worker, NEW j, JobOK(j), job' = [job EXCEPT ![w] = j],
         UNCHANGED <<keys, slotToId, nextId, refCount, node>>,
         job[w].pc \notin {"create", "unregister"}, j.pc # "register",
         j.ref \in {job[w].ref, NoRef}, j.src \in {job[w].src, NoRef}, j.more = job[w].more,
         \A v \in Worker \ {w} : At(v, "register") => j.entry # job[v].entry,
         \A i \in RegId : j.pc = "create" /\ j.entry = keys[i] => j.rid = i,
         \A i \in RegId : j.pc = "found" /\ j.entry = keys[i] => slotToId[j.slot] = i
  PROVE  RegistryInv'
<1>1. Mine(j) \subseteq Mine(job[w]) BY ConstantsOK DEF Mine
<1>2. Owners' BY <1>1, OwnersQuiet DEF RegistryInv
<1> QED BY <1>2, LocalStep

LEMMA FindSlotRegistryIdInv ==
  ASSUME RegistryInv, NEW w \in Worker, FindSlotRegistryId(w)
  PROVE  RegistryInv'
<1> DEFINE i == slotToId[job[w].slot]
           j == [job[w] EXCEPT !.pc = "create", !.rid = i]
<1>1. JobOK(job[w]) /\ job[w] \in Job /\ At(w, "found") BY DEF RegistryInv, RegistryType, FindSlotRegistryId
<1>2. job[w].slot \in Slot /\ job[w].entry \in Entry /\ job[w].ctx \in Context
  BY <1>1 DEF JobOK, At
<1>3. i \in 0..MaxRegId BY <1>2 DEF RegistryInv, RegistryType
<1>4. job' = [job EXCEPT ![w] = j] /\ UNCHANGED <<keys, slotToId, nextId, refCount, node>>
  BY DEF FindSlotRegistryId, RegistryInv, RegistryType
<1>5. /\ j \in Job /\ j.pc = "create" /\ j.rid = i /\ j.ctx = job[w].ctx /\ j.slot = job[w].slot
      /\ j.entry = job[w].entry /\ j.ref = job[w].ref /\ j.src = job[w].src
      /\ j.more = job[w].more /\ j.using = job[w].using /\ j.held = job[w].held
  BY <1>1, <1>3, ZenonT(60) DEF Job, Pc
<1>6. \A k \in RegId : j.entry = keys[k] => j.rid = k
  BY <1>1, <1>5, SMT DEF RegistryInv, Ids
<1> HIDE DEF i, j
<1>7. JobOK(j) BY <1>1, <1>2, <1>5 DEF JobOK, At
<1>8. \A v \in Worker \ {w} : At(v, "register") => j.entry # job[v].entry
  BY <1>5, SharedNotPrivate DEF RegistryInv
<1> QED BY <1>1, <1>4, <1>5, <1>6, <1>7, <1>8, OwnStep DEF At

LEMMA LoadKeyFailsInv ==
  ASSUME RegistryInv, NEW w \in Worker, LoadKeyFails(w)
  PROVE  RegistryInv'
<1> DEFINE j == [job[w] EXCEPT !.pc = "recheck"]
<1>1. JobOK(job[w]) /\ job[w] \in Job /\ At(w, "load") BY DEF RegistryInv, RegistryType, LoadKeyFails
<1>2. job' = [job EXCEPT ![w] = j] /\ UNCHANGED <<keys, slotToId, nextId, refCount, node>>
  BY DEF LoadKeyFails, Goto, RegistryInv, RegistryType
<1>3. /\ j \in Job /\ j.pc = "recheck" /\ j.rid = job[w].rid /\ j.ctx = job[w].ctx
      /\ j.slot = job[w].slot /\ j.entry = job[w].entry /\ j.ref = job[w].ref
      /\ j.src = job[w].src /\ j.more = job[w].more /\ j.using = job[w].using /\ j.held = job[w].held
  BY <1>1, SMT DEF Job, Pc
<1> HIDE DEF j
<1>4. JobOK(j) BY <1>1, <1>3 DEF JobOK, At
<1>5. \A v \in Worker \ {w} : At(v, "register") => j.entry # job[v].entry
  BY <1>3, SharedNotPrivate DEF RegistryInv
<1> QED BY <1>1, <1>2, <1>3, <1>4, <1>5, OwnStep DEF At

LEMMA RecheckInv ==
  ASSUME RegistryInv, NEW w \in Worker, Recheck(w)
  PROVE  RegistryInv'
<1> DEFINE s == job[w].slot
           e == FindBySlot(s)
           pc == IF e # NoEntry THEN "found" ELSE "leave"
           j == [job[w] EXCEPT !.pc = pc, !.entry = e]
<1>1. JobOK(job[w]) /\ job[w] \in Job /\ At(w, "recheck") BY DEF RegistryInv, RegistryType, Recheck
<1>2. s \in Slot BY <1>1 DEF JobOK, At
<1>3. job' = [job EXCEPT ![w] = j] /\ UNCHANGED <<keys, slotToId, nextId, refCount, node>>
  BY DEF Recheck, RegistryInv, RegistryType
<1> HIDE DEF s
<1>4. /\ e \in Entry \cup {NoEntry}
      /\ \A v \in Worker : At(v, "register") => e # job[v].entry
      /\ \A i \in RegId : e # NoEntry /\ e = keys[i] => slotToId[s] = i
  BY <1>2, FoundBySlot DEF RegistryInv
<1>5. pc \in Pc /\ ((pc = "found" /\ e # NoEntry) \/ pc = "leave") BY DEF Pc
<1> HIDE DEF e, pc
<1>6. /\ j \in Job /\ j.pc = pc /\ j.rid = job[w].rid /\ j.ctx = job[w].ctx
      /\ j.slot = s /\ j.entry = e /\ j.ref = job[w].ref
      /\ j.src = job[w].src /\ j.more = job[w].more /\ j.using = job[w].using /\ j.held = job[w].held
  BY <1>1, <1>4, <1>5 DEF Job, s
<1> HIDE DEF j
<1>7. JobOK(j) BY <1>1, <1>2, <1>4, <1>5, <1>6 DEF JobOK, At
<1> QED BY <1>1, <1>3, <1>4, <1>5, <1>6, <1>7, OwnStep DEF At

\* The losing thread keeps its entry until it has the winner's.
LEMMA LostInv ==
  ASSUME RegistryInv, NEW w \in Worker, At(w, "register"), Goto(w, "lost"),
         UNCHANGED <<keys, slotToId, nextId, refCount, node>>
  PROVE  RegistryInv'
<1> DEFINE j == [job[w] EXCEPT !.pc = "lost"]
<1>1. JobOK(job[w]) /\ job[w] \in Job BY DEF RegistryInv, RegistryType
<1>2. job' = [job EXCEPT ![w] = j]
  BY DEF Goto, RegistryInv, RegistryType
<1>3. /\ j \in Job /\ j.pc = "lost" /\ j.rid = job[w].rid /\ j.ctx = job[w].ctx
      /\ j.slot = job[w].slot /\ j.entry = job[w].entry /\ j.ref = job[w].ref
      /\ j.src = job[w].src /\ j.more = job[w].more /\ j.using = job[w].using /\ j.held = job[w].held
  BY <1>1, SMT DEF Job, Pc
<1> HIDE DEF j
<1>4. JobOK(j) BY <1>1, <1>3 DEF JobOK, At
<1>5. \A v \in Worker \ {w} : At(v, "register") => j.entry # job[v].entry
  BY <1>3, SharedNotPrivate DEF RegistryInv
<1> QED BY <1>2, <1>3, <1>4, <1>5, OwnStep DEF At

LEMMA FindWinnerIdInv ==
  ASSUME RegistryInv, NEW w \in Worker, FindWinnerId(w)
  PROVE  RegistryInv'
<1> DEFINE i == slotToId[job[w].slot]
           pc == IF i # 0 THEN "winner" ELSE "leave"
           e == IF i # 0 THEN job[w].entry ELSE NoEntry
           j == [job[w] EXCEPT !.pc = pc, !.rid = i, !.entry = e]
<1>1. JobOK(job[w]) /\ job[w] \in Job /\ At(w, "lost") BY DEF RegistryInv, RegistryType, FindWinnerId
<1>2. job' = [job EXCEPT ![w] = j] /\ UNCHANGED <<keys, slotToId, nextId, refCount, node>>
  BY DEF FindWinnerId, RegistryInv, RegistryType
<1>3. job[w].slot \in Slot BY <1>1 DEF JobOK, At
<1>4. i \in 0..MaxRegId /\ (i # 0 => i \in RegId)
  BY <1>3, ConstantsOK, SMT DEF RegistryInv, RegistryType, RegId
<1>5. pc \in Pc /\ ((pc = "winner" /\ i # 0) \/ pc = "leave") BY DEF Pc
<1>6. e \in {job[w].entry, NoEntry} OBVIOUS
<1> HIDE DEF i, e, pc
<1>7. /\ j \in Job /\ j.pc = pc /\ j.rid = i /\ j.ctx = job[w].ctx
      /\ j.slot = job[w].slot /\ j.entry = e /\ j.ref = job[w].ref
      /\ j.src = job[w].src /\ j.more = job[w].more /\ j.using = job[w].using /\ j.held = job[w].held
  BY <1>1, <1>4, <1>5, <1>6 DEF Job
<1> HIDE DEF j
<1>8. JobOK(j) BY <1>1, <1>4, <1>5, <1>7 DEF JobOK, At
<1>9. \A v \in Worker \ {w} : At(v, "register") => j.entry # job[v].entry
  BY <1>6, <1>7, SharedNotPrivate DEF RegistryInv
<1> QED BY <1>1, <1>2, <1>5, <1>7, <1>8, <1>9, OwnStep DEF At

LEMMA FindByIdInv ==
  ASSUME RegistryInv, NEW w \in Worker, FindById(w)
  PROVE  RegistryInv'
<1> DEFINE e == keys[job[w].rid]
           pc == IF e # NoEntry THEN "create" ELSE "leave"
           j == [job[w] EXCEPT !.pc = pc, !.entry = e]
<1>1. JobOK(job[w]) /\ job[w] \in Job /\ At(w, "winner") BY DEF RegistryInv, RegistryType, FindById
<1>2. job' = [job EXCEPT ![w] = j] /\ UNCHANGED <<keys, slotToId, nextId, refCount, node>>
  BY DEF FindById, RegistryInv, RegistryType
<1>3. job[w].rid \in RegId BY <1>1 DEF JobOK, At
<1>4. /\ e \in Entry \cup {NoEntry}
      /\ \A v \in Worker : At(v, "register") => e # job[v].entry
      /\ \A k \in RegId : e # NoEntry /\ e = keys[k] => job[w].rid = k
  BY <1>3, SharedNotPrivate DEF RegistryInv, RegistryType, Ids
<1>5. pc \in Pc /\ ((pc = "create" /\ e # NoEntry) \/ pc = "leave") BY DEF Pc
<1> HIDE DEF e, pc
<1>7. /\ j \in Job /\ j.pc = pc /\ j.rid = job[w].rid /\ j.ctx = job[w].ctx
      /\ j.slot = job[w].slot /\ j.entry = e /\ j.ref = job[w].ref
      /\ j.src = job[w].src /\ j.more = job[w].more /\ j.using = job[w].using /\ j.held = job[w].held
  BY <1>1, <1>4, <1>5 DEF Job
<1> HIDE DEF j
<1>8. JobOK(j) BY <1>1, <1>4, <1>5, <1>7 DEF JobOK, At
<1> QED BY <1>1, <1>2, <1>4, <1>5, <1>7, <1>8, OwnStep DEF At

\* An accessor is taken to a node that is in a tree.
LEMMA TakeAccessor ==
  ASSUME RegistryInv, NEW w \in Worker, NEW r \in Ref, Attached(r), NEW j, JobOK(j),
         job' = [job EXCEPT ![w] = j], node' = node, j.src = r, j.ref = NoRef, j.more = {}
  PROVE  Owners'
<1>1. Mine(j) = {} BY ConstantsOK DEF Mine
<1>2. \A v \in Worker : \A q \in Mine(job[v]) : node[q] # NoRef /\ ~node[q].attached /\ q # r
  BY DEF RegistryInv, Owners, Attached
<1>3. \A v \in Worker : job[v].src # NoRef => node[job[v].src] # NoRef
  BY DEF RegistryInv, Owners
<1> QED BY <1>1, <1>2, <1>3, OwnersStep DEF RegistryInv, Attached

LEMMA BindLoadedKeyInv ==
  ASSUME RegistryInv, NEW w \in Worker, NEW r \in Ref, NEW c \in Context, BindLoadedKey(w, r, c)
  PROVE  RegistryInv'
<1> DEFINE j == [Idle EXCEPT !.pc = "create", !.ctx = c, !.entry = node[r].entry,
                             !.rid = node[r].rid, !.src = r]
<1>1. /\ Attached(r) /\ At(w, "idle") /\ job' = [job EXCEPT ![w] = j]
      /\ UNCHANGED <<keys, slotToId, nextId, refCount, node>>
  BY DEF BindLoadedKey
<1>2. node[r] # NoRef /\ node[r].entry \in Entry /\ node[r].rid \in 0..MaxRegId
  BY <1>1 DEF Attached, RegistryInv, RegistryType, NodeRecord
<1>3. /\ j \in Job /\ j.pc = "create" /\ j.ctx = c /\ j.entry = node[r].entry
      /\ j.rid = node[r].rid /\ j.src = r
      /\ j.ref = NoRef /\ j.more = {} /\ j.using = NoEntry /\ j.held = NoEntry
  BY <1>2, IdleJobOK DEF Job, Pc
<1> HIDE DEF j
<1>4. JobOK(j) BY <1>2, <1>3 DEF JobOK
<1>5. Owners' BY <1>1, <1>3, <1>4, TakeAccessor
<1>6. \A v \in Worker : At(v, "register") => j.entry # job[v].entry
  BY <1>2, <1>3, SharedNotPrivate DEF RegistryInv
<1>7. \A i \in RegId : j.entry = keys[i] => j.rid = i
  <2>1. \A i \in RegId : node[r].entry = keys[i] => node[r].rid = i
    BY <1>2 DEF RegistryInv, Ids
  <2> QED BY <1>3, <2>1
<1> QED BY <1>1, <1>3, <1>4, <1>5, <1>6, <1>7, LocalStep DEF At

LEMMA AcquireKeyForOperationInv ==
  ASSUME RegistryInv, NEW w \in Worker, NEW r \in Ref, NEW c \in Context,
         AcquireKeyForOperation(w, c, r)
  PROVE  RegistryInv'
<1> DEFINE j == [Idle EXCEPT !.pc = "acquired", !.ctx = c, !.src = r,
                             !.using = node[r].entry, !.held = node[r].entry]
<1>1. /\ Attached(r) /\ At(w, "idle") /\ job' = [job EXCEPT ![w] = j]
      /\ UNCHANGED <<keys, slotToId, nextId, refCount, node>>
  BY DEF AcquireKeyForOperation
<1>2. node[r].entry \in Entry
  BY <1>1 DEF Attached, RegistryInv, RegistryType, NodeRecord
<1>3. /\ j \in Job /\ j.pc = "acquired" /\ j.ctx = c /\ j.entry = NoEntry /\ j.src = r
      /\ j.ref = NoRef /\ j.more = {} /\ j.using = node[r].entry /\ j.held = node[r].entry
  BY <1>2, IdleJobOK DEF Job, Pc
<1> HIDE DEF j
<1>4. JobOK(j) BY <1>3 DEF JobOK
<1>5. Owners' BY <1>1, <1>3, <1>4, TakeAccessor
<1>6. \A v \in Worker : At(v, "register") => j.entry # job[v].entry
  BY <1>3, SharedNotPrivate DEF RegistryInv
<1> QED BY <1>1, <1>3, <1>4, <1>5, <1>6, LocalStep DEF At

\* The accessor that was the last owner of a removed node destroys it.
LEMMA DropAccessor ==
  ASSUME RegistryInv, NEW w \in Worker, NEW j, JobOK(j), job' = [job EXCEPT ![w] = j],
         node' = node, LastOwner(w), j.ref = job[w].src, j.src = NoRef, j.more = {}
  PROVE  Owners'
<1> DEFINE r == job[w].src
<1>1. r \in Ref /\ r # NoRef /\ ~node[r].attached /\ \A v \in Worker \ {w} : job[v].src # r
  BY DEF LastOwner, RegistryInv, RegistryType, Job
<1>2. node[r] # NoRef /\ \A v \in Worker : r \notin Mine(job[v])
  BY <1>1 DEF RegistryInv, Owners
<1>3. Mine(j) = {r} BY <1>1 DEF Mine
<1> HIDE DEF r
<1>4. \A v \in Worker : \A q \in Mine(job[v]) :
         node[q] # NoRef /\ ~node[q].attached /\ q # r /\ q # NoRef
  BY <1>2, ConstantsOK DEF RegistryInv, Owners, Mine
<1>5. \A v \in Worker : job[v].src # NoRef => node[job[v].src] # NoRef
  BY DEF RegistryInv, Owners
<1> QED BY <1>1, <1>2, <1>3, <1>4, <1>5, OwnersStep DEF RegistryInv

LEMMA AccessorGoneInv ==
  ASSUME RegistryInv, NEW w \in Worker, AccessorGone(w)
  PROVE  RegistryInv'
<1> DEFINE pc == IF LastOwner(w) THEN "destroy" ELSE "use"
           r == IF LastOwner(w) THEN job[w].src ELSE NoRef
           j == [job[w] EXCEPT !.pc = pc, !.ref = r, !.src = NoRef]
<1>1. JobOK(job[w]) /\ job[w] \in Job /\ At(w, "acquired") BY DEF RegistryInv, RegistryType, AccessorGone
<1>2. job' = [job EXCEPT ![w] = j] /\ UNCHANGED <<keys, slotToId, nextId, refCount, node>>
  BY DEF AccessorGone, RegistryInv, RegistryType
<1>3. \/ LastOwner(w) /\ pc = "destroy" /\ r = job[w].src /\ r # NoRef
      \/ ~LastOwner(w) /\ pc = "use" /\ r = NoRef
  BY DEF LastOwner
<1>4. r \in Ref \cup {NoRef} /\ pc \in Pc BY <1>1, <1>3 DEF Job, Pc
<1> HIDE DEF pc, r
<1>5. /\ j \in Job /\ j.pc = pc /\ j.rid = job[w].rid /\ j.ctx = job[w].ctx
      /\ j.slot = job[w].slot /\ j.entry = job[w].entry /\ j.ref = r
      /\ j.src = NoRef /\ j.more = job[w].more /\ j.using = job[w].using /\ j.held = job[w].held
  BY <1>1, <1>4 DEF Job
<1> HIDE DEF j
<1>6. job[w].ref = NoRef /\ job[w].more = {} BY <1>1 DEF JobOK, At
<1>7. JobOK(j) BY <1>1, <1>3, <1>5, <1>6 DEF JobOK, At
<1>8. Owners'
  <2>1. CASE LastOwner(w) BY <1>2, <1>3, <1>5, <1>6, <1>7, <2>1, DropAccessor
  <2>2. CASE ~LastOwner(w)
    <3>1. Mine(j) = {} BY <1>3, <1>5, <1>6, <2>2, ConstantsOK DEF Mine
    <3> QED BY <1>2, <1>5, <1>7, <3>1, OwnersQuiet DEF RegistryInv
  <2> QED BY <2>1, <2>2
<1>9. \A v \in Worker \ {w} : At(v, "register") => j.entry # job[v].entry
  BY <1>5, SharedNotPrivate DEF RegistryInv
<1> QED BY <1>1, <1>2, <1>3, <1>5, <1>7, <1>8, <1>9, LocalStep DEF At

LEMMA LeaveInv ==
  ASSUME RegistryInv, NEW w \in Worker, Leave(w)
  PROVE  RegistryInv'
<1>1. /\ JobOK(job[w]) /\ job[w] \in Job /\ At(w, "leave")
      /\ UNCHANGED <<keys, slotToId, nextId, refCount, node>>
  BY DEF RegistryInv, RegistryType, Leave
<1>2. CASE LastOwner(w)
  <2> DEFINE j == [Idle EXCEPT !.pc = "destroy", !.ref = job[w].src]
  <2>1. job' = [job EXCEPT ![w] = j] BY <1>2 DEF Leave
  <2>2. job[w].src # NoRef /\ job[w].src \in Ref BY <1>1, <1>2 DEF LastOwner, Job
  <2>3. /\ j \in Job /\ j.pc = "destroy" /\ j.ref = job[w].src /\ j.src = NoRef /\ j.more = {}
        /\ j.entry = NoEntry /\ j.using = NoEntry
    BY <2>2, IdleJobOK DEF Job, Pc
  <2> HIDE DEF j
  <2>4. JobOK(j) BY <2>2, <2>3 DEF JobOK
  <2>5. Owners' BY <1>1, <1>2, <2>1, <2>3, <2>4, DropAccessor
  <2>6. \A v \in Worker \ {w} : At(v, "register") => j.entry # job[v].entry
    BY <2>3, SharedNotPrivate DEF RegistryInv
  <2> QED BY <1>1, <2>1, <2>3, <2>4, <2>5, <2>6, LocalStep DEF At
<1>3. CASE ~LastOwner(w)
  <2>1. job' = [job EXCEPT ![w] = Idle] BY <1>3 DEF Leave
  <2>2. JobOK(Idle) BY IdleJobOK DEF JobOK
  <2>3. Mine(Idle) = {} BY IdleJobOK, ConstantsOK DEF Mine
  <2>4. Owners' BY <1>1, <2>1, <2>2, <2>3, IdleJobOK, OwnersQuiet DEF RegistryInv
  <2>5. \A v \in Worker \ {w} : At(v, "register") => Idle.entry # job[v].entry
    BY IdleJobOK, SharedNotPrivate DEF RegistryInv
  <2> QED BY <1>1, <2>1, <2>2, <2>4, <2>5, IdleJobOK, LocalStep DEF At
<1> QED BY <1>2, <1>3

LEMMA KeyUsedInv ==
  ASSUME RegistryInv, NEW w \in Worker, KeyUsed(w)
  PROVE  RegistryInv'
<1> DEFINE j == [job[w] EXCEPT !.pc = "leave", !.using = NoEntry]
<1>1. JobOK(job[w]) /\ job[w] \in Job /\ At(w, "use") BY DEF RegistryInv, RegistryType, KeyUsed
<1>2. job' = [job EXCEPT ![w] = j] /\ UNCHANGED <<keys, slotToId, nextId, refCount, node>>
  BY DEF KeyUsed, RegistryInv, RegistryType
<1>3. /\ j \in Job /\ j.pc = "leave" /\ j.rid = job[w].rid /\ j.ctx = job[w].ctx
      /\ j.slot = job[w].slot /\ j.entry = job[w].entry /\ j.ref = job[w].ref
      /\ j.src = job[w].src /\ j.more = job[w].more /\ j.using = NoEntry /\ j.held = job[w].held
  BY <1>1 DEF Job, Pc
<1> HIDE DEF j
<1>4. JobOK(j) BY <1>1, <1>3 DEF JobOK, At
<1>5. \A v \in Worker \ {w} : At(v, "register") => j.entry # job[v].entry
  BY <1>3, SharedNotPrivate DEF RegistryInv
<1> QED BY <1>1, <1>2, <1>3, <1>4, <1>5, OwnStep DEF At

LEMMA AttachFailsInv ==
  ASSUME RegistryInv, NEW w \in Worker, AttachFails(w)
  PROVE  RegistryInv'
<1> DEFINE j == [job[w] EXCEPT !.pc = "destroy", !.entry = NoEntry]
<1>1. JobOK(job[w]) /\ job[w] \in Job /\ At(w, "attach") BY DEF RegistryInv, RegistryType, AttachFails
<1>2. job' = [job EXCEPT ![w] = j] /\ UNCHANGED <<keys, slotToId, nextId, refCount, node>>
  BY DEF AttachFails, RegistryInv, RegistryType
<1>3. /\ j \in Job /\ j.pc = "destroy" /\ j.rid = job[w].rid /\ j.ctx = job[w].ctx
      /\ j.slot = job[w].slot /\ j.entry = NoEntry /\ j.ref = job[w].ref
      /\ j.src = job[w].src /\ j.more = job[w].more /\ j.using = job[w].using /\ j.held = job[w].held
  BY <1>1 DEF Job, Pc
<1> HIDE DEF j
<1>4. JobOK(j) BY <1>1, <1>3 DEF JobOK, At
<1>5. \A v \in Worker \ {w} : At(v, "register") => j.entry # job[v].entry
  BY <1>3, SharedNotPrivate DEF RegistryInv
<1> QED BY <1>1, <1>2, <1>3, <1>4, <1>5, OwnStep DEF At

----------------------------------------------------------------------------
(* Entries that are loaded and registered.                                 *)

LEMMA FreshCounts ==
  ASSUME RegistryInv, NEW e \in Entry, FreshEntry(e), node' = node,
         refCount' = [refCount EXCEPT ![e] = 0]
  PROVE  Counts'
<1>1. References(e) = {} BY DEF FreshEntry, References
<1>2. \A x \in Entry : References(x)' = References(x) BY DEF References
<1>3. refCount'[e] = 0 /\ \A x \in Entry \ {e} : refCount'[x] = refCount[x]
  BY DEF RegistryInv, RegistryType
<1> QED BY <1>1, <1>2, <1>3, FS_EmptySet DEF RegistryInv, Counts

LEMMA LoadKeyInv ==
  ASSUME RegistryInv, NEW w \in Worker, LoadKey(w)
  PROVE  RegistryInv'
<1>1. PICK e \in Entry : /\ FreshEntry(e) /\ refCount' = [refCount EXCEPT ![e] = 0]
                         /\ job' = [job EXCEPT ![w].pc = "register", ![w].entry = e]
  BY DEF LoadKey
<1> DEFINE j == [job[w] EXCEPT !.pc = "register", !.entry = e]
<1>2. /\ JobOK(job[w]) /\ job[w] \in Job /\ At(w, "load")
      /\ UNCHANGED <<keys, slotToId, nextId, node>>
  BY DEF RegistryInv, RegistryType, LoadKey
<1>3. job' = [job EXCEPT ![w] = j] BY <1>1 DEF RegistryInv, RegistryType
<1>4. /\ j \in Job /\ j.pc = "register" /\ j.rid = job[w].rid /\ j.ctx = job[w].ctx
      /\ j.slot = job[w].slot /\ j.entry = e /\ j.ref = job[w].ref
      /\ j.src = job[w].src /\ j.more = job[w].more /\ j.using = job[w].using /\ j.held = job[w].held
  BY <1>2 DEF Job, Pc
<1> HIDE DEF j
<1>5. JobOK(j) BY <1>2, <1>4 DEF JobOK, At
<1>6. /\ \A i \in RegId : keys[i] # e
      /\ \A r \in Ref : node[r] # NoRef => node[r].entry # e
      /\ \A v \in Worker : job[v].entry # e
  BY <1>1 DEF FreshEntry
<1>7. job'[w] = j /\ \A v \in Worker \ {w} : job'[v] = job[v]
  BY <1>3, <1>5, WorkerStep DEF RegistryInv
<1>8. RegistryType'
  <2>1. refCount' \in [Entry -> Nat] BY <1>1 DEF RegistryInv, RegistryType
  <2> QED BY <1>2, <1>3, <1>5, <2>1, WorkerStep DEF RegistryInv, RegistryType
<1>9. Owners'
  <2>1. Mine(j) \subseteq Mine(job[w]) BY <1>4 DEF Mine
  <2> QED BY <1>2, <1>3, <1>4, <1>5, <2>1, OwnersQuiet DEF RegistryInv
<1>10. Counts' BY <1>1, <1>2, FreshCounts
<1>11. Ids'
  <2>1. Private(w)' BY <1>2, <1>4, <1>6, <1>7 DEF Private
  <2>2. ASSUME NEW v \in Worker \ {w}, At(v, "register") PROVE Private(v)'
    BY <1>2, <1>4, <1>6, <1>7, <2>2, SMT DEF RegistryInv, Ids, Private
  <2> QED BY <1>2, <1>4, <1>7, <2>1, <2>2, SMT DEF RegistryInv, Ids, At
<1>12. CountedKeys'
  <2>1. \A i \in RegId : refCount'[keys[i]] = refCount[keys[i]] \/ keys[i] = NoEntry
    BY <1>1, <1>6 DEF RegistryInv, RegistryType
  <2> QED BY <1>2, <1>3, <1>5, <2>1, CountedStep DEF RegistryInv, AboutTo, At
<1> QED BY <1>8, <1>9, <1>10, <1>11, <1>12 DEF RegistryInv

\* Worker w registers the entry that only it knows, under the id it is going
\* to give the node.
LEMMA RegisterStep ==
  ASSUME RegistryInv, NEW w \in Worker, NEW j, JobOK(j), job' = [job EXCEPT ![w] = j],
         j.pc = "create", j.rid \in RegId,
         keys'[j.rid] = j.entry, \A i \in RegId \ {j.rid} : keys'[i] = keys[i],
         node' = node, job[w].pc \notin {"create", "unregister"},
         \A i \in RegId : keys[i] # j.entry,
         \A r \in Ref : node[r] # NoRef => node[r].entry # j.entry,
         \A v \in Worker \ {w} : job[v].entry # j.entry,
         \A s \in Slot : slotToId[s] # 0 => slotToId'[s] = slotToId[s],
         \A i \in RegId : keys[i] # NoEntry => refCount'[keys[i]] = refCount[keys[i]]
  PROVE  Ids' /\ CountedKeys'
<1> DEFINE n == j.rid
           e == j.entry
<1>1. /\ job'[w] = j /\ \A v \in Worker \ {w} : job'[v] = job[v] /\ JobOK(job[v])
  BY WorkerStep DEF RegistryInv, RegistryType
<1>2. /\ n \in RegId /\ keys'[n] = e /\ \A i \in RegId \ {n} : keys'[i] = keys[i]
      /\ e \in Entry
  BY DEF JobOK
<1>3. ASSUME NEW i \in RegId, NEW k \in RegId, keys'[i] = keys'[k], keys'[i] # NoEntry PROVE i = k
  BY <1>2, <1>3, SMT DEF RegistryInv, Ids
<1>4. ASSUME NEW i \in RegId, NEW r \in Ref, node'[r] # NoRef, node'[r].entry = keys'[i]
      PROVE  node'[r].rid = i
  BY <1>2, <1>4, SMT DEF RegistryInv, Ids
<1>5. ASSUME NEW i \in RegId, NEW v \in Worker, job'[v].pc = "create", job'[v].entry = keys'[i]
      PROVE  job'[v].rid = i
  BY <1>1, <1>2, <1>5, SMT DEF RegistryInv, Ids, At
<1>6. ASSUME NEW i \in RegId, NEW v \in Worker, job'[v].pc = "found", job'[v].entry = keys'[i]
      PROVE  slotToId'[job'[v].slot] = i
  <2>1. v # w /\ job'[v] = job[v] /\ i # n BY <1>1, <1>2, <1>6
  <2>2. slotToId[job[v].slot] = i BY <1>2, <1>6, <2>1, SMT DEF RegistryInv, Ids, At
  <2>3. job[v].slot \in Slot BY <1>1, <1>6, <2>1 DEF JobOK
  <2>4. i # 0 BY SMT DEF RegId
  <2> QED BY <2>1, <2>2, <2>3, <2>4
<1>7. ASSUME NEW v \in Worker, job'[v].pc = "register"
      PROVE  /\ \A i \in RegId : keys'[i] # job'[v].entry
             /\ \A r \in Ref : node'[r] # NoRef => node'[r].entry # job'[v].entry
             /\ \A u \in Worker \ {v} : job'[u].entry # job'[v].entry
  <2>1. v # w /\ job'[v] = job[v] BY <1>1, <1>7
  <2>2. Private(v) BY <1>7, <2>1 DEF RegistryInv, Ids, At
  <2> QED BY <1>1, <1>2, <2>1, <2>2, SMT DEF Private
<1>8. Ids' BY <1>3, <1>4, <1>5, <1>6, <1>7, SMT DEF Ids, At, Private
<1>9. ASSUME NEW i \in RegId, keys'[i] # NoEntry, refCount'[keys'[i]] = 0
      PROVE  \E v \in Worker : AboutTo(v, i)'
  <2>1. CASE i = n BY <1>1, <1>2, <2>1 DEF AboutTo
  <2>2. CASE i # n
    <3>1. keys'[i] = keys[i] /\ refCount[keys[i]] = 0 BY <1>2, <1>9, <2>2
    <3>2. PICK v \in Worker : AboutTo(v, i) BY <1>9, <3>1 DEF RegistryInv, CountedKeys
    <3> QED BY <1>1, <3>1, <3>2 DEF AboutTo
  <2> QED BY <2>1, <2>2
<1> QED BY <1>8, <1>9 DEF CountedKeys

LEMMA RegisterSlotKeyInv ==
  ASSUME RegistryInv, NEW w \in Worker, RegisterSlotKey(w)
  PROVE  RegistryInv'
<1>1. CASE slotToId[job[w].slot] # 0
  BY <1>1, LostInv DEF RegisterSlotKey
<1>2. CASE slotToId[job[w].slot] = 0
  <2> DEFINE s == job[w].slot
             e == job[w].entry
             n == nextId
             j == [job[w] EXCEPT !.pc = "create", !.rid = n]
  <2>0. /\ At(w, "register") /\ n <= MaxRegId
        /\ keys' = [keys EXCEPT ![n] = e] /\ slotToId' = [slotToId EXCEPT ![s] = n]
        /\ nextId' = n + 1 /\ job' = [job EXCEPT ![w].pc = "create", ![w].rid = n]
        /\ UNCHANGED <<refCount, node>>
    BY <1>2 DEF RegisterSlotKey
  <2>1. /\ JobOK(job[w]) /\ job[w] \in Job /\ At(w, "register") /\ n \in RegId
        /\ keys' = [keys EXCEPT ![n] = e] /\ slotToId' = [slotToId EXCEPT ![s] = n]
        /\ nextId' = n + 1 /\ job' = [job EXCEPT ![w] = j] /\ UNCHANGED <<refCount, node>>
    <3>1. n \in RegId BY <2>0, ConstantsOK, SMT DEF RegistryInv, RegistryType, RegId
    <3>2. job' = [job EXCEPT ![w] = j] BY <2>0 DEF RegistryInv, RegistryType
    <3> QED BY <2>0, <3>1, <3>2 DEF RegistryInv, RegistryType
  <2>2. s \in Slot /\ e \in Entry /\ n \in 0..MaxRegId BY <2>1, SMT DEF JobOK, At, RegId
  <2>3. /\ j \in Job /\ j.pc = "create" /\ j.rid = n /\ j.ctx = job[w].ctx
        /\ j.slot = job[w].slot /\ j.entry = e /\ j.ref = job[w].ref
        /\ j.src = job[w].src /\ j.more = job[w].more /\ j.using = job[w].using /\ j.held = job[w].held
    BY <2>1, <2>2 DEF Job, Pc
  <2>4. slotToId[s] = 0 BY <1>2
  <2>5. /\ \A i \in RegId : keys[i] # e
        /\ \A r \in Ref : node[r] # NoRef => node[r].entry # e
        /\ \A v \in Worker \ {w} : job[v].entry # e
    BY <2>1, SharedNotPrivate DEF RegistryInv
  <2> HIDE DEF s, e, n, j
  <2>6. JobOK(j) BY <2>1, <2>2, <2>3 DEF JobOK, At, e
  <2>7. RegistryType'
    <3>1. /\ keys' \in [RegId -> Entry \cup {NoEntry}] /\ slotToId' \in [Slot -> 0..MaxRegId]
          /\ nextId' \in Nat \ {0}
      BY <2>1, <2>2, SMT DEF RegistryInv, RegistryType, RegId
    <3> QED BY <2>1, <2>6, <3>1, WorkerStep DEF RegistryInv, RegistryType
  <2>8. Owners'
    <3>1. Mine(j) \subseteq Mine(job[w]) BY <2>3 DEF Mine
    <3> QED BY <2>1, <2>3, <2>6, <3>1, OwnersQuiet DEF RegistryInv
  <2>9. Counts' BY <2>1 DEF RegistryInv, Counts, References
  <2>10. \A t \in Slot : slotToId[t] # 0 => slotToId'[t] = slotToId[t]
    BY <2>1, <2>4 DEF RegistryInv, RegistryType
  <2>11. Ids' /\ CountedKeys'
    <3>1. job[w].pc \notin {"create", "unregister"} BY <2>1 DEF At
    <3>2. \A i \in RegId : keys[i] # NoEntry => refCount'[keys[i]] = refCount[keys[i]]
      BY <2>1
    <3>3. keys'[n] = e /\ \A i \in RegId \ {n} : keys'[i] = keys[i]
      BY <2>1 DEF RegistryInv, RegistryType
    <3> QED BY <2>1, <2>3, <2>5, <2>6, <2>10, <3>1, <3>2, <3>3, RegisterStep
  <2> QED BY <2>7, <2>8, <2>9, <2>11 DEF RegistryInv
<1> QED BY <1>1, <1>2

LEMMA RegisterEphemeralKeyInv ==
  ASSUME RegistryInv, NEW w \in Worker, NEW c \in Context, RegisterEphemeralKey(w, c)
  PROVE  RegistryInv'
<1> DEFINE n == nextId
           h == job[w].held
<1>1. PICK e \in Entry :
         /\ FreshEntry(e) /\ refCount' = [refCount EXCEPT ![e] = 0]
         /\ keys' = [keys EXCEPT ![n] = e]
         /\ job' = [job EXCEPT ![w] = [Idle EXCEPT !.pc = "create", !.ctx = c, !.entry = e,
                                                   !.rid = n, !.held = h]]
  BY DEF RegisterEphemeralKey
<1> DEFINE j == [Idle EXCEPT !.pc = "create", !.ctx = c, !.entry = e, !.rid = n, !.held = h]
<1>2. /\ job[w] \in Job /\ n \in RegId /\ n \in 0..MaxRegId /\ nextId' = n + 1
      /\ UNCHANGED <<slotToId, node>> /\ job[w].pc \in {"idle", "use"}
  BY ConstantsOK, SMT DEF RegistryInv, RegistryType, RegisterEphemeralKey, RegId, At
<1>3. h \in Entry \cup {NoEntry} BY <1>2 DEF Job
<1>4. job' = [job EXCEPT ![w] = j] BY <1>1
<1> HIDE DEF n, h
<1>5. /\ j \in Job /\ j.pc = "create" /\ j.rid = n /\ j.ctx = c /\ j.entry = e /\ j.ref = NoRef
      /\ j.src = NoRef /\ j.more = {} /\ j.using = NoEntry /\ j.held = h
  BY <1>2, <1>3, IdleJobOK, ZenonT(60) DEF Job, Pc
<1> HIDE DEF j
<1>6. JobOK(j) BY <1>5 DEF JobOK
<1>7. /\ \A i \in RegId : keys[i] # e
      /\ \A r \in Ref : node[r] # NoRef => node[r].entry # e
      /\ \A v \in Worker : job[v].entry # e
  BY <1>1 DEF FreshEntry
<1>8. RegistryType'
  <2>1. /\ keys' \in [RegId -> Entry \cup {NoEntry}] /\ refCount' \in [Entry -> Nat]
        /\ nextId' \in Nat \ {0}
    BY <1>1, <1>2, SMT DEF RegistryInv, RegistryType, RegId
  <2> QED BY <1>2, <1>4, <1>6, <2>1, WorkerStep DEF RegistryInv, RegistryType
<1>9. Owners'
  <2>1. Mine(j) = {} BY <1>5, ConstantsOK DEF Mine
  <2> QED BY <1>2, <1>4, <1>5, <1>6, <2>1, OwnersQuiet DEF RegistryInv
<1>10. Counts' BY <1>1, <1>2, FreshCounts
<1>11. \A i \in RegId : keys[i] # NoEntry => refCount'[keys[i]] = refCount[keys[i]]
  BY <1>1, <1>7 DEF RegistryInv, RegistryType
<1>12. Ids' /\ CountedKeys'
  <2>1. job[w].pc \notin {"create", "unregister"} BY <1>2
  <2>2. \A t \in Slot : slotToId[t] # 0 => slotToId'[t] = slotToId[t] BY <1>2
  <2>3. /\ \A i \in RegId : keys[i] # j.entry
        /\ \A r \in Ref : node[r] # NoRef => node[r].entry # j.entry
        /\ \A v \in Worker \ {w} : job[v].entry # j.entry
    BY <1>5, <1>7
  <2>4. keys'[n] = e /\ \A i \in RegId \ {n} : keys'[i] = keys[i]
    BY <1>1, <1>2 DEF RegistryInv, RegistryType
  <2>5. j.rid \in RegId /\ keys'[j.rid] = j.entry /\ \A i \in RegId \ {j.rid} : keys'[i] = keys[i]
    BY <1>2, <1>5, <2>4
  <2>6. node' = node /\ j.pc = "create" BY <1>2, <1>5
  <2> QED BY <1>4, <1>6, <1>11, <2>1, <2>2, <2>3, <2>5, <2>6, RegisterStep
<1> QED BY <1>8, <1>9, <1>10, <1>12 DEF RegistryInv

----------------------------------------------------------------------------
(* The life of a node.                                                     *)

LEMMA ConstructKeyDataNodeInv ==
  ASSUME RegistryInv, NEW w \in Worker, ConstructKeyDataNode(w)
  PROVE  RegistryInv'
<1>0. PICK e \in Entry : e = job[w].entry
  BY DEF RegistryInv, RegistryType, ConstructKeyDataNode, JobOK, At
<1>1. PICK r \in Ref :
         /\ FreshRef(r)
         /\ node' = [node EXCEPT ![r] = [entry |-> e, rid |-> job[w].rid,
                                         ctx |-> job[w].ctx, attached |-> FALSE]]
         /\ job' = [job EXCEPT ![w].pc = "attach", ![w].ref = r]
  BY <1>0 DEF ConstructKeyDataNode
<1> DEFINE n == [entry |-> e, rid |-> job[w].rid, ctx |-> job[w].ctx, attached |-> FALSE]
           j == [job[w] EXCEPT !.pc = "attach", !.ref = r]
<1>2. /\ JobOK(job[w]) /\ job[w] \in Job /\ At(w, "create")
      /\ UNCHANGED <<keys, slotToId, nextId>>
      /\ refCount' = [refCount EXCEPT ![e] = IF @ = MaxCount THEN 0 ELSE @ + 1]
  BY <1>0 DEF RegistryInv, RegistryType, ConstructKeyDataNode
<1>3. job[w].ctx \in Context /\ job[w].more = {} BY <1>2 DEF JobOK, At
<1>4. n \in NodeRecord /\ n.entry = e /\ n.rid = job[w].rid /\ ~n.attached
  BY <1>2, <1>3 DEF NodeRecord, Job
<1>5. job' = [job EXCEPT ![w] = j] BY <1>1 DEF RegistryInv, RegistryType
<1>6. /\ j \in Job /\ j.pc = "attach" /\ j.rid = job[w].rid /\ j.ctx = job[w].ctx
      /\ j.slot = job[w].slot /\ j.entry = e /\ j.ref = r
      /\ j.src = job[w].src /\ j.more = job[w].more /\ j.using = job[w].using /\ j.held = job[w].held
  BY <1>0, <1>2 DEF Job, Pc
<1>7. r # NoRef /\ NoRef \notin NodeRecord BY ConstantsOK DEF NodeRecord
<1>8. /\ node[r] = NoRef /\ \A v \in Worker : job[v].src # r
  BY <1>1 DEF FreshRef
<1>9. /\ node'[r] = n /\ n # NoRef /\ \A q \in Ref \ {r} : node'[q] = node[q]
      /\ node' \in [Ref -> NodeRecord \cup {NoRef}]
  BY <1>1, <1>4, <1>7 DEF RegistryInv, RegistryType
<1> HIDE DEF n, j
<1>10. JobOK(j) BY <1>2, <1>3, <1>6, <1>7 DEF JobOK, At
<1>11. Owners'
  <2>1. Mine(j) = {r} BY <1>3, <1>6 DEF Mine
  <2>2. \A v \in Worker : \A q \in Mine(job[v]) :
           q # r /\ q \in Ref /\ q # job[w].src /\ node[q] # NoRef /\ ~node[q].attached
    BY <1>8, ConstantsOK DEF RegistryInv, Owners, Mine
  <2>3. \A v \in Worker : job[v].src # NoRef =>
           node[job[v].src] # NoRef /\ job[v].src # r /\ job[v].src \in Ref
    BY <1>8 DEF RegistryInv, Owners, RegistryType, Job
  <2>4. \A v \in Worker \ {w} : \A q \in Mine(job[v]) :
           node'[q] # NoRef /\ ~node'[q].attached /\ q \notin Mine(j) /\ q # j.src
    BY <1>6, <1>9, <2>1, <2>2
  <2>5. \A v \in Worker : job[v].src # NoRef =>
           node'[job[v].src] # NoRef /\ job[v].src \notin Mine(j)
    BY <1>9, <2>1, <2>3
  <2>6. j.src # NoRef => node'[j.src] # NoRef /\ j.src \notin Mine(j) BY <1>6, <2>5
  <2>7. \A q \in Mine(j) : node'[q] # NoRef /\ ~node'[q].attached BY <1>4, <1>9, <2>1
  <2> QED BY <1>5, <1>10, <2>4, <2>5, <2>6, <2>7, OwnersStep DEF RegistryInv
<1>12. /\ References(e)' = References(e) \cup {r} /\ r \notin References(e)
       /\ \A x \in Entry \ {e} : References(x)' = References(x)
  <2>1. \A q \in Ref : \A x : (node'[q] # NoRef /\ node'[q].entry = x) <=>
           (q = r /\ x = e) \/ (node[q] # NoRef /\ node[q].entry = x)
    BY <1>4, <1>8, <1>9
  <2>2. References(e)' = References(e) \cup {r} BY <2>1 DEF References
  <2>3. r \notin References(e) BY <1>8 DEF References
  <2>4. \A x \in Entry \ {e} : References(x)' = References(x) BY <2>1 DEF References
  <2> QED BY <2>2, <2>3, <2>4
<1>13. /\ IsFiniteSet(References(e)) /\ refCount[e] = Cardinality(References(e))
       /\ refCount[e] \in Nat /\ Cardinality(References(e)') = refCount[e] + 1
       /\ refCount[e] + 1 <= MaxCount
  <2>1. References(e) \subseteq Ref /\ References(e)' \subseteq Ref BY DEF References
  <2>2. IsFiniteSet(References(e)) /\ IsFiniteSet(Ref) BY <2>1, ConstantsOK, FS_Subset
  <2>3. refCount[e] = Cardinality(References(e)) /\ refCount[e] \in Nat
    BY <1>3 DEF RegistryInv, Counts, RegistryType
  <2>4. Cardinality(References(e)') = refCount[e] + 1
    <3>1. r \notin References(e) /\ References(e)' = References(e) \cup {r} BY <1>12
    <3>2. Cardinality(References(e) \cup {r}) = Cardinality(References(e)) + 1
      BY <2>2, <3>1, FS_AddElement
    <3> QED BY <2>3, <3>1, <3>2
  <2>5. Cardinality(References(e)') <= Cardinality(Ref) /\ Cardinality(Ref) \in Nat
    BY <2>1, <2>2, FS_Subset, FS_CardinalityType
  <2> QED BY <2>2, <2>3, <2>4, <2>5, ConstantsOK, SMT
<1>14. /\ refCount'[e] = refCount[e] + 1 /\ \A x \in Entry \ {e} : refCount'[x] = refCount[x]
       /\ refCount' \in [Entry -> Nat]
  BY <1>2, <1>3, <1>13, ConstantsOK, SMT DEF RegistryInv, RegistryType
<1>15. Counts'
  <2> SUFFICES ASSUME NEW x \in Entry PROVE refCount'[x] = Cardinality(References(x)')
    BY DEF Counts
  <2>1. CASE x # e BY <1>12, <1>14, <2>1 DEF RegistryInv, Counts
  <2>2. CASE x = e BY <1>13, <1>14, <2>2
  <2> QED BY <2>1, <2>2
<1>16. RegistryType' BY <1>2, <1>5, <1>9, <1>10, <1>14, WorkerStep DEF RegistryInv, RegistryType
<1>17. Ids'
  <2>1. \A q \in Ref : node'[q] # NoRef =>
           \/ node[q] # NoRef /\ node'[q].entry = node[q].entry /\ node'[q].rid = node[q].rid
           \/ At(w, "create") /\ node'[q].entry = job[w].entry /\ node'[q].rid = job[w].rid
    BY <1>0, <1>2, <1>4, <1>9
  <2>2. \A v \in Worker \ {w} : At(v, "register") => j.entry # job[v].entry
    BY <1>0, <1>6, SharedNotPrivate DEF RegistryInv
  <2> QED BY <1>2, <1>5, <1>6, <1>10, <2>1, <2>2, IdsStep DEF RegistryInv
<1>18. CountedKeys'
  <2>1. \A i \in RegId : keys[i] # NoEntry /\ refCount'[keys[i]] = 0 =>
           refCount[keys[i]] = 0 /\ ~AboutTo(w, i)
    BY <1>0, <1>13, <1>14, SMT DEF RegistryInv, RegistryType, AboutTo
  <2> QED BY <1>2, <1>5, <1>10, <2>1, CountedStep DEF RegistryInv
<1> QED BY <1>11, <1>15, <1>16, <1>17, <1>18 DEF RegistryInv

LEMMA AttachKeyDataNodeInv ==
  ASSUME RegistryInv, NEW w \in Worker, AttachKeyDataNode(w)
  PROVE  RegistryInv'
<1> DEFINE r == job[w].ref
           j == [job[w] EXCEPT !.pc = "leave", !.entry = NoEntry, !.ref = NoRef, !.out = r]
<1>1. /\ JobOK(job[w]) /\ job[w] \in Job /\ At(w, "attach")
      /\ UNCHANGED <<keys, slotToId, nextId, refCount>>
      /\ node' = [node EXCEPT ![r].attached = TRUE]
  BY DEF RegistryInv, RegistryType, AttachKeyDataNode
<1>2. r \in Ref /\ r # NoRef /\ job[w].more = {} BY <1>1 DEF JobOK, At, Job
<1>3. job' = [job EXCEPT ![w] = j] BY DEF AttachKeyDataNode, RegistryInv, RegistryType
<1>4. /\ j \in Job /\ j.pc = "leave" /\ j.entry = NoEntry /\ j.ref = NoRef
      /\ j.src = job[w].src /\ j.more = job[w].more /\ j.using = job[w].using /\ j.held = job[w].held
  BY <1>1, <1>2 DEF Job, Pc
<1> HIDE DEF j
<1>5. JobOK(j) BY <1>1, <1>2, <1>4 DEF JobOK
<1>6. r \in Mine(job[w]) BY <1>2 DEF Mine
<1> HIDE DEF r
<1>7. node[r] # NoRef /\ node[r] \in NodeRecord
  BY <1>2, <1>6 DEF RegistryInv, RegistryType, Owners
<1>8. /\ node'[r] = [node[r] EXCEPT !.attached = TRUE] /\ node'[r] \in NodeRecord
      /\ node'[r] # NoRef /\ node'[r].entry = node[r].entry /\ node'[r].rid = node[r].rid
      /\ \A q \in Ref \ {r} : node'[q] = node[q]
  BY <1>1, <1>2, <1>7, ConstantsOK DEF RegistryInv, RegistryType, NodeRecord
<1>9. Owners'
  <2>1. Mine(j) = {} BY <1>2, <1>4, ConstantsOK DEF Mine
  <2>2. \A v \in Worker \ {w} : \A q \in Mine(job[v]) :
           q # r /\ q \in Ref /\ q # job[w].src /\ node[q] # NoRef /\ ~node[q].attached
    BY <1>6, ConstantsOK DEF RegistryInv, Owners, Mine
  <2>3. \A v \in Worker : job[v].src # NoRef => node'[job[v].src] # NoRef
    BY <1>8 DEF RegistryInv, Owners, RegistryType, Job
  <2>4. \A v \in Worker \ {w} : \A q \in Mine(job[v]) :
           node'[q] # NoRef /\ ~node'[q].attached /\ q \notin Mine(j) /\ q # j.src
    BY <1>4, <1>8, <2>1, <2>2
  <2>5. \A v \in Worker : job[v].src # NoRef =>
           node'[job[v].src] # NoRef /\ job[v].src \notin Mine(j)
    BY <2>1, <2>3
  <2>6. j.src # NoRef => node'[j.src] # NoRef /\ j.src \notin Mine(j) BY <1>4, <2>5
  <2> QED BY <1>3, <1>5, <2>1, <2>4, <2>5, <2>6, OwnersStep DEF RegistryInv
<1>10. RegistryType'
  <2>1. node' \in [Ref -> NodeRecord \cup {NoRef}] BY <1>1, <1>8 DEF RegistryInv, RegistryType
  <2> QED BY <1>1, <1>3, <1>5, <2>1, WorkerStep DEF RegistryInv, RegistryType
<1>11. \A q \in Ref : (node'[q] # NoRef <=> node[q] # NoRef)
          /\ (node[q] # NoRef => node'[q].entry = node[q].entry /\ node'[q].rid = node[q].rid)
  BY <1>7, <1>8
<1>12. Counts'
  <2>1. \A x \in Entry : References(x)' = References(x) BY <1>11 DEF References
  <2> QED BY <1>1, <2>1 DEF RegistryInv, Counts
<1>13. Ids'
  <2>1. \A v \in Worker \ {w} : At(v, "register") => j.entry # job[v].entry
    BY <1>4, SharedNotPrivate DEF RegistryInv
  <2> QED BY <1>1, <1>3, <1>4, <1>5, <1>11, <2>1, IdsStep DEF RegistryInv
<1>14. CountedKeys' BY <1>1, <1>3, <1>5, CountedStep DEF RegistryInv, AboutTo, At
<1> QED BY <1>9, <1>10, <1>12, <1>13, <1>14 DEF RegistryInv

\* The worker destroys the next node, or goes on with its request.
LEMMA ProceedJob ==
  ASSUME NEW w \in Worker, NEW a \in Job, a.using \in {NoEntry, a.held}, Proceed(w, a)
  PROVE  \E j : /\ JobOK(j) /\ job' = [job EXCEPT ![w] = j] /\ Mine(j) \subseteq a.more
                /\ j.src = a.src /\ j.entry = NoEntry /\ j.pc \in {"use", "leave", "destroy"}
<1>1. CASE a.more = {} /\ job' = [job EXCEPT ![w] =
              [a EXCEPT !.pc = IF a.using # NoEntry THEN "use" ELSE "leave",
                        !.ref = NoRef, !.entry = NoEntry, !.locked = FALSE]]
  <2> DEFINE pc == IF a.using # NoEntry THEN "use" ELSE "leave"
             j == [a EXCEPT !.pc = pc, !.ref = NoRef, !.entry = NoEntry, !.locked = FALSE]
  <2>1. pc \in {"use", "leave"} /\ pc \in Pc BY DEF Pc
  <2>2. job' = [job EXCEPT ![w] = j] BY <1>1
  <2> HIDE DEF pc
  <2>3. /\ j \in Job /\ j.pc = pc /\ j.ref = NoRef /\ j.entry = NoEntry /\ j.src = a.src
        /\ j.more = a.more /\ j.using = a.using /\ j.held = a.held
    BY <2>1 DEF Job
  <2> HIDE DEF j
  <2>4. JobOK(j) BY <1>1, <2>1, <2>3 DEF JobOK
  <2>5. Mine(j) \subseteq a.more BY <2>3, ConstantsOK DEF Mine
  <2> QED BY <2>1, <2>2, <2>3, <2>4, <2>5
<1>2. ASSUME NEW r \in a.more,
             job' = [job EXCEPT ![w] = [a EXCEPT !.pc = "destroy", !.ref = r, !.entry = NoEntry,
                                                 !.more = @ \ {r}]]
      PROVE  \E j : /\ JobOK(j) /\ job' = [job EXCEPT ![w] = j] /\ Mine(j) \subseteq a.more
                    /\ j.src = a.src /\ j.entry = NoEntry /\ j.pc \in {"use", "leave", "destroy"}
  <2> DEFINE j == [a EXCEPT !.pc = "destroy", !.ref = r, !.entry = NoEntry, !.more = a.more \ {r}]
  <2>1. job' = [job EXCEPT ![w] = j] BY <1>2
  <2>2. r \in Ref /\ r # NoRef /\ a.more \ {r} \in SUBSET Ref BY ConstantsOK DEF Job
  <2>3. /\ j \in Job /\ j.pc = "destroy" /\ j.ref = r /\ j.entry = NoEntry /\ j.src = a.src
        /\ j.more = a.more \ {r} /\ j.using = a.using /\ j.held = a.held
    BY <2>2 DEF Job, Pc
  <2> HIDE DEF j
  <2>4. JobOK(j) BY <2>2, <2>3 DEF JobOK
  <2>5. Mine(j) \subseteq a.more BY <2>3 DEF Mine
  <2> QED BY <2>1, <2>3, <2>4, <2>5
<1> QED BY <1>1, <1>2 DEF Proceed

LEMMA UnregisterInv ==
  ASSUME RegistryInv, NEW w \in Worker, Unregister(w)
  PROVE  RegistryInv'
<1> DEFINE n == job[w].rid
<1>1. /\ JobOK(job[w]) /\ job[w] \in Job /\ At(w, "unregister") /\ Proceed(w, job[w])
      /\ UNCHANGED <<nextId, refCount, node>>
  BY DEF RegistryInv, RegistryType, Unregister
<1>2. /\ keys' \in [RegId -> Entry \cup {NoEntry}] /\ slotToId' \in [Slot -> 0..MaxRegId]
      /\ \A i \in RegId : keys'[i] = IF i = n THEN NoEntry ELSE keys[i]
      /\ \A s \in Slot : slotToId'[s] = IF slotToId[s] = n THEN 0 ELSE slotToId[s]
  BY ConstantsOK, SMT DEF Unregister, RegistryInv, RegistryType
<1>3. PICK j : /\ JobOK(j) /\ job' = [job EXCEPT ![w] = j] /\ Mine(j) \subseteq job[w].more
               /\ j.src = job[w].src /\ j.entry = NoEntry /\ j.pc \in {"use", "leave", "destroy"}
  <2>1. job[w].using \in {NoEntry, job[w].held} BY <1>1 DEF JobOK
  <2> QED BY <1>1, <2>1, ProceedJob
<1>4. RegistryType' BY <1>1, <1>2, <1>3, WorkerStep DEF RegistryInv, RegistryType
<1>5. Owners'
  <2>1. Mine(j) \subseteq Mine(job[w]) BY <1>1, <1>3 DEF Mine, Job
  <2> QED BY <1>1, <1>3, <2>1, OwnersQuiet DEF RegistryInv
<1>6. Counts' BY <1>1 DEF RegistryInv, Counts, References
<1>7. \A i \in RegId : keys'[i] \in {keys[i], NoEntry} BY <1>2
<1>8. Ids'
  <2>1. \A s \in Slot : \A i \in RegId : slotToId[s] = i /\ keys'[i] # NoEntry => slotToId'[s] = i
    BY <1>2
  <2>2. \A v \in Worker \ {w} : At(v, "register") => j.entry # job[v].entry
    BY <1>3, SharedNotPrivate DEF RegistryInv
  <2>3. \A r \in Ref : node'[r] # NoRef =>
           \/ node[r] # NoRef /\ node'[r].entry = node[r].entry /\ node'[r].rid = node[r].rid
           \/ At(w, "create") /\ node'[r].entry = job[w].entry /\ node'[r].rid = job[w].rid
    BY <1>1
  <2> QED BY <1>3, <1>7, <2>1, <2>2, <2>3, IdsStep DEF RegistryInv
<1>9. CountedKeys'
  <2>1. \A i \in RegId : keys'[i] # NoEntry => ~AboutTo(w, i) BY <1>2 DEF AboutTo
  <2> QED BY <1>1, <1>3, <1>7, <2>1, CountedStep DEF RegistryInv
<1> QED BY <1>4, <1>5, <1>6, <1>8, <1>9 DEF RegistryInv

LEMMA RemoveNodesInv ==
  ASSUME RegistryInv, NEW w \in Worker, NEW doomed \in SUBSET Ref, \A r \in doomed : Attached(r),
         RemoveNodes(w, doomed)
  PROVE  RegistryInv'
<1> DEFINE unowned == {r \in doomed : \A v \in Worker : job[v].src # r}
           lk == unowned # {}
           a == [Idle EXCEPT !.more = unowned, !.locked = lk]
<1>1. /\ At(w, "idle") /\ Proceed(w, a) /\ UNCHANGED <<keys, slotToId, nextId, refCount>>
      /\ node' = [r \in Ref |-> IF r \in doomed THEN [node[r] EXCEPT !.attached = FALSE]
                                               ELSE node[r]]
  BY DEF RemoveNodes
<1>2. lk \in BOOLEAN /\ unowned \in SUBSET Ref /\ unowned \subseteq doomed
      /\ \A v \in Worker : job[v].src \notin unowned
  OBVIOUS
<1> HIDE DEF unowned, lk
<1>3. a \in Job /\ a.more = unowned /\ a.src = NoRef /\ a.using = NoEntry
  BY <1>2, IdleJobOK DEF Job
<1> HIDE DEF a
<1>4. PICK j : /\ JobOK(j) /\ job' = [job EXCEPT ![w] = j] /\ Mine(j) \subseteq unowned
               /\ j.src = NoRef /\ j.entry = NoEntry /\ j.pc \in {"use", "leave", "destroy"}
  BY <1>1, <1>3, ProceedJob
<1>5. ASSUME NEW r \in doomed
      PROVE  /\ node[r] # NoRef /\ node[r].attached /\ node'[r] \in NodeRecord
             /\ node'[r].entry = node[r].entry /\ node'[r].rid = node[r].rid /\ ~node'[r].attached
  <2>1. r \in Ref /\ node[r] # NoRef /\ node[r].attached BY <1>5 DEF Attached
  <2>2. node[r] \in NodeRecord BY <2>1 DEF RegistryInv, RegistryType
  <2>3. node'[r] = [node[r] EXCEPT !.attached = FALSE] BY <1>1, <2>1
  <2> QED BY <2>1, <2>2, <2>3 DEF NodeRecord
<1>6. \A r \in Ref \ doomed : node'[r] = node[r] BY <1>1
<1>7. NoRef \notin NodeRecord BY ConstantsOK DEF NodeRecord
<1>8. RegistryType'
  <2>1. node' \in [Ref -> NodeRecord \cup {NoRef}]
    <3>1. \A r \in Ref : node'[r] \in NodeRecord \cup {NoRef}
      BY <1>5, <1>6 DEF RegistryInv, RegistryType
    <3> QED BY <1>1, <3>1
  <2> QED BY <1>1, <1>4, <2>1, WorkerStep DEF RegistryInv, RegistryType
<1>9. Owners'
  <2>1. \A v \in Worker \ {w} : \A q \in Mine(job[v]) :
           node'[q] # NoRef /\ ~node'[q].attached /\ q \notin Mine(j) /\ q # j.src
    <3> SUFFICES ASSUME NEW v \in Worker \ {w}, NEW q \in Mine(job[v])
                 PROVE  node'[q] # NoRef /\ ~node'[q].attached /\ q \notin Mine(j) /\ q # j.src
      OBVIOUS
    <3>1. q \in Ref /\ q # NoRef /\ node[q] # NoRef /\ ~node[q].attached
      BY ConstantsOK DEF Mine, RegistryInv, Owners
    <3>2. q \notin doomed BY <1>5, <3>1
    <3> QED BY <1>2, <1>4, <1>6, <3>1, <3>2
  <2>2. \A v \in Worker \ {w} : job[v].src # NoRef =>
           node'[job[v].src] # NoRef /\ job[v].src \notin Mine(j)
    <3> SUFFICES ASSUME NEW v \in Worker \ {w}, job[v].src # NoRef
                 PROVE  node'[job[v].src] # NoRef /\ job[v].src \notin Mine(j)
      OBVIOUS
    <3>1. job[v].src \in Ref /\ node[job[v].src] # NoRef
      BY DEF RegistryInv, RegistryType, Job, Owners
    <3>2. job[v].src \notin unowned BY <1>2
    <3> QED BY <1>4, <1>5, <1>6, <1>7, <3>1, <3>2
  <2>3. \A q \in Mine(j) : node'[q] # NoRef /\ ~node'[q].attached
    BY <1>2, <1>4, <1>5, <1>7
  <2> QED BY <1>4, <2>1, <2>2, <2>3, OwnersStep DEF RegistryInv
<1>10. \A q \in Ref : (node'[q] # NoRef <=> node[q] # NoRef)
          /\ (node[q] # NoRef => node'[q].entry = node[q].entry /\ node'[q].rid = node[q].rid)
  BY <1>5, <1>6, <1>7
<1>11. Counts'
  <2>1. \A x \in Entry : References(x)' = References(x) BY <1>10 DEF References
  <2> QED BY <1>1, <2>1 DEF RegistryInv, Counts
<1>12. Ids'
  <2>1. \A v \in Worker \ {w} : At(v, "register") => j.entry # job[v].entry
    BY <1>4, SharedNotPrivate DEF RegistryInv
  <2> QED BY <1>1, <1>4, <1>10, <2>1, IdsStep DEF RegistryInv
<1>13. CountedKeys' BY <1>1, <1>4, CountedStep DEF RegistryInv, AboutTo, At
<1> QED BY <1>8, <1>9, <1>11, <1>12, <1>13 DEF RegistryInv

\* The node goes; its entry has one reference less.
LEMMA ReleaseRefInv ==
  ASSUME RegistryInv, NEW w \in Worker, ReleaseRef(w)
  PROVE  RegistryInv'
<1>1. /\ JobOK(job[w]) /\ job[w] \in Job /\ At(w, "destroy")
      /\ UNCHANGED <<keys, slotToId, nextId>>
  BY DEF RegistryInv, RegistryType, ReleaseRef
<1>2. PICK r \in Ref : r = job[w].ref BY <1>1 DEF JobOK, At, Job
<1>3. r # NoRef /\ r \notin job[w].more /\ r \in Mine(job[w])
  BY <1>1, <1>2, ConstantsOK DEF JobOK, Mine
<1>4. node[r] # NoRef /\ node[r] \in NodeRecord
  BY <1>3 DEF RegistryInv, RegistryType, Owners
<1>5. PICK e \in Entry : e = node[r].entry BY <1>4 DEF NodeRecord
<1>6. PICK i \in 0..MaxRegId : i = node[r].rid BY <1>4 DEF NodeRecord
<1>7. /\ refCount' = [refCount EXCEPT ![e] = IF @ = 0 THEN MaxCount ELSE @ - 1]
      /\ node' = [node EXCEPT ![r] = NoRef]
      /\ \/ /\ refCount[e] = 1
            /\ job' = [job EXCEPT ![w].pc = "unregister", ![w].ref = NoRef,
                                  ![w].entry = e, ![w].rid = i]
         \/ refCount[e] # 1 /\ Proceed(w, job[w])
  BY <1>2, <1>5, <1>6 DEF ReleaseRef
<1>8. /\ node'[r] = NoRef /\ \A q \in Ref \ {r} : node'[q] = node[q]
      /\ node' \in [Ref -> NodeRecord \cup {NoRef}]
  BY <1>7 DEF RegistryInv, RegistryType
<1>9. /\ References(e)' = References(e) \ {r} /\ r \in References(e)
      /\ \A x \in Entry \ {e} : References(x)' = References(x)
  <2>1. \A q \in Ref : \A x : (node'[q] # NoRef /\ node'[q].entry = x) <=>
           (q # r /\ node[q] # NoRef /\ node[q].entry = x)
    BY <1>8
  <2>2. References(e)' = References(e) \ {r} BY <2>1 DEF References
  <2>3. r \in References(e) BY <1>4, <1>5 DEF References
  <2>4. \A x \in Entry \ {e} : References(x)' = References(x) BY <1>5, <2>1 DEF References
  <2> QED BY <2>2, <2>3, <2>4
<1>10. /\ refCount[e] \in Nat \ {0} /\ Cardinality(References(e)') = refCount[e] - 1
  <2>1. IsFiniteSet(References(e)) BY ConstantsOK, FS_Subset DEF References
  <2>2. refCount[e] = Cardinality(References(e)) /\ refCount[e] \in Nat
    BY DEF RegistryInv, Counts, RegistryType
  <2>3. Cardinality(References(e) \ {r}) = Cardinality(References(e)) - 1
        /\ Cardinality(References(e) \ {r}) \in Nat
    <3>1. IsFiniteSet(References(e) \ {r}) BY <2>1, FS_RemoveElement
    <3> QED BY <1>9, <2>1, <3>1, FS_RemoveElement, FS_CardinalityType
  <2> QED BY <1>9, <2>2, <2>3, SMT
<1>11. /\ refCount'[e] = refCount[e] - 1 /\ \A x \in Entry \ {e} : refCount'[x] = refCount[x]
       /\ refCount' \in [Entry -> Nat]
  BY <1>7, <1>10, SMT DEF RegistryInv, RegistryType
<1>12. Counts'
  <2> SUFFICES ASSUME NEW x \in Entry PROVE refCount'[x] = Cardinality(References(x)')
    BY DEF Counts
  <2>1. CASE x # e BY <1>9, <1>11, <2>1 DEF RegistryInv, Counts
  <2>2. CASE x = e BY <1>10, <1>11, <2>2
  <2> QED BY <2>1, <2>2
\* Either way the worker has only the nodes left that it has still to destroy.
<1>13. PICK j : /\ JobOK(j) /\ job' = [job EXCEPT ![w] = j] /\ Mine(j) \subseteq job[w].more
                /\ j.src = job[w].src /\ j.entry \in {e, NoEntry}
                /\ j.pc \in {"use", "leave", "destroy", "unregister"}
                /\ refCount[e] = 1 => j.pc = "unregister" /\ j.entry = e /\ j.rid = i
  <2>1. CASE refCount[e] = 1
    <3> DEFINE j == [job[w] EXCEPT !.pc = "unregister", !.ref = NoRef, !.entry = e, !.rid = i]
    <3>1. job' = [job EXCEPT ![w] = j] BY <1>7, <2>1 DEF RegistryInv, RegistryType
    <3>2. /\ j \in Job /\ j.pc = "unregister" /\ j.ref = NoRef /\ j.entry = e /\ j.rid = i
          /\ j.src = job[w].src /\ j.more = job[w].more /\ j.using = job[w].using
          /\ j.held = job[w].held
      BY <1>1 DEF Job, Pc
    <3> HIDE DEF j
    <3>3. NoRef \notin job[w].more BY <1>1, ConstantsOK DEF Job
    <3>4. JobOK(j) BY <1>1, <3>2, <3>3 DEF JobOK
    <3>5. Mine(j) \subseteq job[w].more BY <3>2, ConstantsOK DEF Mine
    <3> QED BY <2>1, <3>1, <3>2, <3>4, <3>5
  <2>2. CASE refCount[e] # 1
    <3>1. Proceed(w, job[w]) BY <1>7, <2>2
    <3>2. job[w].using \in {NoEntry, job[w].held} BY <1>1 DEF JobOK
    <3> QED BY <1>1, <2>2, <3>1, <3>2, ProceedJob
  <2> QED BY <2>1, <2>2
<1>14. RegistryType' BY <1>1, <1>8, <1>11, <1>13, WorkerStep DEF RegistryInv, RegistryType
<1>15. Owners'
  <2>1. Mine(j) \subseteq Mine(job[w]) \ {r} BY <1>1, <1>3, <1>13 DEF Mine, Job
  <2>2. \A v \in Worker \ {w} : \A q \in Mine(job[v]) :
           node'[q] # NoRef /\ ~node'[q].attached /\ q \notin Mine(j) /\ q # j.src
    <3> SUFFICES ASSUME NEW v \in Worker \ {w}, NEW q \in Mine(job[v])
                 PROVE  node'[q] # NoRef /\ ~node'[q].attached /\ q \notin Mine(j) /\ q # j.src
      OBVIOUS
    <3>1. q \in Ref /\ q # NoRef /\ node[q] # NoRef /\ ~node[q].attached
      BY ConstantsOK DEF Mine, RegistryInv, Owners
    <3>2. q \notin Mine(job[w]) /\ q # job[w].src BY <3>1 DEF RegistryInv, Owners
    <3> QED BY <1>3, <1>8, <1>13, <2>1, <3>1, <3>2
  <2>3. \A v \in Worker : job[v].src # NoRef =>
           node'[job[v].src] # NoRef /\ job[v].src \notin Mine(j)
    <3> SUFFICES ASSUME NEW v \in Worker, job[v].src # NoRef
                 PROVE  node'[job[v].src] # NoRef /\ job[v].src \notin Mine(j)
      OBVIOUS
    <3>1. job[v].src \in Ref /\ node[job[v].src] # NoRef /\ job[v].src \notin Mine(job[w])
      BY DEF RegistryInv, RegistryType, Job, Owners
    <3> QED BY <1>3, <1>8, <2>1, <3>1
  <2>4. \A q \in Mine(j) : node'[q] # NoRef /\ ~node'[q].attached
    <3> SUFFICES ASSUME NEW q \in Mine(j) PROVE node'[q] # NoRef /\ ~node'[q].attached
      OBVIOUS
    <3>1. q \in Mine(job[w]) /\ q # r /\ q \in Ref BY <2>1 DEF Mine
    <3> QED BY <1>8, <3>1 DEF RegistryInv, Owners
  <2>5. j.src # NoRef => node'[j.src] # NoRef /\ j.src \notin Mine(j) BY <1>13, <2>3
  <2> QED BY <1>13, <2>2, <2>3, <2>4, <2>5, OwnersStep DEF RegistryInv
<1>16. Ids'
  <2>1. \A v \in Worker \ {w} : At(v, "register") => j.entry # job[v].entry
    BY <1>4, <1>5, <1>13, SharedNotPrivate DEF RegistryInv
  <2>2. \A q \in Ref : node'[q] # NoRef =>
           node[q] # NoRef /\ node'[q].entry = node[q].entry /\ node'[q].rid = node[q].rid
    BY <1>8
  <2> QED BY <1>1, <1>13, <2>1, <2>2, IdsStep DEF RegistryInv
<1>17. CountedKeys'
  <2>1. job'[w] = j /\ \A v \in Worker \ {w} : job'[v] = job[v]
    BY <1>13, WorkerStep DEF RegistryInv
  <2> SUFFICES ASSUME NEW k \in RegId, keys'[k] # NoEntry, refCount'[keys'[k]] = 0
               PROVE  \E v \in Worker : AboutTo(v, k)'
    BY DEF CountedKeys
  <2>2. keys'[k] = keys[k] /\ keys[k] \in Entry BY <1>1 DEF RegistryInv, RegistryType
  <2>3. CASE keys[k] = e
    <3>1. refCount[e] = 1 BY <1>10, <1>11, <2>2, <2>3, SMT
    <3>2. i = k BY <1>4, <1>5, <1>6, <2>3, SMT DEF RegistryInv, Ids
    <3> QED BY <1>13, <2>1, <2>2, <2>3, <3>1, <3>2 DEF AboutTo
  <2>4. CASE keys[k] # e
    <3>1. refCount[keys[k]] = 0 BY <1>11, <2>2, <2>4
    <3>2. PICK v \in Worker : AboutTo(v, k) BY <2>2, <3>1 DEF RegistryInv, CountedKeys
    <3>3. v # w BY <1>1, <3>2 DEF AboutTo, At
    <3> QED BY <2>1, <2>2, <3>2, <3>3 DEF AboutTo
  <2> QED BY <2>3, <2>4
<1> QED BY <1>12, <1>14, <1>15, <1>16, <1>17 DEF RegistryInv

\* What a request does first keeps the invariant ...
LEMMA RequestInv ==
  ASSUME RegistryInv, NEW w \in Worker, Request(w)
  PROVE  RegistryInv'
<1>1. ASSUME NEW r \in Ref, DeleteKeyDataNode(w, r) PROVE RegistryInv'
  <2>1. {r} \in SUBSET Ref /\ \A q \in {r} : Attached(q) BY <1>1 DEF DeleteKeyDataNode
  <2> QED BY <1>1, <2>1, RemoveNodesInv DEF DeleteKeyDataNode
<1>2. ASSUME NEW c \in Context, CloseContext(w, c) PROVE RegistryInv'
  <2> DEFINE doomed == {r \in Ref : Attached(r) /\ node[r].ctx = c}
  <2>1. doomed \in SUBSET Ref /\ \A q \in doomed : Attached(q) OBVIOUS
  <2>2. RemoveNodes(w, doomed) BY <1>2 DEF CloseContext
  <2> HIDE DEF doomed
  <2> QED BY <2>1, <2>2, RemoveNodesInv
<1> QED BY <1>1, <1>2, LoadOrShareInv, RegisterEphemeralKeyInv, BindLoadedKeyInv,
           AcquireKeyForOperationInv DEF Request

\* ... and so does every later step of it.
LEMMA StepInv ==
  ASSUME RegistryInv, NEW w \in Worker, Step(w)
  PROVE  RegistryInv'
  BY FindSlotRegistryIdInv, LoadKeyInv, LoadKeyFailsInv, RecheckInv, RegisterSlotKeyInv,
     FindWinnerIdInv, FindByIdInv, ConstructKeyDataNodeInv, AttachKeyDataNodeInv, AttachFailsInv,
     ReleaseRefInv, UnregisterInv, AccessorGoneInv, KeyUsedInv, LeaveInv DEF Step

----------------------------------------------------------------------------
(* The theorems.                                                           *)

\* The registry is empty when the daemon starts.
LEMMA InitInv ==
  ASSUME NoKeys
  PROVE  RegistryInv
<1>1. JobOK(Idle) BY IdleJobOK DEF JobOK
<1>2. RegistryType
  BY <1>1, ConstantsOK, IdleJobOK, SMT DEF NoKeys, RegistryType, RegId
<1>3. Mine(Idle) = {} BY IdleJobOK, ConstantsOK DEF Mine
<1>4. Owners BY <1>3, IdleJobOK DEF NoKeys, Owners
<1>5. \A e \in Entry : References(e) = {} BY DEF NoKeys, References
<1>6. Counts BY <1>5, FS_EmptySet DEF NoKeys, Counts
<1>7. Ids BY IdleJobOK DEF NoKeys, Ids, At
<1>8. CountedKeys BY DEF NoKeys, CountedKeys
<1> QED BY <1>2, <1>4, <1>6, <1>7, <1>8 DEF RegistryInv

\* The invariant of the registry, for any number of threads (KeyRegistry,
\* KeyEntry, KeyDataNode and KeyManagementService::LoadOrShare).
LEMMA RegistryInvariance == Spec => []RegistryInv
<1>1. Init => RegistryInv BY InitInv DEF Init
<1>2. RegistryInv /\ [Next]_vars => RegistryInv'
  <2> SUFFICES ASSUME RegistryInv, [Next]_vars PROVE RegistryInv'
    OBVIOUS
  <2>1. CASE UNCHANGED vars
    BY <2>1, SMT DEF vars, RegistryInv, RegistryType, Owners, Counts, References, Ids, Private, At,
                CountedKeys, AboutTo
  <2> QED BY <2>1, RequestInv, StepInv DEF Next
<1> QED BY <1>1, <1>2, PTL DEF Spec

\* What the invariant says about counts and about keys in use.
LEMMA RegistryReferences == RegistryInv => ReferencesExact
BY DEF RegistryInv, Counts, CountedKeys, AboutTo, ReferencesExact

LEMMA RegistryOwned == RegistryInv => KeyInUseOwned
<1> SUFFICES ASSUME RegistryInv, NEW w \in Worker, job[w].using # NoEntry
             PROVE  ~FreshEntry(job[w].using)
  BY DEF KeyInUseOwned
<1>1. job[w].held = job[w].using BY DEF RegistryInv, RegistryType, JobOK
<1> QED BY <1>1 DEF FreshEntry

\* m_ref_count counts the nodes of an entry and never wraps, and a registered
\* key without references is about to be referenced or unregistered, however
\* the threads interleave (KeyEntry::AddRef and Release, KeyRegistry::Unregister).
THEOREM ReferencesCounted == Spec => []ReferencesExact
BY RegistryInvariance, RegistryReferences, PTL

\* The key that an operation uses keeps an owner until the operation is done
\* (AcquireKeyForOperation).
THEOREM KeysInUseOwned == Spec => []KeyInUseOwned
BY RegistryInvariance, RegistryOwned, PTL

----------------------------------------------------------------------------
(* The daemon's requests.                                                  *)

\* The calls whose reply carries a node id.
Makers == {"generate", "import", "load", "encapsulate", "decapsulate"}

CallOp == Makers \cup {"none", "open", "close", "export", "release", "drop"}

CallStage == {"none", "init", "bind", "bound", "cleanup", "run", "reply"}

\* A call without its request's parameters, which say nothing about nodes.
CallRecord(k) ==
    /\ k = [op |-> k.op, ctx |-> k.ctx, ref |-> k.ref, arg |-> k.arg, request |-> k.request,
            stage |-> k.stage, ok |-> k.ok, out |-> k.out, alive |-> k.alive]
    /\ k.op \in CallOp /\ k.ctx \in Context \cup {NoContext} /\ k.ref \in Ref \cup {NoRef}
    /\ k.stage \in CallStage /\ k.ok \in BOOLEAN /\ k.out \in Ref \cup {NoRef} /\ k.alive \in BOOLEAN

GuardRecord == [state : {"none", "held", "unsure", "dying"}, ctx : Context \cup {NoContext},
                type : {"none", "key", "shared"}]

\* A worker's call and its job.
CallOK(k, j) ==
    /\ CallRecord(k)
    /\ IF k.op = "none" THEN j.pc = "idle" /\ k.ctx = NoContext /\ ~k.alive ELSE k.ctx \in Context
    /\ k.stage \in {"init", "bind", "bound", "cleanup"} => k.op = "open"
    /\ k.stage = "bind" /\ k.arg.slot = "" => k.arg.ref \in Ref
    /\ k.stage = "run" => j.ctx = k.ctx
    /\ k.op = "open" /\ k.stage # "reply" => ~k.ok
    /\ k.op \in {"release", "drop"} => k.ref \in Ref

GuardOK(r) ==
    /\ guard[r] \in GuardRecord
    /\ guard[r].state = "none" <=> guard[r].ctx = NoContext

KmType ==
    /\ call = [w \in Worker |-> call[w]]
    /\ guard \in [Ref -> GuardRecord]
    /\ obj \in [Context -> {"none", "opening", "open", "dropped", "closing"}]
    /\ \A w \in Worker : CallOK(call[w], job[w])
    /\ \A r \in Ref : GuardOK(r)

\* A node that is not stored yet belongs to the context of its job, and is
\* nobody's guard's; only a job that is done has a result.
Nodes ==
    \A w \in Worker :
        /\ job[w].out # NoRef => At(w, "leave")
        /\ At(w, "attach") => /\ node[job[w].ref].ctx = job[w].ctx
                              /\ guard[job[w].ref].state = "none"

\* Where a context is in its life, by what the client knows of it.
Objects ==
    /\ \A r \in Ref, c \in Context : guard[r].ctx = c => obj[c] \in {"open", "dropped"}
    /\ \A c \in Context : obj[c] \in {"open", "dropped"} => c \in contexts
    /\ \A w \in Worker : call[w].alive /\ call[w].op \in Makers => obj[call[w].ctx] = "open"
    /\ \A w \in Worker : call[w].op = "open" =>
        /\ obj[call[w].ctx] = IF call[w].alive THEN "opening" ELSE "none"
        /\ call[w].stage # "reply" \/ call[w].ok => call[w].ctx \in contexts
        /\ \A v \in Worker \ {w} : call[v].ctx # call[w].ctx
    /\ \A w \in Worker : call[w].op = "close" /\ call[w].alive =>
        /\ obj[call[w].ctx] = "closing"
        /\ \A v \in Worker \ {w} :
            call[v].op = "close" /\ call[v].alive => call[v].ctx # call[w].ctx

\* r is the result that the client of a call is about to get.
Result(k, j, r) ==
    /\ k.alive /\ k.op \in Makers
    /\ (k.stage = "reply" /\ k.out = r) \/ (k.stage = "run" /\ j.out = r)

\* It is stored below the context of the call, without a guard, for this client only.
Results ==
    \A w \in Worker, r \in Ref : Result(call[w], job[w], r) =>
        /\ Attached(r) /\ node[r].ctx = call[w].ctx
        /\ guard[r].state = "none"
        /\ \A v \in Worker \ {w} : ~Result(call[v], job[v], r)

\* The inductive invariant.
KmInv == RegistryInv /\ KmType /\ Nodes /\ Objects /\ Results /\ GuardedKeyAlive

\* What the daemon was started with: the providers are those of the build, the
\* slots are named, and a context is served by a provider.
Nodelike(x) == x = [provider |-> x.provider, type |-> x.type, ops |-> x.ops]
Served ==
    /\ registered \cup ready \cup {m[2] : m \in byType} \subseteq Range(ActiveBackends)
    /\ app \in DOMAIN Scenario /\ world \in DOMAIN Use.worlds
    /\ phase \in {"configured", "created", "initialised"} =>
          config \in ParseConfig(World.env, DefaultPaths, World.stat, World.files)
    /\ \A s \in Slots :
          /\ s.name # ""
          /\ \A p \in Range(ActiveBackends) : HasSlotHandler(p) => <<p, s.name>> \in Slot
    /\ ctx = [c \in Context |-> ctx[c]] /\ \A c \in Context : Nodelike(ctx[c])
    /\ contexts \subseteq Context /\ \A c \in contexts : ctx[c].provider \in Range(ActiveBackends)

----------------------------------------------------------------------------
(* The daemon's start, and the providers of its contexts.                  *)

\* The provider of a list is one of the list.
LEMMA FirstIsOne == ASSUME NEW list, NEW S PROVE FirstOf(list, S) \subseteq S \cap Range(list)
  BY DEF FirstOf, Range

LEMMA PreferredIsOne == ASSUME NEW ps, NEW order PROVE Preferred(ps, order) \subseteq ps
<1>1. \A S : FirstOf(ActiveBackends, S) \subseteq S BY FirstIsOne
<1> QED BY <1>1 DEF Preferred

\* Initialize designates providers that were created.
LEMMA MappingsRegistered ==
  ASSUME NEW ps, NEW rdy, NEW m \in BuildTypeMappings(ps, rdy) PROVE m[2] \in ps
<1>1. ResolveDefaultProviderName(ps, rdy) \subseteq ps BY PreferredIsOne DEF ResolveDefaultProviderName
<1>2. PICK p \in ps : \E t : m = <<t, p>> BY <1>1 DEF BuildTypeMappings
<1> QED BY <1>2, SMT

\* What a lookup finds, and initialises, is a provider of the build.
LEMMA LookupsServed ==
  ASSUME Served, NEW ask, NEW key, NEW type, NEW r \in ResolveProvider(ask, key, type)
  PROVE  r = Found(r.found, r.ready) /\ r.found \subseteq r.ready /\ r.ready \subseteq Range(ActiveBackends)
<1> DEFINE Good(x) == \E ps, rdy : x = Found(ps, rdy) /\ rdy \subseteq Range(ActiveBackends)
<1>1. \A tried, rdy : tried \subseteq Range(ActiveBackends) /\ rdy \in EnsureInitialized(tried)
          => rdy \subseteq Range(ActiveBackends)
  BY DEF EnsureInitialized, Served
<1>2. ASSUME NEW p, NEW x \in GetProvider(p) PROVE Good(x)
  <2>1. {p} \cap registered \subseteq Range(ActiveBackends) BY DEF Served
  <2>2. PICK rdy \in EnsureInitialized({p} \cap registered) : x = Found({p}, rdy) BY <1>2 DEF GetProvider
  <2> QED BY <1>1, <2>1, <2>2
<1>3. ASSUME NEW x \in GetProviderOfType(type) PROVE Good(x)
  <2> DEFINE ps == {m[2] : m \in {y \in byType : y[1] = type}}
  <2>1. ps \subseteq Range(ActiveBackends) BY DEF Served
  <2>2. PICK rdy \in EnsureInitialized(ps) : x = Found(ps, rdy) BY <1>3 DEF GetProviderOfType
  <2> QED BY <1>1, <2>1, <2>2
<1>4. ASSUME NEW cap, NEW x \in GetProviderForCapability(cap) PROVE Good(x)
  <2> DEFINE capable == {p \in registered : cap \in CapabilitiesOf(p)}
  <2>1. capable \subseteq Range(ActiveBackends) BY DEF Served
  <2>2. PICK rdy \in EnsureInitialized(capable) :
            x = Found(Preferred(capable \cap rdy, CapabilityPreference(cap)), rdy)
    BY <1>4 DEF GetProviderForCapability
  <2> QED BY <1>1, <2>1, <2>2
<1>5. Good(Found({}, ready)) BY DEF Served
<1> HIDE DEF Good
<1>6. Good(r)
  <2>1. CASE key # <<>>
    BY <1>2, <1>5, <2>1 DEF ResolveProvider
  <2>2. CASE key = <<>>
    BY <1>3, <1>4, <2>2 DEF ResolveProvider
  <2> QED BY <2>1, <2>2
<1>7. PICK ps, rdy : r = Found(ps, rdy) /\ rdy \subseteq Range(ActiveBackends) BY <1>6 DEF Good
<1> QED BY <1>7 DEF Found

\* The provider of a new context.
LEMMA ChosenServed ==
  ASSUME Served, NEW ask, NEW key, NEW r \in ResolveProviderAndCreateHandler(ask, key)
  PROVE  /\ r.found \subseteq Range(ActiveBackends) /\ r.ready \subseteq Range(ActiveBackends)
<1> DEFINE Good(c) == c.found \subseteq c.ready /\ c.ready \subseteq Range(ActiveBackends)
<1>1. ASSUME NEW type, NEW c \in Candidate(ask, key, type) PROVE Good(c)
  <2>1. PICK x \in ResolveProvider(ask, key, type) :
            \/ \E v : c = [found |-> x.found, ready |-> x.ready, verdict |-> v]
            \/ c = [found |-> {}, ready |-> x.ready, verdict |-> "next"]
    BY <1>1 DEF Candidate
  <2>2. x.found \subseteq x.ready /\ x.ready \subseteq Range(ActiveBackends) BY LookupsServed
  <2>3. c.ready = x.ready /\ (c.found = x.found \/ c.found = {}) BY <2>1, SMT
  <2> QED BY <2>2, <2>3
<1> DEFINE types == DecodeProviderTypePreference(ask.pref)
           first == IF types = <<>> THEN {} ELSE Candidate(ask, key, types[1])
           second == IF Len(types) < 2 THEN {} ELSE Candidate(ask, key, types[2])
<1>2. \A c \in first \cup second : Good(c) BY <1>1
<1>3. \E c \in first :
        \/ \E d \in second : r = Found(Found(IF d.verdict = "served" THEN d.found ELSE {}, d.ready).found,
                                       c.ready \cup d.ready)
        \/ r = Found(IF c.verdict = "served" THEN c.found ELSE {}, c.ready)
  BY DEF ResolveProviderAndCreateHandler
<1> HIDE DEF Good, first, second
<1>4. PICK c \in first :
        \/ \E d \in second : r = Found(Found(IF d.verdict = "served" THEN d.found ELSE {}, d.ready).found,
                                       c.ready \cup d.ready)
        \/ r = Found(IF c.verdict = "served" THEN c.found ELSE {}, c.ready)
  BY <1>3
<1>5. Good(c) BY <1>2
<1>6. CASE r = Found(IF c.verdict = "served" THEN c.found ELSE {}, c.ready)
  BY <1>5, <1>6 DEF Found, Good
<1>7. ASSUME NEW d \in second,
             r = Found(Found(IF d.verdict = "served" THEN d.found ELSE {}, d.ready).found, c.ready \cup d.ready)
      PROVE  r.found \subseteq Range(ActiveBackends) /\ r.ready \subseteq Range(ActiveBackends)
  <2>1. Good(d) BY <1>2
  <2>2. r.ready = c.ready \cup d.ready /\ r.found \subseteq r.ready BY <1>7 DEF Found
  <2> QED BY <1>5, <2>1, <2>2 DEF Good
<1> QED BY <1>4, <1>6, <1>7

\* The catalog that the daemon starts with is one of those SlotsNamed speaks of.
LEMMA StartServed ==
  ASSUME Served, Start
  PROVE  Served'
<1>1. /\ UNCHANGED <<app, world, ctx, contexts>> /\ Use' = Use /\ World' = World
  BY DEF Start, ReadConfig, StartProviders, InitializeProviders, CreateKeyManagement, Started, Use, World, vars
<1>2. /\ app \in DOMAIN Scenario /\ world \in DOMAIN Use.worlds
      /\ ctx = [c \in Context |-> ctx[c]] /\ \A c \in Context : Nodelike(ctx[c])
      /\ contexts \subseteq Context /\ \A c \in contexts : ctx[c].provider \in Range(ActiveBackends)
  BY DEF Served
<1>3. \A tried \in SUBSET registered : \A rdy \in EnsureInitialized(tried) : rdy \subseteq Range(ActiveBackends)
  BY DEF EnsureInitialized, Served
<1>4. CASE ReadConfig
  <2>1. UNCHANGED <<slots, registered, ready, byType>> BY <1>4 DEF ReadConfig, provVars
  <2>2. phase' = "failed" \/ config' \in ParseConfig(World.env, DefaultPaths, World.stat, World.files)
    BY <1>4 DEF ReadConfig
  <2> QED BY <1>1, <1>2, <2>1, <2>2 DEF Served, Slots
<1>5. CASE StartProviders
  <2>1. UNCHANGED <<slots, ready, byType, config>> /\ registered' \subseteq Range(ActiveBackends)
    BY <1>5 DEF StartProviders, CreateProviders
  <2>2. phase = "configured" BY <1>5 DEF StartProviders
  <2> QED BY <1>1, <1>2, <2>1, <2>2 DEF Served, Slots
<1>6. CASE InitializeProviders
  <2>1. UNCHANGED <<slots, registered, config>> /\ phase = "created" BY <1>6 DEF InitializeProviders, Initialize
  <2>2. PICK rdy \in EnsureInitialized(registered) :
            ready' = rdy /\ byType' = BuildTypeMappings(registered, rdy)
    BY <1>6 DEF InitializeProviders, Initialize
  <2>3. ready' \subseteq Range(ActiveBackends) BY <1>3, <2>2
  <2>4. \A m \in byType' : m[2] \in registered BY <2>2, MappingsRegistered
  <2> QED BY <1>1, <1>2, <2>1, <2>3, <2>4 DEF Served, Slots
<1>7. CASE CreateKeyManagement
  <2>1. UNCHANGED <<config, registered, byType>> /\ phase = "initialised" /\ phase' = "up"
    BY <1>7 DEF CreateKeyManagement
  <2> DEFINE named == UNION {Range(s.names) : s \in Range(CatalogLoad(config.key).slots)}
  <2>2. PICK rdy \in EnsureInitialized(named \cap registered) :
            ready' = rdy /\ slots' = SlotCatalog(config.key, rdy)
    BY <1>7 DEF CreateKeyManagement
  <2>3. rdy \in SUBSET Range(ActiveBackends) BY <1>3, <2>2
  <2>4. config \in ParseConfig(World.env, DefaultPaths, World.stat, World.files) BY <2>1 DEF Served
  <2>5. \A s \in Range(SlotCatalog(config.key, rdy).slots) :
            /\ s.name # ""
            /\ \A p \in Range(ActiveBackends) : HasSlotHandler(p) => <<p, s.name>> \in Slot
    BY <1>2, <2>3, <2>4, SlotsNamed DEF Use, World
  <2>6. Slots' = Range(SlotCatalog(config.key, rdy).slots) BY <2>2 DEF Slots
  <2> QED BY <1>1, <1>2, <2>1, <2>2, <2>3, <2>5, <2>6 DEF Served
<1> QED BY <1>4, <1>5, <1>6, <1>7 DEF Start

\* Nothing else touches the configuration.
LEMMA ContextsServed ==
  ASSUME Served, UNCHANGED <<registered, byType, app, world, phase, config, slots>>,
         ready' \subseteq Range(ActiveBackends),
         ctx' = [c \in Context |-> ctx'[c]], \A c \in Context : Nodelike(ctx'[c]),
         contexts' \subseteq Context, \A c \in contexts' : ctx'[c].provider \in Range(ActiveBackends)
  PROVE  Served'
<1>1. Use' = Use /\ World' = World /\ Slots' = Slots BY DEF Use, World, Slots
<1> QED BY <1>1 DEF Served

LEMMA QuietServed ==
  ASSUME Served, UNCHANGED <<provVars, app, world, phase, config, slots, ctx, contexts>>
  PROVE  Served'
BY ContextsServed DEF Served, provVars

LEMMA CreateContextServed ==
  ASSUME Served, NEW w, NEW c \in Context, NEW ask, NEW key, NEW arg, CreateContext(w, c, ask, key, arg)
  PROVE  Served'
<1>1. UNCHANGED <<registered, byType, app, world, phase, config, slots>> BY DEF CreateContext
<1>2. PICK r \in ResolveProviderAndCreateHandler(ask, key) :
        /\ ready' = r.ready
        /\ \/ /\ r.found # {}
              /\ contexts' = contexts \cup {c}
              /\ ctx' = [ctx EXCEPT ![c] = [provider |-> CHOOSE p \in r.found : TRUE,
                                            type |-> ask.type, ops |-> {}]]
           \/ UNCHANGED <<contexts, ctx>>
  BY DEF CreateContext
<1>3. r.found \subseteq Range(ActiveBackends) /\ ready' \subseteq Range(ActiveBackends) BY <1>2, ChosenServed
<1>4. CASE UNCHANGED <<contexts, ctx>> BY <1>1, <1>3, <1>4, ContextsServed DEF Served
<1>5. ASSUME NEW x, x = [provider |-> CHOOSE p \in r.found : TRUE, type |-> ask.type, ops |-> {}],
             r.found # {}, contexts' = contexts \cup {c}, ctx' = [ctx EXCEPT ![c] = x]
      PROVE  Served'
  <2>1. x.provider \in r.found BY <1>5, SMT
  <2>2. Nodelike(x) BY <1>5, SMT DEF Nodelike
  <2>3. ctx' = [d \in Context |-> IF d = c THEN x ELSE ctx[d]] BY <1>5 DEF Served
  <2>4. ctx'[c] = x /\ \A d \in Context \ {c} : ctx'[d] = ctx[d] BY <2>3
  <2>5. \A d \in Context : Nodelike(ctx'[d]) BY <2>2, <2>4 DEF Served
  <2>6. contexts' \subseteq Context /\ \A d \in contexts' : ctx'[d].provider \in Range(ActiveBackends)
    BY <1>3, <1>5, <2>1, <2>4 DEF Served
  <2> QED BY <1>1, <1>3, <2>3, <2>5, <2>6, ContextsServed
<1> QED BY <1>2, <1>4, <1>5

\* CTX_CLOSE, and the clean-up after a failed CTX_CREATE.
LEMMA DeleteContextServed ==
  ASSUME Served, NEW w, NEW c, NEW next, DeleteContext(w, c, next)
  PROVE  Served'
<1>1. UNCHANGED <<registered, ready, byType, app, world, phase, config, slots>> BY DEF DeleteContext, provVars
<1>2. CASE UNCHANGED <<contexts, ctx>> BY <1>1, <1>2, QuietServed DEF provVars
<1>3. CASE /\ c \in contexts /\ contexts' = contexts \ {c}
           /\ ctx' = [ctx EXCEPT ![c] = NoContextNode]
  <2>1. ctx' = [d \in Context |-> IF d = c THEN NoContextNode ELSE ctx[d]] BY <1>3 DEF Served
  <2>2. Nodelike(NoContextNode) BY SMT DEF Nodelike, NoContextNode
  <2>3. \A d \in Context : Nodelike(ctx'[d]) BY <2>1, <2>2 DEF Served
  <2>4. contexts' \subseteq Context /\ \A d \in contexts' : ctx'[d].provider \in Range(ActiveBackends)
    BY <1>3, <2>1 DEF Served
  <2>5. ready \subseteq Range(ActiveBackends) BY DEF Served
  <2> QED BY <1>1, <2>1, <2>3, <2>4, <2>5, ContextsServed
<1> QED BY <1>2, <1>3 DEF DeleteContext, CloseContext, vars

LEMMA InitializeServed ==
  ASSUME Served, NEW w \in Worker, CallOK(call[w], job[w]), InitializeContext(w)
  PROVE  Served'
<1>1. UNCHANGED <<registered, ready, byType, app, world, phase, config, slots, contexts>>
  BY DEF InitializeContext, provVars, vars
<1>2. CASE UNCHANGED ctx BY <1>1, <1>2, QuietServed DEF provVars
<1>3. ASSUME NEW x, ctx' = [ctx EXCEPT ![call[w].ctx].ops = x] PROVE Served'
  <2> DEFINE y == [ctx[call[w].ctx] EXCEPT !.ops = x]
  <2>1. call[w].ctx \in Context BY DEF CallOK, InitializeContext, Stage, CallRecord
  <2>2. ctx' = [d \in Context |-> IF d = call[w].ctx THEN y ELSE ctx[d]] BY <1>3 DEF Served
  <2>3. Nodelike(y) /\ y.provider = ctx[call[w].ctx].provider
    <3>1. PICK z : z = ctx[call[w].ctx] /\ z = [provider |-> z.provider, type |-> z.type, ops |-> z.ops]
      BY <2>1 DEF Served, Nodelike
    <3>2. y = [z EXCEPT !.ops = x] BY <3>1
    <3>3. y = [provider |-> z.provider, type |-> z.type, ops |-> x] BY <3>1, <3>2, SMT
    <3> HIDE DEF y
    <3> QED BY <3>1, <3>3, SMT DEF Nodelike
  <2> HIDE DEF y
  <2>4. \A d \in Context : Nodelike(ctx'[d]) /\ ctx'[d].provider = ctx[d].provider
    BY <2>2, <2>3 DEF Served
  <2>5. ready' \subseteq Range(ActiveBackends) /\ contexts' \subseteq Context
        /\ \A d \in contexts' : ctx'[d].provider \in Range(ActiveBackends)
    BY <1>1, <2>4 DEF Served
  <2> QED BY <1>1, <2>2, <2>4, <2>5, ContextsServed
<1> QED BY <1>2, <1>3 DEF InitializeContext

\* Every step of the daemon.
LEMMA NextServed ==
  ASSUME Served, KmType, [KmNext]_allVars
  PROVE  Served'
<1>1. CASE UNCHANGED allVars BY <1>1, QuietServed DEF allVars, kmVars, vars
<1>2. ASSUME NEW w \in Worker, ClientCall(w) PROVE Served'
  <2>1. ASSUME NEW c \in Context, CreateKeyContext(w, c) \/ CreateOperationContext(w, c) PROVE Served'
    BY <2>1, CreateContextServed DEF CreateKeyContext, CreateOperationContext
  <2>2. ASSUME NEW c \in Context, CloseDropped(w, c) PROVE Served'
    BY <2>2, DeleteContextServed DEF CloseDropped
  <2>3. ASSUME NEW c \in Context, KeyGenerate(w, c) \/ KeyImport(w, c) \/ KeyLoad(w, c) PROVE Served'
    <3>1. UNCHANGED <<provVars, app, world, phase, config, slots, ctx, contexts>>
      BY <2>3 DEF KeyGenerate, KeyImport, KeyLoad, RegisterOutput, DaemonUnchanged, Refused, vars,
                  RegisterEphemeralKey, LoadOrShare
    <3> QED BY <3>1, QuietServed
  <2>4. ASSUME NEW c, NEW r, NEW op, NEW f, KeyOperation(w, c, r, op, f) PROVE Served'
    <3>1. UNCHANGED <<provVars, app, world, phase, config, slots, ctx, contexts>>
      BY <2>4 DEF KeyOperation, DaemonUnchanged, Refused, vars, AcquireKeyForOperation
    <3> QED BY <3>1, QuietServed
  <2>5. ASSUME NEW r, NEW op, KeyRelease(w, r, op) PROVE Served'
    <3>1. UNCHANGED <<provVars, app, world, phase, config, slots, ctx, contexts>>
      BY <2>5 DEF KeyRelease, HandleRelease, Refused, vars, DeleteKeyDataNode
    <3> QED BY <3>1, QuietServed
  <2> QED BY <1>2, <2>1, <2>2, <2>3, <2>4, <2>5 DEF ClientCall
<1>3. ASSUME NEW w \in Worker, Serve(w) PROVE Served'
  <2>1. CASE InitializeContext(w) BY <2>1, InitializeServed DEF KmType
  <2>2. CASE CleanupContext(w) BY <2>2, DeleteContextServed DEF CleanupContext
  <2>3. CASE JobStep(w)
    <3>1. contexts' = contexts
      BY <2>3 DEF JobStep, LoadSucceeds, LoadKey, LoadFails, LoadKeyFails, ConstructNode, ConstructKeyDataNode,
                  FindSlotRegistryId, Recheck, RegisterSlotKey, FindWinnerId, FindById, AttachKeyDataNode,
                  AttachFails, ReleaseRef, Unregister, AccessorGone
    <3> QED BY <2>3, <3>1, QuietServed DEF JobStep
  <2>4. CASE BindAndAuthorizeKey(w) \/ UseKey(w) \/ JobDone(w) \/ Reply(w) \/ ReplyLost(w)
    <3>1. UNCHANGED <<provVars, app, world, phase, config, slots, ctx, contexts>>
      BY <2>4 DEF BindAndAuthorizeKey, BindLoadedKey, LoadOrShare, UseKey, KeyUsed, RegisterEphemeralKey, JobDone,
                  Leave, Reply, ReplyLost, DaemonUnchanged, vars
    <3> QED BY <3>1, QuietServed
  <2> QED BY <1>3, <2>1, <2>2, <2>3, <2>4 DEF Serve
<1>4. ASSUME NEW c, DropContext(c) PROVE Served' BY <1>4, QuietServed DEF DropContext, vars
<1> QED BY <1>1, <1>2, <1>3, <1>4, StartServed DEF KmNext

----------------------------------------------------------------------------
(* The registry with the daemon's requests.                                *)

\* The invariant of the registry does not speak about contexts.
LEMMA RegistryUntouched ==
  ASSUME RegistryInv, UNCHANGED <<keys, slotToId, nextId, refCount, node, job>>
  PROVE  RegistryInv'
  BY SMT DEF RegistryInv, RegistryType, Owners, Counts, References, Ids, Private, At, CountedKeys, AboutTo

\* What a step of w in the registry that deletes nothing does to nodes and jobs.
Effect(w) ==
    /\ job' = [job EXCEPT ![w] = job'[w]]
    /\ contexts' = contexts
    /\ \A r \in Ref : Attached(r) => node'[r] = node[r]
    /\ \A v \in Worker \ {w} : At(v, "attach") => node'[job[v].ref] = node[job[v].ref]
    /\ job'[w].out # NoRef =>
        /\ job'[w].pc = "leave" /\ At(w, "attach") /\ job'[w].out = job[w].ref
        /\ node'[job[w].ref] # NoRef /\ node'[job[w].ref].attached
        /\ node'[job[w].ref].ctx = job[w].ctx
    /\ job'[w].pc = "attach" => /\ job'[w].ref \in Ref
                                /\ node'[job'[w].ref].ctx = job'[w].ctx

\* Such a step of a request that leaves the nodes alone.
LEMMA QuietEffect ==
  ASSUME RegistryInv, NEW w \in Worker, NEW j \in Job, job' = [job EXCEPT ![w] = j],
         UNCHANGED <<node, contexts>>, j.out = NoRef, j.pc # "attach"
  PROVE  Effect(w) /\ job'[w] = j
<1>1. job'[w] = j BY DEF RegistryInv, RegistryType
<1> QED BY <1>1 DEF Effect

\* A call starts a job.
LEMMA StartEffect ==
  ASSUME RegistryInv, NEW w \in Worker, NEW c \in Context,
         \/ \E s \in Slot : LoadOrShare(w, c, s)
         \/ RegisterEphemeralKey(w, c)
         \/ \E r \in Ref : BindLoadedKey(w, r, c)
         \/ \E r \in Ref : AcquireKeyForOperation(w, c, r)
  PROVE  RegistryInv' /\ Effect(w) /\ job'[w].ctx = c /\ job'[w].pc # "attach" /\ job'[w].out = NoRef
         /\ job'[w].pc # "idle"
<1>1. ASSUME NEW s \in Slot, LoadOrShare(w, c, s)
      PROVE  RegistryInv' /\ \E j \in Job : /\ job' = [job EXCEPT ![w] = j] /\ UNCHANGED <<node, contexts>>
                              /\ j.out = NoRef /\ j.pc \notin {"attach", "idle"} /\ j.ctx = c
  <2> DEFINE pc == IF FindBySlot(s) # NoEntry THEN "found" ELSE "load"
             j == [Idle EXCEPT !.pc = pc, !.ctx = c, !.slot = s, !.entry = FindBySlot(s)]
  <2>1. pc \in {"found", "load"} OBVIOUS
  <2>2. job' = [job EXCEPT ![w] = j] /\ UNCHANGED <<node, contexts>> BY <1>1 DEF LoadOrShare
  <2>3. j.pc = pc /\ j.ctx = c /\ j.slot = s /\ j.out = NoRef BY DEF Idle
  <2>4. job'[w] = j BY <2>2 DEF RegistryInv, RegistryType
  <2> HIDE DEF j, pc
  <2>5. RegistryInv' BY <1>1, LoadOrShareInv
  <2>6. j \in Job BY <2>4, <2>5 DEF RegistryInv, RegistryType
  <2> QED BY <2>1, <2>2, <2>3, <2>5, <2>6
<1>2. ASSUME RegisterEphemeralKey(w, c)
      PROVE  RegistryInv' /\ \E j \in Job : /\ job' = [job EXCEPT ![w] = j] /\ UNCHANGED <<node, contexts>>
                              /\ j.out = NoRef /\ j.pc \notin {"attach", "idle"} /\ j.ctx = c
  <2>1. RegistryInv' BY <1>2, RegisterEphemeralKeyInv
  <2>2. PICK e \in Entry :
           job' = [job EXCEPT ![w] = [Idle EXCEPT !.pc = "create", !.ctx = c, !.entry = e,
                                                  !.rid = nextId, !.held = job[w].held]]
    BY <1>2 DEF RegisterEphemeralKey
  <2>3. job'[w] \in Job /\ job' = [job EXCEPT ![w] = job'[w]]
    BY <2>1, <2>2 DEF RegistryInv, RegistryType
  <2>4. job'[w].out = NoRef /\ job'[w].pc = "create" /\ job'[w].ctx = c
    BY <2>2 DEF RegistryInv, RegistryType, Idle
  <2> QED BY <1>2, <2>1, <2>3, <2>4 DEF RegisterEphemeralKey
<1>3. ASSUME NEW r \in Ref, BindLoadedKey(w, r, c) \/ AcquireKeyForOperation(w, c, r)
      PROVE  RegistryInv' /\ \E j \in Job : /\ job' = [job EXCEPT ![w] = j] /\ UNCHANGED <<node, contexts>>
                              /\ j.out = NoRef /\ j.pc \notin {"attach", "idle"} /\ j.ctx = c
  <2>1. RegistryInv' BY <1>3, BindLoadedKeyInv, AcquireKeyForOperationInv
  <2>2. PICK j : /\ job' = [job EXCEPT ![w] = j] /\ UNCHANGED <<node, contexts>>
                 /\ j.out = NoRef /\ j.pc \in {"create", "acquired"} /\ j.ctx = c
    <3>1. CASE BindLoadedKey(w, r, c)
      <4> DEFINE j == [Idle EXCEPT !.pc = "create", !.ctx = c, !.entry = node[r].entry,
                                   !.rid = node[r].rid, !.src = r]
      <4>1. j.out = NoRef /\ j.pc = "create" /\ j.ctx = c BY DEF Idle
      <4>2. job' = [job EXCEPT ![w] = j] /\ UNCHANGED <<node, contexts>> BY <3>1 DEF BindLoadedKey
      <4> HIDE DEF j
      <4> QED BY <4>1, <4>2
    <3>2. CASE AcquireKeyForOperation(w, c, r)
      <4> DEFINE j == [Idle EXCEPT !.pc = "acquired", !.ctx = c, !.src = r,
                                   !.using = node[r].entry, !.held = node[r].entry]
      <4>1. j.out = NoRef /\ j.pc = "acquired" /\ j.ctx = c BY DEF Idle
      <4>2. job' = [job EXCEPT ![w] = j] /\ UNCHANGED <<node, contexts>>
        BY <3>2 DEF AcquireKeyForOperation
      <4> HIDE DEF j
      <4> QED BY <4>1, <4>2
    <3> QED BY <1>3, <3>1, <3>2
  <2>3. job'[w] = j BY <2>2 DEF RegistryInv, RegistryType
  <2>4. j \in Job BY <2>1, <2>3 DEF RegistryInv, RegistryType
  <2> QED BY <2>1, <2>2, <2>4
<1>4. RegistryInv' /\ \E j \in Job : /\ job' = [job EXCEPT ![w] = j] /\ UNCHANGED <<node, contexts>>
                              /\ j.out = NoRef /\ j.pc \notin {"attach", "idle"} /\ j.ctx = c
  BY <1>1, <1>2, <1>3
<1> QED BY <1>4, QuietEffect

\* A job goes on.
LEMMA StepEffect ==
  ASSUME RegistryInv, Nodes, NEW w \in Worker, Step(w), ~At(w, "leave")
  PROVE  /\ RegistryInv' /\ Effect(w) /\ job'[w].ctx = job[w].ctx /\ job'[w].pc # "idle"
         /\ job'[w].pc = "attach" => At(w, "create") /\ node[job'[w].ref] = NoRef
<1>1. RegistryInv' BY StepInv
<1>2. job[w] \in Job /\ JobOK(job[w]) /\ job[w].out = NoRef /\ job'[w] \in Job /\ JobOK(job'[w])
  BY <1>1 DEF RegistryInv, RegistryType, Nodes
\* The steps that leave the nodes alone.
<1>3. ASSUME \/ FindSlotRegistryId(w) \/ LoadKey(w) \/ LoadKeyFails(w) \/ Recheck(w)
             \/ RegisterSlotKey(w) \/ FindWinnerId(w) \/ FindById(w) \/ AttachFails(w)
             \/ AccessorGone(w) \/ KeyUsed(w)
      PROVE  /\ job' = [job EXCEPT ![w] = job'[w]] /\ UNCHANGED <<node, contexts>>
             /\ job'[w].out = NoRef /\ job'[w].ctx = job[w].ctx /\ job'[w].pc \notin {"attach", "idle"}
  <2>1. CASE FindSlotRegistryId(w)
    BY <1>2, <2>1 DEF FindSlotRegistryId, Job, RegistryInv, RegistryType
  <2>2. CASE LoadKey(w)
    <3>1. PICK e \in Entry : job' = [job EXCEPT ![w].pc = "register", ![w].entry = e]
      BY <2>2 DEF LoadKey
    <3> QED BY <1>2, <2>2, <3>1 DEF LoadKey, Job, RegistryInv, RegistryType
  <2>3. CASE LoadKeyFails(w)
    BY <1>2, <2>3 DEF LoadKeyFails, Goto, Job, RegistryInv, RegistryType
  <2>4. CASE Recheck(w)
    BY <1>2, <2>4 DEF Recheck, Job, RegistryInv, RegistryType
  <2>5. CASE RegisterSlotKey(w)
    BY <1>2, <2>5, SMT DEF RegisterSlotKey, Goto, Job, RegistryInv, RegistryType
  <2>6. CASE FindWinnerId(w)
    <3>1. \E i, p, e : /\ job' = [job EXCEPT ![w].pc = p, ![w].rid = i, ![w].entry = e]
                       /\ p \in {"winner", "leave"}
      BY <2>6 DEF FindWinnerId
    <3>2. PICK i, p, e : /\ job' = [job EXCEPT ![w].pc = p, ![w].rid = i, ![w].entry = e]
                         /\ p \in {"winner", "leave"}
      BY <3>1
    <3>3. job' = [job EXCEPT ![w] = job'[w]] BY <3>2 DEF RegistryInv, RegistryType
    <3>4. job'[w].pc = p /\ job'[w].out = job[w].out /\ job'[w].ctx = job[w].ctx
      BY <1>2, <3>2 DEF Job, RegistryInv, RegistryType
    <3>5. UNCHANGED <<node, contexts>> BY <2>6 DEF FindWinnerId
    <3> QED BY <1>2, <3>2, <3>3, <3>4, <3>5, SMT
  <2>7. CASE FindById(w)
    BY <1>2, <2>7 DEF FindById, Job, RegistryInv, RegistryType
  <2>8. CASE AttachFails(w)
    BY <1>2, <2>8 DEF AttachFails, Job, RegistryInv, RegistryType
  <2>9. CASE AccessorGone(w)
    <3> DEFINE last == LastOwner(w)
    <3>1. PICK p \in {"destroy", "use"} : p = IF last THEN "destroy" ELSE "use" OBVIOUS
    <3>2. PICK q : q = IF last THEN job[w].src ELSE NoRef OBVIOUS
    <3>3. /\ job' = [job EXCEPT ![w].pc = p, ![w].ref = q, ![w].src = NoRef]
          /\ UNCHANGED <<node, contexts>>
      BY <2>9, <3>1, <3>2 DEF AccessorGone
    <3> HIDE DEF last
    <3> QED BY <1>2, <3>3 DEF Job, RegistryInv, RegistryType
  <2>10. CASE KeyUsed(w)
    BY <1>2, <2>10 DEF KeyUsed, Job, RegistryInv, RegistryType
  <2> QED BY <1>3, <2>1, <2>2, <2>3, <2>4, <2>5, <2>6, <2>7, <2>8, <2>9, <2>10
<1>4. ASSUME \/ FindSlotRegistryId(w) \/ LoadKey(w) \/ LoadKeyFails(w) \/ Recheck(w)
             \/ RegisterSlotKey(w) \/ FindWinnerId(w) \/ FindById(w) \/ AttachFails(w)
             \/ AccessorGone(w) \/ KeyUsed(w)
      PROVE  Effect(w) /\ job'[w].ctx = job[w].ctx /\ job'[w].pc \notin {"idle", "attach"}
  BY <1>2, <1>3, <1>4, QuietEffect
\* The other nodes that are not stored yet belong to others.
<1>5. \A v \in Worker \ {w} : At(v, "attach") =>
        /\ job[v].ref \in Ref /\ job[v].ref \notin Mine(job[w]) /\ node[job[v].ref] # NoRef
        /\ ~Attached(job[v].ref)
  <2> SUFFICES ASSUME NEW v \in Worker \ {w}, At(v, "attach")
               PROVE  /\ job[v].ref \in Ref /\ job[v].ref \notin Mine(job[w])
                      /\ node[job[v].ref] # NoRef /\ ~Attached(job[v].ref)
    OBVIOUS
  <2>1. job[v].ref \in Ref BY DEF At, RegistryInv, RegistryType, JobOK, Job
  <2>2. job[v].ref \in Mine(job[v]) BY <2>1 DEF Mine
  <2> QED BY <2>1, <2>2 DEF RegistryInv, Owners, Attached
<1>6. ASSUME NEW a, a = job[w], Proceed(w, a)
      PROVE  /\ job' = [job EXCEPT ![w] = job'[w]] /\ job'[w].out = NoRef
             /\ job'[w].ctx = job[w].ctx /\ job'[w].pc \in {"use", "leave", "destroy"}
  <2>1. CASE a.more = {} /\ job' = [job EXCEPT ![w] =
               [a EXCEPT !.pc = IF a.using # NoEntry THEN "use" ELSE "leave",
                         !.ref = NoRef, !.entry = NoEntry, !.locked = FALSE]]
    <3>1. PICK p \in {"use", "leave"} : p = IF a.using # NoEntry THEN "use" ELSE "leave"
      OBVIOUS
    <3>2. job' = [job EXCEPT ![w] = [a EXCEPT !.pc = p, !.ref = NoRef, !.entry = NoEntry,
                                              !.locked = FALSE]]
      BY <2>1, <3>1
    <3>3. job'[w] = [a EXCEPT !.pc = p, !.ref = NoRef, !.entry = NoEntry, !.locked = FALSE]
      BY <3>2 DEF RegistryInv, RegistryType
    <3>4. job'[w].out = a.out /\ job'[w].ctx = a.ctx /\ job'[w].pc = p
      BY <1>2, <1>6, <3>3 DEF Job
    <3> QED BY <1>2, <1>6, <3>2, <3>3, <3>4
  <2>2. ASSUME NEW q \in a.more,
               job' = [job EXCEPT ![w] = [a EXCEPT !.pc = "destroy", !.ref = q,
                                                   !.entry = NoEntry, !.more = @ \ {q}]]
        PROVE  /\ job' = [job EXCEPT ![w] = job'[w]] /\ job'[w].out = NoRef
               /\ job'[w].ctx = job[w].ctx /\ job'[w].pc \in {"use", "leave", "destroy"}
    <3>1. job'[w] = [a EXCEPT !.pc = "destroy", !.ref = q, !.entry = NoEntry, !.more = @ \ {q}]
      BY <2>2 DEF RegistryInv, RegistryType
    <3>2. job'[w].out = a.out /\ job'[w].ctx = a.ctx /\ job'[w].pc = "destroy"
      BY <1>2, <1>6, <3>1 DEF Job
    <3> QED BY <1>2, <1>6, <2>2, <3>1, <3>2
  <2> QED BY <1>6, <2>1, <2>2 DEF Proceed
<1>7. CASE ConstructKeyDataNode(w)
  <2>1. PICK r \in Ref : /\ FreshRef(r)
                         /\ node' = [node EXCEPT ![r] =
                              [entry |-> job[w].entry, rid |-> job[w].rid,
                               ctx |-> job[w].ctx, attached |-> FALSE]]
                         /\ job' = [job EXCEPT ![w].pc = "attach", ![w].ref = r]
    BY <1>7 DEF ConstructKeyDataNode
  <2>2. /\ job'[w].pc = "attach" /\ job'[w].ref = r /\ job'[w].ctx = job[w].ctx
        /\ job'[w].out = NoRef /\ job' = [job EXCEPT ![w] = job'[w]]
    BY <1>2, <2>1 DEF Job, RegistryInv, RegistryType
  <2>3. node[r] = NoRef /\ node'[r].ctx = job[w].ctx /\ \A q \in Ref \ {r} : node'[q] = node[q]
    BY <2>1 DEF FreshRef, RegistryInv, RegistryType
  <2>4. \A q \in Ref : Attached(q) => node'[q] = node[q] BY <2>3 DEF Attached
  <2>5. \A v \in Worker \ {w} : At(v, "attach") => node'[job[v].ref] = node[job[v].ref]
    BY <1>5, <2>3
  <2>6. At(w, "create") /\ contexts' = contexts BY <1>7 DEF ConstructKeyDataNode
  <2> QED BY <1>1, <2>2, <2>3, <2>4, <2>5, <2>6 DEF Effect
<1>8. CASE AttachKeyDataNode(w)
  <2>1. PICK r \in Ref : r = job[w].ref
    BY <1>2, <1>8 DEF AttachKeyDataNode, At, JobOK, Job
  <2>2. /\ At(w, "attach") /\ contexts' = contexts
        /\ node' = [node EXCEPT ![r].attached = TRUE]
        /\ job' = [job EXCEPT ![w].pc = "leave", ![w].entry = NoEntry, ![w].ref = NoRef,
                              ![w].out = r]
    BY <1>8, <2>1 DEF AttachKeyDataNode
  <2>3. /\ job'[w].pc = "leave" /\ job'[w].ctx = job[w].ctx
        /\ job'[w].out = r /\ job' = [job EXCEPT ![w] = job'[w]]
    BY <1>2, <2>2 DEF Job, RegistryInv, RegistryType
  <2>4. r \in Mine(job[w]) BY <2>1 DEF Mine
  <2>5. node[r] \in NodeRecord /\ ~node[r].attached /\ node[r].ctx = job[w].ctx
    BY <2>1, <2>2, <2>4 DEF RegistryInv, RegistryType, Owners, Nodes
  <2>6. node'[r] = [node[r] EXCEPT !.attached = TRUE] /\ \A q \in Ref \ {r} : node'[q] = node[q]
    BY <2>2 DEF RegistryInv, RegistryType
  <2>7. NoRef \notin NodeRecord BY ConstantsOK DEF NodeRecord
  <2>8. node'[r] \in NodeRecord /\ node'[r].attached /\ node'[r].ctx = job[w].ctx
    BY <2>5, <2>6 DEF NodeRecord
  <2>9. node'[r] # NoRef BY <2>7, <2>8
  <2>10. \A q \in Ref : Attached(q) => node'[q] = node[q] BY <2>5, <2>6 DEF Attached
  <2>11. \A v \in Worker \ {w} : At(v, "attach") => node'[job[v].ref] = node[job[v].ref]
    BY <1>5, <2>4, <2>6
  <2> QED BY <1>1, <2>1, <2>2, <2>3, <2>8, <2>9, <2>10, <2>11 DEF Effect
<1>9. CASE ReleaseRef(w)
  <2>1. PICK r \in Ref : r = job[w].ref
    BY <1>2, <1>9 DEF ReleaseRef, At, JobOK, Job
  <2>2. r \in Mine(job[w]) /\ ~node[r].attached BY <2>1 DEF Mine, RegistryInv, Owners
  <2>3. node' = [node EXCEPT ![r] = NoRef] /\ contexts' = contexts
    BY <1>9, <2>1 DEF ReleaseRef
  <2>4. \/ Proceed(w, job[w])
        \/ \E e, i : job' = [job EXCEPT ![w].pc = "unregister", ![w].ref = NoRef,
                                        ![w].entry = e, ![w].rid = i]
    BY <1>9 DEF ReleaseRef
  <2>5. /\ job' = [job EXCEPT ![w] = job'[w]] /\ job'[w].out = NoRef
        /\ job'[w].ctx = job[w].ctx /\ job'[w].pc \notin {"idle", "attach"}
    <3>1. CASE Proceed(w, job[w]) BY <1>6, <3>1
    <3>2. ASSUME NEW e, NEW i, job' = [job EXCEPT ![w].pc = "unregister", ![w].ref = NoRef,
                                        ![w].entry = e, ![w].rid = i]
          PROVE  /\ job' = [job EXCEPT ![w] = job'[w]] /\ job'[w].out = NoRef
                 /\ job'[w].ctx = job[w].ctx /\ job'[w].pc \notin {"idle", "attach"}
      <4>1. job' = [job EXCEPT ![w] = job'[w]] BY <3>2 DEF RegistryInv, RegistryType
      <4>2. job'[w].pc = "unregister" /\ job'[w].out = job[w].out /\ job'[w].ctx = job[w].ctx
        BY <1>2, <3>2 DEF Job, RegistryInv, RegistryType
      <4> QED BY <1>2, <4>1, <4>2, SMT
    <3> QED BY <2>4, <3>1, <3>2
  <2>6. \A q \in Ref \ {r} : node'[q] = node[q] BY <2>3 DEF RegistryInv, RegistryType
  <2>7. \A q \in Ref : Attached(q) => node'[q] = node[q] BY <2>2, <2>6 DEF Attached
  <2>8. \A v \in Worker \ {w} : At(v, "attach") => node'[job[v].ref] = node[job[v].ref]
    BY <1>5, <2>2, <2>6
  <2> QED BY <1>1, <2>3, <2>5, <2>7, <2>8 DEF Effect
<1>10. CASE Unregister(w)
  <2>1. Proceed(w, job[w]) /\ UNCHANGED <<node, contexts>> BY <1>10 DEF Unregister
  <2>2. /\ job' = [job EXCEPT ![w] = job'[w]] /\ job'[w].out = NoRef
        /\ job'[w].ctx = job[w].ctx /\ job'[w].pc \in {"use", "leave", "destroy"}
    BY <1>6, <2>1
  <2> QED BY <1>1, <1>2, <2>1, <2>2, QuietEffect
<1>11. ~Leave(w) BY DEF Leave
<1> QED BY <1>1, <1>4, <1>7, <1>8, <1>9, <1>10, <1>11 DEF Step

\* A job is done; its result has been copied.
LEMMA LeaveEffect ==
  ASSUME RegistryInv, NEW w \in Worker, Leave(w)
  PROVE  RegistryInv' /\ Effect(w) /\ job'[w].pc \in {"idle", "destroy"} /\ job'[w].out = NoRef
<1>1. RegistryInv' BY LeaveInv
<1>2. job'[w] \in Job /\ job' = [job EXCEPT ![w] = job'[w]] /\ UNCHANGED <<node, contexts>>
  BY <1>1 DEF Leave, RegistryInv, RegistryType
<1>3. job'[w] = Idle \/ job'[w] = [Idle EXCEPT !.pc = "destroy", !.ref = job[w].src]
  BY DEF Leave, RegistryInv, RegistryType
<1>4. job'[w].out = NoRef /\ job'[w].pc \in {"idle", "destroy"}
  <2>1. CASE job'[w] = Idle BY <2>1, SMT DEF Idle
  <2>2. CASE job'[w] = [Idle EXCEPT !.pc = "destroy", !.ref = job[w].src]
    <3>1. PICK q : q = job[w].src OBVIOUS
    <3>2. job'[w] = [Idle EXCEPT !.pc = "destroy", !.ref = q] BY <2>2, <3>1
    <3> QED BY <3>2 DEF Idle
  <2> QED BY <1>3, <2>1, <2>2
<1> QED BY <1>1, <1>2, <1>4, QuietEffect

----------------------------------------------------------------------------
(* The calls.                                                              *)

\* A thread without a job does not move in the registry.
LEMMA IdleEffect ==
  ASSUME RegistryInv, Nodes, NEW w \in Worker, At(w, "idle"), UNCHANGED vars
  PROVE  /\ RegistryInv' /\ Effect(w) /\ job'[w] = job[w]
         /\ job'[w].pc = "idle" /\ job'[w].out = NoRef
<1>1. UNCHANGED <<keys, slotToId, nextId, refCount, node, contexts, job>> BY DEF vars
<1>2. RegistryInv' BY <1>1, RegistryUntouched
<1>3. job[w].out = NoRef /\ job[w].pc = "idle" BY DEF Nodes, At
<1>4. job[w] \in Job /\ job' = [job EXCEPT ![w] = job[w]] BY <1>1 DEF RegistryInv, RegistryType
<1> QED BY <1>1, <1>2, <1>3, <1>4, QuietEffect

\* A call goes from call[w] to k while its thread does a step that deletes nothing.
LEMMA EffectKeeps ==
  ASSUME KmInv, NEW w \in Worker, NEW k, RegistryInv', Effect(w), UNCHANGED <<guard, obj>>,
         call' = [call EXCEPT ![w] = k], CallOK(k, job'[w]),
         job'[w].pc = "attach" => guard[job'[w].ref].state = "none",
         k.op \in Makers /\ k.alive => obj[k.ctx] = "open",
         k.op = "open" => /\ call[w].op = "open" /\ k.ctx = call[w].ctx /\ k.alive = call[w].alive
                          /\ k.stage # "reply" \/ k.ok => k.ctx \in contexts,
         k.op = "close" => call[w].op = "close" /\ k.ctx = call[w].ctx /\ k.alive = call[w].alive,
         k.ctx = call[w].ctx \/ obj[k.ctx] \in {"open", "dropped"},
         \A r \in Ref : Result(k, job'[w], r) =>
            \/ Result(call[w], job[w], r) /\ k.ctx = call[w].ctx
            \/ /\ At(w, "attach") /\ job[w].ref = r
               /\ node'[r] # NoRef /\ node'[r].attached /\ node'[r].ctx = k.ctx
  PROVE  KmInv'
<1>1. /\ call'[w] = k /\ \A v \in Worker \ {w} : call'[v] = call[v]
      /\ call' = [v \in Worker |-> call'[v]]
  BY DEF KmInv, KmType
<1>2. /\ \A v \in Worker \ {w} : job'[v] = job[v]
      /\ contexts' = contexts
      /\ \A r \in Ref : Attached(r) => node'[r] = node[r]
      /\ \A v \in Worker \ {w} : At(v, "attach") => node'[job[v].ref] = node[job[v].ref]
  BY DEF Effect, KmInv, RegistryInv, RegistryType
<1>3. KmType'
  <2>1. \A v \in Worker : CallOK(call'[v], job'[v]) BY <1>1, <1>2 DEF KmInv, KmType
  <2>2. \A r \in Ref : GuardOK(r)' BY DEF KmInv, KmType, GuardOK
  <2> QED BY <1>1, <2>1, <2>2 DEF KmInv, KmType, CallOK, CallRecord
<1>4. Nodes'
  <2>1. job'[w].out # NoRef => job'[w].pc = "leave" BY DEF Effect
  <2>2. job'[w].pc = "attach" => /\ node'[job'[w].ref].ctx = job'[w].ctx
                                 /\ guard[job'[w].ref].state = "none"
    BY DEF Effect
  <2> QED BY <1>2, <2>1, <2>2, SMT DEF KmInv, Nodes, At
<1>5. Objects'
  <2>1. \A v \in Worker : call'[v].alive /\ call'[v].op \in Makers => obj[call'[v].ctx] = "open"
    BY <1>1, SMT DEF KmInv, Objects
  <2>2. ASSUME NEW v \in Worker, call'[v].op = "open"
        PROVE  /\ obj[call'[v].ctx] = IF call'[v].alive THEN "opening" ELSE "none"
               /\ call'[v].stage # "reply" \/ call'[v].ok => call'[v].ctx \in contexts
               /\ \A u \in Worker \ {v} : call'[u].ctx # call'[v].ctx
    <3>1. call[v].op = "open" /\ call'[v].ctx = call[v].ctx /\ call'[v].alive = call[v].alive
      BY <1>1, <2>2
    <3>2. /\ obj[call[v].ctx] = IF call[v].alive THEN "opening" ELSE "none"
          /\ call[v].stage # "reply" \/ call[v].ok => call[v].ctx \in contexts
          /\ \A u \in Worker \ {v} : call[u].ctx # call[v].ctx
      BY <3>1 DEF KmInv, Objects
    <3>3. call'[v].stage # "reply" \/ call'[v].ok => call'[v].ctx \in contexts
      BY <1>1, <2>2, <3>2
    <3>4. \A u \in Worker \ {v} : call'[u].ctx # call'[v].ctx
      BY <1>1, <3>1, <3>2, SMT
    <3> QED BY <3>1, <3>2, <3>3, <3>4
  <2>3. \A v \in Worker : call'[v].op = "close" =>
          call[v].op = "close" /\ call'[v].ctx = call[v].ctx /\ call'[v].alive = call[v].alive
    BY <1>1
  <2>4. ASSUME NEW v \in Worker, call'[v].op = "close", call'[v].alive
        PROVE  /\ obj[call'[v].ctx] = "closing"
               /\ \A u \in Worker \ {v} :
                    call'[u].op = "close" /\ call'[u].alive => call'[u].ctx # call'[v].ctx
    <3>1. call[v].op = "close" /\ call[v].alive /\ call'[v].ctx = call[v].ctx BY <2>3, <2>4
    <3>2. /\ obj[call[v].ctx] = "closing"
          /\ \A u \in Worker \ {v} :
                call[u].op = "close" /\ call[u].alive => call[u].ctx # call[v].ctx
      BY <3>1 DEF KmInv, Objects
    <3>3. ASSUME NEW u \in Worker \ {v}, call'[u].op = "close", call'[u].alive
          PROVE  call'[u].ctx # call'[v].ctx
      <4>1. call[u].op = "close" /\ call[u].alive /\ call'[u].ctx = call[u].ctx BY <2>3, <3>3
      <4> QED BY <3>1, <3>2, <4>1
    <3> QED BY <3>1, <3>2, <3>3
  <2>5. /\ \A r \in Ref, c \in Context : guard[r].ctx = c => obj[c] \in {"open", "dropped"}
        /\ \A c \in Context : obj[c] \in {"open", "dropped"} => c \in contexts
    BY DEF KmInv, Objects
  <2>6. obj' = obj /\ guard' = guard /\ contexts' = contexts BY <1>2
  <2> QED BY <2>1, <2>2, <2>4, <2>5, <2>6, SMTT(40) DEF Objects
<1>6. Results'
  <2>1. ASSUME At(w, "attach") PROVE ~Attached(job[w].ref) /\ guard[job[w].ref].state = "none"
    <3>1. job[w].ref \in Ref BY <2>1 DEF At, KmInv, RegistryInv, RegistryType, JobOK, Job
    <3>2. job[w].ref \in Mine(job[w]) BY <3>1 DEF Mine
    <3> QED BY <2>1, <3>1, <3>2 DEF KmInv, RegistryInv, Owners, Attached, Nodes
  <2> SUFFICES ASSUME NEW v \in Worker, NEW r \in Ref, Result(call'[v], job'[v], r)
               PROVE  /\ node'[r] # NoRef /\ node'[r].attached /\ node'[r].ctx = call'[v].ctx
                      /\ guard[r].state = "none"
                      /\ \A u \in Worker \ {v} : ~Result(call'[u], job'[u], r)
    BY DEF Results, Attached, Result
  <2>2. CASE v = w
    <3>1. \A u \in Worker \ {w} : Result(call'[u], job'[u], r) => Result(call[u], job[u], r)
      BY <1>1, <1>2
    <3>2. CASE Result(call[w], job[w], r) /\ k.ctx = call[w].ctx
      <4>1. /\ Attached(r) /\ node[r].ctx = call[w].ctx /\ guard[r].state = "none"
            /\ \A u \in Worker \ {w} : ~Result(call[u], job[u], r)
        BY <3>2 DEF KmInv, Results
      <4> QED BY <1>1, <1>2, <2>2, <3>1, <3>2, <4>1 DEF Attached
    <3>3. CASE At(w, "attach") /\ job[w].ref = r /\ node'[r] # NoRef /\ node'[r].attached
               /\ node'[r].ctx = k.ctx
      <4>1. \A u \in Worker : ~Result(call[u], job[u], r)
        BY <2>1, <3>3 DEF KmInv, Results
      <4> QED BY <1>1, <2>1, <2>2, <3>1, <3>3, <4>1
    <3> QED BY <1>1, <2>2, <3>2, <3>3
  <2>3. CASE v # w
    <3>1. Result(call[v], job[v], r) BY <1>1, <1>2, <2>3
    <3>2. /\ Attached(r) /\ node[r].ctx = call[v].ctx /\ guard[r].state = "none"
          /\ \A u \in Worker \ {v} : ~Result(call[u], job[u], r)
      BY <3>1 DEF KmInv, Results
    <3>3. ~Result(call'[w], job'[w], r) BY <1>1, <2>1, <2>3, <3>2
    <3> QED BY <1>1, <1>2, <2>3, <3>2, <3>3 DEF Attached
  <2> QED BY <2>2, <2>3
<1>7. GuardedKeyAlive'
  <2> SUFFICES ASSUME NEW r \in Ref, guard[r].state = "held"
               PROVE  Attached(r)' /\ node'[r].ctx = guard[r].ctx /\ guard[r].ctx \in contexts'
    BY DEF GuardedKeyAlive
  <2>1. Attached(r) /\ node[r].ctx = guard[r].ctx /\ guard[r].ctx \in contexts
    BY DEF KmInv, GuardedKeyAlive
  <2>2. node'[r] = node[r] /\ contexts' = contexts BY <1>2, <2>1
  <2> QED BY <2>1, <2>2 DEF Attached
<1> QED BY <1>3, <1>4, <1>5, <1>6, <1>7 DEF KmInv

\* A step of a job.
LEMMA JobStepKeeps ==
  ASSUME KmInv, NEW w \in Worker, JobStep(w)
  PROVE  KmInv'
<1>1. Step(w) /\ ~At(w, "leave") /\ ~At(w, "idle") /\ (At(w, "create") => ConstructNode(w))
  BY DEF JobStep, Step, At, LoadSucceeds, LoadFails, ConstructNode, ConstructKeyDataNode, LoadKeyFails,
         FindSlotRegistryId, Recheck, RegisterSlotKey, FindWinnerId, FindById, AttachKeyDataNode,
         AttachFails, ReleaseRef, Unregister, AccessorGone
<1>2. RegistryInv /\ Nodes BY DEF KmInv
<1>3. /\ RegistryInv' /\ Effect(w) /\ job'[w].ctx = job[w].ctx /\ job'[w].pc # "idle"
      /\ job'[w].pc = "attach" => At(w, "create") /\ node[job'[w].ref] = NoRef
  BY <1>1, <1>2, StepEffect
<1>4. UNCHANGED <<guard, obj>> /\ call' = call BY DEF JobStep
<1>5. CallOK(call[w], job[w]) BY DEF KmInv, KmType
<1>6. call[w].op # "none" BY <1>1, <1>5 DEF CallOK, At
<1>7. CallOK(call[w], job'[w]) BY <1>3, <1>5, <1>6 DEF CallOK
<1>8. call' = [call EXCEPT ![w] = call[w]] BY <1>4 DEF KmInv, KmType
<1>9. job'[w].pc = "attach" => guard[job'[w].ref].state = "none"
  BY <1>1, <1>3 DEF ConstructNode
<1>10. /\ call[w].op \in Makers /\ call[w].alive => obj[call[w].ctx] = "open"
       /\ call[w].op = "open" => (call[w].stage # "reply" \/ call[w].ok => call[w].ctx \in contexts)
  BY DEF KmInv, Objects
<1>11. ASSUME NEW r \in Ref, Result(call[w], job'[w], r), ~Result(call[w], job[w], r)
       PROVE  /\ At(w, "attach") /\ job[w].ref = r
              /\ node'[r] # NoRef /\ node'[r].attached /\ node'[r].ctx = call[w].ctx
  <2>1. job'[w].out = r /\ call[w].stage = "run" BY <1>11 DEF Result
  <2>2. r # NoRef BY ConstantsOK
  <2>3. job[w].ctx = call[w].ctx BY <1>5, <2>1 DEF CallOK
  <2> QED BY <1>3, <2>1, <2>2, <2>3 DEF Effect
<1> QED BY <1>3, <1>4, <1>7, <1>8, <1>9, <1>10, <1>11, EffectKeeps

\* The step of a job that is still without a result, at another stage of the same call.
LEMMA SameCallKeeps ==
  ASSUME KmInv, NEW w \in Worker, RegistryInv', Effect(w), UNCHANGED <<guard, obj>>,
         NEW k, call' = [call EXCEPT ![w] = k], CallOK(k, job'[w]),
         k.op = call[w].op, k.ctx = call[w].ctx, k.alive = call[w].alive,
         call[w].op = "open" => call[w].stage # "reply" \/ (k.stage = call[w].stage /\ k.ok = call[w].ok),
         job'[w].pc # "attach",
         \A r \in Ref : Result(k, job'[w], r) => Result(call[w], job[w], r)
  PROVE  KmInv'
<1>1. /\ call[w].op \in Makers /\ call[w].alive => obj[call[w].ctx] = "open"
      /\ call[w].op = "open" => (call[w].stage # "reply" \/ call[w].ok => call[w].ctx \in contexts)
  BY DEF KmInv, Objects
<1>2. k.op \in Makers /\ k.alive => obj[k.ctx] = "open" BY <1>1
<1>3. k.op = "open" => (k.stage # "reply" \/ k.ok => k.ctx \in contexts) BY <1>1
<1> QED BY <1>2, <1>3, EffectKeeps

\* The operation on a key.
LEMMA UseKeyKeeps ==
  ASSUME KmInv, NEW w \in Worker, UseKey(w)
  PROVE  KmInv'
<1>1. At(w, "use") /\ call' = call /\ UNCHANGED <<guard, obj>>
      /\ (KeyUsed(w) \/ RegisterEphemeralKey(w, call[w].ctx))
  BY DEF UseKey, DaemonUnchanged
<1>2. RegistryInv /\ Nodes /\ CallOK(call[w], job[w]) /\ call[w].op # "none" /\ call[w].ctx \in Context
  BY <1>1 DEF KmInv, KmType, CallOK, At
<1>3. /\ RegistryInv' /\ Effect(w) /\ job'[w].pc \notin {"idle", "attach"} /\ job'[w].out = NoRef
      /\ call[w].stage = "run" => job'[w].ctx = call[w].ctx
  <2>1. CASE KeyUsed(w)
    <3>1. Step(w) /\ ~At(w, "leave") BY <1>1, <2>1 DEF Step, At
    <3>2. /\ RegistryInv' /\ Effect(w) /\ job'[w].ctx = job[w].ctx /\ job'[w].pc # "idle"
          /\ job'[w].pc = "attach" => At(w, "create")
      BY <1>2, <3>1, StepEffect
    <3>3. ~At(w, "create") /\ ~At(w, "attach") BY <1>1 DEF At
    <3> QED BY <1>2, <3>2, <3>3 DEF CallOK, Effect
  <2>2. CASE RegisterEphemeralKey(w, call[w].ctx)
    BY <1>2, <2>2, StartEffect
  <2> QED BY <1>1, <2>1, <2>2
<1>4. CallOK(call[w], job'[w]) BY <1>2, <1>3 DEF CallOK
<1>5. call' = [call EXCEPT ![w] = call[w]] BY <1>1 DEF KmInv, KmType
<1>6. \A r \in Ref : Result(call[w], job'[w], r) => Result(call[w], job[w], r)
  BY <1>3, ConstantsOK DEF Result
<1> QED BY <1>1, <1>3, <1>4, <1>5, <1>6, SameCallKeeps

\* The call c at another stage, with another result.
CallAt(c, s, b, o, l) ==
    [op |-> c.op, ctx |-> c.ctx, ref |-> c.ref, arg |-> c.arg, request |-> c.request,
     stage |-> s, ok |-> b, out |-> o, alive |-> l]

LEMMA CallUpdates ==
  ASSUME NEW c, CallRecord(c), NEW s, NEW b, NEW o, NEW l
  PROVE  /\ [c EXCEPT !.stage = s] = CallAt(c, s, c.ok, c.out, c.alive)
         /\ [c EXCEPT !.stage = s, !.ok = b] = CallAt(c, s, b, c.out, c.alive)
         /\ [c EXCEPT !.stage = s, !.out = o] = CallAt(c, s, c.ok, o, c.alive)
         /\ [c EXCEPT !.alive = l] = CallAt(c, c.stage, c.ok, c.out, l)
         /\ [c EXCEPT !.ok = b] = CallAt(c, c.stage, b, c.out, c.alive)
<1>1. PICK p, x, r, a, q, t, d, e, g :
        /\ p = c.op /\ x = c.ctx /\ r = c.ref /\ a = c.arg /\ q = c.request
        /\ t = c.stage /\ d = c.ok /\ e = c.out /\ g = c.alive
  OBVIOUS
<1>2. c = [op |-> p, ctx |-> x, ref |-> r, arg |-> a, request |-> q, stage |-> t,
           ok |-> d, out |-> e, alive |-> g]
  BY <1>1 DEF CallRecord
<1>3. [c EXCEPT !.stage = s] = CallAt(c, s, c.ok, c.out, c.alive) BY <1>1, <1>2, SMT DEF CallAt
<1>4. [c EXCEPT !.stage = s, !.ok = b] = CallAt(c, s, b, c.out, c.alive)
  <2>1. [c EXCEPT !.stage = s, !.ok = b]
          = [op |-> p, ctx |-> x, ref |-> r, arg |-> a, request |-> q, stage |-> s, ok |-> b, out |-> e, alive |-> g]
    <3>1. PICK y : y = [c EXCEPT !.stage = s] OBVIOUS
    <3>2. y = [op |-> p, ctx |-> x, ref |-> r, arg |-> a, request |-> q, stage |-> s,
               ok |-> d, out |-> e, alive |-> g]
      BY <1>2, <3>1
    <3>3. [y EXCEPT !.ok = b] = [op |-> p, ctx |-> x, ref |-> r, arg |-> a, request |-> q, stage |-> s,
                             ok |-> b, out |-> e, alive |-> g]
      BY <3>2, SMT
    <3> QED BY <3>1, <3>3
  <2> QED BY <1>1, <2>1 DEF CallAt
<1>5. [c EXCEPT !.stage = s, !.out = o] = CallAt(c, s, c.ok, o, c.alive)
  <2>1. [c EXCEPT !.stage = s, !.out = o]
          = [op |-> p, ctx |-> x, ref |-> r, arg |-> a, request |-> q, stage |-> s, ok |-> d, out |-> o, alive |-> g]
    <3>1. PICK y : y = [c EXCEPT !.stage = s] OBVIOUS
    <3>2. y = [op |-> p, ctx |-> x, ref |-> r, arg |-> a, request |-> q, stage |-> s,
               ok |-> d, out |-> e, alive |-> g]
      BY <1>2, <3>1
    <3>3. [y EXCEPT !.out = o] = [op |-> p, ctx |-> x, ref |-> r, arg |-> a, request |-> q, stage |-> s,
                             ok |-> d, out |-> o, alive |-> g]
      BY <3>2, SMT
    <3> QED BY <3>1, <3>3
  <2> QED BY <1>1, <2>1 DEF CallAt
<1>6. [c EXCEPT !.alive = l] = CallAt(c, c.stage, c.ok, c.out, l) BY <1>1, <1>2, SMT DEF CallAt
<1>7. [c EXCEPT !.ok = b] = CallAt(c, c.stage, b, c.out, c.alive) BY <1>1, <1>2, SMT DEF CallAt
<1> QED BY <1>3, <1>4, <1>5, <1>6, <1>7

LEMMA Restaged ==
  ASSUME NEW c, CallRecord(c), NEW s \in CallStage, NEW b \in BOOLEAN, NEW o \in Ref \cup {NoRef},
         NEW l \in BOOLEAN, NEW k, k = CallAt(c, s, b, o, l)
  PROVE  /\ k.op = c.op /\ k.ctx = c.ctx /\ k.ref = c.ref /\ k.arg = c.arg
         /\ k.alive = l /\ k.stage = s /\ k.ok = b /\ k.out = o /\ CallRecord(k)
<1>4. /\ k.op = c.op /\ k.ctx = c.ctx /\ k.ref = c.ref /\ k.arg = c.arg /\ k.request = c.request
      /\ k.alive = l /\ k.stage = s /\ k.ok = b /\ k.out = o
  BY DEF CallAt
<1>5. k = [op |-> k.op, ctx |-> k.ctx, ref |-> k.ref, arg |-> k.arg, request |-> k.request,
           stage |-> k.stage, ok |-> k.ok, out |-> k.out, alive |-> k.alive]
  BY <1>4 DEF CallAt
<1>6. /\ k.op \in CallOp /\ k.ctx \in Context \cup {NoContext} /\ k.ref \in Ref \cup {NoRef}
      /\ k.stage \in CallStage /\ k.ok \in BOOLEAN /\ k.out \in Ref \cup {NoRef} /\ k.alive \in BOOLEAN
  BY <1>4 DEF CallRecord
<1> QED BY <1>4, <1>5, <1>6 DEF CallRecord

\* A job ends and its result goes into the reply.
LEMMA JobDoneKeeps ==
  ASSUME KmInv, NEW w \in Worker, JobDone(w)
  PROVE  KmInv'
<1>1. RegistryInv /\ CallOK(call[w], job[w]) /\ job[w] \in Job BY DEF KmInv, KmType, RegistryInv, RegistryType
<1>2. Leave(w) /\ At(w, "leave") /\ UNCHANGED <<guard, obj>> BY DEF JobDone, Leave
<1>3. RegistryInv' /\ Effect(w) /\ job'[w].pc \in {"idle", "destroy"} /\ job'[w].out = NoRef
  BY <1>1, <1>2, LeaveEffect
<1>4. call[w].op # "none" /\ call[w].ctx \in Context BY <1>1, <1>2 DEF CallOK, At
<1>5. CASE call[w].stage = "run"
  <2> DEFINE k == [call[w] EXCEPT !.stage = "reply", !.out = job[w].out]
  <2>1. call' = [call EXCEPT ![w] = k] BY <1>5 DEF JobDone
  <2>2. /\ k.op = call[w].op /\ k.ctx = call[w].ctx /\ k.alive = call[w].alive /\ k.stage = "reply"
        /\ k.out = job[w].out /\ k.ref = call[w].ref /\ k.arg = call[w].arg /\ CallRecord(k)
    <3>1. CallRecord(call[w]) /\ call[w].ok \in BOOLEAN /\ call[w].alive \in BOOLEAN
      BY <1>1 DEF CallOK, CallRecord
    <3>2. job[w].out \in Ref \cup {NoRef} /\ "reply" \in CallStage BY <1>1 DEF Job, CallStage
    <3>3. k = CallAt(call[w], "reply", call[w].ok, job[w].out, call[w].alive) BY <3>1, CallUpdates
    <3> HIDE DEF k
    <3> QED BY <3>1, <3>2, <3>3, Restaged, SMT
  <2> HIDE DEF k
  <2>3. CallOK(k, job'[w]) BY <1>1, <1>4, <2>2 DEF CallOK
  <2>4. \A r \in Ref : Result(k, job'[w], r) => Result(call[w], job[w], r)
    BY <1>5, <2>2 DEF Result
  <2> QED BY <1>2, <1>3, <1>5, <2>1, <2>2, <2>3, <2>4, SameCallKeeps
<1>6. CASE call[w].stage = "bound"
  <2>1. PICK s \in {"init", "cleanup"} : s = IF job[w].out # NoRef THEN "init" ELSE "cleanup" OBVIOUS
  <2> DEFINE k == [call[w] EXCEPT !.stage = s]
  <2>2. call' = [call EXCEPT ![w] = k] BY <1>6, <2>1 DEF JobDone
  <2>3. /\ k.op = call[w].op /\ k.ctx = call[w].ctx /\ k.alive = call[w].alive /\ k.stage = s
        /\ k.ref = call[w].ref /\ k.arg = call[w].arg /\ k.ok = call[w].ok /\ CallRecord(k)
    <3>1. /\ CallRecord(call[w]) /\ call[w].ok \in BOOLEAN /\ call[w].alive \in BOOLEAN
          /\ call[w].out \in Ref \cup {NoRef} /\ s \in CallStage
      BY <1>1 DEF CallOK, CallRecord, CallStage
    <3>2. k = CallAt(call[w], s, call[w].ok, call[w].out, call[w].alive) BY <3>1, CallUpdates
    <3> HIDE DEF k
    <3> QED BY <3>1, <3>2, Restaged, SMT
  <2> HIDE DEF k
  <2>4. CallOK(k, job'[w]) BY <1>1, <1>4, <1>6, <2>3 DEF CallOK
  <2>5. \A r \in Ref : Result(k, job'[w], r) => Result(call[w], job[w], r)
    BY <2>3 DEF Result
  <2> QED BY <1>2, <1>3, <1>6, <2>2, <2>3, <2>4, <2>5, SameCallKeeps
<1>7. CASE call[w].stage \notin {"run", "bound"}
  <2>1. call' = [call EXCEPT ![w] = call[w]] BY <1>7 DEF JobDone
  <2>2. CallOK(call[w], job'[w]) BY <1>1, <1>4, <1>7 DEF CallOK
  <2>3. \A r \in Ref : Result(call[w], job'[w], r) => Result(call[w], job[w], r)
    BY <1>7 DEF Result
  <2> QED BY <1>2, <1>3, <2>1, <2>2, <2>3, SameCallKeeps
<1> QED BY <1>5, <1>6, <1>7

\* The key of a new context is bound, or refused.
LEMMA BindKeeps ==
  ASSUME KmInv, Served, NEW w \in Worker, BindAndAuthorizeKey(w)
  PROVE  KmInv'
<1>1. RegistryInv /\ Nodes /\ CallOK(call[w], job[w]) BY DEF KmInv, KmType
<1>2. call[w].stage = "bind" /\ At(w, "idle") /\ UNCHANGED <<guard, obj>>
  BY DEF BindAndAuthorizeKey, Stage
<1>3. call[w].op = "open" /\ call[w].ctx \in Context BY <1>1, <1>2 DEF CallOK
<1>4. PICK s \in {"bound", "cleanup"} :
        /\ call' = [call EXCEPT ![w].stage = s]
        /\ \/ \E a \in Slot : LoadOrShare(w, call[w].ctx, a)
           \/ \E r \in Ref : BindLoadedKey(w, r, call[w].ctx)
           \/ UNCHANGED vars
  <2>1. CASE call[w].arg.slot = "" /\ BindLoadedKey(w, call[w].arg.ref, call[w].ctx)
             /\ call' = [call EXCEPT ![w].stage = "bound"]
    <3>1. call[w].arg.ref \in Ref BY <1>1, <1>2, <2>1 DEF CallOK
    <3> QED BY <2>1, <3>1
  <2>2. ASSUME NEW a \in Slots, AuthorizesSlot(call[w].ctx, a, call[w].arg.need),
               LoadOrShare(w, call[w].ctx, <<a.provs[1], a.name>>), call' = [call EXCEPT ![w].stage = "bound"]
        PROVE  \E b \in Slot : LoadOrShare(w, call[w].ctx, b) /\ call' = [call EXCEPT ![w].stage = "bound"]
    <3>1. a.provs[1] = ctx[call[w].ctx].provider /\ HasSlotHandler(a.provs[1])
      BY <2>2 DEF AuthorizesSlot, GetPrimaryProviderId, BindsTo
    <3>2. call[w].ctx \in contexts BY <1>2, <1>3 DEF KmInv, Objects
    <3>3. <<a.provs[1], a.name>> \in Slot BY <3>1, <3>2 DEF Served
    <3> QED BY <2>2, <3>3
  <2>3. CASE UNCHANGED vars /\ call' = [call EXCEPT ![w].stage = "cleanup"] BY <2>3
  <2> QED BY <2>1, <2>2, <2>3 DEF BindAndAuthorizeKey
<1>5. RegistryInv' /\ Effect(w) /\ job'[w].pc # "attach"
  BY <1>1, <1>2, <1>3, <1>4, StartEffect, IdleEffect
<1> DEFINE k == [call[w] EXCEPT !.stage = s]
<1>6. call' = [call EXCEPT ![w] = k] BY <1>4
<1>7. /\ k.op = call[w].op /\ k.ctx = call[w].ctx /\ k.alive = call[w].alive /\ k.stage = s
      /\ k.ref = call[w].ref /\ k.arg = call[w].arg /\ k.ok = call[w].ok /\ CallRecord(k)
  <2>1. /\ CallRecord(call[w]) /\ call[w].ok \in BOOLEAN /\ call[w].alive \in BOOLEAN
        /\ call[w].out \in Ref \cup {NoRef} /\ s \in CallStage
    BY <1>1 DEF CallOK, CallRecord, CallStage
  <2>2. k = CallAt(call[w], s, call[w].ok, call[w].out, call[w].alive) BY <2>1, CallUpdates
  <2> HIDE DEF k
  <2> QED BY <2>1, <2>2, Restaged, SMT
<1> HIDE DEF k
<1>8. CallOK(k, job'[w]) BY <1>1, <1>2, <1>3, <1>7 DEF CallOK
<1>9. \A r \in Ref : Result(k, job'[w], r) => Result(call[w], job[w], r)
  BY <1>7 DEF Result
<1> QED BY <1>2, <1>5, <1>6, <1>7, <1>8, <1>9, SameCallKeeps

\* The handler of a new context is initialised, or refuses.
LEMMA InitializeKeeps ==
  ASSUME KmInv, NEW w \in Worker, InitializeContext(w)
  PROVE  KmInv'
<1>1. RegistryInv /\ Nodes /\ CallOK(call[w], job[w]) BY DEF KmInv, KmType
<1>2. call[w].stage = "init" /\ At(w, "idle") /\ UNCHANGED <<guard, obj>> /\ UNCHANGED vars
  BY DEF InitializeContext, Stage
<1>3. call[w].op = "open" /\ call[w].ctx \in Context BY <1>1, <1>2 DEF CallOK
<1>4. RegistryInv' /\ Effect(w) /\ job'[w].pc # "attach" BY <1>1, <1>2, IdleEffect
<1>5. PICK s \in {"reply", "cleanup"}, b \in BOOLEAN :
        /\ s = "cleanup" => b = call[w].ok
        /\ call' = [call EXCEPT ![w] = [call[w] EXCEPT !.stage = s, !.ok = b]]
  <2>1. CASE call' = [call EXCEPT ![w].stage = "reply", ![w].ok = TRUE]
    <3>1. [call EXCEPT ![w].stage = "reply", ![w].ok = TRUE]
            = [call EXCEPT ![w] = [call[w] EXCEPT !.stage = "reply", !.ok = TRUE]]
      BY DEF KmInv, KmType
    <3> QED BY <2>1, <3>1
  <2>2. CASE call' = [call EXCEPT ![w].stage = "cleanup"]
    <3>1. [call[w] EXCEPT !.stage = "cleanup"] = [call[w] EXCEPT !.stage = "cleanup", !.ok = call[w].ok]
      BY <1>1 DEF CallOK, CallRecord
    <3> QED BY <1>1, <2>2, <3>1 DEF CallOK, CallRecord
  <2> QED BY <2>1, <2>2 DEF InitializeContext
<1> DEFINE k == [call[w] EXCEPT !.stage = s, !.ok = b]
<1>6. call' = [call EXCEPT ![w] = k] BY <1>5
<1>7. /\ k.op = call[w].op /\ k.ctx = call[w].ctx /\ k.alive = call[w].alive /\ k.stage = s
      /\ k.ref = call[w].ref /\ k.arg = call[w].arg /\ k.ok = b /\ CallRecord(k)
  <2>1. /\ CallRecord(call[w]) /\ call[w].ok \in BOOLEAN /\ call[w].alive \in BOOLEAN
        /\ call[w].out \in Ref \cup {NoRef} /\ s \in CallStage
    BY <1>1 DEF CallOK, CallRecord, CallStage
  <2>2. k = CallAt(call[w], s, b, call[w].out, call[w].alive) BY <2>1, CallUpdates
  <2> HIDE DEF k
  <2> QED BY <2>1, <2>2, Restaged, SMT
<1> HIDE DEF k
<1>8. CallOK(k, job'[w]) BY <1>1, <1>2, <1>3, <1>5, <1>7 DEF CallOK
<1>9. \A r \in Ref : Result(k, job'[w], r) => Result(call[w], job[w], r)
  BY <1>3, <1>7 DEF Result, Makers
<1> QED BY <1>2, <1>4, <1>6, <1>7, <1>8, <1>9, SameCallKeeps

\* k is a new call.
NewCall(k, op, c, r, a, s) ==
    /\ CallRecord(k) /\ k.op = op /\ k.ctx = c /\ k.ref = r /\ k.arg = a /\ k.stage = s
    /\ k.out = NoRef /\ k.alive

LEMMA PlainCall ==
  ASSUME NEW op \in CallOp, NEW c \in Context, NEW r \in Ref \cup {NoRef}, NEW a,
         NEW s \in CallStage, NEW k, k = Call(op, c, r, a, s)
  PROVE  NewCall(k, op, c, r, a, s) /\ ~k.ok
<1>1. PICK e, n, f, l : e = <<>> /\ n = NoRef /\ f = FALSE /\ l = TRUE OBVIOUS
<1>2. PICK y : y = Call(op, c, r, a, s) OBVIOUS
<1>3. y = [op |-> op, ctx |-> c, ref |-> r, arg |-> a, request |-> e, stage |-> s,
           ok |-> f, out |-> n, alive |-> l]
  BY <1>1, <1>2 DEF Call
<1>4. k = [op |-> op, ctx |-> c, ref |-> r, arg |-> a, request |-> e, stage |-> s, ok |-> f, out |-> n, alive |-> l]
  BY <1>1, <1>2, <1>3
<1>5. /\ k.op = op /\ k.ctx = c /\ k.ref = r /\ k.arg = a /\ k.stage = s
      /\ k.ok = f /\ k.out = n /\ k.alive = l
  BY <1>4, SMT
<1>6. k = [op |-> k.op, ctx |-> k.ctx, ref |-> k.ref, arg |-> k.arg, request |-> k.request,
           stage |-> k.stage, ok |-> k.ok, out |-> k.out, alive |-> k.alive]
  BY <1>4
<1> QED BY <1>1, <1>5, <1>6 DEF NewCall, CallRecord

LEMMA StagedCall ==
  ASSUME NEW op \in CallOp, NEW c \in Context, NEW r \in Ref \cup {NoRef}, NEW a,
         NEW s \in CallStage, NEW t, NEW k, k = [Call(op, c, r, a, t) EXCEPT !.stage = s]
  PROVE  NewCall(k, op, c, r, a, s)
<1>1. PICK e, n, f, l : e = <<>> /\ n = NoRef /\ f = FALSE /\ l = TRUE OBVIOUS
<1>2. PICK y : y = Call(op, c, r, a, t) OBVIOUS
<1>3. y = [op |-> op, ctx |-> c, ref |-> r, arg |-> a, request |-> e, stage |-> t,
           ok |-> f, out |-> n, alive |-> l]
  BY <1>1, <1>2 DEF Call
<1>4. k = [op |-> op, ctx |-> c, ref |-> r, arg |-> a, request |-> e, stage |-> s, ok |-> f, out |-> n, alive |-> l]
  <2>1. k = [y EXCEPT !.stage = s] BY <1>2
  <2> QED BY <1>3, <2>1
<1>5. /\ k.op = op /\ k.ctx = c /\ k.ref = r /\ k.arg = a /\ k.stage = s
      /\ k.ok = f /\ k.out = n /\ k.alive = l
  BY <1>4, SMT
<1>6. k = [op |-> k.op, ctx |-> k.ctx, ref |-> k.ref, arg |-> k.arg, request |-> k.request,
           stage |-> k.stage, ok |-> k.ok, out |-> k.out, alive |-> k.alive]
  BY <1>4
<1> QED BY <1>1, <1>5, <1>6 DEF NewCall, CallRecord

LEMMA RequestCall ==
  ASSUME NEW op \in CallOp, NEW c \in Context, NEW r \in Ref \cup {NoRef}, NEW a,
         NEW s \in CallStage, NEW q, NEW k, k = [Call(op, c, r, a, s) EXCEPT !.request = q]
  PROVE  NewCall(k, op, c, r, a, s)
<1>1. PICK e, n, f, l : e = <<>> /\ n = NoRef /\ f = FALSE /\ l = TRUE OBVIOUS
<1>2. PICK y : y = Call(op, c, r, a, s) OBVIOUS
<1>3. y = [op |-> op, ctx |-> c, ref |-> r, arg |-> a, request |-> e, stage |-> s,
           ok |-> f, out |-> n, alive |-> l]
  BY <1>1, <1>2 DEF Call
<1>4. k = [op |-> op, ctx |-> c, ref |-> r, arg |-> a, request |-> q, stage |-> s, ok |-> f, out |-> n, alive |-> l]
  <2>1. k = [y EXCEPT !.request = q] BY <1>2
  <2> QED BY <1>3, <2>1
<1>5. /\ k.op = op /\ k.ctx = c /\ k.ref = r /\ k.arg = a /\ k.stage = s
      /\ k.ok = f /\ k.out = n /\ k.alive = l
  BY <1>4, SMT
<1>6. k = [op |-> k.op, ctx |-> k.ctx, ref |-> k.ref, arg |-> k.arg, request |-> k.request,
           stage |-> k.stage, ok |-> k.ok, out |-> k.out, alive |-> k.alive]
  BY <1>4
<1> QED BY <1>1, <1>5, <1>6 DEF NewCall, CallRecord

LEMMA WithResult ==
  ASSUME NEW y, CallRecord(y), NEW g \in BOOLEAN
  PROVE  LET k == [y EXCEPT !.ok = g] IN
         /\ k.op = y.op /\ k.ctx = y.ctx /\ k.ref = y.ref /\ k.arg = y.arg /\ k.alive = y.alive
         /\ k.stage = y.stage /\ k.out = y.out /\ CallRecord(k)
<1> DEFINE k == [y EXCEPT !.ok = g]
<1>1. y.out \in Ref \cup {NoRef} /\ y.alive \in BOOLEAN /\ y.stage \in CallStage BY DEF CallRecord
<1>2. k = CallAt(y, y.stage, g, y.out, y.alive) BY CallUpdates
<1> HIDE DEF k
<1>3. /\ k.op = y.op /\ k.ctx = y.ctx /\ k.ref = y.ref /\ k.arg = y.arg /\ k.alive = y.alive
      /\ k.stage = y.stage /\ k.out = y.out /\ CallRecord(k)
  BY <1>1, <1>2, Restaged, SMT
<1> QED BY <1>3 DEF k

LEMMA DoneCall ==
  ASSUME NEW op \in CallOp, NEW c \in Context, NEW r \in Ref \cup {NoRef}, NEW a,
         NEW s \in CallStage, NEW g \in BOOLEAN
  PROVE  NewCall([Call(op, c, r, a, s) EXCEPT !.ok = g], op, c, r, a, s)
<1>1. PICK y : y = Call(op, c, r, a, s) OBVIOUS
<1>2. NewCall(y, op, c, r, a, s) BY <1>1, PlainCall
<1>3. CallRecord(y) BY <1>2 DEF NewCall
<1>4. PICK k : k = [y EXCEPT !.ok = g] OBVIOUS
<1>5. /\ k.op = y.op /\ k.ctx = y.ctx /\ k.ref = y.ref /\ k.arg = y.arg /\ k.alive = y.alive
      /\ k.stage = y.stage /\ k.out = y.out /\ CallRecord(k)
  BY <1>3, <1>4, WithResult
<1>6. NewCall(k, op, c, r, a, s) BY <1>2, <1>5 DEF NewCall
<1> QED BY <1>1, <1>4, <1>6

\* A thread that was free calls a context that is open.
LEMMA NewCallKeeps ==
  ASSUME KmInv, NEW w \in Worker, NEW c \in Context, obj[c] = "open", NEW k, CallRecord(k),
         call' = [call EXCEPT ![w] = k], k.op \in Makers \cup {"export"}, k.ctx = c,
         k.stage \in {"run", "reply"}, k.out = NoRef, UNCHANGED <<guard, obj>>,
         RegistryInv', Effect(w), job'[w].pc # "attach", job'[w].out = NoRef,
         k.stage = "run" => job'[w].ctx = c
  PROVE  KmInv'
<1>1. CallOK(k, job'[w]) BY DEF CallOK, Makers
<1>2. \A r \in Ref : ~Result(k, job'[w], r) BY ConstantsOK DEF Result
<1>3. k.op # "open" /\ k.op # "close" BY DEF Makers
<1> QED BY <1>1, <1>2, <1>3, EffectKeeps

\* Generated and imported keys.
LEMMA RegisterOutputKeeps ==
  ASSUME KmInv, NEW w \in Worker, NEW c \in Context, Calls(w, c), NEW op \in {"generate", "import"},
         NEW hs, NEW asked, NEW pub, RegisterOutput(w, c, hs, asked, pub, Call(op, c, NoRef, NoKeyAsked, "run"))
  PROVE  KmInv'
<1>1. At(w, "idle") /\ obj[c] = "open" /\ RegistryInv /\ Nodes BY DEF Calls, Ready, KmInv
<1>2. UNCHANGED <<guard, obj>> BY DEF RegisterOutput, DaemonUnchanged
<1>3. PICK s \in {"run", "reply"} :
        /\ call' = [call EXCEPT ![w] = [Call(op, c, NoRef, NoKeyAsked, "run") EXCEPT !.stage = s]]
        /\ RegisterEphemeralKey(w, c) \/ (UNCHANGED vars /\ s = "reply")
  BY DEF RegisterOutput, Refused
<1>4. /\ RegistryInv' /\ Effect(w) /\ job'[w].pc # "attach" /\ job'[w].out = NoRef
      /\ s = "run" => job'[w].ctx = c
  BY <1>1, <1>3, StartEffect, IdleEffect
<1>5. PICK k : k = [Call(op, c, NoRef, NoKeyAsked, "run") EXCEPT !.stage = s] OBVIOUS
<1>6. op \in CallOp /\ s \in CallStage /\ NoRef \in Ref \cup {NoRef}
  BY DEF CallOp, Makers, CallStage
<1>7. NewCall(k, op, c, NoRef, NoKeyAsked, s) BY <1>5, <1>6, StagedCall
<1>8. call' = [call EXCEPT ![w] = k] /\ k.op \in Makers \cup {"export"}
  BY <1>3, <1>5, <1>7 DEF Makers, NewCall
<1> QED BY <1>1, <1>2, <1>4, <1>7, <1>8, NewCallKeeps DEF NewCall

\* Loaded keys.
LEMMA KeyLoadKeeps ==
  ASSUME KmInv, Served, NEW w \in Worker, NEW c \in Context, KeyLoad(w, c)
  PROVE  KmInv'
<1>1. At(w, "idle") /\ obj[c] = "open" /\ RegistryInv /\ Nodes BY DEF KeyLoad, Calls, Ready, KmInv
<1>2. UNCHANGED <<guard, obj>> BY DEF KeyLoad, DaemonUnchanged
<1>3. PICK s, k :
        /\ s \in {"run", "reply"} /\ call' = [call EXCEPT ![w] = k]
        /\ \/ k = Call("load", c, NoRef, NoKeyAsked, s)
           \/ k = [Call("load", c, NoRef, NoKeyAsked, "reply") EXCEPT !.stage = s]
        /\ (\E a \in Slot : LoadOrShare(w, c, a)) \/ (UNCHANGED vars /\ s = "reply")
  <2>1. \A id : ResolveKeySlot(c, id) \subseteq Slots
    BY DEF ResolveKeySlot, ResolveAppResource, ResolveSlot, Slots
  <2>2. ASSUME NEW a \in Slots, c \in contexts, HasSlotHandler(ctx[c].provider)
        PROVE  <<ctx[c].provider, a.name>> \in Slot
    BY <2>2 DEF Served
  <2> QED BY <2>1, <2>2 DEF KeyLoad, Refused
<1>4. /\ RegistryInv' /\ Effect(w) /\ job'[w].pc # "attach" /\ job'[w].out = NoRef
      /\ s = "run" => job'[w].ctx = c
  BY <1>1, <1>3, StartEffect, IdleEffect
<1>5. "load" \in CallOp /\ s \in CallStage /\ NoRef \in Ref \cup {NoRef}
  BY <1>3 DEF CallOp, Makers, CallStage
<1>6. NewCall(k, "load", c, NoRef, NoKeyAsked, s)
  BY <1>3, <1>5, PlainCall, StagedCall
<1>7. k.op \in Makers \cup {"export"} BY <1>6 DEF Makers, NewCall
<1> QED BY <1>1, <1>2, <1>3, <1>4, <1>6, <1>7, NewCallKeeps DEF NewCall

\* Operations on a key.
LEMMA KeyOperationKeeps ==
  ASSUME KmInv, NEW w \in Worker, NEW c \in Context, NEW r \in Ref,
         NEW op \in {"export", "encapsulate", "decapsulate"}, NEW format, KeyOperation(w, c, r, op, format)
  PROVE  KmInv'
<1>1. At(w, "idle") /\ obj[c] = "open" /\ RegistryInv /\ Nodes BY DEF KeyOperation, Calls, Ready, KmInv
<1>2. UNCHANGED <<guard, obj>> BY DEF KeyOperation, DaemonUnchanged
<1>3. PICK s, k, q :
        /\ s \in {"run", "reply"} /\ call' = [call EXCEPT ![w] = k]
        /\ \/ k = [Call(op, c, r, NoKeyAsked, s) EXCEPT !.request = q]
           \/ k = [Call(op, c, r, NoKeyAsked, "reply") EXCEPT !.stage = s]
        /\ AcquireKeyForOperation(w, c, r) \/ (UNCHANGED vars /\ s = "reply")
  BY DEF KeyOperation, Refused
<1>4. /\ RegistryInv' /\ Effect(w) /\ job'[w].pc # "attach" /\ job'[w].out = NoRef
      /\ s = "run" => job'[w].ctx = c
  BY <1>1, <1>3, StartEffect, IdleEffect
<1>5. op \in CallOp /\ s \in CallStage /\ r \in Ref \cup {NoRef}
  BY <1>3 DEF CallOp, Makers, CallStage
<1>6. NewCall(k, op, c, r, NoKeyAsked, s)
  BY <1>3, <1>5, RequestCall, StagedCall
<1>7. k.op \in Makers \cup {"export"} BY <1>6 DEF Makers, NewCall
<1> QED BY <1>1, <1>2, <1>3, <1>4, <1>6, <1>7, NewCallKeeps DEF NewCall

============================================================================
