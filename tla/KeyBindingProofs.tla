-------------------------- MODULE KeyBindingProofs -------------------------
(***************************************************************************)
(* A theorem about the keys of the daemon's clients, for any configuration,*)
(* any number of threads, contexts and keys, and any number of lost        *)
(* replies: the keys below a context are of its provider.                  *)
(***************************************************************************)
EXTENDS KeyManagementProofs

USE ZenonT(30)

\* What the OpenSSL factory imports is a key of OpenSSL.
LEMMA ImportedByOpenSsl ==
  ASSUME NEW req, NEW h \in OpenSslImportKey(req)
  PROVE  h.provider = "openssl"
<1>1. \A alg, perms, asym : MakeHandle(alg, perms, asym).provider = "openssl" BY SMT DEF MakeHandle, Handle
<1>3. ASSUME NEW k PROVE CreateImportedAsymmetricKey(req, k).provider = "openssl"
  <2>1. PICK perms : perms = (IF k.half = "private" THEN req.perms ELSE {}) OBVIOUS
  <2>2. PICK x : x = MakeHandle(req.alg, perms, TRUE) OBVIOUS
  <2>3. x = [provider |-> "openssl", alg |-> x.alg, perms |-> x.perms, pub |-> x.pub, asym |-> x.asym, kind |-> x.kind]
    BY <2>2, SMT DEF MakeHandle, Handle
  <2>4. CreateImportedAsymmetricKey(req, k) = [x EXCEPT !.kind = k.half, !.pub = Set(req.perms)]
    BY <2>1, <2>2 DEF CreateImportedAsymmetricKey
  <2>5. PICK u : u = Set(req.perms) OBVIOUS
  <2>6. \A y : [x EXCEPT !.kind = y, !.pub = u].provider = "openssl" BY <2>3, SMT
  <2> QED BY <2>4, <2>5, <2>6
<1>4. \A k \in ImportRawEcPublicKey(req) : k.provider = "openssl"
  <2> SUFFICES ASSUME NEW k \in ImportRawEcPublicKey(req) PROVE k.provider = "openssl" OBVIOUS
  <2>1. PICK x : k = [MakeHandle(req.alg, {}, TRUE) EXCEPT !.kind = x.half, !.pub = Set(req.perms)]
    BY DEF ImportRawEcPublicKey
  <2>2. PICK z : z = MakeHandle(req.alg, {}, TRUE) OBVIOUS
  <2>3. z = [provider |-> "openssl", alg |-> z.alg, perms |-> z.perms, pub |-> z.pub, asym |-> z.asym, kind |-> z.kind]
    BY <2>2, SMT DEF MakeHandle, Handle
  <2>4. PICK u : u = Set(req.perms) OBVIOUS
  <2>5. \A y : [z EXCEPT !.kind = y, !.pub = u].provider = "openssl" BY <2>3, SMT
  <2> QED BY <2>1, <2>2, <2>4, <2>5
<1>5. \A k \in ImportEcKey(req) \cup ImportRsaKey(req) \cup ImportEd25519Key(req) : k.provider = "openssl"
  BY <1>3, <1>4 DEF ImportEcKey, ImportRsaKey, ImportEd25519Key
<1>6. h \in ImportEcKey(req) \cup ImportRsaKey(req) \cup ImportEd25519Key(req) \cup {MakeHandle(req.alg, req.perms, FALSE)}
  <2>1. PICK n : n = ShapeOf(req.alg) OBVIOUS
  <2>2. PICK m : m = MakeHandle(req.alg, req.perms, FALSE) OBVIOUS
  <2>3. OpenSslImportKey(req) = CASE n = "ec" -> ImportEcKey(req)
                                  [] n = "rsa" -> ImportRsaKey(req)
                                  [] n = "ed25519" -> ImportEd25519Key(req)
                                  [] n = "unsupported" -> {}
                                  [] OTHER -> {m}
    BY <2>1, <2>2 DEF OpenSslImportKey
  <2>4. h \in ImportEcKey(req) \cup ImportRsaKey(req) \cup ImportEd25519Key(req) \cup {m} BY <2>3, SMT
  <2> QED BY <2>2, <2>4
<1> QED BY <1>1, <1>5, <1>6

\* What LoadKey gives is of the provider it is asked of.
LEMMA LoadedOfProvider ==
  ASSUME NEW p \in {"openssl", "pkcs11"}, NEW fs, NEW objects, NEW s, NEW h \in LoadSlotKey(p, fs, objects, s)
  PROVE  h.provider = p
<1>1. CASE p = "openssl"
  <2>1. h \in FileBackedLoadKey(fs, s) BY <1>1, SMT DEF LoadSlotKey
  <2>2. \E alg \in GetAlgorithmDescriptor(s.alg), path \in KeyFile(fs, s) :
           h \in OpenSslImportKey([alg |-> alg, perms |-> s.ops, format |-> "der", data |-> fs[path].data])
    BY <2>1, SMT DEF FileBackedLoadKey
  <2> QED BY <1>1, <2>2, ImportedByOpenSsl
<1>2. CASE p = "pkcs11"
  <2>1. h \in Pkcs11LoadKey(fs, objects, s) BY <1>2, SMT DEF LoadSlotKey
  <2>2. \E alg : h = Register(alg, s.ops) BY <2>1, SMT DEF Pkcs11LoadKey
  <2>3. PICK alg : h = Register(alg, s.ops) BY <2>2
  <2> QED BY <1>2, <2>3, SMT DEF Register, Handle
<1> QED BY <1>1, <1>2

\* The steps of a request that has a slot.
LEMMA LoadingBound ==
  ASSUME RegistryInv, RegistryInv', Bindings, NEW w \in Worker, UNCHANGED <<ctx, call>>, KeepMaterial,
         FindSlotRegistryId(w) \/ Recheck(w) \/ FindWinnerId(w) \/ FindById(w) \/ LoadFails(w)
  PROVE  Bindings'
<1>1. job \in [Worker -> Job] BY DEF RegistryInv, RegistryType
<1>2. Materials' /\ HandlesKept /\ WorkerBound(w) BY MemoryKept DEF Bindings
<1> DEFINE s == job[w].slot
<1>3. UNCHANGED <<keys, slotToId, nextId, node, contexts>>
  BY DEF FindSlotRegistryId, Recheck, FindWinnerId, FindById, LoadFails, LoadKeyFails
<1>4. CASE FindSlotRegistryId(w)
  <2>1. At(w, "found") /\ job' = [job EXCEPT ![w].pc = "create", ![w].rid = slotToId[s]]
    BY <1>4 DEF FindSlotRegistryId
  <2>2. /\ job'[w].pc = "create" /\ job'[w].ctx = job[w].ctx /\ job'[w].slot = s /\ job'[w].using = job[w].using
        /\ job'[w].entry = job[w].entry /\ \A v \in Worker \ {w} : job'[v] = job[v]
    BY <1>1, <2>1, SMT DEF Job
  <2>3. mat[job[w].entry].handle.provider = s[1] BY <1>2, <2>1 DEF WorkerBound, ProviderOf, At
  <2>4. job[w].entry \in Entry BY <2>1 DEF RegistryInv, RegistryType, JobOK, At
  <2>5. mat'[job[w].entry].handle.provider = mat[job[w].entry].handle.provider BY <1>2, <2>2, <2>4, SameKey
  <2>6. mat'[job'[w].entry].handle.provider = s[1] BY <2>2, <2>3, <2>5
  <2> QED BY <1>2, <1>3, <2>1, <2>2, <2>6, AdvanceBound DEF At, Loading
<1>5. CASE Recheck(w)
  <2> DEFINE e == FindBySlot(s)
             p == IF e # NoEntry THEN "found" ELSE "leave"
  <2>1. At(w, "recheck") /\ job' = [job EXCEPT ![w].pc = p, ![w].entry = e] BY <1>5 DEF Recheck
  <2>2. /\ job'[w].pc = p /\ job'[w].ctx = job[w].ctx /\ job'[w].slot = s /\ job'[w].using = job[w].using
        /\ job'[w].entry = e /\ \A v \in Worker \ {w} : job'[v] = job[v]
    <3> HIDE DEF e, p
    <3> QED BY <1>1, <2>1, SMT DEF Job
  <2>3. s \in Slot BY <2>1 DEF RegistryInv, RegistryType, JobOK, At
  <2>4. ASSUME e # NoEntry PROVE mat'[job'[w].entry].handle.provider = s[1]
    <3>1. mat[e].handle.provider = s[1] BY <2>3, <2>4 DEF Bindings, SlotBound, ProviderOf
    <3>2. slotToId[s] \in 0..MaxRegId /\ slotToId[s] # 0 BY <2>3, <2>4 DEF RegistryInv, RegistryType, FindBySlot
    <3>3. slotToId[s] \in RegId BY <3>2, ConstantsOK, SMT DEF RegId
    <3>4. e = keys[slotToId[s]] BY <2>4 DEF FindBySlot
    <3>5. PICK k \in Entry : k = e BY <2>4, <3>3, <3>4 DEF RegistryInv, RegistryType
    <3>6. k = job'[w].entry /\ \E i \in RegId : keys[i] = k BY <2>2, <3>3, <3>4, <3>5
    <3>7. mat'[k].handle.provider = mat[k].handle.provider BY <1>2, <3>6, SameKey
    <3> QED BY <2>2, <3>1, <3>5, <3>7
  <2>5. job'[w].pc \in {"found", "leave"} /\ (job'[w].pc = "found" => e # NoEntry) BY <2>2
  <2>6. job'[w].pc \in Loading \cup {"create", "leave"} /\ job[w].pc \in Loading /\ job'[w].pc # "winner"
    BY <2>1, <2>5 DEF Loading, At
  <2>7. job'[w].pc \in {"found", "register", "create"} => mat'[job'[w].entry].handle.provider = job[w].slot[1]
    BY <2>4, <2>5
  <2> QED BY <1>2, <1>3, <2>2, <2>6, <2>7, AdvanceBound
<1>6. CASE FindWinnerId(w)
  <2> DEFINE i == slotToId[s]
             p == IF i # 0 THEN "winner" ELSE "leave"
             e == IF i # 0 THEN job[w].entry ELSE NoEntry
  <2>1. At(w, "lost") /\ job' = [job EXCEPT ![w].pc = p, ![w].rid = i, ![w].entry = e] BY <1>1, <1>6 DEF FindWinnerId
  <2>2. /\ job'[w].pc = p /\ job'[w].ctx = job[w].ctx /\ job'[w].slot = s /\ job'[w].using = job[w].using
        /\ job'[w].rid = i /\ \A v \in Worker \ {w} : job'[v] = job[v]
    <3> HIDE DEF i, p, e
    <3> QED BY <1>1, <2>1, SMT DEF Job
  <2>3. s \in Slot BY <2>1 DEF RegistryInv, RegistryType, JobOK, At
  <2>4. i < nextId /\ (i # 0 /\ keys[i] # NoEntry => mat[keys[i]].handle.provider = s[1])
    BY <2>3 DEF Bindings, SlotBound, ProviderOf, FindBySlot
  <2>5. job'[w].pc \in {"winner", "leave"} /\ (job'[w].pc = "winner" => i # 0) BY <2>2
  <2>6. job'[w].pc \in Loading \cup {"create", "leave"} /\ job[w].pc \in Loading
        /\ job'[w].pc \notin {"found", "register", "create"}
    BY <2>1, <2>5 DEF Loading, At
  <2>7. job'[w].pc = "winner" => /\ job'[w].rid < nextId
                                 /\ keys[job'[w].rid] # NoEntry => mat[keys[job'[w].rid]].handle.provider = job[w].slot[1]
    BY <2>2, <2>4, <2>5
  <2> QED BY <1>2, <1>3, <2>2, <2>6, <2>7, AdvanceBound
<1>7. CASE FindById(w)
  <2> DEFINE e == keys[job[w].rid]
             p == IF e # NoEntry THEN "create" ELSE "leave"
  <2>1. At(w, "winner") /\ job' = [job EXCEPT ![w].pc = p, ![w].entry = e] BY <1>7 DEF FindById
  <2>2. /\ job'[w].pc = p /\ job'[w].ctx = job[w].ctx /\ job'[w].slot = s /\ job'[w].using = job[w].using
        /\ job'[w].entry = e /\ \A v \in Worker \ {w} : job'[v] = job[v]
    <3> HIDE DEF e, p
    <3> QED BY <1>1, <2>1, SMT DEF Job
  <2>3. job[w].rid \in RegId BY <2>1 DEF RegistryInv, RegistryType, JobOK, At
  <2>4. ASSUME e # NoEntry PROVE mat'[job'[w].entry].handle.provider = s[1]
    <3>1. mat[e].handle.provider = s[1] BY <1>2, <2>1, <2>4 DEF WorkerBound, ProviderOf, At
    <3>5. PICK k \in Entry : k = e BY <2>3, <2>4 DEF RegistryInv, RegistryType
    <3>6. k = job'[w].entry /\ \E i \in RegId : keys[i] = k BY <2>2, <2>3, <3>5
    <3>7. mat'[k].handle.provider = mat[k].handle.provider BY <1>2, <3>6, SameKey
    <3> QED BY <2>2, <3>1, <3>5, <3>7
  <2>5. job'[w].pc \in {"create", "leave"} /\ (job'[w].pc = "create" => e # NoEntry) BY <2>2
  <2>6. job'[w].pc \in Loading \cup {"create", "leave"} /\ job[w].pc \in Loading /\ job'[w].pc # "winner"
    BY <2>1, <2>5 DEF Loading, At
  <2>7. job'[w].pc \in {"found", "register", "create"} => mat'[job'[w].entry].handle.provider = job[w].slot[1]
    BY <2>4, <2>5
  <2> QED BY <1>2, <1>3, <2>2, <2>6, <2>7, AdvanceBound
<1>8. CASE LoadFails(w)
  <2>1. At(w, "load") /\ job' = [job EXCEPT ![w].pc = "recheck"] BY <1>8 DEF LoadFails, LoadKeyFails, Goto
  <2>2. /\ job'[w].pc = "recheck" /\ job'[w].ctx = job[w].ctx /\ job'[w].slot = s /\ job'[w].using = job[w].using
        /\ \A v \in Worker \ {w} : job'[v] = job[v]
    BY <1>1, <2>1, SMT DEF Job
  <2>3. job'[w].pc \in Loading \cup {"create", "leave"} /\ job[w].pc \in Loading
        /\ job'[w].pc \notin {"found", "register", "create", "winner"}
    BY <2>1, <2>2, SMT DEF Loading, At
  <2> QED BY <1>2, <1>3, <2>2, <2>3, AdvanceBound
<1> QED BY <1>4, <1>5, <1>6, <1>7, <1>8

\* LoadKey of the slot handler: a new key.
LEMMA LoadedBound ==
  ASSUME RegistryInv, RegistryInv', Bindings, NEW w \in Worker, UNCHANGED <<ctx, call>>, LoadSucceeds(w)
  PROVE  Bindings'
<1>1. job \in [Worker -> Job] /\ WorkerBound(w) BY DEF RegistryInv, RegistryType, Bindings
<1>2. PICK s, h : /\ h \in LoadSlotKey(job[w].slot[1], World.fs, World.objects, s)
                  /\ MakeMaterial(w, Material(h, {}, Unset, s.name))
  BY DEF LoadSucceeds
<1>3. At(w, "load") /\ LoadKey(w) BY DEF LoadSucceeds
<1>4. PICK e \in Entry : FreshEntry(e) /\ job' = [job EXCEPT ![w].pc = "register", ![w].entry = e]
  BY <1>3 DEF LoadKey
<1>5. /\ job'[w].pc = "register" /\ job'[w].entry = e /\ job'[w].ctx = job[w].ctx /\ job'[w].slot = job[w].slot
      /\ job'[w].using = job[w].using /\ \A v \in Worker \ {w} : job'[v] = job[v]
  BY <1>1, <1>4, SMT DEF Job
<1>6. UNCHANGED <<keys, slotToId, nextId, node, contexts>> BY <1>3 DEF LoadKey
<1>7. Materials' /\ HandlesKept /\ mat'[job'[w].entry].handle = h BY <1>2, <1>4, <1>5, MemoryMade
<1>8. job[w].slot[1] \in {"openssl", "pkcs11"} BY <1>1, <1>3 DEF WorkerBound, Loading, At
<1>9. h.provider = job[w].slot[1] BY <1>2, <1>8, LoadedOfProvider
<1>10. job[w].pc \in Loading /\ job'[w].pc \in Loading \cup {"create", "leave"} /\ job'[w].pc # "winner"
  BY <1>3, <1>5, SMT DEF Loading, At
<1> QED BY <1>5, <1>6, <1>7, <1>9, <1>10, AdvanceBound

\* RegisterSlotKey, refused or not.
LEMMA RegisterBound ==
  ASSUME RegistryInv, RegistryInv', Bindings, NEW w \in Worker, UNCHANGED <<ctx, call>>, KeepMaterial,
         RegisterSlotKey(w)
  PROVE  Bindings'
<1> DEFINE s == job[w].slot
<1>1. job \in [Worker -> Job] /\ WorkerBound(w) /\ At(w, "register")
  BY DEF RegistryInv, RegistryType, Bindings, RegisterSlotKey
<1>2. Materials' /\ HandlesKept BY MemoryKept
<1>3. UNCHANGED <<node, contexts>> BY DEF RegisterSlotKey
<1>4. s \in Slot /\ job[w].entry \in Entry BY <1>1 DEF RegistryInv, RegistryType, JobOK, At
<1>5. mat[job[w].entry].handle.provider = s[1] BY <1>1 DEF WorkerBound, ProviderOf, At
<1>6. CASE Goto(w, "lost") /\ UNCHANGED <<keys, slotToId, nextId>>
  <2>1. /\ job'[w].pc = "lost" /\ job'[w].ctx = job[w].ctx /\ job'[w].slot = s /\ job'[w].using = job[w].using
        /\ \A v \in Worker \ {w} : job'[v] = job[v]
    BY <1>1, <1>6, SMT DEF Job, Goto
  <2>2. job'[w].pc \in Loading \cup {"create", "leave"} /\ job[w].pc \in Loading
        /\ job'[w].pc \notin {"found", "register", "create", "winner"}
    BY <1>1, <2>1, SMT DEF Loading, At
  <2> QED BY <1>2, <1>3, <1>6, <2>1, <2>2, AdvanceBound
<1>7. CASE /\ nextId <= MaxRegId /\ keys' = [keys EXCEPT ![nextId] = job[w].entry]
           /\ slotToId' = [slotToId EXCEPT ![s] = nextId] /\ nextId' = nextId + 1
           /\ job' = [job EXCEPT ![w].pc = "create", ![w].rid = nextId]
  <2>1. /\ job'[w].pc = "create" /\ job'[w].ctx = job[w].ctx /\ job'[w].entry = job[w].entry
        /\ job'[w].using = job[w].using /\ \A v \in Worker \ {w} : job'[v] = job[v]
    BY <1>1, <1>7, SMT DEF Job
  <2>2. nextId \in RegId /\ nextId <= nextId' /\ nextId < nextId' /\ nextId # 0 BY <1>7, SMT DEF RegistryInv, RegistryType, RegId
  <2>3. keys'[nextId] = job[w].entry /\ \A i \in RegId : i # nextId => keys'[i] = keys[i]
    BY <1>7, <2>2 DEF RegistryInv, RegistryType
  <2>4. KeysKept
    <3>1. \A i \in RegId : i < nextId => i # nextId BY SMT DEF RegistryInv, RegistryType, RegId
    <3> QED BY <2>2, <2>3, <3>1 DEF KeysKept
  <2>5. Kept BY <1>2, <1>3, <2>4 DEF Kept, ContextsKept, NodesKept
  <2>6. mat'[job[w].entry].handle.provider = s[1]
    <3>1. mat'[job[w].entry].handle.provider = mat[job[w].entry].handle.provider BY <1>2, <1>4, <2>1, SameKey
    <3> QED BY <1>5, <3>1
  <2>7. SlotBound'
    <3> SUFFICES ASSUME NEW t \in Slot
                 PROVE  /\ slotToId'[t] < nextId'
                        /\ FindBySlot(t)' # NoEntry => mat'[FindBySlot(t)'].handle.provider = t[1]
      BY DEF SlotBound, ProviderOf
    <3>1. slotToId \in [Slot -> 0..MaxRegId] BY DEF RegistryInv, RegistryType
    <3>2. CASE t = s
      <4>1. slotToId'[t] = nextId BY <1>4, <1>7, <3>1, <3>2
      <4>2. FindBySlot(t)' # NoEntry => FindBySlot(t)' = job[w].entry BY <2>3, <4>1 DEF FindBySlot
      <4> QED BY <2>2, <2>6, <3>2, <4>1, <4>2
    <3>3. CASE t # s
      <4>1. slotToId'[t] = slotToId[t] BY <1>7, <3>1, <3>3
      <4> QED BY <1>2, <2>4, <4>1, SlotStep
    <3> QED BY <3>2, <3>3
  <2>8. NodeBound'
    <3>1. \A r \in Ref : Attached(r)' => Attached(r) /\ node'[r].ctx = node[r].ctx /\ node[r].ctx \in contexts'
      BY <1>3 DEF Attached, Bindings, NodeBound
    <3> QED BY <2>5, <3>1, NodesBound
  <2>9. WorkerBound(w)'
    <3>1. job[w].using = NoEntry BY <1>1, SMT DEF WorkerBound, At
    <3>2. job[w].ctx \in contexts => s[1] = ctx[job[w].ctx].provider BY <1>1 DEF WorkerBound, At, Loading
    <3>3. call'[w].stage \in {"run", "bound"} /\ job'[w].ctx = call'[w].ctx
      BY <1>1, <2>1 DEF WorkerBound, Working, Loading, At
    <3>4. job'[w].ctx \in contexts' => mat'[job'[w].entry].handle.provider = ctx'[job'[w].ctx].provider
      BY <1>3, <2>1, <2>6, <3>2
    <3> QED BY <2>1, <3>1, <3>3, <3>4, SMT DEF WorkerBound, Loading, ProviderOf
  <2> QED BY <1>2, <2>1, <2>5, <2>7, <2>8, <2>9, Rebound
<1> QED BY <1>6, <1>7 DEF RegisterSlotKey

\* CreateKeyDataNode: the node has the key and the context of its request.
LEMMA ConstructBound ==
  ASSUME RegistryInv, RegistryInv', Bindings, NEW w \in Worker, UNCHANGED <<ctx, call>>, ConstructNode(w)
  PROVE  Bindings'
<1>1. job \in [Worker -> Job] /\ WorkerBound(w) BY DEF RegistryInv, RegistryType, Bindings
<1>2. ConstructKeyDataNode(w) /\ KeepMaterial BY DEF ConstructNode
<1>3. Materials' /\ HandlesKept BY <1>2, MemoryKept
<1>4. At(w, "create") /\ UNCHANGED <<keys, slotToId, nextId, contexts>> BY <1>2 DEF ConstructKeyDataNode
<1>5. PICK r \in Ref : /\ FreshRef(r)
                       /\ node' = [node EXCEPT ![r] = [entry |-> job[w].entry, rid |-> job[w].rid,
                                                       ctx |-> job[w].ctx, attached |-> FALSE]]
                       /\ job' = [job EXCEPT ![w].pc = "attach", ![w].ref = r]
  BY <1>2 DEF ConstructKeyDataNode
<1>6. /\ job'[w].pc = "attach" /\ job'[w].ref = r /\ job'[w].ctx = job[w].ctx /\ job'[w].using = job[w].using
      /\ job'[w].entry = job[w].entry /\ \A v \in Worker \ {w} : job'[v] = job[v]
  BY <1>1, <1>5, SMT DEF Job
<1>7. /\ node[r] = NoRef /\ \A q \in Ref \ {r} : node'[q] = node[q]
      /\ node'[r].entry = job[w].entry /\ ~node'[r].attached
  <2>1. node \in [Ref -> NodeRecord \cup {NoRef}] BY DEF RegistryInv, RegistryType
  <2>2. PICK n : n = [entry |-> job[w].entry, rid |-> job[w].rid, ctx |-> job[w].ctx, attached |-> FALSE] OBVIOUS
  <2>3. n.entry = job[w].entry /\ ~n.attached BY <2>2, SMT
  <2>4. node' = [node EXCEPT ![r] = n] BY <1>5, <2>2
  <2> QED BY <1>5, <2>1, <2>3, <2>4 DEF FreshRef
<1>8. Kept
  <2>1. nextId <= nextId' BY <1>4, SMT DEF RegistryInv, RegistryType
  <2>2. NodesKept BY <1>7 DEF NodesKept
  <2> QED BY <1>3, <1>4, <2>1, <2>2 DEF Kept, ContextsKept, KeysKept
<1>9. SlotBound' BY <1>4, <1>8, SlotsBound DEF Kept
<1>10. NodeBound'
  <2>1. \A q \in Ref : Attached(q)' => Attached(q) /\ node'[q].ctx = node[q].ctx /\ node[q].ctx \in contexts'
    BY <1>4, <1>7 DEF Attached, Bindings, NodeBound
  <2> QED BY <1>8, <2>1, NodesBound
<1>11. WorkerBound(w)'
  <2>1. job[w].using = NoEntry BY <1>1, <1>4, SMT DEF WorkerBound, At
  <2>2. call'[w].stage \in {"run", "bound"} /\ job'[w].ctx = call'[w].ctx
    BY <1>1, <1>4, <1>6 DEF WorkerBound, Working, At
  <2>3. job[w].entry \in Entry BY <1>4 DEF RegistryInv, RegistryType, JobOK, At
  <2>4. mat'[job[w].entry].handle.provider = mat[job[w].entry].handle.provider BY <1>3, <1>6, <2>3, SameKey
  <2>5. job[w].ctx \in contexts => mat[job[w].entry].handle.provider = ctx[job[w].ctx].provider
    BY <1>1, <1>4 DEF WorkerBound, ProviderOf, At
  <2>6. job'[w].ctx \in contexts' => mat'[node'[job'[w].ref].entry].handle.provider = ctx'[job'[w].ctx].provider
    BY <1>4, <1>6, <1>7, <2>4, <2>5
  <2> QED BY <1>6, <2>1, <2>2, <2>6, SMT DEF WorkerBound, Loading, ProviderOf
<1> QED BY <1>3, <1>6, <1>8, <1>9, <1>10, <1>11, Rebound

\* addChildNode: the node's key is one of the context's provider.
LEMMA AttachBound ==
  ASSUME RegistryInv, RegistryInv', Bindings, Nodes, NEW w \in Worker, UNCHANGED <<ctx, call>>, KeepMaterial,
         AttachKeyDataNode(w)
  PROVE  Bindings'
<1>1. job \in [Worker -> Job] /\ WorkerBound(w) BY DEF RegistryInv, RegistryType, Bindings
<1>2. Materials' /\ HandlesKept BY MemoryKept
<1>3. At(w, "attach") /\ job[w].ctx \in contexts /\ UNCHANGED <<keys, slotToId, nextId, contexts>>
  BY DEF AttachKeyDataNode
<1>4. PICK r \in Ref : r = job[w].ref /\ r \in Mine(job[w])
  BY <1>3, ConstantsOK DEF RegistryInv, RegistryType, JobOK, Job, At, Mine
<1>5. /\ node' = [node EXCEPT ![r].attached = TRUE]
      /\ job' = [job EXCEPT ![w].pc = "leave", ![w].entry = NoEntry, ![w].ref = NoRef, ![w].out = r]
  BY <1>4 DEF AttachKeyDataNode
<1>6. /\ job'[w].pc = "leave" /\ job'[w].using = job[w].using /\ \A v \in Worker \ {w} : job'[v] = job[v]
  BY <1>1, <1>5, SMT DEF Job
<1>7. job[w].using = NoEntry BY <1>1, <1>3, SMT DEF WorkerBound, At
<1>8. node[r] \in NodeRecord /\ node[r] # NoRef BY <1>4 DEF RegistryInv, RegistryType, Owners
<1>9. /\ node'[r].entry = node[r].entry /\ node'[r].ctx = node[r].ctx /\ \A q \in Ref \ {r} : node'[q] = node[q]
  <2>1. node \in [Ref -> NodeRecord \cup {NoRef}] BY DEF RegistryInv, RegistryType
  <2>2. node'[r] = [node[r] EXCEPT !.attached = TRUE] /\ \A q \in Ref \ {r} : node'[q] = node[q] BY <1>5, <2>1
  <2>3. [node[r] EXCEPT !.attached = TRUE].entry = node[r].entry /\ [node[r] EXCEPT !.attached = TRUE].ctx = node[r].ctx
    BY <1>8, SMT DEF NodeRecord
  <2> QED BY <2>2, <2>3
<1>10. Kept
  <2>1. nextId <= nextId' BY <1>3, SMT DEF RegistryInv, RegistryType
  <2>2. NodesKept BY <1>9 DEF NodesKept
  <2> QED BY <1>2, <1>3, <2>1, <2>2 DEF Kept, ContextsKept, KeysKept
<1>11. SlotBound' BY <1>3, <1>10, SlotsBound DEF Kept
<1>12. NodeBound'
  <2> SUFFICES ASSUME NEW q \in Ref, Attached(q)'
               PROVE  /\ node'[q].ctx \in contexts'
                      /\ mat'[node'[q].entry].handle.provider = ctx'[node'[q].ctx].provider
    BY DEF NodeBound, ProviderOf
  <2>1. CASE q # r
    <3>1. Attached(q) /\ node'[q] = node[q] BY <1>9, <2>1 DEF Attached
    <3>2. node[q].ctx \in contexts' BY <1>3, <3>1 DEF Bindings, NodeBound
    <3> QED BY <1>10, <3>1, <3>2, NodeStep
  <2>2. CASE q = r
    <3>1. node[r].ctx = job[w].ctx BY <1>3, <1>4 DEF Nodes
    <3>2. mat[node[r].entry].handle.provider = ctx[job[w].ctx].provider
      BY <1>1, <1>3, <1>4 DEF WorkerBound, ProviderOf, At
    <3>3. PICK e \in Entry : e = node[r].entry BY <1>8 DEF NodeRecord
    <3>4. node'[r] # NoRef BY <2>2 DEF Attached
    <3>5. mat'[e].handle.provider = mat[e].handle.provider BY <1>2, <1>8, <1>9, <3>3, <3>4, SameKey
    <3> QED BY <1>3, <1>9, <2>2, <3>1, <3>2, <3>3, <3>5
  <2> QED BY <2>1, <2>2
<1>13. WorkerBound(w)' BY <1>6, <1>7, EmptyHanded
<1> QED BY <1>2, <1>6, <1>10, <1>11, <1>12, <1>13, Rebound

\* A request goes on with the key it uses, or without one.
LEMMA UserBound ==
  ASSUME NEW w \in Worker, WorkerBound(w), call' = call, job'[w].using = job[w].using, job'[w].ctx = job[w].ctx,
         job'[w].pc \in {"use", "leave", "destroy", "unregister"},
         job'[w].pc = "use" => Working(job[w]), job'[w].pc = "leave" => job[w].using = NoEntry
  PROVE  WorkerBound(w)'
<1>1. job[w].using # NoEntry => Working(job[w]) BY DEF Working
<1>2. Working(job[w]) => call'[w].stage \in {"run", "bound"} /\ job'[w].ctx = call'[w].ctx BY DEF WorkerBound
<1>3. Working(job[w])' => Working(job[w]) BY <1>1, SMT DEF Working, Loading
<1> QED BY <1>2, <1>3, SMT DEF WorkerBound, Loading

\* The end of an accessor or a node.
LEMMA DestroyBound ==
  ASSUME RegistryInv, RegistryInv', Bindings, NEW w \in Worker, UNCHANGED <<ctx, call>>, KeepMaterial,
         AttachFails(w) \/ AccessorGone(w) \/ ReleaseRef(w) \/ Unregister(w)
  PROVE  Bindings'
<1>1. job \in [Worker -> Job] /\ WorkerBound(w) /\ JobOK(job[w]) BY DEF RegistryInv, RegistryType, Bindings
<1>2. Materials' /\ HandlesKept BY MemoryKept
<1>3. contexts' = contexts /\ nextId' = nextId BY DEF AttachFails, AccessorGone, ReleaseRef, Unregister
<1>4. nextId <= nextId' BY <1>3, SMT DEF RegistryInv, RegistryType
<1>5. CASE AttachFails(w)
  <2>1. At(w, "attach") /\ job' = [job EXCEPT ![w].pc = "destroy", ![w].entry = NoEntry] BY <1>5 DEF AttachFails
  <2>2. job'[w].pc = "destroy" /\ job'[w].using = job[w].using /\ \A v \in Worker \ {w} : job'[v] = job[v]
    BY <1>1, <2>1, SMT DEF Job
  <2>3. job[w].using = NoEntry BY <1>1, <2>1, SMT DEF WorkerBound, At
  <2>4. UNCHANGED <<keys, slotToId, nextId, node, contexts>> BY <1>5 DEF AttachFails
  <2>5. WorkerBound(w)' BY <2>2, <2>3, EmptyHanded
  <2> QED BY <1>2, <2>2, <2>4, <2>5, CalmBound
<1>6. CASE AccessorGone(w)
  <2> DEFINE b == LastOwner(w)
  <2>1. PICK p \in {"destroy", "use"} : p = IF b THEN "destroy" ELSE "use" OBVIOUS
  <2>2. PICK q : q = IF b THEN job[w].src ELSE NoRef OBVIOUS
  <2>3. At(w, "acquired") /\ job' = [job EXCEPT ![w].pc = p, ![w].ref = q, ![w].src = NoRef]
    BY <1>6, <2>1, <2>2 DEF AccessorGone
  <2> HIDE DEF b
  <2>4. /\ job'[w].pc = p /\ job'[w].using = job[w].using /\ job'[w].ctx = job[w].ctx
        /\ \A v \in Worker \ {w} : job'[v] = job[v]
    BY <1>1, <2>3, SMT DEF Job
  <2>5. UNCHANGED <<keys, slotToId, nextId, node, contexts>> BY <1>6 DEF AccessorGone
  <2>6. Working(job[w]) BY <2>3 DEF Working, At
  <2>7. WorkerBound(w)' BY <1>1, <2>1, <2>4, <2>6, UserBound
  <2> QED BY <1>2, <2>4, <2>5, <2>7, CalmBound
<1>7. ASSUME Proceed(w, job[w]) PROVE WorkerBound(w)' /\ \A v \in Worker \ {w} : job'[v] = job[v]
  <2>1. /\ job'[w].pc \in {"use", "leave", "destroy"}
        /\ (job'[w].pc = "use" <=> job'[w].pc # "destroy" /\ job[w].using # NoEntry)
        /\ job'[w].using = job[w].using /\ job'[w].ctx = job[w].ctx /\ \A v \in Worker \ {w} : job'[v] = job[v]
    BY <1>1, <1>7, ProceedsFor
  <2>2. job'[w].pc = "use" => Working(job[w]) BY <2>1 DEF Working
  <2>3. job'[w].pc = "leave" => job[w].using = NoEntry BY <2>1, SMT
  <2> QED BY <1>1, <2>1, <2>2, <2>3, UserBound
<1>8. CASE ReleaseRef(w)
  <2>1. At(w, "destroy") /\ node' = [node EXCEPT ![job[w].ref] = NoRef] /\ UNCHANGED <<keys, slotToId>>
    BY <1>8 DEF ReleaseRef
  <2>2. \A q \in Ref : node'[q] \in {node[q], NoRef} BY <2>1 DEF RegistryInv, RegistryType
  <2>3. Kept
    <3>1. NodesKept BY <2>2 DEF NodesKept
    <3> QED BY <1>2, <1>3, <1>4, <2>1, <3>1 DEF Kept, ContextsKept, KeysKept
  <2>4. SlotBound' BY <2>1, <2>3, SlotsBound DEF Kept
  <2>5. NodeBound'
    <3>1. \A q \in Ref : Attached(q)' => Attached(q) /\ node'[q].ctx = node[q].ctx /\ node[q].ctx \in contexts'
      BY <1>3, <2>2 DEF Attached, Bindings, NodeBound
    <3> QED BY <2>3, <3>1, NodesBound
  <2>6. WorkerBound(w)' /\ \A v \in Worker \ {w} : job'[v] = job[v]
    <3>1. CASE Proceed(w, job[w]) BY <1>7, <3>1
    <3>2. ASSUME NEW e, NEW i, job' = [job EXCEPT ![w].pc = "unregister", ![w].ref = NoRef,
                                                  ![w].entry = e, ![w].rid = i]
          PROVE  WorkerBound(w)' /\ \A v \in Worker \ {w} : job'[v] = job[v]
      <4>1. /\ job'[w].pc = "unregister" /\ job'[w].using = job[w].using /\ job'[w].ctx = job[w].ctx
            /\ \A v \in Worker \ {w} : job'[v] = job[v]
        BY <1>1, <3>2, SMT DEF Job
      <4>2. job'[w].pc \in {"use", "leave", "destroy", "unregister"} /\ job'[w].pc # "use" /\ job'[w].pc # "leave"
        BY <4>1, SMT
      <4> QED BY <1>1, <4>1, <4>2, UserBound
    <3>3. \/ Proceed(w, job[w])
          \/ \E e, i : job' = [job EXCEPT ![w].pc = "unregister", ![w].ref = NoRef, ![w].entry = e, ![w].rid = i]
      BY <1>8 DEF ReleaseRef
    <3> QED BY <3>1, <3>2, <3>3
  <2> QED BY <1>2, <2>3, <2>4, <2>5, <2>6, Rebound
<1>9. CASE Unregister(w)
  <2>1. /\ Proceed(w, job[w]) /\ node' = node /\ \A i \in RegId : keys'[i] \in {keys[i], NoEntry}
        /\ \A s \in Slot : slotToId'[s] \in {slotToId[s], 0}
    BY <1>9 DEF Unregister
  <2>2. Kept BY <1>2, <1>3, <1>4, <2>1 DEF Kept, ContextsKept, KeysKept, NodesKept
  <2>3. SlotBound' BY <2>1, <2>2, SlotsBound DEF Kept
  <2>4. NodeBound'
    <3>1. \A q \in Ref : Attached(q)' => Attached(q) /\ node'[q].ctx = node[q].ctx /\ node[q].ctx \in contexts'
      BY <1>3, <2>1 DEF Attached, Bindings, NodeBound
    <3> QED BY <2>2, <3>1, NodesBound
  <2> QED BY <1>2, <1>7, <2>1, <2>2, <2>3, <2>4, Rebound
<1> QED BY <1>5, <1>6, <1>8, <1>9

LEMMA JobStepBound ==
  ASSUME RegistryInv, RegistryInv', Nodes, Bindings, NEW w \in Worker, JobStep(w)
  PROVE  Bindings'
<1>1. UNCHANGED <<ctx, call>> BY DEF JobStep
<1>2. CASE LoadSucceeds(w) BY <1>1, <1>2, LoadedBound
<1>3. CASE LoadFails(w)
  <2>1. KeepMaterial BY <1>3 DEF LoadFails
  <2> QED BY <1>1, <1>3, <2>1, LoadingBound
<1>4. CASE ConstructNode(w) BY <1>1, <1>4, ConstructBound
<1>5. CASE KeepMaterial /\ (FindSlotRegistryId(w) \/ Recheck(w) \/ FindWinnerId(w) \/ FindById(w))
  BY <1>1, <1>5, LoadingBound
<1>6. CASE KeepMaterial /\ RegisterSlotKey(w) BY <1>1, <1>6, RegisterBound
<1>7. CASE KeepMaterial /\ AttachKeyDataNode(w) BY <1>1, <1>7, AttachBound
<1>8. CASE KeepMaterial /\ (AttachFails(w) \/ AccessorGone(w) \/ ReleaseRef(w) \/ Unregister(w))
  BY <1>1, <1>8, DestroyBound
<1> QED BY <1>2, <1>3, <1>4, <1>5, <1>6, <1>7, <1>8 DEF JobStep

\* What the executor registers is a key of its provider.
LEMMA OutputsOfProvider ==
  ASSUME NEW p
  PROVE  /\ \A hs : \A h \in OutputOf(p, hs) : h.provider = p
         /\ \A request : \A h \in HandleImport(p, request) : h.provider = p
         /\ \A k, request : \A h \in HandleEncapsulateKey(p, k, request) : h.provider = p
         /\ \A k, request : \A h \in HandleDecapsulateKey(p, k, request) : h.provider = p
<1>1. \A hs : \A h \in OutputOf(p, hs) : h.provider = p BY DEF OutputOf
<1>2. \A request : \A h \in HandleImport(p, request) : \E hs : h \in OutputOf(p, hs) BY DEF HandleImport
<1>3. \A k, request : \A h \in HandleEncapsulateKey(p, k, request) : \E hs : h \in OutputOf(p, hs)
  BY DEF HandleEncapsulateKey
<1>4. \A k, request : \A h \in HandleDecapsulateKey(p, k, request) : \E hs : h \in OutputOf(p, hs)
  BY DEF HandleDecapsulateKey
<1> QED BY <1>1, <1>2, <1>3, <1>4

\* KeyUsed: the request has done with its key.
LEMMA UsedBound ==
  ASSUME RegistryInv, RegistryInv', Bindings, Materials', HandlesKept, NEW w \in Worker, KeyUsed(w),
         UNCHANGED <<ctx, call>>
  PROVE  Bindings'
<1>1. job \in [Worker -> Job] BY DEF RegistryInv, RegistryType
<1>2. job' = [job EXCEPT ![w].pc = "leave", ![w].using = NoEntry] /\ UNCHANGED <<keys, slotToId, nextId, node, contexts>>
  BY DEF KeyUsed
<1>3. job'[w].pc = "leave" /\ job'[w].using = NoEntry /\ \A v \in Worker \ {w} : job'[v] = job[v]
  BY <1>1, <1>2, SMT DEF Job
<1>4. WorkerBound(w)' BY <1>3, EmptyHanded
<1> QED BY <1>2, <1>3, <1>4, CalmBound

LEMMA UseKeyBound ==
  ASSUME RegistryInv, RegistryInv', Bindings, NEW w \in Worker, UseKey(w)
  PROVE  Bindings'
<1> DEFINE c == call[w].ctx
           p == ctx[c].provider
           k == mat[job[w].using].handle
           request == call[w].request
<1>1. At(w, "use") /\ UNCHANGED <<ctx, call>> BY DEF UseKey, DaemonUnchanged
<1>2. call'[w].stage \in {"run", "bound"} /\ call'[w].ctx = c
  <2>1. WorkerBound(w) BY DEF Bindings
  <2> QED BY <1>1, <2>1 DEF WorkerBound, Working, At
<1>3. ASSUME NEW x, KeyUsed(w), mat' = [mat EXCEPT ![job[w].using].out = x] PROVE Bindings'
  <2>1. \A e \in Entry : mat'[e].handle = mat[e].handle /\ Made(mat'[e])
    <3> SUFFICES ASSUME NEW e \in Entry PROVE mat'[e].handle = mat[e].handle /\ Made(mat'[e]) OBVIOUS
    <3>1. mat = [f \in Entry |-> mat[f]] /\ Made(mat[e]) BY DEF Bindings, Materials
    <3>2. [mat[e] EXCEPT !.out = x].handle = mat[e].handle /\ Made([mat[e] EXCEPT !.out = x])
      <4>1. PICK m : m = mat[e] OBVIOUS
      <4>2. m = [handle |-> m.handle, asked |-> m.asked, pub |-> m.pub, slot |-> m.slot, out |-> m.out]
        BY <3>1, <4>1 DEF Made
      <4>3. [m EXCEPT !.out = x].handle = m.handle /\ Made([m EXCEPT !.out = x]) BY <4>2, SMT DEF Made
      <4> QED BY <4>1, <4>3
    <3>3. mat'[e] \in {mat[e], [mat[e] EXCEPT !.out = x]} BY <1>3, <3>1
    <3> QED BY <3>1, <3>2, <3>3
  <2>2. mat' = [e \in Entry |-> mat'[e]]
    <3>1. mat = [f \in Entry |-> mat[f]] BY DEF Bindings, Materials
    <3> QED BY <1>3, <3>1
  <2>3. Materials' BY <2>1, <2>2, SMT DEF Materials, Made
  <2>4. HandlesKept BY <2>1 DEF HandlesKept, ProviderOf
  <2> QED BY <1>1, <1>3, <2>3, <2>4, UsedBound
<1>4. ASSUME KeyUsed(w), KeepMaterial PROVE Bindings'
  BY <1>1, <1>4, MemoryKept, UsedBound
<1>5. ASSUME NEW h, NEW asked, NEW pub, NEW slot, RegisterEphemeralKey(w, c),
             MakeMaterial(w, Material(h, asked, pub, slot)), h.provider = p
      PROVE  Bindings'
  BY <1>1, <1>2, <1>5, EphemeralBound
<1>6. /\ \A h \in HandleEncapsulateKey(p, k, request) : h.provider = p
      /\ \A h \in HandleDecapsulateKey(p, k, request) : h.provider = p
  BY OutputsOfProvider
<1>7. \/ KeyUsed(w) /\ \E x : mat' = [mat EXCEPT ![job[w].using].out = x]
      \/ KeyUsed(w) /\ KeepMaterial
      \/ /\ RegisterEphemeralKey(w, c)
         /\ \E h \in HandleEncapsulateKey(p, k, request) \cup HandleDecapsulateKey(p, k, request) :
               MakeMaterial(w, Material(h, {"derive"}, Unset, ""))
  BY DEF UseKey
<1> HIDE DEF c, p, k, request
<1>8. ASSUME RegisterEphemeralKey(w, c),
             \E h \in HandleEncapsulateKey(p, k, request) \cup HandleDecapsulateKey(p, k, request) :
                MakeMaterial(w, Material(h, {"derive"}, Unset, ""))
      PROVE  Bindings'
  <2>1. PICK h \in HandleEncapsulateKey(p, k, request) \cup HandleDecapsulateKey(p, k, request) :
           MakeMaterial(w, Material(h, {"derive"}, Unset, ""))
    BY <1>8
  <2>2. h.provider = p BY <1>6
  <2> QED BY <1>5, <1>8, <2>1, <2>2
<1> QED BY <1>3, <1>4, <1>7, <1>8

\* The job is done.
LEMMA JobDoneBound ==
  ASSUME RegistryInv, RegistryInv', KmType, Bindings, NEW w \in Worker, JobDone(w)
  PROVE  Bindings'
<1>1. job \in [Worker -> Job] BY DEF RegistryInv, RegistryType
<1>2. Leave(w) /\ KeepMaterial /\ ctx' = ctx BY DEF JobDone
<1>3. UNCHANGED <<keys, slotToId, nextId, node, contexts>> BY <1>2 DEF Leave
<1>4. job'[w].pc \in {"idle", "destroy"} /\ job'[w].using = NoEntry /\ \A v \in Worker \ {w} : job'[v] = job[v]
  <2>1. PICK j : j \in {Idle, [Idle EXCEPT !.pc = "destroy", !.ref = job[w].src]} /\ job' = [job EXCEPT ![w] = j]
    BY <1>2 DEF Leave
  <2>2. PICK q : q = job[w].src OBVIOUS
  <2>3. Idle.pc = "idle" /\ Idle.using = NoEntry BY IdleJobOK
  <2>4. [Idle EXCEPT !.pc = "destroy", !.ref = q].pc = "destroy" /\ [Idle EXCEPT !.pc = "destroy", !.ref = q].using = NoEntry
    BY SMT DEF Idle
  <2>5. j.pc \in {"idle", "destroy"} /\ j.using = NoEntry BY <2>1, <2>2, <2>3, <2>4
  <2> QED BY <1>1, <2>1, <2>5
<1>5. Materials' /\ HandlesKept BY <1>2, MemoryKept
<1>6. \A v \in Worker \ {w} : call'[v] = call[v]
  <2>1. PICK k : call' = [call EXCEPT ![w] = k] BY DEF JobDone
  <2>2. call = [v \in Worker |-> call[v]] BY DEF KmType
  <2> QED BY <2>1, <2>2
<1>7. WorkerBound(w)' BY <1>4, EmptyHanded
<1> QED BY <1>2, <1>3, <1>4, <1>5, <1>6, <1>7, CalmBound

\* A step that touches no key: the calls of the threads that work on one go on.
LEMMA QuietBound ==
  ASSUME RegistryInv, Bindings, UNCHANGED vars, mat' = mat, ContextsKept,
         \A v \in Worker : job[v].pc = "idle" \/ (call'[v].stage = call[v].stage /\ call'[v].ctx = call[v].ctx)
  PROVE  Bindings'
<1>1. UNCHANGED <<keys, slotToId, nextId, refCount, node, contexts, job>> BY DEF vars
<1>2. RegistryInv' BY <1>1, RegistryUntouched
<1>3. Materials' BY SMT DEF Bindings, Materials, Made
<1>4. Kept
  <2>1. HandlesKept BY DEF HandlesKept, ProviderOf
  <2>2. nextId <= nextId' BY <1>1, SMT DEF RegistryInv, RegistryType
  <2> QED BY <1>1, <2>1, <2>2 DEF Kept, KeysKept, NodesKept
<1>5. SlotBound' BY <1>1, <1>2, <1>4, SlotsBound DEF Kept
<1>6. NodeBound'
  <2>1. \A r \in Ref : Attached(r)' => Attached(r) /\ node'[r].ctx = node[r].ctx /\ node[r].ctx \in contexts'
    BY <1>1 DEF Attached, Bindings, NodeBound
  <2> QED BY <1>2, <1>4, <2>1, NodesBound
<1>7. \A v \in Worker : WorkerBound(v)'
  <2> TAKE v \in Worker
  <2>1. CASE job[v].pc = "idle"
    <3>1. WorkerBound(v) BY DEF Bindings
    <3>2. job[v].using = NoEntry BY <2>1, <3>1, SMT DEF WorkerBound
    <3> QED BY <1>1, <2>1, <3>2, EmptyHanded
  <2>2. CASE call'[v].stage = call[v].stage /\ call'[v].ctx = call[v].ctx
    BY <1>1, <1>2, <1>4, <2>2, OthersBound
  <2> QED BY <2>1, <2>2
<1> QED BY <1>3, <1>5, <1>6, <1>7 DEF Bindings

\* A request that fails before it changes anything.
LEMMA RefusedBound ==
  ASSUME RegistryInv, KmType, Bindings, NEW w \in Worker, job[w].pc = "idle", UNCHANGED vars, mat' = mat, ctx' = ctx,
         NEW k, call' = [call EXCEPT ![w] = k]
  PROVE  Bindings'
<1>1. call = [v \in Worker |-> call[v]] BY DEF KmType
<1>2. \A v \in Worker : job[v].pc = "idle" \/ (call'[v].stage = call[v].stage /\ call'[v].ctx = call[v].ctx) BY <1>1
<1>3. ContextsKept BY DEF ContextsKept, vars
<1> QED BY <1>2, <1>3, QuietBound

LEMMA InitializeBound ==
  ASSUME RegistryInv, KmType, Served, Bindings, NEW w \in Worker, InitializeContext(w)
  PROVE  Bindings'
<1>1. call[w].stage = "init" /\ At(w, "idle") /\ mat' = mat /\ UNCHANGED vars BY DEF InitializeContext, Stage
<1>2. PICK k : call' = [call EXCEPT ![w] = k]
  <2>1. call = [v \in Worker |-> call[v]] BY DEF KmType
  <2>2. CASE call' = [call EXCEPT ![w].stage = "reply", ![w].ok = TRUE]
    <3>1. call' = [call EXCEPT ![w] = [call[w] EXCEPT !.stage = "reply", !.ok = TRUE]] BY <2>1, <2>2
    <3> QED BY <3>1
  <2>3. CASE call' = [call EXCEPT ![w].stage = "cleanup"] BY <2>3
  <2> QED BY <2>2, <2>3 DEF InitializeContext
<1>3. \A v \in Worker : job[v].pc = "idle" \/ (call'[v].stage = call[v].stage /\ call'[v].ctx = call[v].ctx)
  BY <1>1, <1>2 DEF KmType, At
<1>4. ContextsKept
  <2>1. contexts' = contexts BY <1>1 DEF vars
  <2>2. CASE ctx' = ctx BY <2>1, <2>2 DEF ContextsKept
  <2>3. ASSUME NEW x, ctx' = [ctx EXCEPT ![call[w].ctx].ops = x] PROVE ContextsKept
    <3> SUFFICES ASSUME NEW d \in contexts PROVE ctx'[d].provider = ctx[d].provider BY <2>1 DEF ContextsKept
    <3>1. PICK z : z = ctx[d] /\ z = [provider |-> z.provider, type |-> z.type, ops |-> z.ops] BY DEF Served, Nodelike
    <3>2. ctx'[d] \in {z, [z EXCEPT !.ops = x]} BY <2>3, <3>1 DEF Served
    <3>3. [z EXCEPT !.ops = x].provider = z.provider BY <3>1, SMT
    <3> QED BY <3>1, <3>2, <3>3
  <2> QED BY <2>2, <2>3 DEF InitializeContext
<1> QED BY <1>1, <1>3, <1>4, QuietBound

\* A reply, and a reply that is lost.
LEMMA ReplyBound ==
  ASSUME RegistryInv, KmType, Bindings, NEW w \in Worker, Reply(w) \/ ReplyLost(w)
  PROVE  Bindings'
<1>1. UNCHANGED vars /\ mat' = mat /\ ctx' = ctx BY DEF Reply, ReplyLost
<1>2. CASE Reply(w)
  <2>1. At(w, "idle") /\ call' = [call EXCEPT ![w] = NoCall] BY <1>2 DEF Reply, Stage
  <2> QED BY <1>1, <2>1, RefusedBound DEF At
<1>3. CASE ReplyLost(w)
  <2>1. call' = [call EXCEPT ![w] = [call[w] EXCEPT !.alive = FALSE]] BY <1>3 DEF ReplyLost
  <2>2. call = [v \in Worker |-> call[v]] /\ CallRecord(call[w]) BY DEF KmType, CallOK
  <2>3. PICK k : k = [call[w] EXCEPT !.alive = FALSE] OBVIOUS
  <2>4. k = CallAt(call[w], call[w].stage, call[w].ok, call[w].out, FALSE) BY <2>2, <2>3, CallUpdates
  <2>5. k.stage = call[w].stage /\ k.ctx = call[w].ctx
    <3>1. PICK f : f = FALSE OBVIOUS
    <3>2. k = CallAt(call[w], call[w].stage, call[w].ok, call[w].out, f) BY <2>4, <3>1
    <3> QED BY <3>2, SMT DEF CallAt
  <2>6. call' = [call EXCEPT ![w] = k] BY <2>1, <2>3
  <2>7. \A v \in Worker : call'[v].stage = call[v].stage /\ call'[v].ctx = call[v].ctx BY <2>2, <2>5, <2>6
  <2>8. ContextsKept BY <1>1 DEF ContextsKept, vars
  <2> QED BY <1>1, <2>7, <2>8, QuietBound
<1> QED BY <1>2, <1>3

\* Generated and imported keys.
LEMMA OutputBound ==
  ASSUME RegistryInv, RegistryInv', KmType, Bindings, NEW w \in Worker, NEW c \in Context, Calls(w, c),
         NEW op \in {"generate", "import"}, NEW hs, \A h \in hs : h.provider = ctx[c].provider, NEW asked, NEW pub,
         RegisterOutput(w, c, hs, asked, pub, Call(op, c, NoRef, NoKeyAsked, "run"))
  PROVE  Bindings'
<1>1. job[w].pc = "idle" /\ ctx' = ctx BY DEF Calls, Ready, At, RegisterOutput, DaemonUnchanged
<1>2. call = [v \in Worker |-> call[v]] BY DEF KmType
<1>3. PICK s \in {"run", "reply"} :
        /\ call' = [call EXCEPT ![w] = [Call(op, c, NoRef, NoKeyAsked, "run") EXCEPT !.stage = s]]
        /\ \/ /\ s = "run" /\ RegisterEphemeralKey(w, c)
              /\ \E h \in hs : MakeMaterial(w, Material(h, asked, pub, ""))
           \/ UNCHANGED vars /\ mat' = mat
  BY DEF RegisterOutput, Refused
<1>4. PICK k : k = [Call(op, c, NoRef, NoKeyAsked, "run") EXCEPT !.stage = s] OBVIOUS
<1>5. call' = [call EXCEPT ![w] = k] /\ op \in CallOp /\ s \in CallStage /\ NoRef \in Ref \cup {NoRef}
  BY <1>3, <1>4 DEF CallOp, Makers, CallStage
<1>6. k.stage = s /\ k.ctx = c
  <2>1. NewCall(k, op, c, NoRef, NoKeyAsked, s) BY <1>4, <1>5, StagedCall
  <2> QED BY <2>1 DEF NewCall
<1>7. CASE UNCHANGED vars /\ mat' = mat BY <1>1, <1>5, <1>7, RefusedBound
<1>8. ASSUME NEW h \in hs, NEW slot, s = "run", RegisterEphemeralKey(w, c), MakeMaterial(w, Material(h, asked, pub, slot))
      PROVE  Bindings'
  <2>1. call'[w].stage \in {"run", "bound"} /\ call'[w].ctx = c /\ \A v \in Worker \ {w} : call'[v] = call[v]
    BY <1>2, <1>5, <1>6, <1>8
  <2> QED BY <1>1, <1>8, <2>1, EphemeralBound
<1> QED BY <1>3, <1>7, <1>8

\* HandleLoad.
LEMMA KeyLoadBound ==
  ASSUME RegistryInv, RegistryInv', KmType, Served, Bindings, NEW w \in Worker, NEW c \in Context, KeyLoad(w, c)
  PROVE  Bindings'
<1>1. job[w].pc = "idle" /\ ctx' = ctx BY DEF KeyLoad, Calls, Ready, At, DaemonUnchanged
<1>2. call = [v \in Worker |-> call[v]] BY DEF KmType
<1>3. \/ \E s : /\ c \in contexts /\ HasSlotHandler(ctx[c].provider) /\ LoadOrShare(w, c, <<ctx[c].provider, s.name>>)
                /\ call' = [call EXCEPT ![w] = Call("load", c, NoRef, NoKeyAsked, "run")] /\ KeepMaterial
      \/ Refused(w, Call("load", c, NoRef, NoKeyAsked, "reply"))
  BY DEF KeyLoad
<1>4. CASE Refused(w, Call("load", c, NoRef, NoKeyAsked, "reply")) BY <1>1, <1>4, RefusedBound DEF Refused
<1>5. ASSUME NEW n, c \in contexts, HasSlotHandler(ctx[c].provider), LoadOrShare(w, c, <<ctx[c].provider, n>>),
             call' = [call EXCEPT ![w] = Call("load", c, NoRef, NoKeyAsked, "run")], KeepMaterial
      PROVE  Bindings'
  <2>1. PICK p : p = ctx[c].provider OBVIOUS
  <2>2. p \in {"openssl", "pkcs11"}
    <3>1. p \in Range(ActiveBackends) BY <1>5, <2>1 DEF Served
    <3> QED BY <1>5, <2>1, <3>1, BackendsKnown DEF HasSlotHandler
  <2>3. PICK k : k = Call("load", c, NoRef, NoKeyAsked, "run") OBVIOUS
  <2>4. "load" \in CallOp /\ "run" \in CallStage /\ NoRef \in Ref \cup {NoRef} BY DEF CallOp, Makers, CallStage
  <2>5. k.stage = "run" /\ k.ctx = c
    <3>1. NewCall(k, "load", c, NoRef, NoKeyAsked, "run") BY <2>3, <2>4, PlainCall
    <3> QED BY <3>1 DEF NewCall
  <2>6. call'[w].stage \in {"run", "bound"} /\ call'[w].ctx = c /\ \A v \in Worker \ {w} : call'[v] = call[v]
    BY <1>2, <1>5, <2>3, <2>5
  <2>7. LoadOrShare(w, c, <<p, n>>) BY <1>5, <2>1
  <2> QED BY <1>1, <1>5, <2>1, <2>2, <2>6, <2>7, LoadBound
<1> QED BY <1>3, <1>4, <1>5

\* AcquireKeyForOperation.
LEMMA KeyOperationBound ==
  ASSUME RegistryInv, RegistryInv', KmType, Bindings, NEW w \in Worker, NEW c \in Context, NEW r \in Ref,
         NEW op \in {"export", "encapsulate", "decapsulate"}, NEW format, KeyOperation(w, c, r, op, format)
  PROVE  Bindings'
<1>1. job[w].pc = "idle" /\ ctx' = ctx BY DEF KeyOperation, Calls, Ready, At, DaemonUnchanged
<1>2. call = [v \in Worker |-> call[v]] BY DEF KmType
<1>3. \/ \E q : /\ AcquireKeyForOperation(w, c, r) /\ KeepMaterial
                /\ call' = [call EXCEPT ![w] = [Call(op, c, r, NoKeyAsked, "run") EXCEPT !.request = q]]
      \/ Refused(w, Call(op, c, r, NoKeyAsked, "reply"))
  BY DEF KeyOperation
<1>4. CASE Refused(w, Call(op, c, r, NoKeyAsked, "reply")) BY <1>1, <1>4, RefusedBound DEF Refused
<1>5. ASSUME NEW q, AcquireKeyForOperation(w, c, r), KeepMaterial,
             call' = [call EXCEPT ![w] = [Call(op, c, r, NoKeyAsked, "run") EXCEPT !.request = q]]
      PROVE  Bindings'
  <2>1. PICK k : k = [Call(op, c, r, NoKeyAsked, "run") EXCEPT !.request = q] OBVIOUS
  <2>2. op \in CallOp /\ "run" \in CallStage /\ r \in Ref \cup {NoRef} BY DEF CallOp, Makers, CallStage
  <2>3. k.stage = "run" /\ k.ctx = c
    <3>1. NewCall(k, op, c, r, NoKeyAsked, "run") BY <2>1, <2>2, RequestCall
    <3> QED BY <3>1 DEF NewCall
  <2>4. call'[w].stage \in {"run", "bound"} /\ call'[w].ctx = c /\ \A v \in Worker \ {w} : call'[v] = call[v]
    BY <1>2, <1>5, <2>1, <2>3
  <2>5. UNCHANGED <<keys, slotToId, nextId, node, contexts>> BY <1>5 DEF AcquireKeyForOperation
  <2>6. job'[w].pc = "acquired" /\ job'[w].ctx = c /\ \A v \in Worker \ {w} : job'[v] = job[v]
    <3>1. job \in [Worker -> Job] BY DEF RegistryInv, RegistryType
    <3>2. PICK e : e = node[r].entry OBVIOUS
    <3>3. PICK j : j = [Idle EXCEPT !.pc = "acquired", !.ctx = c, !.src = r, !.using = e, !.held = e] OBVIOUS
    <3>4. j.pc = "acquired" /\ j.ctx = c BY <3>3, SMT DEF Idle
    <3>5. job' = [job EXCEPT ![w] = j] BY <1>5, <3>2, <3>3 DEF AcquireKeyForOperation
    <3> QED BY <3>1, <3>4, <3>5
  <2>7. WorkerBound(w)' BY <2>4, <2>6, SMT DEF WorkerBound, Loading
  <2>8. Materials' /\ HandlesKept BY <1>5, MemoryKept
  <2> QED BY <1>1, <2>4, <2>5, <2>6, <2>7, <2>8, CalmBound
<1> QED BY <1>3, <1>4, <1>5

\* BindAndAuthorizeKey.
LEMMA AuthorizeBound ==
  ASSUME KmInv, RegistryInv', Served, Bindings, NEW w \in Worker, BindAndAuthorizeKey(w)
  PROVE  Bindings'
<1>1. RegistryInv /\ KmType /\ CallOK(call[w], job[w]) BY DEF KmInv, KmType
<1>2. call[w].stage = "bind" /\ job[w].pc = "idle" /\ ctx' = ctx /\ KeepMaterial BY DEF BindAndAuthorizeKey, Stage, At
<1>3. call[w].op = "open" /\ call[w].ctx \in Context BY <1>1, <1>2 DEF CallOK
<1>4. call[w].ctx \in contexts BY <1>2, <1>3 DEF KmInv, Objects
<1> DEFINE c == call[w].ctx
<1>5. ASSUME call' = [call EXCEPT ![w].stage = "bound"]
      PROVE  call'[w].stage \in {"run", "bound"} /\ call'[w].ctx = c /\ \A v \in Worker \ {w} : call'[v] = call[v]
  <2>1. call = [v \in Worker |-> call[v]] /\ CallRecord(call[w]) BY <1>1 DEF KmType, CallOK
  <2>2. PICK k : k = [call[w] EXCEPT !.stage = "bound"] OBVIOUS
  <2>3. k = CallAt(call[w], "bound", call[w].ok, call[w].out, call[w].alive) BY <2>1, <2>2, CallUpdates
  <2>4. k.stage = "bound" /\ k.ctx = c BY <2>3, SMT DEF CallAt
  <2>5. call' = [call EXCEPT ![w] = k] BY <1>5, <2>2
  <2> QED BY <2>1, <2>4, <2>5
<1>6. ASSUME call[w].arg.slot = "", AuthorizesKey(c, call[w].arg.ref, call[w].arg.need),
             BindLoadedKey(w, call[w].arg.ref, c), call' = [call EXCEPT ![w].stage = "bound"]
      PROVE  Bindings'
  <2>1. call[w].arg.ref \in Ref BY <1>1, <1>2, <1>6 DEF CallOK
  <2>2. KeyOf(call[w].arg.ref).provider = ctx[c].provider BY <1>6 DEF AuthorizesKey, BindsTo
  <2> QED BY <1>1, <1>2, <1>5, <1>6, <2>1, <2>2, BindBound
<1>7. ASSUME NEW s, AuthorizesSlot(c, s, call[w].arg.need), LoadOrShare(w, c, <<s.provs[1], s.name>>),
             call' = [call EXCEPT ![w].stage = "bound"]
      PROVE  Bindings'
  <2>1. s.provs[1] = ctx[c].provider /\ HasSlotHandler(s.provs[1])
    BY <1>7 DEF AuthorizesSlot, GetPrimaryProviderId, BindsTo
  <2>2. PICK p : p = s.provs[1] OBVIOUS
  <2>3. p \in {"openssl", "pkcs11"}
    <3>1. p \in Range(ActiveBackends) BY <1>4, <2>1, <2>2 DEF Served
    <3> QED BY <2>1, <2>2, <3>1, BackendsKnown DEF HasSlotHandler
  <2>4. LoadOrShare(w, c, <<p, s.name>>) /\ p = ctx[c].provider BY <1>7, <2>1, <2>2
  <2> QED BY <1>1, <1>2, <1>5, <1>7, <2>3, <2>4, LoadBound
<1>8. ASSUME UNCHANGED vars, call' = [call EXCEPT ![w].stage = "cleanup"] PROVE Bindings'
  <2>1. PICK k : call' = [call EXCEPT ![w] = k] BY <1>8
  <2>2. \A v \in Worker : job[v].pc = "idle" \/ (call'[v].stage = call[v].stage /\ call'[v].ctx = call[v].ctx)
    BY <1>1, <1>2, <2>1 DEF KmType
  <2>3. \A v \in Worker \ {w} : job'[v] = job[v] /\ call'[v] = call[v] BY <1>1, <1>8, <2>1 DEF KmType, vars
  <2>4. WorkerBound(w)'
    <3>1. WorkerBound(w) BY DEF Bindings
    <3>2. job[w].using = NoEntry BY <1>2, <3>1, SMT DEF WorkerBound
    <3> QED BY <1>2, <1>8, <3>2, EmptyHanded DEF vars
  <2>5. Materials' /\ HandlesKept BY <1>2, MemoryKept
  <2> QED BY <1>1, <1>2, <1>8, <2>3, <2>4, <2>5, CalmBound DEF vars
<1>9. \/ /\ call[w].arg.slot = "" /\ AuthorizesKey(c, call[w].arg.ref, call[w].arg.need)
         /\ BindLoadedKey(w, call[w].arg.ref, c) /\ call' = [call EXCEPT ![w].stage = "bound"]
      \/ \E s : /\ AuthorizesSlot(c, s, call[w].arg.need) /\ LoadOrShare(w, c, <<s.provs[1], s.name>>)
                /\ call' = [call EXCEPT ![w].stage = "bound"]
      \/ UNCHANGED vars /\ call' = [call EXCEPT ![w].stage = "cleanup"]
  BY DEF BindAndAuthorizeKey
<1> QED BY <1>6, <1>7, <1>8, <1>9

\* deleteNode of a context.
LEMMA DeleteBound ==
  ASSUME RegistryInv, RegistryInv', KmType, Served, Bindings, NEW w \in Worker, job[w].pc = "idle", NEW c, NEW next,
         DeleteContext(w, c, next)
  PROVE  Bindings'
<1>1. call = [v \in Worker |-> call[v]] /\ call' = [call EXCEPT ![w] = next] /\ KeepMaterial
  BY DEF DeleteContext, KmType
<1>2. CASE UNCHANGED <<vars, ctx>>
  <2>1. UNCHANGED <<keys, slotToId, nextId, node, contexts, job>> BY <1>2 DEF vars
  <2>2. WorkerBound(w)'
    <3>1. WorkerBound(w) BY DEF Bindings
    <3>2. job[w].using = NoEntry BY <3>1, SMT DEF WorkerBound
    <3> QED BY <2>1, <3>2, EmptyHanded
  <2>3. Materials' /\ HandlesKept BY <1>1, MemoryKept
  <2> QED BY <1>1, <1>2, <2>1, <2>2, <2>3, CalmBound
<1>3. CASE CloseContext(w, c) /\ ctx' = [ctx EXCEPT ![c] = NoContextNode]
  <2> DEFINE doomed == {r \in Ref : Attached(r) /\ node[r].ctx = c}
  <2>1. RemoveNodes(w, doomed) /\ contexts' = contexts \ {c} BY <1>3 DEF CloseContext
  <2>2. doomed \in SUBSET Ref /\ (\A r \in doomed : Attached(r))
        /\ (\A r \in Ref \ doomed : Attached(r) => node[r].ctx \in contexts')
    BY <2>1 DEF Bindings, NodeBound
  <2>3. ContextsKept
    <3>1. \A d \in contexts' : d \in contexts /\ d \in Context /\ d # c BY <2>1 DEF Served
    <3>2. \A d \in Context : d # c => ctx'[d] = ctx[d] BY <1>3 DEF Served
    <3> QED BY <3>1, <3>2 DEF ContextsKept
  <2>4. \A v \in Worker \ {w} : call'[v] = call[v] BY <1>1
  <2> HIDE DEF doomed
  <2> QED BY <1>1, <2>1, <2>2, <2>3, <2>4, RemoveBound
<1> QED BY <1>2, <1>3 DEF DeleteContext

\* ReleaseKeyMaterial.
LEMMA ReleaseBound ==
  ASSUME RegistryInv, RegistryInv', KmType, Bindings, NEW w \in Worker, NEW r \in Ref, NEW op, KeyRelease(w, r, op)
  PROVE  Bindings'
<1>1. job[w].pc = "idle" /\ ctx' = ctx BY DEF KeyRelease, Ready, At
<1>2. \/ /\ DeleteKeyDataNode(w, r) /\ KeepMaterial
         /\ \E k : call' = [call EXCEPT ![w] = k]
      \/ Refused(w, Call(op, guard[r].ctx, r, NoKeyAsked, "reply"))
  BY DEF KeyRelease, HandleRelease
<1>3. CASE Refused(w, Call(op, guard[r].ctx, r, NoKeyAsked, "reply")) BY <1>1, <1>3, RefusedBound DEF Refused
<1>4. ASSUME DeleteKeyDataNode(w, r), KeepMaterial, NEW k, call' = [call EXCEPT ![w] = k] PROVE Bindings'
  <2>1. Attached(r) /\ RemoveNodes(w, {r}) /\ contexts' = contexts BY <1>4 DEF DeleteKeyDataNode
  <2>2. {r} \in SUBSET Ref /\ (\A q \in {r} : Attached(q)) BY <2>1
  <2>3. \A q \in Ref \ {r} : Attached(q) => node[q].ctx \in contexts' BY <2>1 DEF Bindings, NodeBound
  <2>4. ContextsKept BY <1>1, <2>1 DEF ContextsKept
  <2>5. \A v \in Worker \ {w} : call'[v] = call[v] BY <1>4 DEF KmType
  <2>6. PICK doomed \in SUBSET Ref : doomed = {r} BY <2>2
  <2> QED BY <1>4, <2>1, <2>2, <2>3, <2>4, <2>5, <2>6, RemoveBound
<1> QED BY <1>2, <1>3, <1>4

\* The node of a new context: no request works for it yet.
LEMMA CreateContextBound ==
  ASSUME RegistryInv, KmType, Served, Bindings, NEW w \in Worker, NEW c \in Context, NEW ask, NEW key, NEW arg,
         CreateContext(w, c, ask, key, arg)
  PROVE  Bindings'
<1>1. UNCHANGED <<keys, slotToId, nextId, refCount, node, job, mat>> BY DEF CreateContext
<1>2. Opens(w, c) BY DEF CreateContext
<1>3. CASE UNCHANGED <<contexts, ctx, call>>
  <2>1. UNCHANGED vars BY <1>1, <1>3 DEF vars
  <2>2. ContextsKept BY <1>3 DEF ContextsKept
  <2> QED BY <1>1, <1>3, <2>1, <2>2, QuietBound
<1>4. ASSUME NEW x, NEW k, contexts' = contexts \cup {c}, ctx' = [ctx EXCEPT ![c] = x], call' = [call EXCEPT ![w] = k]
      PROVE  Bindings'
  <2>1. \A d \in contexts : ctx'[d] = ctx[d]
    <3>1. \A d \in contexts : d \in Context /\ d # c BY <1>2 DEF Opens, Served
    <3> QED BY <1>4, <3>1 DEF Served
  <2>2. Materials' BY <1>1, SMT DEF Bindings, Materials, Made
  <2>3. SlotBound' BY <1>1 DEF Bindings, SlotBound, FindBySlot, ProviderOf
  <2>4. NodeBound' BY <1>1, <1>4, <2>1 DEF Bindings, NodeBound, Attached, ProviderOf
  <2>5. \A v \in Worker : WorkerBound(v)'
    <3> TAKE v \in Worker
    <3>1. WorkerBound(v) BY DEF Bindings
    <3>2. CASE v = w
      <4>1. job[w].pc = "idle" BY <1>2 DEF Opens, Ready, At
      <4>2. job[w].using = NoEntry BY <3>1, <3>2, <4>1, SMT DEF WorkerBound
      <4> QED BY <1>1, <3>2, <4>1, <4>2, EmptyHanded
    <3>3. CASE v # w
      <4>1. call'[v] = call[v] BY <1>4, <3>3 DEF KmType
      <4>2. call[v].ctx # c BY <1>2 DEF Opens
      <4>3. Working(job[v]) => job[v].ctx # c BY <3>1, <4>2 DEF WorkerBound
      <4>4. Working(job[v]) /\ job[v].ctx \in contexts' => job[v].ctx \in contexts /\ ctx'[job[v].ctx] = ctx[job[v].ctx]
        BY <1>4, <2>1, <4>3
      <4>5. job[v].pc \in Loading \cup {"create", "attach"} => Working(job[v]) BY DEF Working
      <4>6. /\ Working(job[v]) => call'[v].stage \in {"run", "bound"} /\ job[v].ctx = call'[v].ctx
            /\ job[v].using # NoEntry => job[v].pc \in {"acquired", "use", "destroy", "unregister"}
            /\ job[v].pc \in Loading =>
                  /\ job[v].slot[1] \in {"openssl", "pkcs11"}
                  /\ job[v].ctx \in contexts' => job[v].slot[1] = ctx'[job[v].ctx].provider
        BY <3>1, <4>1, <4>4, <4>5 DEF WorkerBound
      <4>7. /\ job[v].pc \in {"found", "register"} => ProviderOf(job[v].entry) = job[v].slot[1]
            /\ job[v].pc = "winner" =>
                  job[v].rid < nextId /\ (keys[job[v].rid] # NoEntry => ProviderOf(keys[job[v].rid]) = job[v].slot[1])
        BY <3>1 DEF WorkerBound
      <4>8. /\ job[v].pc = "create" /\ job[v].ctx \in contexts' =>
                  ProviderOf(job[v].entry) = ctx'[job[v].ctx].provider
            /\ job[v].pc = "attach" /\ job[v].ctx \in contexts' =>
                  ProviderOf(node[job[v].ref].entry) = ctx'[job[v].ctx].provider
        BY <3>1, <4>4, <4>5 DEF WorkerBound
      <4> QED BY <1>1, <4>6, <4>7, <4>8 DEF WorkerBound, ProviderOf, Working
    <3> QED BY <3>2, <3>3
  <2> QED BY <2>2, <2>3, <2>4, <2>5 DEF Bindings
<1> QED BY <1>3, <1>4 DEF CreateContext

LEMMA NextBound ==
  ASSUME KmInv, KmInv', Served, Bindings, [KmNext]_allVars
  PROVE  Bindings'
<1>1. RegistryInv /\ RegistryInv' /\ KmType /\ Nodes BY DEF KmInv
<1>2. ASSUME UNCHANGED <<vars, mat, ctx, call>> PROVE Bindings'
  <2>1. ContextsKept BY <1>2 DEF ContextsKept, vars
  <2> QED BY <1>1, <1>2, <2>1, QuietBound
<1>3. ASSUME UNCHANGED allVars \/ Start \/ \E c \in Context : DropContext(c) PROVE Bindings'
  <2>1. UNCHANGED <<vars, mat, ctx, call>>
    BY <1>3 DEF allVars, kmVars, Start, ReadConfig, StartProviders, InitializeProviders, CreateKeyManagement,
                Started, DropContext
  <2> QED BY <1>2, <2>1
<1>4. ASSUME NEW w \in Worker, ClientCall(w) PROVE Bindings'
  <2>1. ASSUME NEW c \in Context, CreateKeyContext(w, c) \/ CreateOperationContext(w, c) PROVE Bindings'
    BY <1>1, <2>1, CreateContextBound DEF CreateKeyContext, CreateOperationContext
  <2>2. ASSUME NEW c \in Context, KeyGenerate(w, c) PROVE Bindings'
    BY <1>1, <2>2, OutputsOfProvider, OutputBound DEF KeyGenerate
  <2>3. ASSUME NEW c \in Context, KeyImport(w, c) PROVE Bindings'
    BY <1>1, <2>3, OutputsOfProvider, OutputBound DEF KeyImport
  <2>4. ASSUME NEW c \in Context, KeyLoad(w, c) PROVE Bindings' BY <1>1, <2>4, KeyLoadBound
  <2>5. ASSUME NEW c \in Context, CloseDropped(w, c) PROVE Bindings'
    <3>1. job[w].pc = "idle" BY <2>5 DEF CloseDropped, Ready, At
    <3> QED BY <1>1, <2>5, <3>1, DeleteBound DEF CloseDropped
  <2>6. ASSUME NEW r \in Ref, NEW op, KeyRelease(w, r, op) PROVE Bindings' BY <1>1, <2>6, ReleaseBound
  <2> QED BY <1>1, <1>4, <2>1, <2>2, <2>3, <2>4, <2>5, <2>6, KeyOperationBound DEF ClientCall
<1>5. ASSUME NEW w \in Worker, Serve(w) PROVE Bindings'
  <2>1. CASE BindAndAuthorizeKey(w) BY <1>1, <2>1, AuthorizeBound
  <2>2. CASE CleanupContext(w)
    <3>1. job[w].pc = "idle" BY <2>2 DEF CleanupContext, Stage, At
    <3> QED BY <1>1, <2>2, <3>1, DeleteBound DEF CleanupContext
  <2> QED BY <1>1, <1>5, <2>1, <2>2, InitializeBound, UseKeyBound, JobStepBound, JobDoneBound, ReplyBound DEF Serve
<1> QED BY <1>3, <1>4, <1>5 DEF KmNext

LEMMA InitBound ==
  ASSUME KmInit
  PROVE  Bindings
<1>1. Made(NoMaterial) BY SMT DEF Made, NoMaterial
<1>2. Materials BY <1>1 DEF KmInit, Materials
<1>3. RegistryInv BY KmInitInv DEF KmInv
<1>4. SlotBound
  <2>1. \A s \in Slot : slotToId[s] = 0 /\ nextId = 1 BY DEF KmInit, NoKeys
  <2>2. \A s \in Slot : slotToId[s] < nextId BY <2>1, SMT
  <2> QED BY <2>1, <2>2 DEF SlotBound, FindBySlot
<1>5. NodeBound BY DEF KmInit, NoKeys, NodeBound, Attached
<1>6. \A w \in Worker : WorkerBound(w)
  <2>1. \A w \in Worker : job[w].pc = "idle" /\ job[w].using = NoEntry BY IdleJobOK DEF KmInit, NoKeys
  <2> QED BY <2>1, SMT DEF WorkerBound, Working, Loading
<1> QED BY <1>2, <1>4, <1>5, <1>6 DEF Bindings

\* BindKeyToContext: the keys below a context are keys of the provider whose
\* handler the context has.  This holds for any configuration of slots and
\* providers, and however many threads load, register and release the keys of
\* the same slots while contexts are opened and closed.
THEOREM ServedKeysOfProvider == KmSpec => []BoundKeyOfProvider
<1>1. KmInit => Bindings BY InitBound
<1>2. KmInv /\ KmInv' /\ Served /\ Bindings /\ [KmNext]_allVars => Bindings' BY NextBound
<1>3. Bindings => BoundKeyOfProvider BY DEF Bindings, NodeBound, ProviderOf, BoundKeyOfProvider, KeyOf
<1> QED BY <1>1, <1>2, <1>3, KmInvariance, PTL DEF KmSpec

=============================================================================
