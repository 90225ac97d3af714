--------------------------- MODULE KeyManagement ---------------------------
(***************************************************************************)
(* The daemon from its start to the keys of its clients: main reads the    *)
(* configuration, creates the providers and the key management, and then   *)
(* serves the calls of KeyManagementContextImpl and CryptoContextImpl.     *)
(*                                                                         *)
(* A worker is a client thread together with the daemon thread that serves *)
(* its request.  A call starts a job of KeyRegistry, which interleaves     *)
(* with the others, and ends with a reply.  A reply can be lost: the       *)
(* client then goes on while the daemon still works on the request.        *)
(*                                                                         *)
(* The registries of the providers are one table: an id is only ever used  *)
(* with the registry it came from, and a slot is <<provider, name>>.       *)
(* ResolveResource and the call that uses the slot are one step, because   *)
(* the policy never changes after the start.                               *)
(***************************************************************************)
EXTENDS KeyRegistry, KeyRequests, KeySlots, Providers, DaemonConfig

CONSTANTS
    Scenario,      \* name -> what the clients do: see Use
    DefaultPaths   \* DEFAULT_CONFIG_PATHS

VARIABLES
    app,      \* the scenario
    world,    \* the environment: configuration, files and token objects
    phase,    \* how far main has come
    config,   \* the parsed configuration
    slots,    \* the SlotRegistry: [slots, maps]
    ctx,      \* the ContextDataNodes: [provider, ask, ops]; ops: authorised for its key
    mat,      \* the keys: handle, and who may do what with it
    obj,      \* the client's context objects: none, opening, open, dropped
    guard,    \* the client's CryptoResourceGuards
    call,     \* the call of each worker
    losses    \* replies that can still be lost

kmVars == <<app, world, phase, config, slots, ctx, mat, obj, guard, call, losses>>
allVars == <<vars, provVars, kmVars>>

----------------------------------------------------------------------------
Use == Scenario[app]

World == Use.worlds[world]

NoContextNode == [provider |-> "none", type |-> "none", ops |-> {}]

\* asked: the permissions asked for, pub those for the public half; slot: the
\* slot it was loaded from; out: the halves that have been exported.
NoMaterial == [handle |-> Handle("none", Row("none", "none", "none"), {}, Unset, FALSE, "none"),
               asked |-> {}, pub |-> Unset, slot |-> "", out |-> {}]

Material(h, asked, pub, slot) ==
    [handle |-> h, asked |-> asked, pub |-> pub, slot |-> slot, out |-> {}]

\* The memory of a key is gone with the last shared_ptr to its entry.
KeepMaterial == mat' = [e \in Entry |-> IF FreshEntry(e)' THEN NoMaterial ELSE mat[e]]

MakeMaterial(w, m) ==
    mat' = [e \in Entry |-> IF FreshEntry(e)' THEN NoMaterial
                            ELSE IF e = job'[w].entry THEN m ELSE mat[e]]

NoGuard == [state |-> "none", ctx |-> NoContext, type |-> "none"]

\* What a new context asks of a key: permissions, and its node or its slot.
NoKeyAsked == [need |-> {}, ref |-> NoRef, slot |-> ""]

\* stage: where the handler of the request is; ok, out: its result; alive: the
\* client still waits for the reply.
NoCall == [op |-> "none", ctx |-> NoContext, ref |-> NoRef, arg |-> NoKeyAsked, request |-> <<>>, stage |-> "none",
           ok |-> FALSE, out |-> NoRef, alive |-> FALSE]

Call(op, c, r, arg, stage) ==
    [op |-> op, ctx |-> c, ref |-> r, arg |-> arg, request |-> <<>>, stage |-> stage,
     ok |-> FALSE, out |-> NoRef, alive |-> TRUE]

\* The thread is free for a call.
Ready(w) ==
    /\ phase = "up" /\ call[w].op = "none" /\ At(w, "idle")
    /\ Cardinality({v \in Worker : call[v].op # "none"}) < Use.threads

Stage(w, s) == call[w].stage = s /\ At(w, "idle")

\* The request fails before it changes anything.
Refused(w, c) == call' = [call EXCEPT ![w] = [c EXCEPT !.stage = "reply"]] /\ UNCHANGED <<vars, mat>>

ClientOf(c) == Use.uid[c]

Slots == Range(slots.slots)

KeyOf(r) == mat[node[r].entry].handle

----------------------------------------------------------------------------
(* main.  In a steady scenario every provider can be initialised.          *)

Started == UNCHANGED <<vars, app, world, ctx, mat, obj, guard, call, losses>>

ReadConfig ==
    /\ phase = "down"
    /\ LET parsed == ParseConfig(World.env, DefaultPaths, World.stat, World.files)
       IN IF parsed = {} THEN phase' = "failed" /\ UNCHANGED config
                         ELSE phase' = "configured" /\ config' \in parsed
    /\ UNCHANGED <<slots, provVars>> /\ Started

StartProviders ==
    /\ phase = "configured"
    /\ CreateProviders
    /\ Use.steady => registered' = Range(ActiveBackends)
    /\ phase' = "created"
    /\ UNCHANGED <<config, slots>> /\ Started

\* ProviderManager::Initialize; without any provider main ends.
InitializeProviders ==
    /\ phase = "created"
    /\ Initialize
    /\ Use.steady => ready' = registered
    /\ phase' = IF registered = {} THEN "failed" ELSE "initialised"
    /\ UNCHANGED <<config, slots>> /\ Started

\* The catalog of a configuration, when the providers rdy are available.
SlotCatalog(key, rdy) == [CatalogLoad(key) EXCEPT !.slots = ResolveProviderIds(@, rdy)]

\* A configured slot has a name, and Slot has it for each provider that can load
\* a key from it.
ASSUME SlotsNamed ==
    \A u \in DOMAIN Scenario : \A i \in DOMAIN Scenario[u].worlds :
        LET W == Scenario[u].worlds[i] IN
        \A parsed \in ParseConfig(W.env, DefaultPaths, W.stat, W.files) :
        \A rdy \in SUBSET Range(ActiveBackends) :
        \A s \in Range(SlotCatalog(parsed.key, rdy).slots) :
            /\ s.name # ""
            /\ \A p \in Range(ActiveBackends) : HasSlotHandler(p) => <<p, s.name>> \in Slot

\* KeyManagementModule::Create: the catalog, and the providers of each slot.
CreateKeyManagement ==
    /\ phase = "initialised"
    /\ LET named == UNION {Range(s.names) : s \in Range(CatalogLoad(config.key).slots)}
       IN \E rdy \in EnsureInitialized(named \cap registered) :
            /\ ready' = rdy
            /\ slots' = SlotCatalog(config.key, rdy)
    /\ phase' = "up"
    /\ UNCHANGED <<config, registered, byType>> /\ Started

----------------------------------------------------------------------------
(* Contexts: the mediator's HandleContextCreationOperation and CTX_CLOSE.  *)

Opens(w, c) ==
    /\ Ready(w)
    /\ c \in Use.contexts /\ obj[c] = "none" /\ c \notin contexts
    /\ \A v \in Worker : call[v].ctx # c

\* The provider and its handler are found, and the node of the context is stored.
CreateContext(w, c, ask, key, arg) ==
    /\ Opens(w, c)
    /\ \E r \in ResolveProviderAndCreateHandler(ask, key) :
        /\ ready' = r.ready
        /\ \/ /\ r.found # {}
              /\ contexts' = contexts \cup {c}
              /\ ctx' = [ctx EXCEPT ![c] = [provider |-> CHOOSE p \in r.found : TRUE,
                                            type |-> ask.type, ops |-> {}]]
              /\ obj' = [obj EXCEPT ![c] = "opening"]
              /\ call' = [call EXCEPT ![w] = Call("open", c, NoRef, arg,
                                                  IF key = <<>> THEN "init" ELSE "bind")]
           \/ /\ r.found = {}
              /\ UNCHANGED <<contexts, ctx, obj, call>>
    /\ UNCHANGED <<keys, slotToId, nextId, refCount, node, job>>
    /\ UNCHANGED <<registered, byType, app, world, phase, config, slots, mat, guard, losses>>

CreateKeyContext(w, c) ==
    \E ask \in Use.asks : CreateContext(w, c, ask, <<>>, NoKeyAsked)

\* With ResolveSlotForOperation: the slot that a client's name for it stands for.
ResolveKeySlot(c, id) == ResolveAppResource(slots.slots, slots.maps, ClientOf(c), id)

\* A MAC, cipher or signature context for a key the client holds, or for a slot.
CreateOperationContext(w, c) ==
    \/ \E b \in Use.binds, r \in Ref :
        /\ guard[r].state \in {"held", "unsure"} /\ guard[r].type = "key"
        /\ ClientOf(guard[r].ctx) = ClientOf(c)
        /\ Attached(r)
        /\ CreateContext(w, c, b, <<[provs |-> <<KeyOf(r).provider>>]>>,
                         [need |-> RequiredKeyPermission(b.type, b.mode), ref |-> r, slot |-> ""])
    \/ \E b \in Use.binds, id \in Use.resources :
        \E s \in ResolveKeySlot(c, id) :
            CreateContext(w, c, b, <<[provs |-> s.provs]>>,
                          [need |-> RequiredKeyPermission(b.type, b.mode), ref |-> NoRef, slot |-> s.name])

\* Faulty variant: a key of any provider is bound.
BindsTo_AnyProvider(c, p) == TRUE

\* BindKeyToContext: the key's provider is that of the context.
BindsTo(c, p) == p = ctx[c].provider

AuthorizesSlot(c, s, need) ==
    /\ HasPermission(s.ops, need)
    /\ \E p \in GetPrimaryProviderId(s) : BindsTo(c, p) /\ HasSlotHandler(p)

AuthorizesKey(c, r, need) ==
    /\ Attached(r)
    /\ HasPermission(GrantedPermissionsFor(KeyOf(r), need, "none"), need)
    /\ BindsTo(c, KeyOf(r).provider)

\* BindAndAuthorizeKey; when it fails the node of the context is deleted again.
BindAndAuthorizeKey(w) ==
    LET c == call[w].ctx  a == call[w].arg IN
    /\ Stage(w, "bind")
    /\ DataManagerFree
    /\ \/ /\ a.slot = "" /\ AuthorizesKey(c, a.ref, a.need)
          /\ BindLoadedKey(w, a.ref, c)
          /\ call' = [call EXCEPT ![w].stage = "bound"]
       \/ \E s \in Slots :
          /\ s.name = a.slot /\ AuthorizesSlot(c, s, a.need)
          /\ LoadOrShare(w, c, <<s.provs[1], s.name>>)
          /\ call' = [call EXCEPT ![w].stage = "bound"]
       \/ /\ IF a.slot = "" THEN ~AuthorizesKey(c, a.ref, a.need)
             ELSE \A s \in Slots : s.name = a.slot => ~AuthorizesSlot(c, s, a.need)
          /\ call' = [call EXCEPT ![w].stage = "cleanup"]
          /\ UNCHANGED vars
    /\ KeepMaterial
    /\ UNCHANGED <<provVars, app, world, phase, config, slots, ctx, obj, guard, losses>>

\* The handler's InitializeContext; it may refuse.
InitializeContext(w) ==
    /\ Stage(w, "init")
    /\ \/ /\ call' = [call EXCEPT ![w].stage = "reply", ![w].ok = TRUE]
          /\ ctx' = [ctx EXCEPT ![call[w].ctx].ops = call[w].arg.need]
       \/ /\ call[w].arg.need # {}
          /\ call' = [call EXCEPT ![w].stage = "cleanup"]
          /\ UNCHANGED ctx
    /\ UNCHANGED <<vars, provVars, app, world, phase, config, slots, mat, obj, guard, losses>>

\* deleteNode of a context; its keys' nodes go with it.
DeleteContext(w, c, next) ==
    /\ \/ CloseContext(w, c) /\ ctx' = [ctx EXCEPT ![c] = NoContextNode]
       \/ c \notin contexts /\ DataManagerFree /\ UNCHANGED <<vars, ctx>>
    /\ call' = [call EXCEPT ![w] = next]
    /\ KeepMaterial
    /\ UNCHANGED <<provVars, app, world, phase, config, slots, guard, losses>>

CleanupContext(w) ==
    /\ Stage(w, "cleanup")
    /\ DeleteContext(w, call[w].ctx, [call[w] EXCEPT !.stage = "reply"])
    /\ UNCHANGED obj

----------------------------------------------------------------------------
(* Calls on a key-management context; c is open and the client's own.      *)

Calls(w, c) == Ready(w) /\ c \in Use.contexts /\ obj[c] = "open" /\ ctx[c].type = "KEY"

DaemonUnchanged == UNCHANGED <<provVars, app, world, phase, config, slots, ctx, obj, guard, losses>>

\* The keys hs that the executor got are registered, or the request fails.
RegisterOutput(w, c, hs, asked, pub, request) ==
    /\ \/ /\ hs # {} /\ c \in contexts
          /\ RegisterEphemeralKey(w, c)
          /\ \E h \in hs : MakeMaterial(w, Material(h, asked, pub, ""))
          /\ call' = [call EXCEPT ![w] = [request EXCEPT !.stage = "run"]]
       \/ /\ hs = {} \/ c \notin contexts
          /\ Refused(w, request)
    /\ DaemonUnchanged

KeyGenerate(w, c) ==
    /\ Calls(w, c)
    /\ nextId <= Use.keys
    /\ \E g \in Use.gens :
        RegisterOutput(w, c, OutputOf(ctx[c].provider,
                                      HandleGenerate(ctx[c].provider, GenerateKeyRequest(g))),
                       g.perms, g.pub, Call("generate", c, NoRef, NoKeyAsked, "run"))

KeyImport(w, c) ==
    /\ Calls(w, c)
    /\ nextId <= Use.keys
    /\ \E i \in Use.imports : \E request \in ImportKeyRequest(i) :
        RegisterOutput(w, c, HandleImport(ctx[c].provider, request),
                       i.perms, Set(i.perms), Call("import", c, NoRef, NoKeyAsked, "run"))

\* HandleLoad: through the slot handler of the context's provider.
KeyLoad(w, c) ==
    /\ Calls(w, c)
    /\ nextId <= Use.keys
    /\ \E id \in Use.resources :
        \E s \in ResolveKeySlot(c, id) :
            IF c \in contexts /\ HasSlotHandler(ctx[c].provider)
            THEN /\ LoadOrShare(w, c, <<ctx[c].provider, s.name>>)
                 /\ call' = [call EXCEPT ![w] = Call("load", c, NoRef, NoKeyAsked, "run")]
                 /\ KeepMaterial
            ELSE Refused(w, Call("load", c, NoRef, NoKeyAsked, "reply"))
    /\ DaemonUnchanged

\* What a request on a key asks for: operation and export format.
Needed(op, format) == IF op = "export" THEN <<"export", format>> ELSE <<"agree", "none">>

\* ExportKey, EncapsulateKey and DecapsulateKey start with AcquireKeyForOperation.
KeyOperation(w, c, r, op, format) ==
    /\ Calls(w, c)
    /\ guard[r].state \in {"held", "unsure"} /\ ClientOf(guard[r].ctx) = ClientOf(c)
    /\ \E request \in CASE op = "export" -> ExportKeyRequest(guard[r].type, r, format)
                        [] op = "encapsulate" -> EncapsulateKeyRequest(guard[r].type, r, "ML-KEM-512")
                        [] op = "decapsulate" -> DecapsulateKeyRequest(guard[r].type, r, "ML-KEM-512") :
        \/ /\ c \in contexts /\ Attached(r)
           /\ MayUse(ctx[c].provider, KeyOf(r), Needed(op, format)[1], Needed(op, format)[2])
           /\ AcquireKeyForOperation(w, c, r)
           /\ call' = [call EXCEPT ![w] = [Call(op, c, r, NoKeyAsked, "run") EXCEPT !.request = request]]
           /\ KeepMaterial
        \/ /\ DataManagerFree
           /\ ~ (/\ c \in contexts /\ Attached(r)
                 /\ MayUse(ctx[c].provider, KeyOf(r), Needed(op, format)[1], Needed(op, format)[2]))
           /\ Refused(w, Call(op, c, r, NoKeyAsked, "reply"))
    /\ DaemonUnchanged

\* The operation itself, on the entry that was acquired.
UseKey(w) ==
    LET c == call[w].ctx
        p == ctx[c].provider
        h == mat[job[w].using].handle
        request == call[w].request
    IN
    /\ At(w, "use")
    /\ \/ /\ call[w].op = "export"
          /\ KeyUsed(w)
          /\ mat' = [mat EXCEPT ![job[w].using].out = @ \cup HandleExportKey(p, h, request)]
          /\ UNCHANGED call
       \/ /\ call[w].op # "export"
          /\ LET hs == IF call[w].op = "encapsulate" THEN HandleEncapsulateKey(p, h, request)
                                                     ELSE HandleDecapsulateKey(p, h, request)
             IN \/ /\ hs # {}
                   /\ RegisterEphemeralKey(w, c)
                   /\ \E s \in hs : MakeMaterial(w, Material(s, {"derive"}, Unset, ""))
                \/ hs = {} /\ KeyUsed(w) /\ KeepMaterial
          /\ UNCHANGED call
    /\ DaemonUnchanged

----------------------------------------------------------------------------
(* Guards: Release keeps the guard active unless it succeeded, the         *)
(* destructor asks once.                                                   *)

Unreferenced(r) == \A w \in Worker : call[w].op \notin {"release", "drop"} \/ call[w].ref # r

\* A key whose context or node is gone is refused.
HandleRelease(w, r, op) ==
    \/ /\ guard[r].ctx \in contexts /\ Attached(r)
       /\ DeleteKeyDataNode(w, r)
       /\ KeepMaterial
       /\ call' = [call EXCEPT ![w] =
                     [Call(op, guard[r].ctx, r, NoKeyAsked, "reply") EXCEPT !.ok = TRUE]]
    \/ /\ DataManagerFree
       /\ guard[r].ctx \notin contexts \/ ~Attached(r)
       /\ Refused(w, Call(op, guard[r].ctx, r, NoKeyAsked, "reply"))

KeyRelease(w, r, op) ==
    /\ Ready(w)
    /\ guard[r].state \in {"held", "unsure"} /\ Unreferenced(r)
    /\ guard' = [guard EXCEPT ![r].state = IF op = "drop" THEN "dying" ELSE "unsure"]
    /\ HandleRelease(w, r, op)
    /\ UNCHANGED <<provVars, app, world, phase, config, slots, ctx, obj, losses>>

\* The application destroys its context object between two calls on it.
DropContext(c) ==
    /\ obj[c] = "open"
    /\ \A w \in Worker : call[w].ctx = c /\ call[w].alive => call[w].op \in {"release", "drop"}
    /\ obj' = [obj EXCEPT ![c] = "dropped"]
    /\ UNCHANGED <<vars, provVars, app, world, phase, config, slots, ctx, mat, guard, call, losses>>

\* Faulty variant: the guards do not own the context's callback.
CallbackGone_NotOwned(c) == obj[c] = "dropped"

\* The callback that closes the context is owned by the context object and by
\* the callback of each guard.
CallbackGone(c) == obj[c] = "dropped" /\ \A r \in Ref : guard[r].ctx # c

\* ~ContextReleaseCallbackImpl: CTX_CLOSE.
CloseDropped(w, c) ==
    /\ Ready(w)
    /\ CallbackGone(c)
    /\ DeleteContext(w, c, [Call("close", c, NoRef, NoKeyAsked, "reply") EXCEPT !.ok = TRUE])
    /\ obj' = [obj EXCEPT ![c] = "closing"]

----------------------------------------------------------------------------
(* The steps of a job, and the reply.                                      *)

LoadSucceeds(w) ==
    At(w, "load") /\ \E s \in Slots : s.name = job[w].slot[2] /\
        \E h \in LoadSlotKey(job[w].slot[1], World.fs, World.objects, s) :
            LoadKey(w) /\ MakeMaterial(w, Material(h, {}, Unset, s.name))

\* There is no key, or the token has no session left.
LoadFails(w) ==
    /\ LoadKeyFails(w)
    /\ \/ job[w].slot[1] = "pkcs11"
       \/ \A s \in Slots : s.name = job[w].slot[2] =>
            LoadSlotKey(job[w].slot[1], World.fs, World.objects, s) = {}
    /\ KeepMaterial

\* A node id is never used twice, so a guard's id is not given to another node.
ConstructNode(w) ==
    /\ ConstructKeyDataNode(w)
    /\ guard[job'[w].ref].state = "none"
    /\ \A v \in Worker : call[v].ref # job'[w].ref /\ call[v].out # job'[w].ref
    /\ KeepMaterial

JobStep(w) ==
    /\ \/ LoadSucceeds(w)
       \/ LoadFails(w)
       \/ ConstructNode(w)
       \/ /\ \/ FindSlotRegistryId(w) \/ Recheck(w) \/ RegisterSlotKey(w) \/ FindWinnerId(w)
             \/ FindById(w) \/ AttachKeyDataNode(w) \/ AttachFails(w) \/ ReleaseRef(w)
             \/ Unregister(w) \/ AccessorGone(w)
          /\ KeepMaterial
    /\ UNCHANGED <<provVars, app, world, phase, config, slots, ctx, obj, guard, call, losses>>

\* The job is done: its result goes into the reply, or the mediator goes on.
JobDone(w) ==
    /\ Leave(w)
    /\ call' = [call EXCEPT ![w] =
         CASE @.stage = "run" -> [@ EXCEPT !.stage = "reply", !.out = job[w].out]
           [] @.stage = "bound" -> [@ EXCEPT !.stage = IF job[w].out # NoRef THEN "init" ELSE "cleanup"]
           [] OTHER -> @]
    /\ KeepMaterial
    /\ UNCHANGED <<provVars, app, world, phase, config, slots, ctx, obj, guard, losses>>

\* What the client makes of the reply, or of having none (ok FALSE, no node).
GuardAfter(k, ok, out) ==
    CASE k.op \in {"generate", "import", "load", "encapsulate", "decapsulate"} /\ out # NoRef ->
            [guard EXCEPT ![out] =
                [state |-> "held", ctx |-> k.ctx,
                 type |-> IF k.op \in {"encapsulate", "decapsulate"} THEN "shared" ELSE "key"]]
      [] k.op = "drop" \/ (k.op = "release" /\ ok) -> [guard EXCEPT ![k.ref] = NoGuard]
      [] OTHER -> guard

ObjectAfter(k, ok) ==
    CASE k.op = "open" -> [obj EXCEPT ![k.ctx] = IF ok THEN "open" ELSE "none"]
      [] k.op = "close" -> [obj EXCEPT ![k.ctx] = "none"]
      [] OTHER -> obj

Reply(w) ==
    LET k == call[w] IN
    /\ Stage(w, "reply")
    /\ call' = [call EXCEPT ![w] = NoCall]
    /\ guard' = IF k.alive THEN GuardAfter(k, k.ok, k.out) ELSE guard
    /\ obj' = IF k.alive THEN ObjectAfter(k, k.ok) ELSE obj
    /\ UNCHANGED <<vars, provVars, app, world, phase, config, slots, ctx, mat, losses>>

\* The connection fails the call while the daemon works on it.
ReplyLost(w) ==
    /\ call[w].alive /\ losses > 0
    /\ losses' = losses - 1
    /\ call' = [call EXCEPT ![w].alive = FALSE]
    /\ guard' = GuardAfter(call[w], FALSE, NoRef)
    /\ obj' = ObjectAfter(call[w], FALSE)
    /\ UNCHANGED <<vars, provVars, app, world, phase, config, slots, ctx, mat>>

----------------------------------------------------------------------------
KmInit ==
    /\ NoKeys /\ contexts = {}
    /\ registered = {} /\ ready = {} /\ byType = {}
    /\ app \in DOMAIN Scenario
    /\ world \in DOMAIN Use.worlds
    /\ phase = "down"
    /\ config = [key |-> NoKeySection, cert |-> NoCertSection]
    /\ slots = [slots |-> <<>>, maps |-> <<>>]
    /\ ctx = [c \in Context |-> NoContextNode]
    /\ mat = [e \in Entry |-> NoMaterial]
    /\ obj = [c \in Context |-> "none"]
    /\ guard = [r \in Ref |-> NoGuard]
    /\ call = [w \in Worker |-> NoCall]
    /\ losses = Use.losses

Start == ReadConfig \/ StartProviders \/ InitializeProviders \/ CreateKeyManagement

ClientCall(w) ==
    \/ \E c \in Context : \/ CreateKeyContext(w, c) \/ CreateOperationContext(w, c)
                          \/ KeyGenerate(w, c) \/ KeyImport(w, c) \/ KeyLoad(w, c)
                          \/ CloseDropped(w, c)
    \/ \E c \in Context, r \in Ref, f \in Use.formats : KeyOperation(w, c, r, "export", f)
    \/ \E c \in Context, r \in Ref : \/ KeyOperation(w, c, r, "encapsulate", "none")
                                     \/ KeyOperation(w, c, r, "decapsulate", "none")
    \/ \E r \in Ref, op \in {"release", "drop"} : KeyRelease(w, r, op)

Serve(w) ==
    \/ BindAndAuthorizeKey(w) \/ InitializeContext(w) \/ CleanupContext(w)
    \/ UseKey(w) \/ JobStep(w) \/ JobDone(w) \/ Reply(w) \/ ReplyLost(w)

KmNext ==
    \/ Start
    \/ \E w \in Worker : ClientCall(w) \/ Serve(w)
    \/ \E c \in Context : DropContext(c)

KmSpec == KmInit /\ [][KmNext]_allVars

----------------------------------------------------------------------------
(* Properties.                                                             *)

\* The slot entry that counts: the first of its name with a known algorithm, as
\* the file has it.
FileSlots ==
    LET path == IF World.env # "" THEN World.env ELSE DefaultPaths[1]
    IN IF World.stat[path] = "ok" /\ World.files[path].hasKey THEN World.files[path].key.slots ELSE <<>>

Effective(name) ==
    LET these == SelectSeq(FileSlots, LAMBDA e : e.slot_name = name /\ GetAlgorithmDescriptor(e.algorithm) # {})
    IN these[1]

\* What a request loads is a slot of a provider, and every slot has a name.
SlotsKnown ==
    /\ \A w \in Worker : job[w].pc \in {"found", "load"} => job[w].slot \in Slot
    /\ \A s \in Slots : s.name # ""

\* ParseConfig accepts a file as a whole or main ends: a daemon that serves has
\* every slot the file defines for an algorithm it knows, with the providers,
\* the users and the deployment of its first definition, and no other slot; its
\* requests load keys of these slots only.
StartsOnlyWhole ==
    /\ SlotsKnown
    /\ phase = "up" =>
        /\ {s.name : s \in Slots} =
              {e.slot_name : e \in {x \in Range(FileSlots) : GetAlgorithmDescriptor(x.algorithm) # {}}}
        /\ \A s \in Slots :
            LET e == Effective(s.name) IN
            /\ s.alg = e.algorithm /\ s.names = e.provider_names
            /\ s.uids = e.allowed_uids.ids /\ s.path = e.deployment_path

\* May op be done with the key by what the client, or the configuration of the
\* slot, asked for?  What needs the public half only is governed by the public
\* permissions, and without those it is free.
MayDo(m, op, format) ==
    IF m.slot # ""
    THEN LET tokens == Effective(m.slot).tokens IN
         tokens = <<"ALL">> \/ \E t \in Range(tokens) :
            <<t, op>> \in {<<"MAC", "mac">>, <<"ENCRYPT", "encrypt">>, <<"DECRYPT", "decrypt">>,
                          <<"SIGN", "sign">>, <<"VERIFY", "verify">>}
    ELSE \/ op \in m.asked
         \/ /\ m.handle.alg.type \in {"ecc", "rsa", "ed25519", "mldsa", "mlkem"}
            /\ \/ op \in {"verify", "encrypt", "wrap"}
               \/ op = "export" /\ format = "raw" /\ m.handle.alg.type = "ecc"
            /\ m.pub.set => op \in m.pub.ops

Live(e) == ~FreshEntry(e)

\* The permissions of a key survive the way through request, parser, factory,
\* handle and registry: nothing is ever permitted that was not asked for, the
\* secret half goes out only for a symmetric key with kExport, a context is
\* authorised only for what its key's owner granted, and it has the key of a slot
\* only if the slot's first definition names its client (access_policy_enforcer.cpp).
GrantNeverGrows ==
    /\ \A e \in Entry : Live(e) =>
        /\ \A op \in Op, format \in {"none", "raw"} :
            Permitted(mat[e].handle, op, format) => MayDo(mat[e], op, format)
        /\ "secret" \in mat[e].out => /\ MayDo(mat[e], "export", "none")
                                      /\ mat[e].handle.alg.type \in {"secret", "aes"}
    /\ \A r \in Ref : Attached(r) =>
        LET m == mat[node[r].entry] IN
        /\ \A op \in ctx[node[r].ctx].ops : MayDo(m, op, "none")
        /\ m.slot # "" => ClientOf(node[r].ctx) \in Effective(m.slot).allowed_uids.ids

\* BindKeyToContext: the keys below a context are keys of the provider whose
\* handler the context has, however slots and preferences name others.
BoundKeyOfProvider ==
    \A r \in Ref : Attached(r) => KeyOf(r).provider = ctx[node[r].ctx].provider

\* key_management_context_impl.cpp: a guard owns its key.  As long as no release
\* was tried, the key is in the daemon and its context is open, even if the
\* application has destroyed the context object.
GuardedKeyAlive ==
    \A r \in Ref : guard[r].state = "held" =>
        /\ Attached(r)
        /\ node[r].ctx = guard[r].ctx
        /\ guard[r].ctx \in contexts

=============================================================================
