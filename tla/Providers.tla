----------------------------- MODULE Providers -----------------------------
(***************************************************************************)
(* The providers of the daemon: ProviderManagerFactory, which creates them *)
(* when the daemon starts, and ProviderManager, which finds one by id, by  *)
(* type or by capability and initialises late one that failed at start     *)
(* (daemon/provider).                                                      *)
(*                                                                         *)
(* A provider is identified by its backend; ids are given in the order of  *)
(* the backends.  Whether an initialisation succeeds is the environment's  *)
(* choice.  The daemon never fills ProviderInitConfig, so every provider   *)
(* is allowed, none is required, and the default is resolved.              *)
(***************************************************************************)
EXTENDS KeyMaterial, Functions

CONSTANTS ActiveBackends   \* the backends of this build, in the order of the list

VARIABLES
    registered,  \* m_providers
    ready,       \* the providers whose m_initialized is set
    byType       \* m_type_to_provider, as a set of <<type, provider>>

provVars == <<registered, ready, byType>>

TypeOf(p) == CASE p = "openssl" -> "SOFTWARE"
               [] p = "primula" -> "SPECIALIZED"
               [] p = "pkcs11" -> "HARDWARE"

CapabilitiesOf(p) == CASE p = "openssl" -> {"crypto", "key", "cert"}
                       [] p = "primula" -> {"crypto", "key"}
                       [] p = "pkcs11" -> {"crypto", "key"}

\* IavPrimulaProvider::InitialiseBackend has nothing that could fail.
MayFail(p) == p # "primula"

\* The backends that have an adapter.
ASSUME BackendsKnown == Range(ActiveBackends) \subseteq {"openssl", "primula", "pkcs11"}

----------------------------------------------------------------------------
(* A lookup tries to initialise what it looks at (EnsureProviderInitialized,*)
(* ScoreProvider::Initialize): it ends with some of them ready.            *)

EnsureInitialized(tried) ==
    {rdy \in SUBSET (ready \cup tried) : ready \subseteq rdy /\ \A p \in tried : MayFail(p) \/ p \in rdy}

\* The first element of a list that is in S, if there is one.
FirstOf(list, S) ==
    {list[i] : i \in {k \in DOMAIN list : list[k] \in S /\ \A j \in 1..k-1 : list[j] \notin S}}

\* Of the providers ps, in the order of their ids: the first one of the first
\* preferred type that has one, or else the first.
Preferred(ps, order) ==
    LET types == FirstOf(order, {TypeOf(p) : p \in ps})
    IN FirstOf(ActiveBackends, IF types = {} THEN ps ELSE {p \in ps : TypeOf(p) \in types})

\* The default provider: an initialised one if there is any.
ResolveDefaultProviderName(ps, rdy) ==
    Preferred(IF ps \cap rdy # {} THEN ps \cap rdy ELSE ps, <<"HARDWARE", "SOFTWARE">>)

\* Each type designates its provider, and DEFAULT the default one.
BuildTypeMappings(ps, rdy) ==
    {<<TypeOf(p), p>> : p \in ps}
        \cup {<<"DEFAULT", p>> : p \in ResolveDefaultProviderName(ps, rdy)}

\* The PKCS#11 factory registers its tokens when the module can be initialised.
CreateProviders ==
    /\ registered = {}
    /\ registered' \in {Range(ActiveBackends), Range(ActiveBackends) \ {"pkcs11"}}
    /\ UNCHANGED <<ready, byType>>

\* Initialize, with InitializeAll: a provider that fails is not fatal.
Initialize ==
    /\ \E rdy \in EnsureInitialized(registered) :
        /\ ready' = rdy
        /\ byType' = BuildTypeMappings(registered, rdy)
    /\ UNCHANGED registered

----------------------------------------------------------------------------
(* The lookups: each gives the provider found, {} when there is none, and  *)
(* the providers that are ready afterwards.                                *)

Found(ps, rdy) == [found |-> ps \cap rdy, ready |-> rdy]

GetProvider(p) ==
    {Found({p}, rdy) : rdy \in EnsureInitialized({p} \cap registered)}

GetProviderOfType(type) ==
    LET ps == {m[2] : m \in {x \in byType : x[1] = type}}
    IN {Found(ps, rdy) : rdy \in EnsureInitialized(ps)}

CapabilityPreference(cap) ==
    IF cap = "cert" THEN <<"SOFTWARE", "HARDWARE">> ELSE <<"HARDWARE", "SOFTWARE">>

\* Every capable provider is tried, the preferred one of the ready ones is taken.
GetProviderForCapability(cap) ==
    LET capable == {p \in registered : cap \in CapabilitiesOf(p)}
    IN {Found(Preferred(capable \cap rdy, CapabilityPreference(cap)), rdy) :
           rdy \in EnsureInitialized(capable)}

IsProviderCompatibleWithType(p, type, rdy) ==
    p \in rdy /\ (type = "DEFAULT" \/ TypeOf(p) = type)

----------------------------------------------------------------------------
(* What a new context needs: the permission its key must grant, the        *)
(* provider that serves it and the handler of that provider (the mediator's *)
(* ResolveProviderAndCreateHandler, KeyManagementService's                 *)
(* ResolveTargetProvider, and the handler factories).                      *)
(*                                                                         *)
(* A context is asked for by [type, alg, mode, pref].  A key it is to be   *)
(* bound to is [slot, provs, handle]: of a slot the providers, of a loaded *)
(* key its own one.                                                        *)

\* The permissions the context needs of a key; {} for a context without key.
RequiredKeyPermission(type, mode) ==
    CASE type = "MAC" -> {"mac"}
      [] type = "SIGN" -> {"sign"}
      [] type = "VERIFY" -> {"verify"}
      [] type = "CIPHER" -> IF mode \in {"encrypt", "decrypt"} THEN {mode}
                            ELSE {"encrypt", "decrypt"}
      [] OTHER -> {}

RequiredProviderCapability(type) == IF type = "KEY" THEN "key" ELSE "none"

DecodeProviderTypePreference(value) ==
    CASE value = 0 -> <<"DEFAULT">>
      [] value = 1 -> <<"HARDWARE">>
      [] value = 2 -> <<"SOFTWARE">>
      [] value = 3 -> <<"HARDWARE", "SOFTWARE">>
      [] value = 4 -> <<"SOFTWARE", "HARDWARE">>
      [] OTHER -> <<>>

ContextTakesAlgorithm(type) == type # "KEY"

----------------------------------------------------------------------------
(* The handler factories: which contexts a provider has a handler for.     *)

OpenSslCreateHandler(type, alg) ==
    \/ type = "HASH" /\ alg.category = "hash"
    \/ type = "MAC" /\ alg.category = "mac" /\ alg.type = "secret"
    \/ type = "CIPHER" /\ alg.category = "cipher"
    \/ type \in {"SIGN", "VERIFY"} /\ alg.category = "signature"
                                   /\ alg.type \in {"ecc", "rsa", "ed25519"}

PrimulaCreateHandler(type, alg) == type \in {"SIGN", "VERIFY"} /\ alg.type = "mldsa"

\* HASH and MAC only, when the token has the mechanism.
Pkcs11CreateHandler(type, alg) ==
    \/ type = "HASH" /\ alg.category = "hash"
    \/ type = "MAC" /\ alg.category = "mac" /\ alg.type = "secret"

CreateHandler(p, ask) ==
    \/ ~ContextTakesAlgorithm(ask.type)
    \/ \E alg \in GetAlgorithmDescriptor(ask.alg) :
        CASE p = "openssl" -> OpenSslCreateHandler(ask.type, alg)
          [] p = "primula" -> PrimulaCreateHandler(ask.type, alg)
          [] p = "pkcs11" -> Pkcs11CreateHandler(ask.type, alg)

\* A token may lack the mechanism, which lets the next provider try, or have no
\* session left, which does not.
HandlerOutcomes(p, ask) ==
    IF ~CreateHandler(p, ask) THEN {"next"}
    ELSE IF p = "pkcs11" /\ ContextTakesAlgorithm(ask.type) THEN {"served", "next", "failed"}
    ELSE {"served"}

----------------------------------------------------------------------------
(* The provider.                                                           *)

\* The provider that has the key, if it is of the type: of a slot the first one,
\* by default the primary.
ResolveTargetProvider(provs, type) ==
    FirstOf(provs, {p \in Range(provs) :
                       type = "DEFAULT" \/ IsProviderCompatibleWithType(p, type, ready)})

\* What one type of the preference gives: [found, ready].
ResolveProvider(ask, key, type) ==
    IF key # <<>>
    THEN LET target == ResolveTargetProvider(key[1].provs, type)
         IN IF target = {} THEN {Found({}, ready)} ELSE UNION {GetProvider(p) : p \in target}
    ELSE IF type = "DEFAULT" /\ RequiredProviderCapability(ask.type) # "none"
         THEN GetProviderForCapability(RequiredProviderCapability(ask.type))
         ELSE GetProviderOfType(type)

\* One round of the loop: the provider serves the context, the next type may be
\* tried (IsFallbackEligible), or the creation fails.
Candidate(ask, key, type) ==
    UNION {IF \E p \in r.found : RequiredProviderCapability(ask.type) \in CapabilitiesOf(p) \cup {"none"}
           THEN {[found |-> r.found, ready |-> r.ready, verdict |-> v] :
                    v \in UNION {HandlerOutcomes(p, ask) : p \in r.found}}
           ELSE {[found |-> {}, ready |-> r.ready, verdict |-> "next"]} :
              r \in ResolveProvider(ask, key, type)}

\* The provider of the first type, or else that of the second; found is empty
\* when the context cannot be created.
ResolveProviderAndCreateHandler(ask, key) ==
    LET types == DecodeProviderTypePreference(ask.pref)
        first == IF types = <<>> THEN {} ELSE Candidate(ask, key, types[1])
        second == IF Len(types) < 2 THEN {} ELSE Candidate(ask, key, types[2])
        result(c) == Found(IF c.verdict = "served" THEN c.found ELSE {}, c.ready)
    IN UNION {IF c.verdict = "next" /\ second # {}
              THEN {Found(result(d).found, c.ready \cup d.ready) : d \in second}
              ELSE {result(c)} : c \in first}
=============================================================================
