----------------------------- MODULE CertCatalog -----------------------------
(***************************************************************************)
(* What CertManagementModule::Create makes of the configuration: the slot  *)
(* registry, the trust stores, the application resources of each user and  *)
(* the choice of the certificate parser (daemon/cert_management).  Nothing *)
(* of it changes while the daemon runs, so these are operators on          *)
(* constants.  Names are unique in the registry and in the trust store     *)
(* manager: a name stands for the handle, which is its index.              *)
(***************************************************************************)
EXTENDS Integers, Sequences, Functions

CONSTANTS
    SlotEntries,    \* sequence of [name, backend]
    StoreEntries,   \* sequence of [name, members, loads]; members: sequence of
                    \* [slot, kind]; loads: LoadState reads the persisted state
    SlotMappings,   \* sequence of [uid, resource, name]: application resources
    StoreMappings,
    Provider,       \* the providers by name: [certs, parser, slots : BOOLEAN]
    ParserName,     \* the configured parser provider, or NoName
    NoName          \* no name, no slot, no store

----------------------------------------------------------------------------
(* Certificate slots.                                                      *)

\* RegisterSlot ignores an entry whose name is taken.
Slot == {SlotEntries[i].name : i \in DOMAIN SlotEntries}

First(S) == CHOOSE i \in S : \A j \in S : i <= j
Last(S) == CHOOSE i \in S : \A j \in S : j <= i

SlotConfig(s) == SlotEntries[First({i \in DOMAIN SlotEntries : SlotEntries[i].name = s})]

\* By name; CheckSlotAccess admits every reader.
ResolveSlot(name) == IF name \in Slot THEN name ELSE NoName

\* The mappings of a resource for a user.
Mapped(mappings, uid, r) == {i \in DOMAIN mappings : mappings[i].uid = uid /\ mappings[i].resource = r}

\* The first mapping counts: RegisterAppResource ignores the others.
SlotOfResource(uid, r) ==
    LET found == Mapped(SlotMappings, uid, r) IN
    IF found = {} THEN NoName ELSE ResolveSlot(SlotMappings[First(found)].name)

----------------------------------------------------------------------------
(* The parser, and the handler of a slot.                                  *)

\* The configured provider, or any that has the capability.
ParserProviders ==
    IF ParserName # NoName THEN {ParserName} \cap DOMAIN Provider
    ELSE {p \in DOMAIN Provider : Provider[p].certs}

ResolveCertParser == \E p \in ParserProviders : Provider[p].certs /\ Provider[p].parser

\* SlotHandlerFactory::Create.
Create(s) ==
    /\ ResolveCertParser
    /\ \/ SlotConfig(s).backend = "DEFAULT"
       \/ SlotConfig(s).backend \in DOMAIN Provider /\ Provider[SlotConfig(s).backend].slots

\* A handler is made on first use and kept, so a slot has one or never gets one.
GetOrCreate(s) == s \in Slot /\ Create(s)

----------------------------------------------------------------------------
(* Trust stores.                                                           *)

Store == {StoreEntries[i].name : i \in DOMAIN StoreEntries}

StoreConfig(t) == StoreEntries[First({i \in DOMAIN StoreEntries : StoreEntries[i].name = t})]

MemberSlots(t) == {m.slot : m \in Range(StoreConfig(t).members)}

\* ValidateMembers: every member is a slot, listed once.
ValidateMembers(t) ==
    /\ MemberSlots(t) \subseteq Slot
    /\ \A i, j \in DOMAIN StoreConfig(t).members :
          StoreConfig(t).members[i].slot = StoreConfig(t).members[j].slot => i = j

\* A store whose persisted state cannot be read is invalid as well.
ValidStore(t) == ValidateMembers(t) /\ StoreConfig(t).loads

\* The last mapping of a resource counts; an invalid store is not resolved.
StoreOfResource(uid, r) ==
    LET found == Mapped(StoreMappings, uid, r) IN
    IF found # {} /\ StoreMappings[Last(found)].name \in Store /\ ValidStore(StoreMappings[Last(found)].name)
    THEN StoreMappings[Last(found)].name ELSE NoName

\* TrustStoreManager::Load refuses a name that is empty or taken.
StoresLoad ==
    /\ NoName \notin Store
    /\ \A i, j \in DOMAIN StoreEntries : StoreEntries[i].name = StoreEntries[j].name => i = j

\* A configured parser must be there at startup; another one is looked for when
\* a slot is first used.
ModuleCreated == (ParserName # NoName => ResolveCertParser) /\ StoresLoad

=============================================================================
