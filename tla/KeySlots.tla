----------------------------- MODULE KeySlots ------------------------------
(***************************************************************************)
(* Key slots: the SlotRegistry that ConfigDrivenSlotCatalog fills from the *)
(* configuration, the access policy, the deployment file of a slot and the *)
(* slot handlers that load its key (daemon/key_management/slot,            *)
(* common/storage, Pkcs11KeySlotHandler).                                  *)
(*                                                                         *)
(* A file system fs maps a path to [safe, there, lines, data]: whether the *)
(* path is absolute and without "..", whether the file is there, its lines *)
(* if it is a deployment file and the key in it if it is a key file.  A    *)
(* line, without surrounding white space, is [kind, name, value].          *)
(***************************************************************************)
EXTENDS KeyMaterial, Functions

----------------------------------------------------------------------------
(* The catalog.                                                            *)

OpOfToken == [MAC |-> "mac", ENCRYPT |-> "encrypt", DECRYPT |-> "decrypt",
              SIGN |-> "sign", VERIFY |-> "verify"]

\* The tokens between '|'.  NONE and ALL count when they stand alone; a token
\* that is not known grants nothing.
ParseOperationPermission(tokens) ==
    IF tokens = <<"ALL">> THEN Op
    ELSE {OpOfToken[t] : t \in Range(tokens) \cap DOMAIN OpOfToken}

SlotConfig(e) ==
    [name |-> e.slot_name, alg |-> e.algorithm, names |-> e.provider_names, provs |-> <<>>,
     ops |-> ParseOperationPermission(e.tokens), uids |-> e.allowed_uids.ids,
     path |-> e.deployment_path, format |-> e.deployment_format]

\* A name that is registered already is refused.
RegisterSlot(slots, cfg) ==
    IF \E s \in Range(slots) : s.name = cfg.name THEN slots ELSE Append(slots, cfg)

RegisterAppResource(maps, m) ==
    IF \E x \in Range(maps) : x.uid = m.uid /\ x.app_resource_id = m.app_resource_id
    THEN maps ELSE Append(maps, m)

\* What taking the elements of s in their order makes of base.
TakeAll(op(_, _), base, s) ==
    LET taken[i \in 0..Len(s)] == IF i = 0 THEN base ELSE op(taken[i - 1], s[i])
    IN taken[Len(s)]

\* ConfigDrivenSlotCatalog::Load: an entry of an unknown algorithm is left out.
CatalogLoad(key) ==
    [slots |-> TakeAll(LAMBDA slots, e : IF GetAlgorithmDescriptor(e.algorithm) = {} THEN slots
                                         ELSE RegisterSlot(slots, SlotConfig(e)),
                       <<>>, key.slots),
     maps |-> TakeAll(RegisterAppResource, <<>>, key.maps)]

\* ResolveProviderIds: of the names only the providers that are available count.
ResolveProviderIds(slots, available) ==
    [i \in DOMAIN slots |-> [slots[i] EXCEPT !.provs =
        SelectSeq(slots[i].names, LAMBDA p : p \in available)]]

----------------------------------------------------------------------------
(* The policy: whose name of a resource stands for which slot.             *)

CheckSlotAccess(slot, uid) == uid \in slot.uids

ResolveSlot(slots, name, uid) ==
    {s \in Range(slots) : s.name = name /\ CheckSlotAccess(s, uid)}

ResolveAppResource(slots, maps, uid, id) ==
    UNION {ResolveSlot(slots, m.target, uid) :
              m \in {x \in Range(maps) : x.uid = uid /\ x.app_resource_id = id}}

GetPrimaryProviderId(slot) == IF slot.provs = <<>> THEN {} ELSE {slot.provs[1]}

----------------------------------------------------------------------------
(* The deployment file.                                                    *)

IsDeploymentPathSafe(fs, path) == fs[path].safe

IsValidSection(name) == name # ""
IsValidEntry(section, name) == IsValidSection(section) /\ name # ""

\* One line of KvDeploymentLoader::Load; d is what was read so far.
KvLine(d, line) ==
    LET entry == <<d.section, line.name>>
        bad == \/ line.kind = "section" /\ ~IsValidSection(line.name)
               \/ line.kind = "entry" /\ (\/ d.section = ""
                                          \/ entry \in DOMAIN d.entries
                                          \/ ~IsValidEntry(d.section, line.name))
               \/ line.kind = "text"
    IN CASE bad \/ ~d.ok -> [d EXCEPT !.ok = FALSE]
         [] line.kind = "blank" -> d
         [] line.kind = "section" -> [d EXCEPT !.section = line.name]
         [] line.kind = "entry" -> [d EXCEPT !.entries = @ @@ (entry :> line.value)]

KvLoad(lines) == TakeAll(KvLine, [ok |-> TRUE, section |-> "", entries |-> <<>>], lines)

\* DeploymentLoader::Load, and of the result the properties in [key].
DeploymentLoad(fs, slot) ==
    IF IsDeploymentPathSafe(fs, slot.path) /\ slot.format = "kv" /\ fs[slot.path].there
    THEN {d.entries : d \in {x \in {KvLoad(fs[slot.path].lines)} : x.ok}} ELSE {}

KeyProperty(d, name) == IF <<"key", name>> \in DOMAIN d THEN {d[<<"key", name>>]} ELSE {}

----------------------------------------------------------------------------
(* The slot handlers.                                                      *)

\* The file that key_path names, if it is there.
KeyFile(fs, slot) ==
    {p \in UNION {KeyProperty(d, "key_path") : d \in DeploymentLoad(fs, slot)} : p # "" /\ fs[p].there}

\* Its key, with the permissions of the slot.
FileBackedLoadKey(fs, slot) ==
    UNION {OpenSslImportKey([alg |-> alg, perms |-> slot.ops, format |-> "der",
                             data |-> fs[path].data]) :
              alg \in GetAlgorithmDescriptor(slot.alg), path \in KeyFile(fs, slot)}

\* The object of the token that has the label and the class; what it is found
\* for is the slot's algorithm, whatever the object is.
Pkcs11LoadKey(fs, objects, slot) ==
    {Register(alg, slot.ops) :
        alg \in GetAlgorithmDescriptor(slot.alg),
        o \in {x \in objects : \E d \in DeploymentLoad(fs, slot) :
                  /\ x.label \in KeyProperty(d, "pkcs11.label")
                  /\ x.class = IF KeyProperty(d, "pkcs11.object_class") = {} THEN "secret_key"
                               ELSE CHOOSE c \in KeyProperty(d, "pkcs11.object_class") : TRUE}}

HasSlotHandler(p) == p # "primula"

LoadSlotKey(p, fs, objects, slot) ==
    CASE p = "openssl" -> FileBackedLoadKey(fs, slot)
      [] p = "pkcs11" -> Pkcs11LoadKey(fs, objects, slot)

=============================================================================
