---------------------------- MODULE DaemonConfig ----------------------------
(***************************************************************************)
(* The configuration the daemon starts with: Config::ParseConfig, which    *)
(* finds the file, and FlatBufferConfigParser, which reads its two         *)
(* sections (daemon/config).                                               *)
(*                                                                         *)
(* A section is the sequences of its tables.  A text that the file does    *)
(* not have is Absent; "" stands for a blank text and for one with control *)
(* characters.  A set holds the parsed value or, empty, is an error.       *)
(***************************************************************************)
EXTENDS Sequences, TLC

Absent == "absent"

HasText(text) == text \notin {Absent, ""}

\* An optional text: absent, which means the default, or a real one.
OptionalText(text) == text # ""

Default(text, value) == IF text = Absent THEN value ELSE text

\* A list of tables is accepted as a whole or not at all.
ParseAll(list, WellFormed(_), Parsed(_)) ==
    IF \A i \in DOMAIN list : WellFormed(list[i])
    THEN {[i \in DOMAIN list |-> Parsed(list[i])]} ELSE {}

Same(entry) == entry

----------------------------------------------------------------------------
(* Key slots and their application mappings.                               *)

\* The two lists of user ids are [set, ids], set when the vector is there.
WellFormedSlot(e) ==
    /\ HasText(e.slot_name) /\ HasText(e.algorithm)
    /\ e.provider_names # <<>>
    /\ \A i \in DOMAIN e.provider_names : HasText(e.provider_names[i])
    /\ HasText(e.allowed_operations)
    /\ e.allowed_uids.set /\ e.allowed_write_uids.set
    /\ HasText(e.deployment_path) /\ HasText(e.deployment_format)

\* Faulty variant: an entry that is not well-formed is skipped.
ParseSlotEntries_Skips(entries) == {SelectSeq(entries, WellFormedSlot)}

ParseSlotEntries(entries) == ParseAll(entries, WellFormedSlot, Same)

\* target: the slot_name or, of a trust store, the trust_store_name.
WellFormedMapping(e) == HasText(e.app_resource_id) /\ HasText(e.target)

ParseAppKeySlotMappings(maps) == ParseAll(maps, WellFormedMapping, Same)

ParseKeySlotConfig(section) ==
    {[slots |-> slots, maps |-> maps] :
        slots \in ParseSlotEntries(section.slots),
        maps \in ParseAppKeySlotMappings(section.maps)}

----------------------------------------------------------------------------
(* Certificate slots, trust stores and their application mappings.         *)

WellFormedCertSlot(e) ==
    /\ HasText(e.slot_name) /\ HasText(e.deployment_path)
    /\ OptionalText(e.deployment_format) /\ OptionalText(e.storage_backend)
    /\ e.integrity_policy \in {"disabled", "required"}

ParseCertSlotEntries(entries) ==
    ParseAll(entries, WellFormedCertSlot,
             LAMBDA e : [e EXCEPT !.deployment_format = Default(@, "kv"),
                                  !.storage_backend = Default(@, "DEFAULT")])

\* The path of a store may be empty, the slots of its members may not.
WellFormedTrustStore(e) ==
    /\ HasText(e.store_name)
    /\ e.deployment_path # Absent
    /\ OptionalText(e.deployment_format)
    /\ e.conditional_slot_init \in {"accept_current", "disable"}
    /\ \A i \in DOMAIN e.members :
        /\ HasText(e.members[i].slot_name)
        /\ e.members[i].kind \in {"static", "mutable", "conditional"}

ParseTrustStoreEntries(entries) ==
    ParseAll(entries, WellFormedTrustStore,
             LAMBDA e : [e EXCEPT !.deployment_format = Default(@, "kv")])

ParseAppCertSlotMappings(maps) == ParseAll(maps, WellFormedMapping, Same)

ParseAppTrustStoreMappings(maps) == ParseAll(maps, WellFormedMapping, Same)

ParseCertSlotConfig(section) ==
    {[slots |-> slots, stores |-> stores, maps |-> maps, storeMaps |-> storeMaps] :
        slots \in ParseCertSlotEntries(section.slots),
        stores \in ParseTrustStoreEntries(section.stores),
        maps \in ParseAppCertSlotMappings(section.maps),
        storeMaps \in ParseAppTrustStoreMappings(section.storeMaps)}

----------------------------------------------------------------------------
(* The sections of a file, and the file.                                   *)

NoKeySection == [slots |-> <<>>, maps |-> <<>>]
NoCertSection == [slots |-> <<>>, stores |-> <<>>, maps |-> <<>>, storeMaps |-> <<>>]

\* A file without the section leaves the feature disabled.
ParseKeyManagementConfig(file) ==
    IF file.hasKey THEN ParseKeySlotConfig(file.key) ELSE {NoKeySection}

ParseCertManagementConfig(file) ==
    IF file.hasCert THEN ParseCertSlotConfig(file.cert) ELSE {NoCertSection}

\* LoadFile: it can be read, and the FlatBuffers verifier accepts it.
LoadFile(file) == IF file.readable /\ file.verified THEN {file} ELSE {}

\* The path of the environment must exist; of the default paths the first that
\* exists is taken, and none at all is an empty configuration.
FindConfigFile(env, defaults, stat) ==
    LET present == SelectSeq(defaults, LAMBDA p : stat[p] # "absent") IN
    IF env # "" THEN IF stat[env] = "ok" THEN {env} ELSE {}
    ELSE IF present = <<>> THEN {"none"}
    ELSE IF stat[Head(present)] = "ok" THEN {Head(present)} ELSE {}

\* ParseConfig: the key section and then the certificate section.
ParseConfig(env, defaults, stat, files) ==
    UNION {IF path = "none" THEN {[key |-> NoKeySection, cert |-> NoCertSection]}
           ELSE {[key |-> key, cert |-> cert] :
                    key \in UNION {ParseKeyManagementConfig(f) : f \in LoadFile(files[path])},
                    cert \in UNION {ParseCertManagementConfig(f) : f \in LoadFile(files[path])}} :
              path \in FindConfigFile(env, defaults, stat)}

=============================================================================
