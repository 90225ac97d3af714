-------------------------- MODULE MCKeyManagement --------------------------
(* Three uses of the daemon: starting it with many configurations, keys of *)
(* every kind in one thread, and one kind of key in two threads.           *)
EXTENDS KeyManagement

CONSTANTS c1, c2

MCBackends == <<"openssl", "primula", "pkcs11">>

MCSlot == {"openssl", "pkcs11"} \X {"mac", "sig"}

MCPaths == <<"default">>

Uids(ids) == [set |-> TRUE, ids |-> ids]

SlotEntry(name, alg, provs, tokens, uids, path) ==
    [slot_name |-> name, algorithm |-> alg, provider_names |-> provs,
     allowed_operations |-> "text", tokens |-> tokens, allowed_uids |-> Uids(uids),
     allowed_write_uids |-> Uids({}), deployment_path |-> path, deployment_format |-> "kv"]

MacSlot == SlotEntry("mac", "HMAC-SHA256", <<"openssl", "pkcs11">>, <<"MAC", "ALL">>, {1}, "mac.kv")
SigSlot == SlotEntry("sig", "ECDSA-P256", <<"pkcs11", "openssl">>, <<"SIGN">>, {1, 2}, "sig.kv")

Maps(target) == <<[uid |-> 1, app_resource_id |-> "k", target |-> target],
                  [uid |-> 2, app_resource_id |-> "k", target |-> target],
                  [uid |-> 1, app_resource_id |-> "k", target |-> "other"]>>

File(slotList, target) ==
    [readable |-> TRUE, verified |-> TRUE, hasKey |-> TRUE, hasCert |-> FALSE,
     key |-> [slots |-> slotList, maps |-> Maps(target)], cert |-> NoCertSection]

CertSection(kind) ==
    [slots |-> <<[slot_name |-> "ca", deployment_path |-> "ca.kv", deployment_format |-> Absent,
                  storage_backend |-> Absent, integrity_policy |-> "required"]>>,
     stores |-> <<[store_name |-> "roots", deployment_path |-> "", deployment_format |-> "kv",
                   conditional_slot_init |-> "disable",
                   members |-> <<[slot_name |-> "ca", kind |-> kind]>>]>>,
     maps |-> Maps("ca"), storeMaps |-> Maps("roots")]

Line(kind, name, value) == [kind |-> kind, name |-> name, value |-> value]
NoData == [form |-> "empty", half |-> "none", type |-> "none", fits |-> FALSE]
Deployment(lines) == [safe |-> TRUE, there |-> TRUE, lines |-> lines, data |-> NoData]
StoredKeyFile(data) == [safe |-> TRUE, there |-> TRUE, lines |-> <<>>, data |-> data]

Der(half, type, fits) == [form |-> "der", half |-> half, type |-> type, fits |-> fits]
Bytes(fits) == [form |-> "bytes", half |-> "public", type |-> "none", fits |-> fits]
Point(type) == [form |-> "point", half |-> "public", type |-> type, fits |-> TRUE]

Entries(path, label) == <<Line("blank", "", ""), Line("section", "key", ""),
                          Line("entry", "key_path", path), Line("entry", "pkcs11.label", label)>>

Fs(macLines) == [p \in {"mac.kv", "sig.kv", "mac.key", "sig.key"} |->
    CASE p = "mac.kv" -> Deployment(macLines)
      [] p = "sig.kv" -> Deployment(Entries("sig.key", "gone"))
      [] p = "mac.key" -> StoredKeyFile(Bytes(TRUE))
      [] p = "sig.key" -> StoredKeyFile(Der("private", "ecc", TRUE))]

MCWorld(env, stat, file, macLines) ==
    [env |-> env, stat |-> [p \in {"default", "custom"} |-> stat],
     files |-> [p \in {"default", "custom"} |-> file], fs |-> Fs(macLines),
     objects |-> {[label |-> "mac", class |-> "secret_key"]}]

Good == MCWorld("", "ok", File(<<MacSlot, SigSlot>>, "mac"), Entries("mac.key", "mac"))

Files == <<
    File(<<MacSlot>>, "mac"),
    File(<<MacSlot, [SigSlot EXCEPT !.deployment_path = ""]>>, "mac"),
    File(<<[MacSlot EXCEPT !.allowed_uids.set = FALSE]>>, "mac"),
    File(<<MacSlot, SlotEntry("mac", "AES-256", <<"openssl">>, <<"ALL">>, {1, 2}, "mac.kv")>>, "mac"),
    File(<<SlotEntry("mac", "ROT13", <<"openssl">>, <<"ALL">>, {1, 2}, "mac.kv"), MacSlot>>, "mac"),
    File(<<SigSlot>>, "sig"),
    File(<<>>, ""),
    [File(<<MacSlot>>, "mac") EXCEPT !.hasCert = TRUE, !.cert = CertSection("conditional")],
    [File(<<MacSlot>>, "mac") EXCEPT !.hasCert = TRUE, !.cert = CertSection("unknown")],
    [File(<<MacSlot>>, "mac") EXCEPT !.hasKey = FALSE],
    [File(<<MacSlot>>, "mac") EXCEPT !.verified = FALSE]>>

Descriptors == <<
    <<Line("entry", "key_path", "mac.key")>>,
    <<Line("section", "", "")>>,
    <<Line("section", "key", ""), Line("text", "", "")>>,
    Entries("mac.key", "mac") \o <<Line("entry", "key_path", "sig.key")>>>>

Simple(env, stat) == MCWorld(env, stat, File(<<MacSlot>>, "mac"), Entries("mac.key", "mac"))

StartWorlds ==
    [i \in DOMAIN Files |-> MCWorld("", "ok", Files[i], Entries("mac.key", "mac"))]
      \o [i \in DOMAIN Descriptors |-> MCWorld("", "ok", File(<<MacSlot>>, "mac"), Descriptors[i])]
      \o <<Simple("custom", "ok"), Simple("custom", "absent"), Simple("", "absent"), Simple("", "error")>>

Ask(type, alg, mode, pref) == [type |-> type, alg |-> alg, mode |-> mode, pref |-> pref]

Gen(alg, perms, pub) == [alg |-> alg, perms |-> perms, pub |-> pub]
Imp(alg, perms, format, data) == [alg |-> alg, perms |-> perms, format |-> format, data |-> data]

\* Every way the daemon can start, and clients of two users that look for keys.
Starting ==
    [worlds |-> StartWorlds, steady |-> FALSE, threads |-> 1, keys |-> 1, contexts |-> {c1, c2},
     uid |-> (c1 :> 2 @@ c2 :> 1), losses |-> 0, resources |-> {"k"}, gens |-> {},
     imports |-> {}, formats |-> {},
     asks |-> {Ask("KEY", "", "", p) : p \in 0..4} \cup {Ask("HASH", "SHA256", "", 0)},
     binds |-> {Ask("MAC", "HMAC-SHA256", "generate", p) : p \in {0, 1, 3}}]

\* Keys of every kind, made, bound, used and exported by one client.
Kinds ==
    [worlds |-> <<Good>>, steady |-> FALSE, threads |-> 1, keys |-> 1, contexts |-> {c1, c2},
     uid |-> (c1 :> 1 @@ c2 :> 1), losses |-> 0, resources |-> {"k"},
     gens |-> {Gen("ECDSA-P256", {"sign"}, Unset), Gen("ML-KEM-512", {"agree"}, Set({"export"})),
               Gen("ML-DSA-44", {"export"}, Unset), Gen("AES-256", {"encrypt", "export"}, Unset),
               Gen("RSA-2048", {"decrypt"}, Set({"encrypt"}))},
     imports |-> {Imp("ECDSA-P256", {"verify"}, "der", Der("public", "ecc", TRUE)),
                  Imp("ECDSA-P256", {"export"}, "raw", Point("ecc")),
                  Imp("ECDSA-P256", {"export"}, "raw", Point("none")),
                  Imp("ECDSA-P256", {"sign"}, "der", Der("private", "ecc", FALSE)),
                  Imp("RSA-2048", {"sign"}, "der", Der("private", "rsa", TRUE)),
                  Imp("Ed25519", {"sign"}, "der", Der("private", "ed25519", TRUE)),
                  Imp("ML-KEM-512", {"agree"}, "raw", Bytes(TRUE)),
                  Imp("AES-256", {"encrypt"}, "raw", Bytes(TRUE))},
     formats |-> {"raw", "der"},
     asks |-> {Ask("KEY", "", "", 0)},
     binds |-> {Ask("MAC", "HMAC-SHA256", "generate", 0),
                Ask("CIPHER", "AES-256-CBC", "encrypt", 2),
                Ask("SIGN", "ECDSA-P256-SHA256", "", 0),
                Ask("VERIFY", "ECDSA-P256-SHA256", "", 0)}]

\* Two threads of a client share its contexts and its keys, and a reply is lost.
Threads ==
    [worlds |-> <<Good>>, steady |-> TRUE, threads |-> 2, keys |-> 2, contexts |-> {c1},
     uid |-> (c1 :> 1 @@ c2 :> 1), losses |-> 1, resources |-> {"k"},
     gens |-> {Gen("AES-256", {"export"}, Unset)}, imports |-> {}, formats |-> {"raw"},
     asks |-> {Ask("KEY", "", "", 2)}, binds |-> {}]

MCScenario == [start |-> Starting, kinds |-> Kinds, threads |-> Threads]

Symmetry == Permutations(Worker) \cup Permutations(Entry) \cup Permutations(Ref)

=============================================================================
