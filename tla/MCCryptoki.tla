------------------------------ MODULE MCCryptoki ------------------------------
(***************************************************************************)
(* Instances of CryptokiToken.  A behaviour has one application; each asks *)
(* its own questions of the library, so that the calls that have nothing   *)
(* to do with each other are not multiplied.                               *)
(***************************************************************************)
EXTENDS CryptokiToken

CONSTANTS t1, t2

MCThreads == {t1, t2}
ThreadSymmetry == Permutations(MCThreads)

MCPins == {"short", "so", "user"}

Template(token, private, sensitive, extractable, may) ==
    [token |-> token, private |-> private, sensitive |-> sensitive,
     extractable |-> extractable, may |-> may]

Plain == Template("absent", FALSE, "absent", "absent", {})

\* Threads make and destroy token objects while the process ends and restarts.
Storing ==
    [threads |-> MCThreads, mechanisms |-> {"AES_KEY_GEN"}, pins |-> {},
     calls |-> {"C_Finalize", "C_OpenSession", "C_GenerateKey", "C_DestroyObject", "Crash"},
     templates |-> {[Plain EXCEPT !.token = "true"], [Plain EXCEPT !.token = "false"]},
     maxSessions |-> 1, maxHandles |-> 3, maxActive |-> 0]

\* Threads make and destroy session objects while sessions come and go.
Owning ==
    [Storing EXCEPT !.maxSessions = 2, !.maxHandles = 2,
                    !.templates = {[Plain EXCEPT !.token = "false"]},
                    !.calls = {"C_OpenSession", "C_CloseSession", "C_CloseAllSessions",
                               "C_GenerateKey", "C_DestroyObject"}]

\* Threads log in and out while sessions come and go.
LoggingIn ==
    [threads |-> MCThreads, mechanisms |-> {}, templates |-> {}, pins |-> MCPins,
     calls |-> {"C_OpenSession", "C_CloseSession", "C_Login", "C_Logout"},
     maxSessions |-> 2, maxHandles |-> 0, maxActive |-> 0]

\* One thread initializes the token, changes its PINs and mistypes them.
ManagingPins ==
    [threads |-> {t1}, mechanisms |-> {"AES_KEY_GEN"}, pins |-> MCPins,
     templates |-> {[Plain EXCEPT !.token = "true"]},
     calls |-> {"C_Finalize", "C_OpenSession", "C_CloseAllSessions", "C_Login", "C_Logout",
                "C_InitPIN", "C_SetPIN", "C_InitToken", "C_GenerateKey"},
     maxSessions |-> 1, maxHandles |-> 1, maxActive |-> 0]

\* One thread uses keys that ask for a confirmation each time.
Confirming ==
    [threads |-> {t1}, mechanisms |-> {"EC_KEY_PAIR_GEN", "ECDSA", "AES_GCM"},
     pins |-> {"user"},
     calls |-> {"C_OpenSession", "C_Login", "C_LoginUser", "C_Logout",
                "C_GenerateKeyPair", "C_UnwrapKey", "C_DeriveKey", "C_Sign", "C_Decrypt"},
     templates |-> {[Plain EXCEPT !.may = {"unwrap", "derive"}]},
     maxSessions |-> 1, maxHandles |-> 3, maxActive |-> 2]

\* One thread makes keys from keys and changes their attributes.
Copying ==
    [threads |-> {t1}, mechanisms |-> {"GENERIC_SECRET_KEY_GEN"}, pins |-> {},
     calls |-> {"C_Finalize", "C_OpenSession", "C_GenerateKey",
                "C_CopyObject", "C_DeriveKey", "C_SetAttributeValue", "C_GetAttributeValue"},
     templates |-> {[Plain EXCEPT !.token = "true"],
                    [Plain EXCEPT !.sensitive = "false", !.extractable = "true",
                                  !.may = {"derive"}]},
     maxSessions |-> 1, maxHandles |-> 2, maxActive |-> 0]

\* The same thread, deriving keys from unextractable ones.
Deriving ==
    [Copying EXCEPT !.templates = {[Plain EXCEPT !.extractable = e, !.may = {"derive"}] :
                                       e \in {"true", "false"}}]

\* One thread with the operations that need no confirmation.
Streaming ==
    [threads |-> {t1}, mechanisms |-> {"EC_KEY_PAIR_GEN", "ECDSA", "AES_GCM", "SHA256"},
     pins |-> {"user"},
     templates |-> {[Plain EXCEPT !.private = TRUE, !.extractable = "true", !.may = {"wrap"}]},
     calls |-> {"C_OpenSession", "C_CloseSession", "C_CreateObject", "C_Verify",
                "C_Encrypt", "C_Message", "C_Digest", "C_DigestKey", "C_Find",
                "C_WrapKey", "C_Login", "C_Logout", "C_SessionCancel"},
     maxSessions |-> 1, maxHandles |-> 1, maxActive |-> 2]

TokenApplications ==
    {Storing, Owning, LoggingIn, ManagingPins, Confirming, Copying, Streaming}
DerivingApplications == {Deriving}
=============================================================================
