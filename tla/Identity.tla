------------------------------ MODULE Identity ------------------------------
(***************************************************************************)
(* The identity of a device on disk: identity.json, written by             *)
(* core/identity/identity_file.py and by save_identity (discovery.py), and *)
(* the private key in KeyStore (core/identity/key_storage.py), which keeps *)
(* it in the OS keyring or, when the keyring is unusable or refuses, in a  *)
(* plaintext file.  None of this is one atomic write, and the process may  *)
(* be killed between any two of the writes.                                *)
(*                                                                         *)
(* A device_id is the hash of the public key, so a key stands for its pair *)
(* and for the device_id.  A file that was opened for writing and not yet  *)
(* written and closed is Torn.                                             *)
(***************************************************************************)
EXTENDS Files

CONSTANT Key     \* the key pairs that may be generated

ASSUME KeyAssumption == None \notin Key /\ Torn \notin Key

VARIABLES
    keyring,     \* the entry in the OS keyring
    pem,         \* the plaintext fallback file
    file,        \* identity.json: its device_id
    app,         \* the application: down, in on_mount, or running
    me,          \* the device_id the application runs under
    pub,         \* the public key it announces
    call,        \* the create, rotate or rename that is writing
    used,        \* keys generated so far
    certs,       \* certificates made: pairs <<old, new>>
    last,        \* history: the device_id last given to the user
    cause        \* history: mishaps since the key was last saved

disk == <<keyring, pem, file>>
identityVars == <<disk, app, me, pub, call, used, certs, last, cause>>

NoCall == [name |-> "none", key |-> None, step |-> "none"]
Call == [name : {"create", "rotate"}, key : Key, step : {"key", "pem", "file", "meta", "return"}]
           \cup [name : {"rename"}, key : Key, step : {"file", "meta", "return"}]

IdentityTypeOK ==
    /\ keyring \in Key \cup {None}
    /\ pem \in Key \cup {None, Torn}
    /\ file \in Key \cup {None, Torn}
    /\ app \in {"down", "mounting", "up"}
    /\ me \in Key \cup {None} /\ pub \in Key \cup {None} /\ last \in Key \cup {None}
    /\ call \in Call \cup {NoCall}
    /\ used \subseteq Key
    /\ certs \subseteq Key \X Key
    /\ cause \subseteq {"fallback", "interrupted", "deleted"}

IdentityInit ==
    /\ keyring = None /\ pem = None /\ file = None
    /\ app = "down" /\ me = None /\ pub = None
    /\ call = NoCall
    /\ used = {} /\ certs = {}
    /\ last = None /\ cause = {}

-----------------------------------------------------------------------------
(* KeyStore.                                                               *)

\* load_private_key; works: the keyring is usable and get_password does not raise.
LoadPrivateKey(works) == IF works /\ keyring # None THEN keyring ELSE pem

At(step) == call.step = step
GoTo(step) == call' = [call EXCEPT !.step = step]

\* Mutation: a refusal of the keyring is taken for a success.
SavePrivateKeyUnnoticed ==
    /\ At("key")
    /\ \/ keyring' = call.key
       \/ UNCHANGED keyring
    /\ cause' = {}
    /\ GoTo("file")
    /\ UNCHANGED <<pem, file, app, me, pub, used, certs, last>>

\* save_private_key: the keyring takes the key, or the plaintext file is
\* opened, which empties it.  What the keyring holds is not removed.
SavePrivateKey ==
    /\ At("key")
    /\ \/ /\ keyring' = call.key
          /\ cause' = {}
          /\ GoTo("file")
          /\ UNCHANGED pem
       \/ /\ pem' = Torn
          /\ cause' = IF keyring = None THEN {} ELSE {"fallback"}
          /\ GoTo("pem")
          /\ UNCHANGED keyring
    /\ UNCHANGED <<file, app, me, pub, used, certs, last>>

\* _save_plaintext: the key is written and the file closed.
SavePlaintext ==
    /\ At("pem")
    /\ pem' = call.key
    /\ GoTo("file")
    /\ UNCHANGED <<keyring, file, app, me, pub, used, certs, last, cause>>

\* delete_private_key, with and without a keyring that answers.
DeletePrivateKey ==
    /\ app = "up" /\ call = NoCall
    /\ keyring' \in {keyring, None}
    /\ pem' = None
    /\ cause' = cause \cup {"deleted"}
    /\ UNCHANGED <<file, app, me, pub, call, used, certs, last>>

-----------------------------------------------------------------------------
(* The identity file.                                                      *)

OpenFile ==
    /\ At("file")
    /\ file' = Torn
    /\ GoTo("meta")
    /\ UNCHANGED <<keyring, pem, app, me, pub, used, certs, last, cause>>

WriteFile ==
    /\ At("meta")
    /\ file' = call.key
    /\ GoTo("return")
    /\ UNCHANGED <<keyring, pem, app, me, pub, used, certs, last, cause>>

\* The call returns; its caller goes on under the identity it was given, and
\* only now has the certificate of a rotation.
Return ==
    /\ At("return")
    /\ me' = call.key /\ last' = call.key
    /\ pub' = IF app = "up" THEN call.key ELSE pub
    /\ call' = NoCall
    /\ UNCHANGED <<disk, app, used, certs, cause>>

\* Mutation: the key is not compared with the identity file.
LoadsUnchecked(k) == \E works \in BOOLEAN : LoadPrivateKey(works) = k /\ k \in Key /\ file \in Key

\* _load_existing gives k; in every other case it raises: the file is torn,
\* the key is missing or cannot be parsed, or it is not the key of the file.
Loads(k) == \E works \in BOOLEAN : LoadPrivateKey(works) = k /\ k \in Key /\ file = k

\* Mutation: the device_id is taken from the file, whatever is in it.
LoadExistingUnparsed ==
    /\ app = "down" /\ file # None
    /\ me' = file /\ last' = file
    /\ app' = "mounting"
    /\ UNCHANGED <<disk, pub, call, used, certs, cause>>

\* load_or_create_identity in on_mount, first call.
LoadExisting ==
    /\ app = "down" /\ file # None
    /\ \E k \in Key : Loads(k) /\ me' = k /\ last' = k
    /\ app' = "mounting"
    /\ UNCHANGED <<disk, pub, call, used, certs, cause>>

\* The same on first run: a new key pair, whatever the key store holds.
CreateNew(k) ==
    /\ app = "down" /\ file = None
    /\ k \notin used
    /\ app' = "mounting"
    /\ used' = used \cup {k}
    /\ call' = [name |-> "create", key |-> k, step |-> "key"]
    /\ UNCHANGED <<disk, me, pub, certs, last, cause>>

\* Second call of on_mount: "just re-reads the already-created identity file".
Reload ==
    /\ app = "mounting" /\ call = NoCall
    /\ \E k \in Key : Loads(k) /\ pub' = k
    /\ app' = "up"
    /\ UNCHANGED <<disk, me, call, used, certs, last, cause>>

\* rotate_identity: the certificate is made before anything is stored.
RotateIdentity(k) ==
    /\ app = "up" /\ call = NoCall
    /\ k \notin used
    /\ used' = used \cup {k}
    /\ certs' = certs \cup {<<me, k>>}
    /\ call' = [name |-> "rotate", key |-> k, step |-> "key"]
    /\ UNCHANGED <<disk, app, me, pub, last, cause>>

\* save_identity (/name): refused unless the file has the caller's device_id.
SaveIdentity ==
    /\ app = "up" /\ call = NoCall
    /\ file = me
    /\ call' = [name |-> "rename", key |-> me, step |-> "file"]
    /\ UNCHANGED <<disk, app, me, pub, used, certs, last, cause>>

-----------------------------------------------------------------------------
\* The process ends; only the disk and the keyring survive.
IdentityCrash ==
    /\ app' = "down" /\ me' = None /\ pub' = None
    /\ call' = NoCall
    /\ cause' = IF call = NoCall \/ At("key") THEN cause ELSE cause \cup {"interrupted"}
    /\ UNCHANGED <<disk, used, certs, last>>

\* What the messages of IdentityError advise: the user removes identity.json.
DeleteIdentityFile ==
    /\ app = "down" /\ file # None
    /\ file' = None
    /\ last' = None
    /\ UNCHANGED <<keyring, pem, app, me, pub, call, used, certs, cause>>

IdentityNext ==
    \/ LoadExisting \/ Reload \/ SaveIdentity
    \/ \E k \in Key : CreateNew(k) \/ RotateIdentity(k)
    \/ SavePrivateKey \/ SavePlaintext \/ OpenFile \/ WriteFile \/ Return
    \/ DeletePrivateKey \/ DeleteIdentityFile

-----------------------------------------------------------------------------
(* Properties.                                                             *)

\* The identity a device comes up with, in either call of on_mount, is the one
\* it had before, or the one a rotation was making when the process was killed,
\* until the user removes the file: keys left behind in the keyring or in the
\* plaintext file by crashes and refusals never bring back or invent another
\* one (_load_existing).
IdentityIsStable ==
    [][/\ app = "down" /\ app' = "mounting" /\ me' # None /\ last # None
             => me' = last \/ <<last, me'>> \in certs
       /\ app = "mounting" /\ app' = "up" => pub' = me]_identityVars

\* A device that cannot come up although the keyring works had a mishap since
\* its key was last saved: a write was cut off, the keyring refused the key
\* while it held an older one (which load_private_key then prefers), or the key
\* was deleted.
LockoutHasCause ==
    app = "down" /\ file # None /\ (LoadPrivateKey(TRUE) # file \/ file = Torn) => cause # {}
=============================================================================
