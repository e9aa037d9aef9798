-------------------------------- MODULE Vault --------------------------------
(***************************************************************************)
(* The vault keyfile, core/vault/keyfile.py: the data key (DEK) of the     *)
(* device wrapped twice, under the passphrase and under the recovery code  *)
(* that create_vault shows once.  save_vault_keyfile writes a temporary    *)
(* file and renames it over the keyfile; change_passphrase only changes    *)
(* the keyfile in memory and leaves saving it to its caller.  The process  *)
(* may be killed between any two steps.                                    *)
(*                                                                         *)
(* Wrapping is abstract: a wrapped copy opens with the secret it was made  *)
(* with and with no other (core/vault/crypto.py: AES-GCM under a scrypt    *)
(* key).                                                                   *)
(***************************************************************************)
EXTENDS Files

CONSTANTS
    Passphrase,
    Weak,        \* the passphrases validate_passphrase rejects
    Dek,         \* data keys that may be generated; bound on creations
    Code         \* recovery codes

VARIABLES
    keyfile,     \* the keyfile on disk
    tmp,         \* keyfile + ".tmp"
    held,        \* the VaultKeyfile the caller holds
    saving,      \* the create_vault or save_vault_keyfile in progress
    deks,        \* data keys generated so far
    opened,      \* the data key the application got from an unlock
    shown,       \* history: the recovery code the user was shown
    secret,      \* history: the data key the data is encrypted under
    accepted     \* history: passphrases the user may expect to work

vaultVars == <<keyfile, tmp, held, saving, deks, opened, shown, secret, accepted>>

Keyfile == [pass : Passphrase, byPass : Dek, code : Code, byCode : Dek]

ASSUME VaultAssumption == None \notin Dek \cup Code \cup Keyfile

Saving == [name : {"create", "save"}, step : {"open", "write", "replace", "return"}, what : Keyfile]
NotSaving == [name |-> "none", step |-> "none"]

VaultTypeOK ==
    /\ keyfile \in Keyfile \cup {None, Torn}
    /\ tmp \in Keyfile \cup {None, Torn}
    /\ held \in Keyfile \cup {None}
    /\ saving \in Saving \cup {NotSaving}
    /\ deks \subseteq Dek
    /\ opened \in Dek \cup {None} /\ secret \in Dek \cup {None}
    /\ shown \in Code \cup {None}
    /\ accepted \subseteq Passphrase

VaultInit ==
    /\ keyfile = None /\ tmp = None /\ held = None
    /\ saving = NotSaving
    /\ deks = {} /\ opened = None
    /\ shown = None /\ secret = None /\ accepted = {}

-----------------------------------------------------------------------------
(* save_vault_keyfile.                                                     *)

InSave(step) == saving.step = step
Proceed(step) == saving' = [saving EXCEPT !.step = step]

SaveBegins(name, kf) ==
    /\ saving' = [name |-> name, step |-> "open", what |-> kf]
    /\ accepted' = accepted \cup {kf.pass}

OpenTmp ==
    /\ InSave("open")
    /\ tmp' = Torn
    /\ Proceed("write")
    /\ UNCHANGED <<keyfile, held, deks, opened, shown, secret, accepted>>

WriteTmp ==
    /\ InSave("write")
    /\ tmp' = saving.what
    /\ Proceed("replace")
    /\ UNCHANGED <<keyfile, held, deks, opened, shown, secret, accepted>>

\* os.replace
Replace ==
    /\ InSave("replace")
    /\ keyfile' = tmp /\ tmp' = None
    /\ Proceed("return")
    /\ UNCHANGED <<held, deks, opened, shown, secret, accepted>>

\* The call returns; create_vault returns the recovery code, this once.
SaveReturns ==
    /\ InSave("return")
    /\ held' = saving.what
    /\ shown' = IF saving.name = "create" THEN saving.what.code ELSE shown
    /\ accepted' = {saving.what.pass}
    /\ saving' = NotSaving
    /\ UNCHANGED <<keyfile, tmp, deks, opened, secret>>

-----------------------------------------------------------------------------
\* create_vault: VaultExistsError if there is a keyfile, then
\* WeakPassphraseError; the data key is wrapped under both secrets.
CreateVault(p, d, c) ==
    /\ saving = NotSaving
    /\ keyfile = None
    /\ p \notin Weak
    /\ d \notin deks
    /\ deks' = deks \cup {d}
    /\ SaveBegins("create", [pass |-> p, byPass |-> d, code |-> c, byCode |-> d])
    /\ UNCHANGED <<keyfile, tmp, held, opened, shown, secret>>

\* load_vault_keyfile; a missing or torn file raises.
LoadVaultKeyfile ==
    /\ saving = NotSaving
    /\ keyfile \notin {None, Torn}
    /\ held' = keyfile
    /\ UNCHANGED <<keyfile, tmp, saving, deks, opened, shown, secret, accepted>>

\* The data key an unlock of kf gives; WrongSecretError for any other secret.
UnlockWithPassphrase(kf, p) == IF p = kf.pass THEN kf.byPass ELSE None
UnlockWithRecoveryCode(kf, c) == IF c = kf.code THEN kf.byCode ELSE None

\* The caller unlocks what it holds, and what it stores from now on is
\* encrypted under the data key.
Unlock(d) ==
    /\ saving = NotSaving
    /\ d # None
    /\ opened' = d
    /\ secret' = IF secret = None THEN d ELSE secret
    /\ UNCHANGED <<keyfile, tmp, held, saving, deks, shown, accepted>>

Unlocks ==
    /\ held # None
    /\ \/ \E p \in Passphrase : Unlock(UnlockWithPassphrase(held, p))
       \/ shown # None /\ Unlock(UnlockWithRecoveryCode(held, shown))

\* Mutation: the new passphrase gets a new data key.
ChangePassphraseNewDek(old, new) ==
    /\ saving = NotSaving
    /\ held # None
    /\ new \notin Weak
    /\ UnlockWithPassphrase(held, old) # None
    /\ \E d \in Dek \ deks : held' = [held EXCEPT !.pass = new, !.byPass = d] /\ deks' = deks \cup {d}
    /\ UNCHANGED <<keyfile, tmp, saving, opened, shown, secret, accepted>>

\* change_passphrase: only the copy under the passphrase, only in memory.
ChangePassphrase(old, new) ==
    /\ saving = NotSaving
    /\ held # None
    /\ new \notin Weak
    /\ UnlockWithPassphrase(held, old) # None
    /\ held' = [held EXCEPT !.pass = new, !.byPass = UnlockWithPassphrase(held, old)]
    /\ UNCHANGED <<keyfile, tmp, saving, deks, opened, shown, secret, accepted>>

\* save_vault_keyfile, called with the keyfile the caller holds.
SaveVaultKeyfile ==
    /\ saving = NotSaving
    /\ held # None
    /\ SaveBegins("save", held)
    /\ UNCHANGED <<keyfile, tmp, held, deks, opened, shown, secret>>

\* The process ends.
VaultCrash ==
    /\ held' = None /\ opened' = None
    /\ saving' = NotSaving
    /\ UNCHANGED <<keyfile, tmp, deks, shown, secret, accepted>>

VaultNext ==
    \/ \E p \in Passphrase, d \in Dek, c \in Code : CreateVault(p, d, c)
    \/ OpenTmp \/ WriteTmp \/ Replace \/ SaveReturns
    \/ LoadVaultKeyfile \/ Unlocks
    \/ \E old, new \in Passphrase : ChangePassphrase(old, new)
    \/ SaveVaultKeyfile

-----------------------------------------------------------------------------
\* Whatever the moment the process was killed at, the keyfile on disk opens:
\* it is whole, its passphrase is the one last saved or the one of a save that
\* has not returned, both copies hold the data key the data was encrypted under,
\* and the recovery code the user wrote down is the one it has.  "a crash
\* mid-write must never leave a half-written, corrupt keyfile"
\* (save_vault_keyfile), and no second creation orphans the data key.
VaultOpens ==
    /\ keyfile # None =>
        /\ keyfile \in Keyfile
        /\ keyfile.pass \in accepted \ Weak
        /\ keyfile.byPass = keyfile.byCode
        /\ secret \in {None, keyfile.byPass}
        /\ shown \in {None, keyfile.code}
    /\ secret # None \/ shown # None => keyfile # None
=============================================================================
