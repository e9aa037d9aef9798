---------------------------- MODULE DeviceProofs -----------------------------
(***************************************************************************)
(* Proofs about Device, for any set of keys, passphrases, data keys and    *)
(* codes, and any number of crashes.  The identity and the vault have an   *)
(* inductive invariant each; a step of one leaves the variables of the     *)
(* other alone, and only a crash moves both.                               *)
(***************************************************************************)
EXTENDS Device, TLAPS

(* What holds between two writes of the identity: a call that writes knows  *)
(* which of the three places it has already changed.                       *)
IdentityInv ==
    /\ IdentityTypeOK
    /\ app = "down" => call = NoCall
    /\ app # "down" /\ call = NoCall => me \in Key /\ file = me /\ last = me
    /\ call = NoCall /\ file = None => last = None
    /\ file \in Key /\ last # None => file = last \/ <<last, file>> \in certs
    /\ call.name = "create" => last = None /\ app = "mounting"
    /\ call.name \in {"rotate", "rename"} => app = "up"
    /\ call.name = "rotate" => last \in Key /\ <<last, call.key>> \in certs
    /\ call.name = "rename" => last = call.key
    /\ call.name \in {"rotate", "rename"} => file # None
    /\ call.step = "return" => file = call.key
    /\ call.step = "meta" => file = Torn
    /\ file = Torn => call.step = "meta" \/ call = NoCall

(* The same for the cause of a lockout: as long as there was no mishap, the *)
(* key of the file, or of the call, is the one the key store would give.   *)
StoreInv ==
    cause = {} =>
        /\ call = NoCall \/ At("key") => file = None \/ (file \in Key /\ LoadPrivateKey(TRUE) = file)
        /\ At("pem") => keyring = None
        /\ call # NoCall /\ ~At("key") /\ ~At("pem") => LoadPrivateKey(TRUE) = call.key

(* What a keyfile in memory or being saved shares with the one on disk.    *)
Sound(kf) == kf \in Keyfile /\ kf.pass \notin Weak /\ kf.byPass = kf.byCode
SameVault(kf) == keyfile \in Keyfile /\ kf.byPass = keyfile.byPass /\ kf.code = keyfile.code

VaultInv ==
    /\ VaultTypeOK
    /\ VaultOpens
    /\ held # None => Sound(held) /\ SameVault(held)
    /\ saving # NotSaving =>
        /\ Sound(saving.what)
        /\ saving.what.pass \in accepted
        /\ InSave("replace") => tmp = saving.what
        /\ InSave("return") => keyfile = saving.what
        /\ saving.name = "create" /\ ~InSave("return") => keyfile = None
        /\ saving.name = "save" => SameVault(saving.what)

-----------------------------------------------------------------------------

\* A step of the identity keeps its invariant, whichever call is writing.
LEMMA IdentityStepKeepsIdentity ==
    ASSUME IdentityInv, IdentityNext
    PROVE  IdentityInv'
<1> USE KeyAssumption, FileAssumption DEF IdentityInv, IdentityTypeOK, Call, NoCall, disk, At, GoTo
<1>1. CASE LoadExisting
  BY <1>1 DEF LoadExisting, Loads
<1>2. CASE Reload
  BY <1>2 DEF Reload, Loads
<1>3. CASE SaveIdentity
  BY <1>3 DEF SaveIdentity
<1>4. ASSUME NEW k \in Key, CreateNew(k) PROVE IdentityInv'
  BY <1>4 DEF CreateNew
<1>5. ASSUME NEW k \in Key, RotateIdentity(k) PROVE IdentityInv'
  BY <1>5 DEF RotateIdentity
<1>6. CASE SavePrivateKey
  BY <1>6 DEF SavePrivateKey
<1>7. CASE SavePlaintext
  BY <1>7 DEF SavePlaintext
<1>8. CASE OpenFile
  BY <1>8 DEF OpenFile
<1>9. CASE WriteFile
  BY <1>9 DEF WriteFile
<1>10. CASE Return
  BY <1>10 DEF Return
<1>11. CASE DeletePrivateKey
  BY <1>11 DEF DeletePrivateKey
<1>12. CASE DeleteIdentityFile
  BY <1>12 DEF DeleteIdentityFile
<1> QED
  BY <1>1, <1>2, <1>3, <1>4, <1>5, <1>6, <1>7, <1>8, <1>9, <1>10, <1>11, <1>12, Zenon DEF IdentityNext

\* A step of the identity keeps the key of the file, or of the call that is
\* writing, in the store, or it records a mishap.
LEMMA IdentityStepKeepsStore ==
    ASSUME IdentityInv, StoreInv, IdentityNext
    PROVE  StoreInv'
<1> USE KeyAssumption, FileAssumption DEF IdentityInv, StoreInv, IdentityTypeOK, Call, NoCall, disk, At, GoTo, LoadPrivateKey
<1>1. CASE LoadExisting
  BY <1>1 DEF LoadExisting, Loads
<1>2. CASE Reload
  BY <1>2 DEF Reload, Loads
<1>3. CASE SaveIdentity
  BY <1>3 DEF SaveIdentity
<1>4. ASSUME NEW k \in Key, CreateNew(k) PROVE StoreInv'
  BY <1>4 DEF CreateNew
<1>5. ASSUME NEW k \in Key, RotateIdentity(k) PROVE StoreInv'
  BY <1>5 DEF RotateIdentity
<1>6. CASE SavePrivateKey
  BY <1>6 DEF SavePrivateKey
<1>7. CASE SavePlaintext
  BY <1>7 DEF SavePlaintext
<1>8. CASE OpenFile
  BY <1>8 DEF OpenFile
<1>9. CASE WriteFile
  BY <1>9 DEF WriteFile
<1>10. CASE Return
  BY <1>10 DEF Return
<1>11. CASE DeletePrivateKey
  BY <1>11 DEF DeletePrivateKey
<1>12. CASE DeleteIdentityFile
  BY <1>12 DEF DeleteIdentityFile
<1> QED
  BY <1>1, <1>2, <1>3, <1>4, <1>5, <1>6, <1>7, <1>8, <1>9, <1>10, <1>11, <1>12, Zenon DEF IdentityNext

\* A crash keeps what is on disk, and records that a write was cut off.
LEMMA CrashKeepsIdentity ==
    ASSUME IdentityInv, StoreInv, IdentityCrash
    PROVE  IdentityInv' /\ StoreInv'
<1> USE KeyAssumption, FileAssumption DEF IdentityInv, IdentityTypeOK, Call, NoCall, disk, At, IdentityCrash
<1>1. IdentityInv'
  OBVIOUS
<1>2. StoreInv'
  BY DEF StoreInv, LoadPrivateKey
<1> QED
  BY <1>1, <1>2, Zenon

-----------------------------------------------------------------------------
\* Each step of the vault keeps its invariant: the two copies of the data key
\* agree in memory, in the file being written and on disk, and the keyfile is
\* replaced only by a whole one that belongs to the same vault.
LEMMA VaultStepKeepsVault ==
    ASSUME VaultInv, VaultNext
    PROVE  VaultInv'
<1> USE VaultAssumption, FileAssumption
      DEF VaultInv, VaultTypeOK, VaultOpens, Sound, SameVault, Keyfile, Saving, NotSaving,
          InSave, Proceed, SaveBegins
<1>1. ASSUME NEW p \in Passphrase, NEW d \in Dek, NEW c \in Code, CreateVault(p, d, c) PROVE VaultInv'
  BY <1>1, ZenonT(60) DEF CreateVault
<1>2. CASE OpenTmp
  BY <1>2 DEF OpenTmp
<1>3. CASE WriteTmp
  BY <1>3 DEF WriteTmp
<1>4. CASE Replace
  BY <1>4 DEF Replace
<1>5. CASE SaveReturns
  BY <1>5 DEF SaveReturns
<1>6. CASE LoadVaultKeyfile
  BY <1>6 DEF LoadVaultKeyfile
<1>7. CASE Unlocks
  BY <1>7, ZenonT(60) DEF Unlocks, Unlock, UnlockWithPassphrase, UnlockWithRecoveryCode
<1>8. ASSUME NEW old \in Passphrase, NEW new \in Passphrase, ChangePassphrase(old, new) PROVE VaultInv'
  BY <1>8, ZenonT(60) DEF ChangePassphrase, UnlockWithPassphrase
<1>9. CASE SaveVaultKeyfile
  BY <1>9 DEF SaveVaultKeyfile
<1> QED
  BY <1>1, <1>2, <1>3, <1>4, <1>5, <1>6, <1>7, <1>8, <1>9, Zenon DEF VaultNext

LEMMA CrashKeepsVault ==
    ASSUME VaultInv, VaultCrash
    PROVE  VaultInv'
BY VaultAssumption, FileAssumption
   DEF VaultInv, VaultTypeOK, VaultOpens, Sound, SameVault, Keyfile, Saving, NotSaving, InSave, VaultCrash

-----------------------------------------------------------------------------
Inv == IdentityInv /\ StoreInv /\ VaultInv

LEMMA InitInv == Init => Inv
BY KeyAssumption, FileAssumption, VaultAssumption
   DEF Init, IdentityInit, VaultInit, Inv, IdentityInv, StoreInv, VaultInv, IdentityTypeOK, VaultTypeOK,
       VaultOpens, Call, NoCall, NotSaving, At, LoadPrivateKey

\* The invariants read only the variables of their own part.
LEMMA IdentityFrame == IdentityInv /\ StoreInv /\ UNCHANGED identityVars => IdentityInv' /\ StoreInv'
BY DEF identityVars, disk, IdentityInv, StoreInv, IdentityTypeOK, Call, NoCall, At, LoadPrivateKey

LEMMA VaultFrame == VaultInv /\ UNCHANGED vaultVars => VaultInv'
BY DEF vaultVars, VaultInv, VaultTypeOK, VaultOpens, Sound, SameVault, Keyfile, Saving, NotSaving, InSave

LEMMA NextInv == Inv /\ [Next]_vars => Inv'
<1> SUFFICES ASSUME Inv, [Next]_vars PROVE Inv'
  OBVIOUS
<1> USE DEF Inv
<1>1. CASE IdentityStep
  BY <1>1, IdentityStepKeepsIdentity, IdentityStepKeepsStore, VaultFrame DEF IdentityStep
<1>2. CASE VaultStep
  BY <1>2, VaultStepKeepsVault, IdentityFrame DEF VaultStep
<1>3. CASE Crash
  BY <1>3, CrashKeepsIdentity, CrashKeepsVault DEF Crash
<1>4. CASE UNCHANGED vars
  BY <1>4, IdentityFrame, VaultFrame DEF vars
<1> QED
  BY <1>1, <1>2, <1>3, <1>4 DEF Next

LEMMA InvHolds == Spec => []Inv
BY InitInv, NextInv, PTL DEF Spec

\* Every variable of the device keeps its type, across any crash.
THEOREM DeviceTypes == Spec => []TypeOK
<1>1. Inv => TypeOK
  BY Zenon DEF Inv, IdentityInv, VaultInv, TypeOK
<1> QED
  BY <1>1, InvHolds, PTL

\* The keyfile on disk opens with the passphrase and the recovery code the user
\* has, whatever the process was doing when it was killed, for any number of
\* creations, passphrase changes, saves and crashes (core/vault/keyfile.py).
THEOREM VaultAlwaysOpens == Spec => []VaultOpens
<1>1. Inv => VaultOpens
  BY DEF Inv, VaultInv
<1> QED
  BY <1>1, InvHolds, PTL

\* A device that cannot come up with a working keyring had a mishap since its
\* key was last saved (core/identity/identity_file.py, key_storage.py).
THEOREM LockoutsHaveCauses == Spec => []LockoutHasCause
<1>1. Inv => LockoutHasCause
  BY FileAssumption, KeyAssumption, Zenon DEF Inv, IdentityInv, StoreInv, LockoutHasCause
<1> QED
  BY <1>1, InvHolds, PTL

\* A device never comes up under an identity it neither had nor was rotating to,
\* and both calls of on_mount give the same one.
THEOREM IdentityStaysStable == Spec => IdentityIsStable
<1> DEFINE Stable ==
      /\ app = "down" /\ app' = "mounting" /\ me' # None /\ last # None
            => me' = last \/ <<last, me'>> \in certs
      /\ app = "mounting" /\ app' = "up" => pub' = me
<1>1. Inv /\ [Next]_vars => [Stable]_identityVars
  <2> SUFFICES ASSUME Inv, [Next]_vars PROVE Stable \/ UNCHANGED identityVars
    OBVIOUS
  <2> USE DEF Inv, IdentityInv
  <2>1. CASE IdentityNext
    <3>1. CASE LoadExisting
      BY <3>1 DEF LoadExisting, Loads, IdentityTypeOK
    <3>2. CASE Reload
      BY <3>2 DEF Reload, Loads
    <3>3. ASSUME NEW k \in Key, CreateNew(k) PROVE Stable
      BY <3>3, KeyAssumption, Zenon DEF CreateNew, IdentityTypeOK
    <3>4. CASE ~ LoadExisting /\ ~ Reload /\ ~ \E k \in Key : CreateNew(k)
      <4>1. app' = app
        BY <2>1, <3>4, Zenon DEF IdentityNext, SaveIdentity, RotateIdentity, SavePrivateKey, SavePlaintext, OpenFile,
              WriteFile, Return, DeletePrivateKey, DeleteIdentityFile
      <4> QED
        BY <4>1
    <3> QED
      BY <3>1, <3>2, <3>3, <3>4
  <2>2. CASE Crash
    BY <2>2 DEF Crash, IdentityCrash
  <2>3. CASE UNCHANGED identityVars
    BY <2>3
  <2> QED
    BY <2>1, <2>2, <2>3 DEF Next, IdentityStep, VaultStep, vars
<1> QED
  BY <1>1, InvHolds, PTL DEF Spec, IdentityIsStable
=============================================================================
