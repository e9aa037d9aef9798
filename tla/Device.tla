------------------------------- MODULE Device --------------------------------
(***************************************************************************)
(* One device: its identity and its vault, used by one single-threaded     *)
(* process.  A call of one runs to its end before the other is called, and *)
(* the process may be killed in the middle of either; both files then      *)
(* stay as they are and everything in memory is gone.                      *)
(***************************************************************************)
EXTENDS Identity, Vault

vars == <<identityVars, vaultVars>>

TypeOK == IdentityTypeOK /\ VaultTypeOK

Init == IdentityInit /\ VaultInit

IdentityStep == saving = NotSaving /\ IdentityNext /\ UNCHANGED vaultVars
VaultStep == app = "up" /\ call = NoCall /\ VaultNext /\ UNCHANGED identityVars

Crash == app # "down" /\ IdentityCrash /\ VaultCrash

Next == IdentityStep \/ VaultStep \/ Crash

Spec == Init /\ [][Next]_vars
=============================================================================
