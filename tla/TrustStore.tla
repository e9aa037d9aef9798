----------------------------- MODULE TrustStore -----------------------------
(***************************************************************************)
(* TrustStore (core/trust/store.py) with the calls made on it: the         *)
(* handshake's _check_and_update_trust, the user's approve and             *)
(* revoke_device, and record_rotation with certificates that               *)
(* create_transition_certificate made.  Certificates reach the store late, *)
(* repeatedly, out of order or never.                                      *)
(*                                                                         *)
(* A device_id is the hash of a public key, so a device has one key; what  *)
(* the store compares is the text it was given: the handshake passes it in *)
(* hex, a certificate holds it in base64.                                  *)
(***************************************************************************)
EXTENDS Naturals, FiniteSets

CONSTANTS
    Device,      \* device_ids
    Root,        \* device_ids that were not made by a rotation
    NoDevice

ASSUME DeviceAssumption ==
    IsFiniteSet(Device) /\ Root \subseteq Device /\ NoDevice \notin Device

VARIABLES
    status,      \* status[d]: the status column, "ABSENT" without a row
    key,         \* key[d]: the encoding in which the public_key column holds d's key
    transitions, \* identity_transitions: recorded pairs <<old, new>>
    approved,    \* device_ids the user approved (history)
    successor,   \* successor[d]: what the owner of d rotated it into
    stamp        \* stamp[d]: timestamp of the certificate that introduced d

store == <<status, key, transitions, approved>>
owners == <<successor, stamp>>
vars == <<store, owners>>

\* Device ids whose key pair exists.
Made == Root \cup {d \in Device : stamp[d] > 0}

TypeOK ==
    /\ status \in [Device -> {"ABSENT", "PENDING", "TRUSTED", "REVOKED"}]
    /\ key \in [Device -> {"none", "hex", "base64"}]
    /\ \A d \in Device : status[d] = "ABSENT" <=> key[d] = "none"
    /\ transitions \subseteq Device \X Device
    /\ approved \subseteq Device
    /\ successor \in [Device -> Device \cup {NoDevice}]
    /\ stamp \in [Device -> Nat]

Init ==
    /\ status = [d \in Device |-> "ABSENT"]
    /\ key = [d \in Device |-> "none"]
    /\ transitions = {}
    /\ approved = {}
    /\ successor = [d \in Device |-> NoDevice]
    /\ stamp = [d \in Device |-> 0]

-----------------------------------------------------------------------------
(* Reading.                                                                *)

Check(d, k) ==
    CASE status[d] = "ABSENT" -> "UNKNOWN"
      [] status[d] # "ABSENT" /\ key[d] # k -> "KEY_CHANGED"
      [] OTHER -> status[d]

\* Sets of device_ids that the transition table does not lead out of.
Closed(S) == \A e \in transitions : e[1] \in S <=> e[2] \in S

\* get_rotation_chain: what the search over the table, both ways, visits.
RotationChain(d) ==
    {e \in Device : \A S \in SUBSET Device : d \in S /\ Closed(S) => e \in S}

\* Mutation: the certificate that replaced the device is looked up.
OrderKeyOfSuccessor(d) ==
    IF \E e \in transitions : e[1] = d THEN stamp[successor[d]] ELSE 0

\* _order_key: timestamp of the recorded certificate that introduced d, or 0.
OrderKey(d) == IF \E e \in transitions : e[2] = d THEN stamp[d] ELSE 0

\* Mutation: a directly trusted device is accepted before the chain is walked.
CheckWithRotationShort(d, k) ==
    LET direct == Check(d, k)
        chain  == {status[e] : e \in RotationChain(d)}
    IN  CASE direct \in {"KEY_CHANGED", "TRUSTED"} -> direct
          [] direct \notin {"KEY_CHANGED", "TRUSTED"} /\ "REVOKED" \in chain -> "REVOKED"
          [] direct \notin {"KEY_CHANGED", "TRUSTED"} /\ "REVOKED" \notin chain
                /\ "TRUSTED" \in chain -> "TRUSTED"
          [] OTHER -> direct

CheckWithRotation(d, k) ==
    LET direct == Check(d, k)
        chain  == {status[e] : e \in RotationChain(d)}
    IN  CASE direct = "KEY_CHANGED" -> direct
          [] direct # "KEY_CHANGED" /\ "REVOKED" \in chain -> "REVOKED"
          [] direct # "KEY_CHANGED" /\ "REVOKED" \notin chain /\ "TRUSTED" \in chain -> "TRUSTED"
          [] OTHER -> direct

-----------------------------------------------------------------------------
(* The owners of the devices.                                              *)

\* rotate_identity: d's owner makes a new key pair and a certificate for it.
Rotate(d, new) ==
    /\ d \in Made /\ successor[d] = NoDevice
    /\ new \notin Made
    /\ successor' = [successor EXCEPT ![d] = new]
    /\ stamp' = [stamp EXCEPT ![new] = Cardinality(Made)]
    /\ UNCHANGED store

-----------------------------------------------------------------------------
(* Writing.                                                                *)

\* Mutation: the row is inserted without the key.
RecordFirstSeenKeyless(d) ==
    /\ status' = [status EXCEPT ![d] = "PENDING"]
    /\ UNCHANGED <<key, transitions, approved>>

RecordFirstSeen(d) ==
    /\ status' = [status EXCEPT ![d] = "PENDING"]
    /\ key' = [key EXCEPT ![d] = "hex"]
    /\ UNCHANGED <<transitions, approved>>

\* _check_and_update_trust: only an unknown device is written; a known one is
\* touched (last_seen), a changed or revoked one ends the handshake.
Handshake(d) ==
    /\ d \in Made
    /\ Check(d, "hex") = "UNKNOWN"
    /\ RecordFirstSeen(d)
    /\ UNCHANGED owners

\* approve: any known device that is not revoked.
Approve(d) ==
    /\ status[d] \in {"PENDING", "TRUSTED"}
    /\ status' = [status EXCEPT ![d] = "TRUSTED"]
    /\ approved' = approved \cup {d}
    /\ UNCHANGED <<key, transitions, owners>>

\* revoke_device and _set_revoked.
RevokeDevice(d) ==
    /\ status[d] \in {"PENDING", "TRUSTED"}
    /\ status' = [status EXCEPT ![d] = "REVOKED"]
    /\ UNCHANGED <<key, transitions, approved, owners>>

\* Mutation: any known row of the new device is promoted, a revoked one too.
CarryForwardAlways(old, new) ==
    IF status[old] = "TRUSTED"
    THEN /\ status' = [status EXCEPT ![new] = "TRUSTED"]
         /\ key' = [key EXCEPT ![new] = IF status[new] = "ABSENT" THEN "base64" ELSE @]
    ELSE UNCHANGED <<status, key>>

\* Mutation: INSERT OR REPLACE of the new device's row.
CarryForwardReplacing(old, new) ==
    IF status[old] = "TRUSTED" /\ status[new] # "REVOKED"
    THEN /\ status' = [status EXCEPT ![new] = "TRUSTED"]
         /\ key' = [key EXCEPT ![new] = "base64"]
    ELSE UNCHANGED <<status, key>>

\* Mutation: PENDING is carried over as well.
CarryForwardPending(old, new) ==
    IF status[old] # "ABSENT" /\ status[new] \in {"ABSENT", "PENDING"}
    THEN /\ status' = [status EXCEPT ![new] = "TRUSTED"]
         /\ key' = [key EXCEPT ![new] = IF status[new] = "ABSENT" THEN "base64" ELSE @]
    ELSE UNCHANGED <<status, key>>

\* Only TRUSTED carries over; a row that is TRUSTED or REVOKED stays.
CarryForward(old, new) ==
    IF status[old] = "TRUSTED" /\ status[new] \in {"ABSENT", "PENDING"}
    THEN /\ status' = [status EXCEPT ![new] = "TRUSTED"]
         /\ key' = [key EXCEPT ![new] = IF status[new] = "ABSENT" THEN "base64" ELSE @]
    ELSE UNCHANGED <<status, key>>

\* record_rotation with the certificate for old; a revoked old device is refused.
RecordRotation(old) ==
    /\ successor[old] # NoDevice
    /\ status[old] # "REVOKED"
    /\ transitions' = transitions \cup {<<old, successor[old]>>}
    /\ CarryForward(old, successor[old])
    /\ UNCHANGED <<approved, owners>>

Next ==
    \/ \E d, new \in Device : Rotate(d, new)
    \/ \E d \in Device : Handshake(d) \/ Approve(d) \/ RevokeDevice(d) \/ RecordRotation(d)

Spec == Init /\ [][Next]_vars

-----------------------------------------------------------------------------
(* Properties.                                                             *)

\* revocation.py: "Once REVOKED, a device_id can never silently become TRUSTED
\* again": no sequence of handshakes, approvals and rotations leaves REVOKED.
RevokedIsTerminal ==
    [][\A d \in Device : status[d] = "REVOKED" => status'[d] = "REVOKED"]_vars

\* store.py: "A key mismatch is never auto-corrected": once a device has a key
\* on file, that column is never written again, by rotations either.
KeyIsPinned ==
    [][\A d \in Device : key[d] # "none" => key'[d] = key[d]]_vars

\* Every TRUSTED device goes back to the user: it is in every set that holds
\* the approved devices and that recorded rotations do not lead out of, which
\* is to say that a chain of recorded rotations leads to it from an approved one.
TrustHasOrigin ==
    \A S \in SUBSET Device :
        approved \subseteq S /\ (\A e \in transitions : e[1] \in S => e[2] \in S)
            => {d \in Device : status[d] = "TRUSTED"} \subseteq S

\* check_with_rotation: one REVOKED device anywhere in the chain and no device
\* of the chain is trusted, in whatever order the rotations were recorded and
\* the devices approved and revoked.
RevocationTaints ==
    \A r \in Device : status[r] = "REVOKED" =>
        \A d \in RotationChain(r), k \in {"hex", "base64"} :
            CheckWithRotation(d, k) \in {"REVOKED", "KEY_CHANGED"}

\* Descendants by the owners' rotations, whether recorded or not.
Descends(e, d) ==
    \A S \in SUBSET Device :
        e \in S /\ (\A x \in S : successor[x] # NoDevice => successor[x] \in S) => d \in S

\* get_rotation_chain is "ordered from oldest to newest": the sort key orders
\* every chain as its owner made it, even with certificates missing.
ChainIsOrdered ==
    \A d \in Device : \A e, f \in RotationChain(d) :
        e # f => (OrderKey(e) < OrderKey(f) <=> Descends(e, f))

\* rotation.py: a peer that trusts the old device_id will "automatically extend
\* that trust to the new device_id": a device the store holds as TRUSTED passes
\* the check that the handshake makes.
TrustedIsAccepted ==
    \A d \in Device : status[d] = "TRUSTED" => Check(d, "hex") = "TRUSTED"
=============================================================================
