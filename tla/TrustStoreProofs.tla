------------------------- MODULE TrustStoreProofs -------------------------
(***************************************************************************)
(* Theorems about TrustStore, for every set of devices.                    *)
(***************************************************************************)
EXTENDS TrustStore, FiniteSetTheorems, TLAPS

-----------------------------------------------------------------------------
(* Helpers.                                                                *)

\* The time stamp of a rotation is a number: only finitely many key pairs exist.
LEMMA MadeCount == TypeOK => Cardinality(Made) \in Nat
<1> SUFFICES ASSUME TypeOK PROVE Cardinality(Made) \in Nat
    OBVIOUS
<1>1. Made \subseteq Device
    BY DeviceAssumption DEF Made
<1>2. IsFiniteSet(Made)
    BY <1>1, DeviceAssumption, FS_Subset
<1> QED
    BY <1>2, FS_CardinalityType

\* check() answers UNKNOWN only without a row (store.check).
LEMMA UnknownIsAbsent ==
    ASSUME TypeOK, NEW d \in Device, NEW k, Check(d, k) = "UNKNOWN"
    PROVE  status[d] = "ABSENT"
<1> SUFFICES ASSUME status[d] # "ABSENT" PROVE FALSE
    OBVIOUS
<1>1. status[d] \in {"PENDING", "TRUSTED", "REVOKED"}
    BY DEF TypeOK
<1>2. CASE key[d] # k
    BY <1>2 DEF Check
<1>3. CASE key[d] = k
    BY <1>1, <1>3 DEF Check
<1> QED
    BY <1>2, <1>3

\* What carrying trust forward leaves in the two columns (record_rotation).
LEMMA CarryForwardType ==
    ASSUME TypeOK, NEW old \in Device, NEW new \in Device, CarryForward(old, new)
    PROVE  /\ status' \in [Device -> {"ABSENT", "PENDING", "TRUSTED", "REVOKED"}]
           /\ key' \in [Device -> {"none", "hex", "base64"}]
           /\ \A d \in Device : status'[d] = "ABSENT" <=> key'[d] = "none"
<1>1. CASE status[old] = "TRUSTED" /\ status[new] \in {"ABSENT", "PENDING"}
    BY <1>1 DEF TypeOK, CarryForward
<1>2. CASE ~(status[old] = "TRUSTED" /\ status[new] \in {"ABSENT", "PENDING"})
    BY <1>2 DEF TypeOK, CarryForward
<1> QED
    BY <1>1, <1>2

-----------------------------------------------------------------------------
(* Type correctness.                                                       *)

LEMMA TypeOKInit == Init => TypeOK
    BY DEF Init, TypeOK

LEMMA TypeOKStep == TypeOK /\ [Next]_vars => TypeOK'
<1> SUFFICES ASSUME TypeOK, [Next]_vars PROVE TypeOK'
    OBVIOUS
<1>1. ASSUME NEW d \in Device, NEW new \in Device, Rotate(d, new) PROVE TypeOK'
    BY <1>1, MadeCount DEF TypeOK, Rotate, store
<1>2. ASSUME NEW d \in Device, Handshake(d) PROVE TypeOK'
    BY <1>2 DEF TypeOK, Handshake, RecordFirstSeen, owners
<1>3. ASSUME NEW d \in Device, Approve(d) PROVE TypeOK'
    BY <1>3 DEF TypeOK, Approve, owners
<1>4. ASSUME NEW d \in Device, RevokeDevice(d) PROVE TypeOK'
    BY <1>4 DEF TypeOK, RevokeDevice, owners
<1>5. ASSUME NEW d \in Device, RecordRotation(d) PROVE TypeOK'
  <2>1. successor[d] \in Device
    BY <1>5 DEF RecordRotation, TypeOK
  <2>2. CarryForward(d, successor[d])
    BY <1>5 DEF RecordRotation
  <2> QED
    BY <1>5, <2>1, <2>2, CarryForwardType DEF TypeOK, RecordRotation, owners
<1>6. CASE UNCHANGED vars
    BY <1>6 DEF TypeOK, vars, store, owners
<1> QED
    BY <1>1, <1>2, <1>3, <1>4, <1>5, <1>6 DEF Next

\* The columns and the table of transitions keep their types, and a row has a
\* key from the moment it exists.
THEOREM TypeCorrect == Spec => []TypeOK
    BY TypeOKInit, TypeOKStep, PTL DEF Spec

-----------------------------------------------------------------------------
(* What a step may never do.                                               *)

LEMMA RevokedStep ==
    TypeOK /\ [Next]_vars
        => \A d \in Device : status[d] = "REVOKED" => status'[d] = "REVOKED"
<1> SUFFICES ASSUME TypeOK, [Next]_vars, NEW r \in Device, status[r] = "REVOKED"
             PROVE  status'[r] = "REVOKED"
    OBVIOUS
<1>1. ASSUME NEW d \in Device, NEW new \in Device, Rotate(d, new) PROVE status'[r] = "REVOKED"
    BY <1>1 DEF Rotate, store
<1>2. ASSUME NEW d \in Device, Handshake(d) PROVE status'[r] = "REVOKED"
  <2>1. status[d] = "ABSENT"
    BY <1>2, UnknownIsAbsent DEF Handshake
  <2> QED
    BY <1>2, <2>1 DEF TypeOK, Handshake, RecordFirstSeen
<1>3. ASSUME NEW d \in Device, Approve(d) PROVE status'[r] = "REVOKED"
    BY <1>3 DEF TypeOK, Approve
<1>4. ASSUME NEW d \in Device, RevokeDevice(d) PROVE status'[r] = "REVOKED"
    BY <1>4 DEF TypeOK, RevokeDevice
<1>5. ASSUME NEW d \in Device, RecordRotation(d) PROVE status'[r] = "REVOKED"
    BY <1>5 DEF TypeOK, RecordRotation, CarryForward
<1>6. CASE UNCHANGED vars
    BY <1>6 DEF vars, store
<1> QED
    BY <1>1, <1>2, <1>3, <1>4, <1>5, <1>6 DEF Next

\* revoke_device is final: no handshake, approval or rotation, in any order,
\* takes a device out of REVOKED.
THEOREM RevocationIsTerminal == Spec => RevokedIsTerminal
<1>1. TypeOK /\ [Next]_vars
        => [\A d \in Device : status[d] = "REVOKED" => status'[d] = "REVOKED"]_vars
    BY RevokedStep
<1> QED
    BY <1>1, TypeCorrect, PTL DEF Spec, RevokedIsTerminal

LEMMA KeyStep ==
    TypeOK /\ [Next]_vars => \A d \in Device : key[d] # "none" => key'[d] = key[d]
<1> SUFFICES ASSUME TypeOK, [Next]_vars, NEW r \in Device, key[r] # "none"
             PROVE  key'[r] = key[r]
    OBVIOUS
<1>1. ASSUME NEW d \in Device, NEW new \in Device, Rotate(d, new) PROVE key'[r] = key[r]
    BY <1>1 DEF Rotate, store
<1>2. ASSUME NEW d \in Device, Handshake(d) PROVE key'[r] = key[r]
  <2>1. d # r
    BY <1>2, UnknownIsAbsent DEF Handshake, TypeOK
  <2> QED
    BY <1>2, <2>1 DEF TypeOK, Handshake, RecordFirstSeen
<1>3. ASSUME NEW d \in Device, Approve(d) \/ RevokeDevice(d) PROVE key'[r] = key[r]
    BY <1>3 DEF Approve, RevokeDevice
<1>4. ASSUME NEW d \in Device, RecordRotation(d) PROVE key'[r] = key[r]
    BY <1>4 DEF TypeOK, RecordRotation, CarryForward
<1>5. CASE UNCHANGED vars
    BY <1>5 DEF vars, store
<1> QED
    BY <1>1, <1>2, <1>3, <1>4, <1>5 DEF Next

\* The key on file for a device is never rewritten, by rotations either.
THEOREM KeyStaysPinned == Spec => KeyIsPinned
<1>1. TypeOK /\ [Next]_vars
        => [\A d \in Device : key[d] # "none" => key'[d] = key[d]]_vars
    BY KeyStep
<1> QED
    BY <1>1, TypeCorrect, PTL DEF Spec, KeyIsPinned

-----------------------------------------------------------------------------
(* Where trust comes from.                                                 *)

LEMMA OriginStep == TypeOK /\ TrustHasOrigin /\ [Next]_vars => TrustHasOrigin'
<1> SUFFICES ASSUME TypeOK, TrustHasOrigin, [Next]_vars, NEW S \in SUBSET Device,
                    approved' \subseteq S,
                    \A e \in transitions' : e[1] \in S => e[2] \in S,
                    NEW t \in Device, status'[t] = "TRUSTED"
             PROVE  t \in S
    BY DEF TrustHasOrigin
<1>1. approved \subseteq approved' /\ transitions \subseteq transitions'
    BY DEF Next, Rotate, Handshake, RecordFirstSeen, Approve, RevokeDevice,
           RecordRotation, vars, store
<1>2. \A d \in Device : status[d] = "TRUSTED" => d \in S
    BY <1>1 DEF TrustHasOrigin
<1>3. CASE status[t] = "TRUSTED"
    BY <1>2, <1>3
<1>4. CASE status[t] # "TRUSTED"
  <2>1. ASSUME NEW d \in Device, NEW new \in Device, Rotate(d, new) PROVE FALSE
    BY <1>4, <2>1 DEF Rotate, store
  <2>2. ASSUME NEW d \in Device, Handshake(d) PROVE FALSE
    BY <1>4, <2>2 DEF TypeOK, Handshake, RecordFirstSeen
  <2>3. ASSUME NEW d \in Device, Approve(d) PROVE t \in S
    BY <1>4, <2>3 DEF TypeOK, Approve
  <2>4. ASSUME NEW d \in Device, RevokeDevice(d) PROVE FALSE
    BY <1>4, <2>4 DEF TypeOK, RevokeDevice
  <2>5. ASSUME NEW d \in Device, RecordRotation(d) PROVE t \in S
    <3>1. status[d] = "TRUSTED" /\ t = successor[d]
      BY <1>4, <2>5 DEF TypeOK, RecordRotation, CarryForward
    <3>2. <<d, t>> \in transitions'
      BY <2>5, <3>1 DEF RecordRotation
    <3> QED
      BY <1>2, <3>1, <3>2
  <2>6. CASE UNCHANGED vars
    BY <1>4, <2>6 DEF vars, store
  <2> QED
    BY <2>1, <2>2, <2>3, <2>4, <2>5, <2>6 DEF Next
<1> QED
    BY <1>3, <1>4

\* Every TRUSTED device descends, by recorded rotations, from one the user
\* approved: record_rotation makes no trust of its own.
THEOREM TrustOriginates == Spec => []TrustHasOrigin
<1>1. Init => TrustHasOrigin
    BY DEF Init, TrustHasOrigin
<1> QED
    BY <1>1, OriginStep, TypeCorrect, PTL DEF Spec

-----------------------------------------------------------------------------
(* What a revocation reaches.                                              *)

\* A set no transition leads out of has a complement of the same kind.
LEMMA ClosedComplement ==
    ASSUME TypeOK, NEW S \in SUBSET Device, Closed(S)
    PROVE  Closed(Device \ S)
<1> SUFFICES ASSUME NEW e \in transitions
             PROVE  e[1] \in Device \ S <=> e[2] \in Device \ S
    BY DEF Closed
<1>1. e[1] \in Device /\ e[2] \in Device
    BY DEF TypeOK
<1> QED
    BY <1>1 DEF Closed

\* get_rotation_chain walks the table both ways: chains are symmetric.
LEMMA ChainSymmetric ==
    ASSUME TypeOK, NEW r \in Device, NEW d \in RotationChain(r)
    PROVE  r \in RotationChain(d)
<1> SUFFICES ASSUME NEW S \in SUBSET Device, d \in S, Closed(S), r \notin S
             PROVE  FALSE
    BY DEF RotationChain
<1>1. r \in Device \ S /\ Closed(Device \ S)
    BY ClosedComplement
<1>2. d \in Device \ S
    BY <1>1 DEF RotationChain
<1> QED
    BY <1>2

LEMMA TaintFollows == TypeOK => RevocationTaints
<1> SUFFICES ASSUME TypeOK, NEW r \in Device, status[r] = "REVOKED",
                    NEW d \in RotationChain(r), NEW k \in {"hex", "base64"}
             PROVE  CheckWithRotation(d, k) \in {"REVOKED", "KEY_CHANGED"}
    BY DEF RevocationTaints
<1>1. "REVOKED" \in {status[e] : e \in RotationChain(d)}
    BY ChainSymmetric
<1>2. CASE Check(d, k) = "KEY_CHANGED"
    BY <1>2 DEF CheckWithRotation
<1>3. CASE Check(d, k) # "KEY_CHANGED"
    BY <1>1, <1>3 DEF CheckWithRotation
<1> QED
    BY <1>2, <1>3

\* One revoked device and check_with_rotation trusts no device of its chain,
\* whatever the order of rotations, approvals and revocations.
THEOREM RevocationReachesChain == Spec => []RevocationTaints
    BY TypeCorrect, TaintFollows, PTL

-----------------------------------------------------------------------------
(* The order of a chain.                                                   *)

\* The inductive invariant.  A certificate is stamped later than everything
\* made before it, so stamps grow along the owners' rotations; a device is made
\* by one rotation; and the table records rotations that owners made.
RotationsGrow ==
    /\ \A x \in Made : stamp[x] < Cardinality(Made)
    /\ \A x \in Device : successor[x] # NoDevice =>
          /\ x \in Made /\ successor[x] \in Made
          /\ stamp[x] < stamp[successor[x]]
          /\ \A y \in Device : successor[y] = successor[x] => y = x
    /\ \A e \in transitions : e[2] = successor[e[1]]

\* rotate_identity adds one key pair to those that exist.
LEMMA RotateMade ==
    ASSUME TypeOK, RotationsGrow,
           NEW d \in Device, NEW new \in Device, Rotate(d, new)
    PROVE  /\ Made' = Made \cup {new}
           /\ Cardinality(Made') = Cardinality(Made) + 1
           /\ Cardinality(Made) \in Nat \ {0}
<1>1. Cardinality(Made) \in Nat
    BY MadeCount
<1>2. Cardinality(Made) # 0
  <2>1. stamp[d] < Cardinality(Made) /\ stamp[d] \in Nat
    BY DEF RotationsGrow, Rotate, TypeOK
  <2> QED
    BY <1>1, <2>1
<1>3. Made' = Made \cup {new}
    BY <1>1, <1>2, SMTT(30) DEF Made, Rotate, TypeOK
<1>4. IsFiniteSet(Made)
    BY DeviceAssumption, FS_Subset DEF Made
<1>5. new \notin Made
    BY DEF Rotate
<1>6. Cardinality(Made \cup {new}) = Cardinality(Made) + 1
    BY <1>4, <1>5, FS_AddElement
<1> QED
    BY <1>1, <1>2, <1>3, <1>6

LEMMA GrowStep == TypeOK /\ RotationsGrow /\ [Next]_vars => RotationsGrow'
<1> SUFFICES ASSUME TypeOK, RotationsGrow, [Next]_vars PROVE RotationsGrow'
    OBVIOUS
<1>1. ASSUME NEW d \in Device, NEW new \in Device, Rotate(d, new) PROVE RotationsGrow'
  <2> DEFINE n == Cardinality(Made)
  <2>1. /\ Made' = Made \cup {new} /\ Cardinality(Made') = n + 1 /\ n \in Nat \ {0}
    BY <1>1, RotateMade
  <2>2. /\ d \in Made /\ new \notin Made /\ successor[d] = NoDevice /\ NoDevice \notin Device
        /\ successor' = [successor EXCEPT ![d] = new]
        /\ stamp' = [stamp EXCEPT ![new] = n]
        /\ transitions' = transitions
    BY <1>1, DeviceAssumption DEF Rotate, store
  <2>0. Made \subseteq Device
    BY DeviceAssumption DEF Made
  <2> HIDE DEF n
  <2>3. \A x \in Made : stamp'[x] = stamp[x] /\ stamp[x] < n /\ stamp[x] \in Nat
    BY <2>0, <2>1, <2>2 DEF RotationsGrow, TypeOK, n
  <2>4. stamp'[new] = n /\ successor'[d] = new
    BY <2>2 DEF TypeOK
  <2>5. \A x \in Device : x # d => successor'[x] = successor[x]
    BY <2>2 DEF TypeOK
  <2>6. (\A x \in Made : stamp[x] < Cardinality(Made))'
    BY <2>1, <2>3, <2>4
  <2>7. ASSUME NEW x \in Device, successor'[x] # NoDevice
        PROVE  /\ x \in Made' /\ successor'[x] \in Made'
               /\ stamp'[x] < stamp'[successor'[x]]
               /\ \A y \in Device : successor'[y] = successor'[x] => y = x
    <3>1. CASE x = d
      <4>1. \A y \in Device : y # d => successor'[y] # new
        BY <2>2, <2>5 DEF RotationsGrow
      <4> QED
        BY <3>1, <4>1, <2>1, <2>2, <2>3, <2>4
    <3>2. CASE x # d
      <4>1. /\ successor'[x] = successor[x] /\ x \in Made /\ successor[x] \in Made
            /\ stamp[x] < stamp[successor[x]]
            /\ \A y \in Device : successor[y] = successor[x] => y = x
        BY <3>2, <2>5, <2>7 DEF RotationsGrow
      <4> QED
        BY <4>1, <2>1, <2>2, <2>3, <2>4, <2>5
    <3> QED
      BY <3>1, <3>2
  <2>8. (\A e \in transitions : e[2] = successor[e[1]])'
    <3> SUFFICES ASSUME NEW e \in transitions PROVE e[2] = successor'[e[1]]
      BY <2>2
    <3>1. e[1] \in Device /\ e[2] \in Device /\ e[2] = successor[e[1]]
      BY DEF TypeOK, RotationsGrow
    <3> QED
      BY <3>1, <2>2, <2>5
  <2> QED
    BY <2>6, <2>7, <2>8 DEF RotationsGrow
<1>2. ASSUME NEW d \in Device, Handshake(d) \/ Approve(d) \/ RevokeDevice(d) PROVE RotationsGrow'
    BY <1>2 DEF RotationsGrow, Made, Handshake, RecordFirstSeen, Approve, RevokeDevice, owners
<1>3. ASSUME NEW d \in Device, RecordRotation(d) PROVE RotationsGrow'
    BY <1>3 DEF RotationsGrow, Made, RecordRotation, owners
<1>4. CASE UNCHANGED vars
    BY <1>4 DEF RotationsGrow, Made, vars, store, owners
<1> QED
    BY <1>1, <1>2, <1>3, <1>4 DEF Next

\* The descendants of a device, and what is closed under the owners' rotations.
Line(e) == {d \in Device : Descends(e, d)}
Forward(S) == \A x \in S : successor[x] # NoDevice => successor[x] \in S

\* A line starts with its device, follows every rotation, and is the least such set.
LEMMA LineIsForward ==
    ASSUME TypeOK, NEW e \in Device
    PROVE  /\ e \in Line(e) /\ Line(e) \in SUBSET Device /\ Forward(Line(e))
           /\ \A S \in SUBSET Device : e \in S /\ Forward(S) => Line(e) \subseteq S
<1>1. \A x \in Line(e) : successor[x] # NoDevice => successor[x] \in Line(e)
    BY DEF Line, Descends, TypeOK
<1> QED
    BY <1>1 DEF Line, Descends, Forward

\* Stamps grow along a line.
LEMMA LineGrows ==
    ASSUME TypeOK, RotationsGrow, NEW e \in Device, NEW f \in Device,
           Descends(e, f), e # f
    PROVE  stamp[e] < stamp[f]
<1> DEFINE S == {e} \cup {x \in Device : stamp[e] < stamp[x]}
<1>1. Forward(S)
  <2> SUFFICES ASSUME NEW x \in S, successor[x] # NoDevice PROVE successor[x] \in S
    BY DEF Forward
  <2>1. x \in Device /\ successor[x] \in Device /\ stamp[x] < stamp[successor[x]]
    BY DEF TypeOK, RotationsGrow
  <2>2. stamp[e] \in Nat /\ stamp[x] \in Nat /\ stamp[successor[x]] \in Nat
    BY <2>1 DEF TypeOK
  <2> QED
    BY <2>1, <2>2
<1>2. S \in SUBSET Device /\ e \in S
    OBVIOUS
<1>3. f \in S
    BY <1>1, <1>2, LineIsForward, Zenon DEF Line
<1> QED
    BY <1>3

\* What a device's line holds beside the device is the line of its successor.
LEMMA LineOfSuccessor ==
    ASSUME TypeOK, NEW x \in Device, NEW f \in Device, Descends(x, f), x # f
    PROVE  successor[x] \in Device /\ Descends(successor[x], f)
<1>1. successor[x] \in Device
  <2> SUFFICES ASSUME successor[x] = NoDevice PROVE FALSE
    BY DEF TypeOK
  <2>1. Forward({x})
    BY DEF Forward
  <2> QED
    BY <2>1, LineIsForward, Zenon DEF Line
<1> DEFINE S == {x} \cup Line(successor[x])
<1>2. S \in SUBSET Device /\ x \in S /\ Forward(S)
    BY <1>1, LineIsForward DEF Forward
<1>3. f \in S
    BY <1>2, LineIsForward, Zenon DEF Line
<1> QED
    BY <1>1, <1>3 DEF Line

\* A device has one predecessor: who descends from e by a last rotation of x
\* has x in the line of e.
LEMMA LineOfPredecessor ==
    ASSUME TypeOK, RotationsGrow, NEW e \in Device, NEW x \in Device,
           successor[x] # NoDevice, Descends(e, successor[x]), e # successor[x]
    PROVE  Descends(e, x)
<1> SUFFICES ASSUME ~ Descends(e, x) PROVE FALSE
    OBVIOUS
<1> DEFINE S == Line(e) \ {successor[x]}
<1>1. Forward(S)
    BY LineIsForward DEF Forward, Line, RotationsGrow, TypeOK
<1>2. S \in SUBSET Device /\ e \in S
    BY LineIsForward
<1>3. successor[x] \in Device
    BY DEF TypeOK
<1>4. successor[x] \in S
    BY <1>1, <1>2, <1>3, LineIsForward, Zenon DEF Line
<1> QED
    BY <1>4

\* Two devices of one chain are in one line, one way or the other: the table
\* holds rotations, and an owner rotates a device once.
LEMMA ChainIsLine ==
    ASSUME TypeOK, RotationsGrow, NEW d \in Device,
           NEW e \in RotationChain(d), NEW f \in RotationChain(d)
    PROVE  Descends(e, f) \/ Descends(f, e)
<1>1. e \in Device /\ f \in Device
    BY DEF RotationChain
<1> DEFINE S == {x \in Device : Descends(e, x) \/ Descends(x, e)}
<1>2. Closed(S)
  <2> SUFFICES ASSUME NEW t \in transitions PROVE t[1] \in S <=> t[2] \in S
    BY DEF Closed
  <2> DEFINE x == t[1]
  <2>1. x \in Device /\ t[2] = successor[x] /\ successor[x] \in Device /\ successor[x] # NoDevice
    BY DeviceAssumption DEF TypeOK, RotationsGrow
  <2> HIDE DEF x
  <2>2. ASSUME Descends(e, x) PROVE Descends(e, successor[x])
    BY <2>1, <2>2, <1>1, LineIsForward DEF Line, Forward
  <2>3. ASSUME Descends(x, e) PROVE x = e \/ Descends(successor[x], e)
    BY <2>1, <2>3, <1>1, LineOfSuccessor
  <2>4. ASSUME Descends(e, successor[x]) PROVE successor[x] = e \/ Descends(e, x)
    BY <2>1, <2>4, <1>1, LineOfPredecessor
  <2>5. ASSUME Descends(successor[x], e) PROVE Descends(x, e)
    <3>1. successor[x] \in Line(x)
      BY <2>1, LineIsForward DEF Forward
    <3>2. Line(successor[x]) \subseteq Line(x)
      BY <2>1, <3>1, LineIsForward
    <3> QED
      BY <2>5, <3>2, <1>1 DEF Line
  <2>6. Descends(e, e)
    BY <1>1, LineIsForward, Zenon DEF Line
  <2>7. successor[x] \in Line(x)
    BY <2>1, LineIsForward DEF Forward
  <2>8. x = e => Descends(e, successor[x])
    BY <2>7 DEF Line
  <2>9. successor[x] = e => Descends(x, e)
    BY <2>7 DEF Line
  <2> QED
    BY <2>1, <2>2, <2>3, <2>4, <2>5, <2>8, <2>9 DEF x
<1>3. S \in SUBSET Device /\ e \in S
    BY <1>1, LineIsForward, Zenon DEF Line
<1>4. d \in RotationChain(e)
    BY ChainSymmetric
<1>5. d \in S
    BY <1>2, <1>3, <1>4 DEF RotationChain
<1>6. f \in S
    BY <1>2, <1>3, <1>5 DEF RotationChain
<1> QED
    BY <1>6

\* A device that descends from another of its chain has its certificate in the
\* table: nothing recorded leads to it otherwise.
LEMMA LaterIsRecorded ==
    ASSUME TypeOK, RotationsGrow, NEW d \in Device,
           NEW e \in RotationChain(d), NEW f \in RotationChain(d),
           e # f, Descends(e, f)
    PROVE  \E t \in transitions : t[2] = f
<1> SUFFICES ASSUME \A t \in transitions : t[2] # f PROVE FALSE
    OBVIOUS
<1>1. e \in Device /\ f \in Device
    BY DEF RotationChain
<1>2. Closed(Line(f))
  <2> SUFFICES ASSUME NEW t \in transitions PROVE t[1] \in Line(f) <=> t[2] \in Line(f)
    BY DEF Closed
  <2>1. t[1] \in Device /\ t[2] = successor[t[1]] /\ t[2] \in Device /\ t[2] # NoDevice /\ t[2] # f
    BY DeviceAssumption DEF TypeOK, RotationsGrow
  <2>2. t[1] \in Line(f) => t[2] \in Line(f)
    BY <2>1, <1>1, LineIsForward DEF Forward
  <2>3. t[2] \in Line(f) => t[1] \in Line(f)
    BY <2>1, <1>1, LineOfPredecessor DEF Line
  <2> QED
    BY <2>2, <2>3
<1>3. f \in Line(f) /\ Line(f) \in SUBSET Device
    BY <1>1, LineIsForward
<1>4. d \in Line(f)
    BY <1>2, <1>3, ChainSymmetric DEF RotationChain
<1>5. e \in Line(f)
    BY <1>2, <1>3, <1>4 DEF RotationChain
<1>6. stamp[e] < stamp[f] /\ stamp[f] < stamp[e]
    BY <1>1, <1>5, LineGrows DEF Line
<1>7. stamp[e] \in Nat /\ stamp[f] \in Nat
    BY <1>1 DEF TypeOK
<1> QED
    BY <1>6, <1>7

LEMMA OrderFollows == TypeOK /\ RotationsGrow => ChainIsOrdered
<1> SUFFICES ASSUME TypeOK, RotationsGrow, NEW d \in Device,
                    NEW e \in RotationChain(d), NEW f \in RotationChain(d), e # f
             PROVE  OrderKey(e) < OrderKey(f) <=> Descends(e, f)
    BY DEF ChainIsOrdered
<1>1. \A x, y \in RotationChain(d) :
         x # y /\ Descends(x, y) => OrderKey(x) < OrderKey(y)
  <2> SUFFICES ASSUME NEW x \in RotationChain(d), NEW y \in RotationChain(d),
                      x # y, Descends(x, y)
               PROVE  OrderKey(x) < OrderKey(y)
    OBVIOUS
  <2>1. x \in Device /\ y \in Device
    BY DEF RotationChain
  <2>2. OrderKey(y) = stamp[y]
    BY LaterIsRecorded DEF OrderKey
  <2>3. stamp[x] < stamp[y] /\ stamp[x] \in Nat /\ stamp[y] \in Nat
    BY <2>1, LineGrows DEF TypeOK
  <2>4. OrderKey(x) \in {stamp[x], 0}
    BY DEF OrderKey
  <2> QED
    BY <2>2, <2>3, <2>4
<1>2. OrderKey(e) \in Nat /\ OrderKey(f) \in Nat
    BY DEF OrderKey, TypeOK, RotationChain
<1>3. Descends(e, f) => OrderKey(e) < OrderKey(f)
    BY <1>1
<1>4. ~ Descends(e, f) => OrderKey(f) < OrderKey(e)
    BY <1>1, ChainIsLine
<1> QED
    BY <1>2, <1>3, <1>4

\* get_rotation_chain sorts every chain from the oldest device to the newest,
\* whichever certificates have reached the store and in whatever order.
THEOREM ChainsAreOrdered == Spec => []ChainIsOrdered
<1>1. Init => RotationsGrow
  <2> SUFFICES ASSUME Init PROVE RotationsGrow
    OBVIOUS
  <2>1. Made = Root
    BY DEF Init, Made
  <2>2. ASSUME NEW x \in Root PROVE stamp[x] < Cardinality(Root)
    <3>1. IsFiniteSet(Root) /\ Root # {} /\ stamp[x] = 0
      BY <2>2, DeviceAssumption, FS_Subset DEF Init
    <3> QED
      BY <3>1, FS_CardinalityType, FS_EmptySet
  <2> QED
    BY <2>1, <2>2 DEF Init, RotationsGrow
<1> QED
    BY <1>1, GrowStep, OrderFollows, TypeCorrect, PTL DEF Spec
=============================================================================
