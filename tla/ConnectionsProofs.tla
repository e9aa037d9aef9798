------------------------- MODULE ConnectionsProofs -------------------------
(***************************************************************************)
(* Theorems about Connections, for any numbers of remote ends, connections *)
(* and concurrent calls.                                                   *)
(***************************************************************************)
EXTENDS Connections, FiniteSetTheorems, TLAPS

\* What is not yet made has no key, no read loop and an open writer, and what
\* was made has a key: with this the properties of the table are inductive.
MadeOrUnused ==
    \A c \in Conn :
        IF tcp[c] = "unused" THEN addrOf[c] = None /\ loop[c] = "none" /\ writer[c] = "open"
                             ELSE addrOf[c] \in Addr

\* Read loops and suspended sends belong to connections that were made.
UsersAreMade ==
    /\ \A c \in Conn : loop[c] # "none" => tcp[c] # "unused"
    /\ \A s \in Sender : draining[s] # None => tcp[draining[s]] # "unused"

IndInv == TypeOK /\ MadeOrUnused /\ UsersAreMade /\ TableIsServed /\ OwnedUnlessReused

LEMMA Separate == None \notin Addr /\ None \notin Conn /\ Outbound \subseteq Addr /\ Inbound \subseteq Addr
    BY SetAssumption DEF Addr

\* An entry of the table is never a connection that is yet to be made.
LEMMA UnusedNotInTable ==
    ASSUME TypeOK, MadeOrUnused, TableIsServed, NEW c \in Conn, tcp[c] = "unused",
           NEW k \in Addr
    PROVE  table[k] # c
    BY Separate DEF TypeOK, MadeOrUnused, TableIsServed, Registered

-----------------------------------------------------------------------------

LEMMA IndInvInit == Init => IndInv
<1> SUFFICES ASSUME Init PROVE IndInv
    OBVIOUS
<1>1. TypeOK
    BY BoundAssumption DEF Init, TypeOK
<1>2. MadeOrUnused /\ UsersAreMade /\ TableIsServed /\ OwnedUnlessReused
    BY DEF Init, MadeOrUnused, UsersAreMade, TableIsServed, OwnedUnlessReused, Registered
<1> QED
    BY <1>1, <1>2 DEF IndInv

\* A new connection in the table, over whatever was there.
LEMMA RegisterStep ==
    ASSUME IndInv, NEW c \in Conn, NEW k \in Addr, Register(c, k),
           UNCHANGED <<draining, server>>, opening' \in [Dial -> Outbound \cup {None}]
    PROVE  IndInv'
<1> USE DEF IndInv
<1>1. TypeOK'
    BY DEF TypeOK, Register
<1>2. MadeOrUnused'
    BY Separate DEF TypeOK, Register, MadeOrUnused
<1>3. UsersAreMade'
    BY Separate DEF TypeOK, Register, UsersAreMade, MadeOrUnused
<1>4. TableIsServed'
  <2> SUFFICES ASSUME NEW j \in Addr, table'[j] # None
               PROVE  LET e == table'[j] IN
                      addrOf'[e] = j /\ loop'[e] \in {"reading", "handling"} /\ writer'[e] = "open"
    BY DEF TableIsServed, Registered
  <2>1. CASE j = k
    BY <2>1 DEF TypeOK, Register, MadeOrUnused
  <2>2. CASE j # k
    <3>1. table'[j] = table[j] /\ table[j] # c /\ table[j] \in Conn
      BY <2>2, UnusedNotInTable DEF TypeOK, Register
    <3> QED
      BY <3>1 DEF TypeOK, Register, TableIsServed, Registered
  <2> QED
    BY <2>1, <2>2
<1>5. OwnedUnlessReused'
  <2> SUFFICES ASSUME NEW e \in Conn, tcp'[e] = "up", writer'[e] = "open"
               PROVE  table'[addrOf'[e]] = e \/ \E d \in Conn \ {e} : addrOf'[d] = addrOf'[e]
    BY DEF OwnedUnlessReused
  <2>1. CASE e = c
    BY <2>1 DEF TypeOK, Register
  <2>2. CASE e # c
    <3>1. tcp[e] = "up" /\ writer[e] = "open" /\ addrOf'[e] = addrOf[e] /\ addrOf[e] \in Addr
      BY <2>2 DEF TypeOK, Register, MadeOrUnused
    <3>2. CASE addrOf[e] = k
      BY <2>2, <3>1, <3>2 DEF TypeOK, Register
    <3>3. CASE addrOf[e] # k /\ table[addrOf[e]] = e
      BY <3>1, <3>3 DEF TypeOK, Register
    <3>4. CASE addrOf[e] # k /\ \E d \in Conn \ {e} : addrOf[d] = addrOf[e]
      <4>1. PICK d \in Conn \ {e} : addrOf[d] = addrOf[e]
        BY <3>4
      <4>2. d # c
        BY <3>1, <4>1, Separate DEF Register, MadeOrUnused
      <4> QED
        BY <3>1, <4>1, <4>2 DEF TypeOK, Register
    <3> QED
      BY <3>1, <3>2, <3>3, <3>4 DEF OwnedUnlessReused
  <2> QED
    BY <2>1, <2>2
<1> QED
    BY <1>1, <1>2, <1>3, <1>4, <1>5

\* A key is popped by a connection that is no longer up and open.
LEMMA PopKeepsOwned ==
    ASSUME IndInv, NEW c \in Conn, addrOf[c] \in Addr, Pop(addrOf[c]), UNCHANGED <<addrOf, tcp>>,
           tcp[c] # "up" \/ writer'[c] = "closed",
           \A d \in Conn : writer'[d] = "open" => writer[d] = "open"
    PROVE  OwnedUnlessReused'
<1> SUFFICES ASSUME NEW e \in Conn, tcp[e] = "up", writer'[e] = "open"
             PROVE  table'[addrOf[e]] = e \/ \E d \in Conn \ {e} : addrOf[d] = addrOf[e]
    BY DEF OwnedUnlessReused
<1>1. e # c
    OBVIOUS
<1>2. CASE addrOf[e] = addrOf[c]
    BY <1>1, <1>2
<1>3. CASE addrOf[e] # addrOf[c]
  <2>1. writer[e] = "open" /\ addrOf[e] \in Addr
    BY DEF IndInv, MadeOrUnused
  <2> QED
    BY <1>3, <2>1 DEF IndInv, TypeOK, OwnedUnlessReused, Pop
<1> QED
    BY <1>2, <1>3

-----------------------------------------------------------------------------

LEMMA IndInvStep == IndInv /\ [Next]_vars => IndInv'
<1> SUFFICES ASSUME IndInv, [Next]_vars PROVE IndInv'
    OBVIOUS
<1> USE DEF IndInv
<1>1. ASSUME NEW k \in Inbound, NEW c \in Conn, HandleIncoming(k, c) PROVE IndInv'
  <2>0. k \in Addr
    BY DEF Addr
  <2>1. CASE ~AtLimit
    BY <1>1, <2>0, <2>1, RegisterStep DEF HandleIncoming, TypeOK
  <2>2. CASE AtLimit
    <3>1. TypeOK' /\ MadeOrUnused' /\ UsersAreMade'
      BY <1>1, <2>0, <2>2 DEF HandleIncoming, TypeOK, MadeOrUnused, UsersAreMade
    <3>2. \A j \in Addr : table[j] # c
      BY <1>1, <2>2, UnusedNotInTable, Zenon DEF HandleIncoming
    <3>3. TableIsServed'
      BY <1>1, <2>2, <3>2 DEF HandleIncoming, TypeOK, TableIsServed, Registered
    <3>4. OwnedUnlessReused'
      <4> SUFFICES ASSUME NEW e \in Conn, tcp'[e] = "up", writer'[e] = "open"
                   PROVE  table'[addrOf'[e]] = e \/ \E d \in Conn \ {e} : addrOf'[d] = addrOf'[e]
        BY DEF OwnedUnlessReused
      <4>1. e # c /\ tcp[e] = "up" /\ writer[e] = "open" /\ addrOf'[e] = addrOf[e] /\ table' = table
        BY <1>1, <2>2 DEF HandleIncoming, TypeOK
      <4>2. CASE table[addrOf[e]] = e
        BY <4>1, <4>2
      <4>3. CASE \E d \in Conn \ {e} : addrOf[d] = addrOf[e]
        <5>1. PICK d \in Conn \ {e} : addrOf[d] = addrOf[e]
          BY <4>3
        <5>2. d # c
          BY <1>1, <2>2, <4>1, <5>1, Separate DEF HandleIncoming, MadeOrUnused
        <5> QED
          BY <1>1, <2>2, <4>1, <5>1, <5>2 DEF HandleIncoming, TypeOK
      <4> QED
        BY <4>1, <4>2, <4>3 DEF OwnedUnlessReused
    <3> QED
      BY <3>1, <3>3, <3>4
  <2> QED
    BY <2>1, <2>2
<1>2. ASSUME NEW d \in Dial, NEW k \in Outbound, ConnectTo(d, k) PROVE IndInv'
    BY <1>2 DEF ConnectTo, connVars, TypeOK, MadeOrUnused, UsersAreMade, TableIsServed,
                OwnedUnlessReused, Registered
<1>3. ASSUME NEW d \in Dial, NEW c \in Conn, ConnectDone(d, c) PROVE IndInv'
  <2>1. opening[d] \in Addr /\ opening' \in [Dial -> Outbound \cup {None}]
    BY <1>3 DEF ConnectDone, TypeOK, Addr
  <2> QED
    BY <1>3, <2>1, RegisterStep DEF ConnectDone
<1>4. ASSUME NEW d \in Dial, ConnectFail(d) PROVE IndInv'
    BY <1>4 DEF ConnectFail, connVars, TypeOK, MadeOrUnused, UsersAreMade, TableIsServed,
                OwnedUnlessReused, Registered
<1>5. ASSUME NEW c \in Conn, Arrive(c) PROVE IndInv'
    BY <1>5, BoundAssumption DEF Arrive, TypeOK, MadeOrUnused, UsersAreMade, TableIsServed,
                OwnedUnlessReused, Registered
<1>6. ASSUME NEW c \in Conn, Lose(c) PROVE IndInv'
    BY <1>6 DEF Lose, TypeOK, MadeOrUnused, UsersAreMade, TableIsServed,
                OwnedUnlessReused, Registered
<1>7. ASSUME NEW c \in Conn, ReadFrame(c) PROVE IndInv'
    BY <1>7, BoundAssumption DEF ReadFrame, TypeOK, MadeOrUnused, UsersAreMade, TableIsServed,
                OwnedUnlessReused, Registered
<1>8. ASSUME NEW c \in Conn, Handled(c) PROVE IndInv'
    BY <1>8 DEF Handled, TypeOK, MadeOrUnused, UsersAreMade, TableIsServed,
                OwnedUnlessReused, Registered
<1>9. ASSUME NEW c \in Conn, ReadLoopEnds(c) PROVE IndInv'
  <2>1. addrOf[c] \in Addr
    BY <1>9 DEF ReadLoopEnds, MadeOrUnused, UsersAreMade
  <2>2. TypeOK' /\ MadeOrUnused' /\ UsersAreMade'
    BY <1>9, <2>1 DEF ReadLoopEnds, Pop, TypeOK, MadeOrUnused, UsersAreMade
  <2>3. TableIsServed'
    BY <1>9, <2>1 DEF ReadLoopEnds, Pop, TypeOK, TableIsServed, Registered
  <2>4. OwnedUnlessReused'
    BY <1>9, <2>1, PopKeepsOwned DEF ReadLoopEnds, TypeOK
  <2> QED
    BY <2>2, <2>3, <2>4
<1>10. ASSUME NEW s \in Sender, NEW k \in Addr, Send(s, k) PROVE IndInv'
  <2>1. table[k] \in Conn /\ tcp[table[k]] # "unused"
    BY <1>10 DEF Send, TypeOK, TableIsServed, Registered, UsersAreMade
  <2> QED
    BY <1>10, <2>1 DEF Send, connVars, TypeOK, MadeOrUnused, UsersAreMade, TableIsServed,
                OwnedUnlessReused, Registered
<1>11. ASSUME NEW s \in Sender, SendOk(s) PROVE IndInv'
    BY <1>11 DEF SendOk, connVars, TypeOK, MadeOrUnused, UsersAreMade, TableIsServed,
                OwnedUnlessReused, Registered
<1>12. ASSUME NEW s \in Sender, SendReset(s) PROVE IndInv'
  <2>1. draining[s] \in Conn /\ addrOf[draining[s]] \in Addr
    BY <1>12 DEF SendReset, TypeOK, MadeOrUnused, UsersAreMade
  <2>2. TypeOK' /\ MadeOrUnused' /\ UsersAreMade'
    BY <1>12, <2>1 DEF SendReset, Pop, connVars, TypeOK, MadeOrUnused, UsersAreMade
  <2>3. TableIsServed'
    BY <1>12, <2>1 DEF SendReset, Pop, connVars, TypeOK, TableIsServed, Registered
  <2>4. OwnedUnlessReused'
    BY <1>12, <2>1, PopKeepsOwned, Zenon DEF SendReset, connVars
  <2> QED
    BY <2>2, <2>3, <2>4
<1>13. CASE CloseAll
  <2>1. TypeOK' /\ MadeOrUnused' /\ UsersAreMade' /\ TableIsServed'
    BY <1>13, UnusedNotInTable, ZenonT(60) DEF CloseAll, TypeOK, MadeOrUnused, UsersAreMade, TableIsServed, Registered
  <2>2. OwnedUnlessReused'
    BY <1>13 DEF CloseAll, TypeOK, MadeOrUnused, OwnedUnlessReused
  <2> QED
    BY <2>1, <2>2
<1>14. CASE UNCHANGED vars
    BY <1>14 DEF vars, connVars, TypeOK, MadeOrUnused, UsersAreMade, TableIsServed,
                 OwnedUnlessReused, Registered
<1> QED
    BY <1>1, <1>2, <1>3, <1>4, <1>5, <1>6, <1>7, <1>8, <1>9, <1>10, <1>11, <1>12, <1>13, <1>14, Zenon
       DEF Next, ReadLoop

\* The invariant the properties of the table follow from.
THEOREM Inductive == Spec => []IndInv
    BY IndInvInit, IndInvStep, PTL DEF Spec

\* Types are kept by every operation of ConnectionManager.
THEOREM TypeCorrect == Spec => []TypeOK
    BY Inductive, PTL DEF IndInv

\* Whatever the order in which read loops end, sends fail, connections are
\* opened over one another and close_all runs, the table holds no dead entry.
THEOREM TableServed == Spec => []TableIsServed
    BY Inductive, PTL DEF IndInv

\* A live connection drops out of the table only if its key was used twice.
THEOREM Owned == Spec => []OwnedUnlessReused
    BY Inductive, PTL DEF IndInv

-----------------------------------------------------------------------------
(* The connection limit.                                                   *)

LEMMA Counts ==
    /\ IsFiniteSet(Registered) /\ Cardinality(Registered) \in Nat
    /\ IsFiniteSet(Dialing) /\ Cardinality(Dialing) \in Nat
    /\ Cardinality(Dialing) <= Cardinality(Dial) /\ Cardinality(Dial) \in Nat
<1>1. Registered \subseteq Addr /\ Dialing \subseteq Dial
    BY DEF Registered, Dialing
<1> QED
    BY <1>1, SetAssumption, FS_Subset, FS_CardinalityType

\* Fewer entries, as many calls: a pop, a clear, a call that fails.
LEMMA FewerKeeps ==
    ASSUME OvershootBounded, Registered' \subseteq Registered, Dialing' \subseteq Dialing
    PROVE  OvershootBounded'
<1>1. /\ Cardinality(Registered') \in Nat /\ Cardinality(Registered') <= Cardinality(Registered)
      /\ Cardinality(Dialing') \in Nat /\ Cardinality(Dialing') <= Cardinality(Dialing)
    BY Counts, FS_Subset, FS_CardinalityType
<1> QED
    BY <1>1, Counts, BoundAssumption DEF OvershootBounded

\* Registering adds one key at most.
LEMMA RegisterAddsOne ==
    ASSUME TypeOK, NEW c \in Conn, NEW k \in Addr, Register(c, k)
    PROVE  /\ Cardinality(Registered') \in Nat
           /\ Cardinality(Registered') <= Cardinality(Registered) + 1
<1>1. Registered' = Registered \cup {k}
    BY Separate DEF TypeOK, Register, Registered
<1>2. Cardinality(Registered \cup {k}) \in {Cardinality(Registered), Cardinality(Registered) + 1}
    BY Counts, FS_AddElement, ZenonT(60)
<1> QED
    BY <1>1, <1>2, Counts

LEMMA OvershootStep == TypeOK /\ OvershootBounded /\ [Next]_vars => OvershootBounded'
<1> SUFFICES ASSUME TypeOK, OvershootBounded, [Next]_vars PROVE OvershootBounded'
    OBVIOUS
<1>1. ASSUME NEW k \in Inbound, NEW c \in Conn, HandleIncoming(k, c) PROVE OvershootBounded'
  <2>1. CASE AtLimit
    BY <1>1, <2>1, FewerKeeps DEF HandleIncoming, Registered, Dialing
  <2>2. CASE ~AtLimit
    <3>1. Cardinality(Registered') \in Nat /\ Cardinality(Registered') <= Cardinality(Registered) + 1
      BY <1>1, <2>2, RegisterAddsOne, Separate DEF HandleIncoming
    <3>2. Dialing' = Dialing
      BY <1>1 DEF HandleIncoming, Dialing
    <3>3. Cardinality(Registered) < MaxConnections
      BY <2>2, Counts, BoundAssumption DEF AtLimit
    <3> QED
      BY <3>1, <3>2, <3>3, Counts, BoundAssumption DEF OvershootBounded
  <2> QED
    BY <2>1, <2>2
<1>2. ASSUME NEW d \in Dial, NEW k \in Outbound, ConnectTo(d, k) PROVE OvershootBounded'
  <2>1. Registered' = Registered /\ Cardinality(Registered) < MaxConnections
    BY <1>2, Counts, BoundAssumption DEF ConnectTo, Registered, AtLimit
  <2>2. Dialing' \subseteq Dial
    BY DEF Dialing
  <2>3. Cardinality(Dialing') \in Nat /\ Cardinality(Dialing') <= Cardinality(Dial)
    BY <2>2, SetAssumption, FS_Subset, FS_CardinalityType
  <2> QED
    BY <2>1, <2>3, Counts, BoundAssumption DEF OvershootBounded
<1>3. ASSUME NEW d \in Dial, NEW c \in Conn, ConnectDone(d, c) PROVE OvershootBounded'
  <2>1. Cardinality(Registered') \in Nat /\ Cardinality(Registered') <= Cardinality(Registered) + 1
    BY <1>3, RegisterAddsOne, Separate, Zenon DEF ConnectDone, TypeOK
  <2>2. Dialing' = Dialing \ {d} /\ d \in Dialing
    BY <1>3 DEF ConnectDone, Dialing, TypeOK
  <2>3. Cardinality(Dialing') = Cardinality(Dialing) - 1
    BY <2>2, Counts, FS_RemoveElement, Zenon
  <2> QED
    BY <2>1, <2>3, Counts, BoundAssumption DEF OvershootBounded
<1>4. ASSUME NEW d \in Dial, ConnectFail(d) PROVE OvershootBounded'
  <2>1. Registered' = Registered /\ Dialing' \subseteq Dialing
    BY <1>4 DEF ConnectFail, Registered, Dialing, TypeOK
  <2> QED
    BY <2>1, FewerKeeps
<1>5. ASSUME NEW c \in Conn, Arrive(c) \/ Lose(c) \/ ReadFrame(c) \/ Handled(c)
      PROVE  OvershootBounded'
    BY <1>5, FewerKeeps, Zenon DEF Arrive, Lose, ReadFrame, Handled, Registered, Dialing
<1>6. ASSUME NEW c \in Conn, ReadLoopEnds(c) PROVE OvershootBounded'
  <2>1. Registered' \subseteq Registered /\ Dialing' = Dialing
    BY <1>6 DEF ReadLoopEnds, Pop, Registered, Dialing, TypeOK
  <2> QED
    BY <2>1, FewerKeeps
<1>7. ASSUME NEW s \in Sender, NEW k \in Addr, Send(s, k) PROVE OvershootBounded'
    BY <1>7, FewerKeeps DEF Send, Registered, Dialing
<1>8. ASSUME NEW s \in Sender, SendOk(s) PROVE OvershootBounded'
    BY <1>8, FewerKeeps DEF SendOk, Registered, Dialing
<1>9. ASSUME NEW s \in Sender, SendReset(s) PROVE OvershootBounded'
  <2>1. Registered' \subseteq Registered /\ Dialing' = Dialing
    BY <1>9 DEF SendReset, Pop, Registered, Dialing, TypeOK
  <2> QED
    BY <2>1, FewerKeeps
<1>10. CASE CloseAll
  <2>1. Registered' \subseteq Registered /\ Dialing' = Dialing
    BY <1>10 DEF CloseAll, Registered, Dialing, TypeOK
  <2> QED
    BY <2>1, FewerKeeps
<1>11. CASE UNCHANGED vars
    BY <1>11, FewerKeeps DEF vars, Registered, Dialing
<1> QED
    BY <1>1, <1>2, <1>3, <1>4, <1>5, <1>6, <1>7, <1>8, <1>9, <1>10, <1>11 DEF Next, ReadLoop

\* However many calls of connect_to pass the check of MAX_CONNECTIONS before
\* one of them has opened its connection, the table exceeds the limit by no
\* more than their number.
THEOREM LimitOvershoot == Spec => []OvershootBounded
<1>1. Init => OvershootBounded
  <2> SUFFICES ASSUME Init PROVE OvershootBounded
    OBVIOUS
  <2>1. Registered = {} /\ Dialing = {}
    BY DEF Init, Registered, Dialing
  <2> QED
    BY <2>1, FS_EmptySet, Counts, BoundAssumption DEF OvershootBounded
<1> QED
    BY <1>1, OvershootStep, TypeCorrect, PTL DEF Spec

-----------------------------------------------------------------------------
(* What ends is forgotten.  The prover does not look into ENABLED: that a  *)
(* read loop has a step to take when its connection is over is a           *)
(* hypothesis.                                                             *)

Over(c) == tcp[c] \in {"ended", "failed"}
Gone(c) == \A k \in Addr : table[k] # c

\* A read loop that handles a frame can come back, and one that reads from a
\* connection that is over takes what is left or ends.
CanLoop(c) == ENABLED <<ReadLoop(c)>>_vars
LoopRuns == \A c \in Conn : loop[c] = "handling" \/ (loop[c] = "reading" /\ Over(c)) => CanLoop(c)

\* What a step does to the entry of a connection that is over.
LEMMA OverStep ==
    ASSUME IndInv, [Next]_vars, NEW c \in Conn, Over(c)
    PROVE  /\ tcp'[c] = tcp[c]
           /\ Gone(c) => Gone(c)'
           /\ \/ loop'[c] = loop[c] /\ unread'[c] = unread[c]
              \/ ReadLoop(c)
<1> DEFINE Kept == /\ tcp'[c] = tcp[c]
                   /\ Gone(c) => Gone(c)'
                   /\ \/ loop'[c] = loop[c] /\ unread'[c] = unread[c]
                      \/ ReadLoop(c)
<1> SUFFICES Kept
    OBVIOUS
<1> USE DEF IndInv
<1>1. ASSUME NEW d \in Conn, NEW k \in Addr, Register(d, k) PROVE Kept
  <2>1. d # c
    BY <1>1 DEF Register, Over
  <2> QED
    BY <1>1, <2>1 DEF Register, TypeOK, Gone
<1>2. ASSUME NEW k \in Inbound, NEW d \in Conn, HandleIncoming(k, d) PROVE Kept
  <2>1. CASE AtLimit
    <3>1. d # c
      BY <1>2, <2>1 DEF HandleIncoming, Over
    <3> QED
      BY <1>2, <2>1, <3>1 DEF HandleIncoming, TypeOK, Gone
  <2>2. CASE ~AtLimit
    BY <1>1, <1>2, <2>2, Separate, Zenon DEF HandleIncoming
  <2> QED
    BY <2>1, <2>2
<1>3. ASSUME NEW d \in Dial, NEW e \in Conn, ConnectDone(d, e) PROVE Kept
  <2>1. opening[d] \in Addr
    BY <1>3, Separate DEF ConnectDone, TypeOK
  <2> QED
    BY <1>1, <1>3, <2>1, Zenon DEF ConnectDone
<1>4. ASSUME NEW d \in Conn, Arrive(d) \/ Lose(d) PROVE Kept
  <2>1. d # c
    BY <1>4, Zenon DEF Arrive, Lose, Over
  <2> QED
    BY <1>4, <2>1, Zenon DEF Arrive, Lose, TypeOK, Gone
<1>5. ASSUME NEW d \in Conn, ReadLoop(d) PROVE Kept
  <2>1. tcp' = tcp /\ (Gone(c) => Gone(c)')
    <3>1. tcp' = tcp
      BY <1>5, Zenon DEF ReadLoop, ReadFrame, Handled, ReadLoopEnds
    <3>2. CASE table' = table
      BY <3>1, <3>2 DEF Gone
    <3>3. CASE \E k : Pop(k)
      BY <3>1, <3>3, Separate DEF Gone, Pop, TypeOK
    <3> QED
      BY <1>5, <3>2, <3>3, Zenon DEF ReadLoop, ReadFrame, Handled, ReadLoopEnds
  <2>2. CASE d = c
    BY <1>5, <2>1, <2>2, Zenon
  <2>3. CASE d # c
    BY <1>5, <2>1, <2>3, ZenonT(60) DEF ReadLoop, ReadFrame, Handled, ReadLoopEnds, TypeOK
  <2> QED
    BY <2>2, <2>3
<1>6. ASSUME UNCHANGED connVars, table' = table \/ \E k : Pop(k) PROVE Kept
  BY <1>6, Separate DEF connVars, Gone, Pop, TypeOK
<1>7. CASE CloseAll
  BY <1>7, Separate, Zenon DEF CloseAll, Gone
<1> QED
  BY <1>2, <1>3, <1>4, <1>5, <1>6, <1>7, Zenon
     DEF Next, vars, ConnectTo, ConnectFail, Send, SendOk, SendReset

\* A connection that failed, or ended with nothing left to read, leaves the
\* table: its read loop comes back from its handlers and ends.
THEOREM DrainedIsForgotten ==
    FairSpec /\ []LoopRuns
        => \A c \in Conn : (tcp[c] = "failed" \/ (tcp[c] = "ended" /\ unread[c] = 0))
                               ~> (\A k \in Addr : table[k] # c)
<1> SUFFICES ASSUME NEW c \in Conn
             PROVE  FairSpec /\ []LoopRuns
                        => ((tcp[c] = "failed" \/ (tcp[c] = "ended" /\ unread[c] = 0))
                               ~> (\A k \in Addr : table[k] # c))
  OBVIOUS
<1> DEFINE D == tcp[c] = "failed" \/ (tcp[c] = "ended" /\ unread[c] = 0)
           H == D /\ ~Gone(c) /\ loop[c] = "handling"
           R == D /\ ~Gone(c) /\ loop[c] = "reading"
           Q == \A k \in Addr : table[k] # c
<1>1. IndInv /\ D => H \/ R \/ Q
  BY Separate DEF IndInv, TypeOK, TableIsServed, Registered, Gone
<1>2. IndInv /\ H /\ [Next]_vars => H' \/ R' \/ Q'
  <2> SUFFICES ASSUME IndInv, H, [Next]_vars PROVE D' /\ (loop'[c] \in {"handling", "reading"})
    BY Zenon DEF Gone
  <2>1. CASE loop'[c] = loop[c] /\ unread'[c] = unread[c]
    BY <2>1, OverStep DEF Over
  <2>2. CASE ReadLoop(c)
    BY <2>2, OverStep, Zenon DEF Over, ReadLoop, ReadFrame, Handled, ReadLoopEnds, IndInv, TypeOK
  <2> QED
    BY <2>1, <2>2, OverStep DEF Over
<1>3. IndInv /\ H /\ <<ReadLoop(c)>>_vars => R' \/ Q'
  <2> SUFFICES ASSUME IndInv, H, ReadLoop(c) PROVE D' /\ loop'[c] = "reading"
    BY Zenon DEF Gone
  <2> QED
    BY Zenon DEF ReadLoop, ReadFrame, Handled, ReadLoopEnds, IndInv, TypeOK
<1>4. IndInv /\ R /\ ReadLoop(c) => Q'
  <2> SUFFICES ASSUME IndInv, R, ReadLoop(c) PROVE Q'
    BY Zenon
  <2>1. ReadLoopEnds(c)
    BY DEF ReadLoop, ReadFrame, Handled
  <2>2. addrOf[c] \in Addr /\ \A k \in Addr : table[k] = c => k = addrOf[c]
    BY Separate DEF IndInv, MadeOrUnused, TableIsServed, Registered
  <2> QED
    BY <2>1, <2>2, Separate, Zenon DEF ReadLoopEnds, Pop, IndInv, TypeOK
<1>5. IndInv /\ R /\ [Next]_vars => R' \/ Q'
  <2> SUFFICES ASSUME IndInv, R, [Next]_vars PROVE (D' /\ loop'[c] = "reading") \/ Q'
    BY Zenon DEF Gone
  <2>1. CASE loop'[c] = loop[c] /\ unread'[c] = unread[c]
    BY <2>1, OverStep DEF Over
  <2>2. CASE ReadLoop(c)
    BY <1>4, <2>2
  <2> QED
    BY <2>1, <2>2, OverStep, Zenon DEF Over
<1>6. LoopRuns => (H \/ R => CanLoop(c))
  BY DEF LoopRuns, Over
<1>7. Fairness => LoopFairness(c)
  BY DEF Fairness
<1> QED
  BY <1>1, <1>2, <1>3, <1>4, <1>5, <1>6, <1>7, Inductive, PTL DEF FairSpec, Spec, CanLoop, LoopFairness

\* The frames left on a connection that ended are read one after the other,
\* none arriving any more, as long as it is in the table; one that is malformed
\* takes it out at once.
THEOREM LeftoverIsRead ==
    FairSpec /\ []LoopRuns
        => \A c \in Conn, n \in Nat : (tcp[c] = "ended" /\ unread[c] = n + 1)
                                          ~> ((\A k \in Addr : table[k] # c) \/ (tcp[c] = "ended" /\ unread[c] = n))
<1> SUFFICES ASSUME NEW c \in Conn, NEW n \in Nat
             PROVE  FairSpec /\ []LoopRuns
                        => ((tcp[c] = "ended" /\ unread[c] = n + 1)
                               ~> ((\A k \in Addr : table[k] # c) \/ (tcp[c] = "ended" /\ unread[c] = n)))
  OBVIOUS
<1> DEFINE D == tcp[c] = "ended" /\ unread[c] = n + 1
           H == D /\ ~Gone(c) /\ loop[c] = "handling"
           R == D /\ ~Gone(c) /\ loop[c] = "reading"
           Q == (\A k \in Addr : table[k] # c) \/ (tcp[c] = "ended" /\ unread[c] = n)
<1>1. IndInv /\ D => H \/ R \/ Q
  BY Separate DEF IndInv, TypeOK, TableIsServed, Registered, Gone
<1>2. IndInv /\ H /\ [Next]_vars => H' \/ R' \/ Q'
  <2> SUFFICES ASSUME IndInv, H, [Next]_vars PROVE D' /\ (loop'[c] \in {"handling", "reading"})
    BY DEF Gone
  <2>1. CASE loop'[c] = loop[c] /\ unread'[c] = unread[c]
    BY <2>1, OverStep, Zenon DEF Over
  <2>2. CASE ReadLoop(c)
    BY <2>2, OverStep, ZenonT(60) DEF Over, ReadLoop, ReadFrame, Handled, ReadLoopEnds, IndInv, TypeOK
  <2> QED
    BY <2>1, <2>2, OverStep, Zenon DEF Over
<1>3. IndInv /\ H /\ <<ReadLoop(c)>>_vars => R' \/ Q'
  <2> SUFFICES ASSUME IndInv, H, ReadLoop(c) PROVE D' /\ loop'[c] = "reading"
    BY Zenon DEF Gone
  <2> QED
    BY Zenon DEF ReadLoop, ReadFrame, Handled, ReadLoopEnds, IndInv, TypeOK
<1>4. IndInv /\ R /\ ReadLoop(c) => Q'
  <2> SUFFICES ASSUME IndInv, R, ReadLoop(c) PROVE Q'
    OBVIOUS
  <2>1. CASE ReadLoopEnds(c)
    <3>1. addrOf[c] \in Addr /\ \A k \in Addr : table[k] = c => k = addrOf[c]
      BY Separate, ZenonT(60) DEF IndInv, MadeOrUnused, TableIsServed, Registered
    <3> QED
      BY <2>1, <3>1, Separate, Zenon DEF ReadLoopEnds, Pop, IndInv, TypeOK
  <2>2. CASE ReadFrame(c)
    <3>1. tcp'[c] = "ended" /\ unread'[c] = unread[c] - 1
      BY <2>2 DEF ReadFrame, IndInv, TypeOK
    <3>2. n + 1 - 1 = n
      OBVIOUS
    <3> QED
      BY <3>1, <3>2
  <2> QED
    BY <2>1, <2>2 DEF ReadLoop, Handled
<1>5. IndInv /\ R /\ [Next]_vars => R' \/ Q'
  <2> SUFFICES ASSUME IndInv, R, [Next]_vars PROVE (D' /\ loop'[c] = "reading") \/ Q'
    BY Zenon DEF Gone
  <2>1. CASE loop'[c] = loop[c] /\ unread'[c] = unread[c]
    BY <2>1, OverStep, Zenon DEF Over
  <2>2. CASE ReadLoop(c)
    BY <1>4, <2>2, Zenon
  <2> QED
    BY <2>1, <2>2, OverStep, Zenon DEF Over
<1>6. LoopRuns => (H \/ R => CanLoop(c))
  BY Zenon DEF LoopRuns, Over
<1>7. Fairness => LoopFairness(c)
  BY DEF Fairness
<1> QED
  BY <1>1, <1>2, <1>3, <1>4, <1>5, <1>6, <1>7, Inductive, PTL DEF FairSpec, Spec, CanLoop, LoopFairness

\* What has left the table does not come back.
THEOREM GoneStaysGone == Spec => [][\A c \in Conn : Over(c) /\ Gone(c) => Over(c)' /\ Gone(c)']_vars
<1>1. IndInv /\ [Next]_vars => \A c \in Conn : Over(c) /\ Gone(c) => Over(c)' /\ Gone(c)'
  BY OverStep DEF Over
<1> QED
  BY <1>1, Inductive, PTL DEF Spec
=============================================================================
