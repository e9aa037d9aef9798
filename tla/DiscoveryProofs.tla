--------------------------- MODULE DiscoveryProofs ---------------------------
(***************************************************************************)
(* Proofs about Discovery, for any nodes, any reachability in which two    *)
(* nodes are connected one way at least, and any intervals.  The age of an *)
(* entry is measured against two clocks: what is left until its own node   *)
(* prunes, and what is left until the next announcement that should        *)
(* refresh it.                                                             *)
(***************************************************************************)
EXTENDS Discovery, TLAPS

Types ==
    /\ up \in [Node -> BOOLEAN]
    /\ registry = [n \in Node |-> registry[n]]
    /\ \A n \in Node : /\ DOMAIN registry[n] \subseteq Others(n)
                       /\ \A i \in DOMAIN registry[n] : registry[n][i] \in Nat
    /\ active \in [Node -> Id \cup {None}]
    /\ \A n \in Node : active[n] \in Others(n) \cup {None}
    /\ announce \in [Node -> 0..AnnounceInterval]
    /\ prune \in [Node -> 0..PruneInterval]
    /\ dialing \in [Node -> Node \cup {None}]
    /\ \A n \in Node : dialing[n] # None => up[n] /\ dialing[n] # n
    /\ net \subseteq Packet
    /\ commands \in 0..MaxCommands /\ quits \in 0..MaxQuits
    /\ missed \in [Node -> [Node -> 0..MaxMissed]]

-----------------------------------------------------------------------------
(* The helpers of the model.                                               *)

LEMMA IdFacts ==
    /\ \A m \in Node : m \in Id /\ Manual(m) \in Id /\ AddrOf(m) = m /\ AddrOf(Manual(m)) = m
    /\ \A n, m \in Node : n # m => m \in Others(n) /\ Manual(m) \in Others(n)
    /\ \A n \in Node : \A i \in Others(n) : AddrOf(i) \in Node
    /\ \A n \in Node : n \notin Others(n) /\ Others(n) \subseteq Id
    /\ None \notin Node
<1>1. \A m \in Node : m \in Id /\ Manual(m) \in Id
  BY DEF Id
<1>2. \A m \in Node : AddrOf(m) = m /\ AddrOf(Manual(m)) = m
  BY IdAssumption, Zenon DEF AddrOf, Manual
<1>3. \A n, m \in Node : n # m => Manual(n) # Manual(m)
  BY DEF Manual
<1>4. \A n, m \in Node : n # m => m \in Others(n) /\ Manual(m) \in Others(n)
  BY <1>1, <1>3, IdAssumption DEF Others
<1>5. \A i \in Id : AddrOf(i) \in Node
  BY <1>2 DEF Id
<1> QED
  BY <1>1, <1>2, <1>4, <1>5, IdAssumption DEF Others, Id

LEMMA SendFacts ==
    \A kind \in {"announce", "reply", "hello", "hello_ack", "chat"}, n, m \in Node :
        /\ Send(kind, n, m) \in Packet
        /\ Send(kind, n, m).kind = kind /\ Send(kind, n, m).from = n /\ Send(kind, n, m).to = m
BY DEF Send, Packet

LEMMA PacketFacts ==
    \A p \in Packet : p.kind \in {"announce", "reply", "hello", "hello_ack", "chat"} /\ p.from \in Node /\ p.to \in Node
BY DEF Packet

LEMMA ResponseFacts ==
    ASSUME NEW p \in Packet
    PROVE  /\ Response(p) \subseteq Packet
           /\ p.kind = "announce" => Response(p) = {Send("reply", p.to, p.from)}
<1>1. p.from \in Node /\ p.to \in Node
  BY PacketFacts
<1>2. Send("reply", p.to, p.from) \in Packet /\ Send("hello_ack", p.to, p.from) \in Packet
  BY <1>1, SendFacts
<1>3. CASE p.kind = "announce"
  BY <1>2, <1>3 DEF Response
<1>4. CASE p.kind = "hello"
  BY <1>2, <1>4 DEF Response
<1>5. CASE p.kind # "announce" /\ p.kind # "hello"
  BY <1>5 DEF Response
<1> QED
  BY <1>3, <1>4, <1>5

LEMMA StampedFacts ==
    \A peers, i : /\ DOMAIN Stamped(peers, i) = DOMAIN peers \cup {i}
                  /\ Stamped(peers, i)[i] = 0
                  /\ \A j \in DOMAIN peers : j # i => Stamped(peers, i)[j] = peers[j]
BY DEF Stamped

\* The announcements that fit in PEER_TIMEOUT do fit.
LEMMA MaxMissedFacts ==
    /\ MaxMissed \in Nat \ {0}
    /\ MaxMissed * AnnounceInterval <= PeerTimeout
<1>1. ASSUME NEW a \in Nat \ {0}, NEW k \in Nat, a <= k
      PROVE  k \div a \in Nat \ {0} /\ (k \div a) * a <= k
  BY <1>1
<1> QED
  BY <1>1, IntervalAssumption, Zenon DEF MaxMissed

-----------------------------------------------------------------------------
(* How a step changes a registry: it stamps an entry, drops entries or     *)
(* lets time pass.                                                         *)

\* n stamps the entry i.
Stamps(n, i) == registry' = [registry EXCEPT ![n] = Stamped(@, i)]

LEMMA StampsFacts ==
    ASSUME Types, NEW n \in Node, NEW i, Stamps(n, i)
    PROVE  /\ registry' = [k \in Node |-> registry'[k]]
           /\ \A k \in Node : k # n => registry'[k] = registry[k]
           /\ DOMAIN registry'[n] = DOMAIN registry[n] \cup {i}
           /\ registry'[n][i] = 0
           /\ \A j \in DOMAIN registry[n] : j # i => registry'[n][j] = registry[n][j]
<1>1. registry' = [registry EXCEPT ![n] = Stamped(registry[n], i)] /\ registry = [k \in Node |-> registry[k]]
  BY DEF Stamps, Types
<1>2. registry' = [k \in Node |-> registry'[k]]
  BY <1>1
<1>3. (\A k \in Node : k # n => registry'[k] = registry[k]) /\ registry'[n] = Stamped(registry[n], i)
  BY <1>1
<1>4. /\ DOMAIN Stamped(registry[n], i) = DOMAIN registry[n] \cup {i}
      /\ Stamped(registry[n], i)[i] = 0
      /\ \A j \in DOMAIN registry[n] : j # i => Stamped(registry[n], i)[j] = registry[n][j]
  BY StampedFacts, Zenon
<1> QED
  BY <1>2, <1>3, <1>4

LEMMA StampKeepsTypes ==
    ASSUME Types, NEW n \in Node, NEW i \in Others(n), Stamps(n, i)
    PROVE  /\ registry' = [k \in Node |-> registry'[k]]
           /\ \A k \in Node : /\ DOMAIN registry'[k] \subseteq Others(k)
                              /\ \A j \in DOMAIN registry'[k] : registry'[k][j] \in Nat
<1>1. registry' = [k \in Node |-> registry'[k]]
  BY StampsFacts
<1>2. ASSUME NEW k \in Node
      PROVE  DOMAIN registry'[k] \subseteq Others(k) /\ \A j \in DOMAIN registry'[k] : registry'[k][j] \in Nat
  <2>1. CASE k # n
    BY <2>1, StampsFacts DEF Types
  <2>2. CASE k = n
    BY <2>2, StampsFacts DEF Types
  <2> QED
    BY <2>1, <2>2
<1> QED
  BY <1>1, <1>2

\* What a drop or a restart leaves: an empty registry at n, or a part of it.
LEMMA TypesStep ==
    ASSUME Types, [Next]_vars
    PROVE  Types'
<1> USE IntervalAssumption
<1>1. ASSUME NEW n \in Node, Start(n) PROVE Types'
  BY <1>1 DEF Start, Types
<1>2. ASSUME NEW n \in Node, Quit(n) PROVE Types'
  <2>1. \A k \in Node : /\ DOMAIN registry'[k] \subseteq Others(k)
                        /\ \A i \in DOMAIN registry'[k] : registry'[k][i] \in Nat
    <3> TAKE k \in Node
    <3>1. CASE k = n
      <4>1. registry'[k] = << >> /\ DOMAIN << >> = {}
        BY <1>2, <3>1 DEF Quit, Types
      <4> QED
        BY <4>1
    <3>2. CASE k # n
      <4>1. registry'[k] = registry[k]
        BY <1>2, <3>2 DEF Quit, Types
      <4> QED
        BY <4>1 DEF Types
    <3> QED
      BY <3>1, <3>2
  <2>2. registry' = [k \in Node |-> registry'[k]]
    BY <1>2, Zenon DEF Quit, Types
  <2>3. active' \in [Node -> Id \cup {None}] /\ \A k \in Node : active'[k] \in Others(k) \cup {None}
    BY <1>2, ZenonT(60) DEF Quit, Types
  <2>4. announce' \in [Node -> 0..AnnounceInterval] /\ prune' \in [Node -> 0..PruneInterval]
    BY <1>2, SMTT(30) DEF Quit, Types
  <2>5. /\ up' \in [Node -> BOOLEAN] /\ dialing' \in [Node -> Node \cup {None}]
        /\ \A k \in Node : dialing'[k] # None => up'[k] /\ dialing'[k] # k
    BY <1>2, Zenon DEF Quit, Types
  <2>6. missed' \in [Node -> [Node -> 0..MaxMissed]]
    <3>1. MaxMissed \in 0..MaxMissed /\ 0 \in 0..MaxMissed
      BY MaxMissedFacts
    <3>2. \A k, m \in Node : missed[k][m] \in 0..MaxMissed
      BY DEF Types
    <3>3. missed' = [k \in Node |-> [m \in Node |->
                     IF k = n THEN 0 ELSE IF m = n THEN MaxMissed ELSE missed[k][m]]]
      BY <1>2 DEF Quit
    <3> HIDE DEF MaxMissed
    <3> QED
      BY <3>1, <3>2, <3>3
  <2>7. quits' \in 0..MaxQuits /\ UNCHANGED <<net, commands>>
    BY <1>2, SMTT(30) DEF Quit, Types
  <2> QED
    BY <2>1, <2>2, <2>3, <2>4, <2>5, <2>6, <2>7 DEF Types
<1>3. ASSUME NEW n \in Node, Announce(n) PROVE Types'
  <2>1. announce' \in [Node -> 0..AnnounceInterval]
    BY <1>3 DEF Announce, Types
  <2>2. net' \subseteq Packet
    <3>1. \A m \in Node : Send("announce", n, m) \in Packet
      BY SendFacts
    <3>2. PICK M \in SUBSET Node : net' = net \cup {Send("announce", n, m) : m \in M}
      <4>1. {n} \cup {k \in Node : <<n, k>> \in Reaches} \in SUBSET Node
        OBVIOUS
      <4> QED
        BY <1>3, <4>1, Zenon DEF Announce
    <3> QED
      BY <3>1, <3>2 DEF Types
  <2> QED
    BY <1>3, <2>1, <2>2, Zenon DEF Announce, Types
<1>4. ASSUME NEW n \in Node, PruneStale(n) PROVE Types'
  <2>1. \A k \in Node : /\ DOMAIN registry'[k] \subseteq Others(k)
                        /\ \A i \in DOMAIN registry'[k] : registry'[k][i] \in Nat
    <3> TAKE k \in Node
    <3>1. CASE k = n
      <4>1. registry'[k] = [i \in {j \in DOMAIN registry[k] : registry[k][j] <= PeerTimeout} |-> registry[k][i]]
        BY <1>4, <3>1 DEF PruneStale, Types
      <4> QED
        BY <4>1 DEF Types
    <3>2. CASE k # n
      <4>1. registry'[k] = registry[k]
        BY <1>4, <3>2 DEF PruneStale, Types
      <4> QED
        BY <4>1 DEF Types
    <3> QED
      BY <3>1, <3>2
  <2>2. registry' = [k \in Node |-> registry'[k]]
    BY <1>4, Zenon DEF PruneStale, Types
  <2>3. prune' \in [Node -> 0..PruneInterval]
    BY <1>4 DEF PruneStale, Types
  <2> QED
    BY <1>4, <2>1, <2>2, <2>3 DEF PruneStale, Types
<1>5. ASSUME NEW p \in net, Deliver(p) PROVE Types'
  <2>1. p \in Packet /\ p.from \in Node /\ p.to \in Node /\ p.from # p.to
    BY <1>5, PacketFacts DEF Types, Deliver
  <2>2. p.from \in Others(p.to)
    BY <2>1, IdFacts
  <2>3. Stamps(p.to, p.from)
    BY <1>5 DEF Deliver, Hear, Upsert, Stamps
  <2>4. /\ registry' = [k \in Node |-> registry'[k]]
        /\ \A k \in Node : /\ DOMAIN registry'[k] \subseteq Others(k)
                           /\ \A j \in DOMAIN registry'[k] : registry'[k][j] \in Nat
    BY <2>1, <2>2, <2>3, StampKeepsTypes
  <2>5. active' = [active EXCEPT ![p.to] = IF active[p.to] = None THEN p.from ELSE active[p.to]]
    BY <1>5 DEF Deliver, Hear, Upsert
  <2>6. active' \in [Node -> Id \cup {None}] /\ \A k \in Node : active'[k] \in Others(k) \cup {None}
    BY <2>1, <2>2, <2>5, IdFacts DEF Types
  <2>7. net' \subseteq Packet
    BY <1>5, <2>1, ResponseFacts DEF Deliver, Types
  <2>8. missed' = [missed EXCEPT ![p.to][p.from] = IF up[p.from] THEN 0 ELSE MaxMissed]
    BY <1>5 DEF Deliver, Hear
  <2>9. missed' \in [Node -> [Node -> 0..MaxMissed]]
    <3>1. MaxMissed \in 0..MaxMissed /\ 0 \in 0..MaxMissed
      BY MaxMissedFacts
    <3> HIDE DEF MaxMissed
    <3> QED
      BY <2>1, <2>8, <3>1 DEF Types
  <2>10. UNCHANGED <<up, announce, prune, dialing, commands, quits>>
    BY <1>5 DEF Deliver
  <2> QED
    BY <2>4, <2>6, <2>7, <2>9, <2>10 DEF Types
<1>6. ASSUME NEW p \in net, IgnoreOwn(p) PROVE Types'
  BY <1>6 DEF IgnoreOwn, Types
<1>7. ASSUME NEW p \in net, Lose(p) PROVE Types'
  <2>1. missed' \in [Node -> [Node -> 0..MaxMissed]]
    <3>1. MaxMissed \in Nat
      BY MaxMissedFacts
    <3>2. \A n, m \in Node : missed[n][m] \in 0..MaxMissed
      BY DEF Types
    <3> HIDE DEF MaxMissed
    <3> QED
      BY <1>7, <3>1, <3>2 DEF Lose, Miss
  <2> QED
    BY <1>7, <2>1 DEF Lose, Types
<1>8. ASSUME NEW n \in Node, NEW m \in Node, Connect(n, m) PROVE Types'
  <2>1. net' \subseteq Packet
    BY <1>8, SendFacts DEF Connect, Types
  <2> QED
    BY <1>8, <2>1 DEF Connect, Types
<1>9. ASSUME NEW n \in Node, ConnectFail(n) PROVE Types'
  BY <1>9 DEF ConnectFail, Types
<1>10. ASSUME NEW n \in Node, ConnectDone(n) PROVE Types'
  <2> DEFINE m == dialing[n]
             id == IF Listed(n, m) /\ ~Listed(n, Manual(m)) THEN m ELSE Manual(m)
  <2>1. m \in Node /\ m # n /\ up[n]
    BY <1>10 DEF ConnectDone, Types
  <2>2. id \in Others(n) /\ id \in Id
    BY <2>1, IdFacts
  <2>3. /\ dialing' = [dialing EXCEPT ![n] = None]
        /\ net' = net \cup {Send("hello", n, m)}
        /\ registry' = registry \/ Stamps(n, id)
        /\ active' = [active EXCEPT ![n] = id]
        /\ UNCHANGED <<up, announce, prune, commands, quits, missed>>
    BY <1>10 DEF ConnectDone, Stamps
  <2> HIDE DEF id, m
  <2>4. net' \subseteq Packet
    BY <2>1, <2>3, SendFacts DEF Types
  <2>5. /\ registry' = [k \in Node |-> registry'[k]]
        /\ \A k \in Node : /\ DOMAIN registry'[k] \subseteq Others(k)
                           /\ \A j \in DOMAIN registry'[k] : registry'[k][j] \in Nat
    <3>1. CASE registry' = registry
      BY <3>1 DEF Types
    <3>2. CASE Stamps(n, id)
      BY <2>2, <3>2, StampKeepsTypes
    <3> QED
      BY <2>3, <3>1, <3>2
  <2>6. active' \in [Node -> Id \cup {None}] /\ \A k \in Node : active'[k] \in Others(k) \cup {None}
    BY <2>2, <2>3 DEF Types
  <2>7. /\ dialing' \in [Node -> Node \cup {None}]
        /\ \A k \in Node : dialing'[k] # None => up[k] /\ dialing'[k] # k
    BY <2>3 DEF Types
  <2> QED
    BY <2>3, <2>4, <2>5, <2>6, <2>7 DEF Types
<1>11. ASSUME NEW n \in Node, NEW i \in Id, Select(n, i) PROVE Types'
  BY <1>11 DEF Select, Listed, Types
<1>12. ASSUME NEW n \in Node, SendText(n) PROVE Types'
  <2>1. Send("chat", n, AddrOf(active[n])) \in Packet
    BY <1>12, IdFacts, SendFacts DEF SendText, Types
  <2> QED
    BY <1>12, <2>1 DEF SendText, Types
<1>13. CASE Tick
  <2>1. registry' = [n \in Node |-> [i \in DOMAIN registry[n] |-> registry[n][i] + 1]]
    BY <1>13 DEF Tick
  <2>2. \A n \in Node : /\ DOMAIN registry'[n] = DOMAIN registry[n]
                        /\ \A i \in DOMAIN registry[n] : registry'[n][i] = registry[n][i] + 1
    BY <2>1
  <2>3. registry' = [n \in Node |-> registry'[n]]
    BY <2>1
  <2>4. announce' \in [Node -> 0..AnnounceInterval] /\ prune' \in [Node -> 0..PruneInterval]
    BY <1>13 DEF Tick, Types
  <2> QED
    BY <1>13, <2>2, <2>3, <2>4 DEF Tick, Types
<1>14. CASE UNCHANGED vars
  BY <1>14 DEF vars, Types
<1> QED
  BY <1>1, <1>2, <1>3, <1>4, <1>5, <1>6, <1>7, <1>8, <1>9, <1>10, <1>11, <1>12, <1>13, <1>14
     DEF Next, User, Network

LEMMA TypesInit == Init => Types
<1>1. DOMAIN << >> = {}
  OBVIOUS
<1> QED
  BY <1>1, MaxMissedFacts, IntervalAssumption DEF Init, Types

\* Type correctness; in particular no node lists itself or makes itself its
\* active peer.
THEOREM TypeCorrect == Spec => []TypeOK
<1>1. Types => TypeOK
  BY DEF Types, TypeOK
<1> QED
  BY <1>1, TypesInit, TypesStep, PTL DEF Spec

LEMMA TypesHold == Spec => []Types
BY TypesInit, TypesStep, PTL DEF Spec

-----------------------------------------------------------------------------
(* The prune loop.  An entry is never older than the timeout by more than  *)
(* the time since the last round, and only a running node has entries.     *)
Young ==
    \A n \in Node : \A i \in DOMAIN registry[n] :
        up[n] /\ registry[n][i] + prune[n] <= PeerTimeout + PruneInterval

\* The steps after which every entry is one from before, as old as before, or
\* has just been stamped.
LEMMA StampKeepsYoung ==
    ASSUME Types, Young, NEW n \in Node, NEW i, Stamps(n, i), up[n], UNCHANGED <<up, prune>>
    PROVE  Young'
<1> SUFFICES ASSUME NEW k \in Node, NEW j \in DOMAIN registry'[k]
             PROVE  up[k] /\ registry'[k][j] + prune[k] <= PeerTimeout + PruneInterval
  BY DEF Young
<1>1. CASE k = n /\ j = i
  <2>1. registry'[k][j] = 0 /\ up[k]
    BY <1>1, StampsFacts
  <2>2. prune[k] \in 0..PruneInterval
    BY DEF Types
  <2> QED
    BY <2>1, <2>2, IntervalAssumption
<1>2. CASE ~ (k = n /\ j = i)
  <2>1. j \in DOMAIN registry[k] /\ registry'[k][j] = registry[k][j]
    BY <1>2, StampsFacts
  <2> QED
    BY <2>1 DEF Young
<1> QED
  BY <1>1, <1>2

LEMMA YoungStep ==
    ASSUME Types, Young, [Next]_vars
    PROVE  Young'
<1>1. CASE UNCHANGED <<registry, prune, up>>
  BY <1>1 DEF Young
<1>2. ASSUME NEW n \in Node, Start(n) PROVE Young'
  BY <1>2 DEF Start, Young, Types
<1>3. ASSUME NEW n \in Node, Quit(n) PROVE Young'
  <2> SUFFICES ASSUME NEW k \in Node, NEW j \in DOMAIN registry'[k]
               PROVE  up'[k] /\ registry'[k][j] + prune'[k] <= PeerTimeout + PruneInterval
    BY DEF Young
  <2>1. registry'[n] = << >> /\ DOMAIN << >> = {}
    BY <1>3 DEF Quit, Types
  <2>2. k # n
    BY <2>1
  <2>3. registry'[k] = registry[k] /\ prune'[k] = prune[k] /\ up'[k] = up[k]
    BY <1>3, <2>2 DEF Quit, Types
  <2> QED
    BY <2>3 DEF Young
<1>4. ASSUME NEW n \in Node, PruneStale(n) PROVE Young'
  <2> SUFFICES ASSUME NEW k \in Node, NEW j \in DOMAIN registry'[k]
               PROVE  up'[k] /\ registry'[k][j] + prune'[k] <= PeerTimeout + PruneInterval
    BY DEF Young
  <2>1. CASE k = n
    <3>1. registry'[k] = [i \in {h \in DOMAIN registry[k] : registry[k][h] <= PeerTimeout} |-> registry[k][i]]
      BY <1>4, <2>1 DEF PruneStale, Types
    <3>2. /\ j \in DOMAIN registry[k] /\ registry'[k][j] = registry[k][j]
          /\ registry[k][j] <= PeerTimeout /\ registry[k][j] \in Nat
      BY <3>1 DEF Types
    <3>3. prune'[k] = PruneInterval /\ up'[k]
      BY <1>4, <2>1 DEF PruneStale, Types
    <3> QED
      BY <3>2, <3>3, IntervalAssumption
  <2>2. CASE k # n
    <3>1. registry'[k] = registry[k] /\ prune'[k] = prune[k] /\ up' = up
      BY <1>4, <2>2 DEF PruneStale, Types
    <3> QED
      BY <3>1 DEF Young
  <2> QED
    BY <2>1, <2>2
<1>5. ASSUME NEW p \in net, Deliver(p) PROVE Young'
  <2>1. p.to \in Node /\ up[p.to] /\ Stamps(p.to, p.from) /\ UNCHANGED <<up, prune>>
    BY <1>5, PacketFacts DEF Types, Deliver, Hear, Upsert, Stamps
  <2> QED
    BY <2>1, StampKeepsYoung
<1>6. ASSUME NEW n \in Node, ConnectDone(n) PROVE Young'
  <2>1. up[n] /\ UNCHANGED <<up, prune>> /\ (registry' = registry \/ \E i : Stamps(n, i))
    BY <1>6, Zenon DEF ConnectDone, Stamps, Types
  <2> QED
    BY <1>1, <2>1, StampKeepsYoung
<1>7. CASE Tick
  <2> SUFFICES ASSUME NEW k \in Node, NEW j \in DOMAIN registry'[k]
               PROVE  up'[k] /\ registry'[k][j] + prune'[k] <= PeerTimeout + PruneInterval
    BY DEF Young
  <2>1. j \in DOMAIN registry[k] /\ registry'[k][j] = registry[k][j] + 1
    BY <1>7 DEF Tick
  <2>2. up[k] /\ registry[k][j] + prune[k] <= PeerTimeout + PruneInterval
    BY <2>1 DEF Young
  <2>3. up' = up /\ prune'[k] = prune[k] - 1 /\ prune[k] \in Nat /\ registry[k][j] \in Nat
    BY <1>7, <2>1, <2>2, IntervalAssumption DEF Tick, Types
  <2> QED
    BY <2>1, <2>2, <2>3, IntervalAssumption
<1>8. \/ UNCHANGED <<registry, prune, up>>
      \/ \E n \in Node : Start(n) \/ Quit(n) \/ PruneStale(n) \/ ConnectDone(n)
      \/ \E p \in net : Deliver(p)
      \/ Tick
  BY Zenon DEF Next, User, Network, Announce, IgnoreOwn, Lose, Connect, ConnectFail, Select, SendText, vars
<1> QED
  BY <1>1, <1>2, <1>3, <1>4, <1>5, <1>6, <1>7, <1>8

LEMMA YoungInit == Init => Young
<1>1. DOMAIN << >> = {}
  OBVIOUS
<1> QED
  BY <1>1 DEF Init, Young

LEMMA YoungHolds == Spec => [](Types /\ Young)
<1>1. Types /\ Young /\ [Next]_vars => Young'
  BY YoungStep
<1> QED
  BY <1>1, YoungInit, TypesHold, PTL DEF Spec

\* StaleIsPruned: no entry outlives the timeout by more than one round of the
\* prune loop, however the loop and the packets interleave.
THEOREM StaleEntriesGo == Spec => []StaleIsPruned
<1>1. Types /\ Young => StaleIsPruned
  <2> SUFFICES ASSUME Types, Young, NEW n \in Node, NEW i \in DOMAIN registry[n]
               PROVE  registry[n][i] <= PeerTimeout + PruneInterval
    BY DEF StaleIsPruned
  <2>1. registry[n][i] + prune[n] <= PeerTimeout + PruneInterval
    BY DEF Young
  <2>2. registry[n][i] \in Nat /\ prune[n] \in Nat
    BY IntervalAssumption DEF Types
  <2> QED
    BY <2>1, <2>2, IntervalAssumption
<1> QED
  BY <1>1, YoungHolds, PTL

-----------------------------------------------------------------------------
(* Announcements against the timeout.  Between the announcements of the    *)
(* node that is heard (m, or n itself, whose announcement m answers) the   *)
(* entry ages by one interval; an announcement refreshes it or is missed.  *)
Announcer(n, m) == IF <<m, n>> \in Reaches THEN m ELSE n

\* The packets that would refresh m at n, or make m send one that does.
Counts(p, n, m) ==
    \/ p.kind \in {"announce", "reply"} /\ p.from = m /\ p.to = n
    \/ p.kind = "announce" /\ p.from = n /\ p.to = m

Coming(n, m) == \E p \in net : Counts(p, n, m)

\* The age an entry may have after k missed announcements.
Limit(k) == (k + 1) * AnnounceInterval

Due(n, m) ==
    \/ registry[n][m] + announce[Announcer(n, m)] <= Limit(missed[n][m])
    \/ /\ announce[Announcer(n, m)] = AnnounceInterval
       /\ Coming(n, m)
       /\ registry[n][m] <= Limit(missed[n][m])

HeardOf(n, m) == missed[n][m] = MaxMissed \/ (up[m] /\ Due(n, m))

Heard == \A n, m \in Node : Listed(n, m) => HeardOf(n, m)

LEMMA LimitFacts ==
    \A k \in Nat : /\ Limit(k) \in Nat /\ Limit(k + 1) = Limit(k) + AnnounceInterval
                   /\ Limit(0) = AnnounceInterval
                   /\ k < MaxMissed => Limit(k) <= PeerTimeout
<1>1. ASSUME NEW a \in Nat, NEW k \in Nat
      PROVE  (k + 1) * a \in Nat /\ (k + 1 + 1) * a = (k + 1) * a + a /\ (0 + 1) * a = a
  OBVIOUS
<1>2. ASSUME NEW a \in Nat, NEW k \in Nat, NEW m \in Nat, k < m
      PROVE  (k + 1) * a <= m * a
  <2>1. k + 1 <= m
    BY <1>2
  <2>2. \A i, j \in Nat : i <= j => i * a <= j * a
    OBVIOUS
  <2> QED
    BY <2>1, <2>2
<1>3. ASSUME NEW k \in Nat, k < MaxMissed PROVE Limit(k) <= PeerTimeout
  <2>1. Limit(k) <= MaxMissed * AnnounceInterval
    BY <1>2, <1>3, MaxMissedFacts, IntervalAssumption DEF Limit
  <2>2. Limit(k) \in Nat /\ MaxMissed * AnnounceInterval \in Nat
    BY <1>1, MaxMissedFacts, IntervalAssumption DEF Limit
  <2> QED
    BY <2>1, <2>2, MaxMissedFacts, IntervalAssumption
<1> QED
  BY <1>1, <1>3, IntervalAssumption DEF Limit

\* A step that leaves the entry, its count and its announcer alone and takes
\* no packet that counts.
LEMMA Kept ==
    ASSUME NEW n \in Node, NEW m \in Node, HeardOf(n, m),
           registry'[n][m] = registry[n][m], missed'[n][m] = missed[n][m], up'[m] = up[m],
           announce'[Announcer(n, m)] = announce[Announcer(n, m)],
           Coming(n, m) => Coming(n, m)'
    PROVE  HeardOf(n, m)'
BY DEF HeardOf, Due

LEMMA HeardStep ==
    ASSUME Types, Young, Heard, [Next]_vars, Types'
    PROVE  Heard'
<1> SUFFICES ASSUME NEW n \in Node, NEW m \in Node, m \in DOMAIN registry'[n]
             PROVE  HeardOf(n, m)'
  BY DEF Heard, Listed
<1> DEFINE x == Announcer(n, m)
           a == registry[n][m]
           k == missed[n][m]
           t == announce[x]
<1>0. n # m /\ x \in {n, m} /\ x \in Node /\ k \in 0..MaxMissed /\ t \in 0..AnnounceInterval
  <2>1. m \in Others(n)
    BY DEF Types
  <2>2. n # m
    BY <2>1, IdFacts
  <2> QED
    BY <2>2 DEF Announcer, Types
<1>1. ASSUME m \in DOMAIN registry[n] PROVE HeardOf(n, m) /\ a \in Nat /\ up[n]
  BY <1>1 DEF Heard, Listed, Types, Young
<1>2. ASSUME registry' = registry, missed' = missed, up' = up, announce' = announce, net \subseteq net'
      PROVE  HeardOf(n, m)'
  BY <1>1, <1>2, Kept, Zenon DEF Coming
<1>3. ASSUME NEW c \in Node, Start(c) PROVE HeardOf(n, m)'
  <2>1. UNCHANGED <<registry, announce, missed, net>> /\ m \in DOMAIN registry[n]
    BY <1>3 DEF Start
  <2>2. CASE c = m
    BY <1>1, <1>3, <2>1, <2>2 DEF Start, HeardOf
  <2>3. CASE c # m
    <3>1. up'[m] = up[m]
      BY <1>3, <2>3, ZenonT(60) DEF Start, Types
    <3> QED
      BY <1>1, <2>1, <3>1, Kept DEF Coming
  <2> QED
    BY <2>2, <2>3
<1>4. ASSUME NEW c \in Node, Quit(c) PROVE HeardOf(n, m)'
  <2>1. missed'[n][m] = IF n = c THEN 0 ELSE IF m = c THEN MaxMissed ELSE missed[n][m]
    BY <1>4 DEF Quit
  <2>2. n # c
    <3>1. registry'[c] = << >> /\ DOMAIN << >> = {}
      BY <1>4 DEF Quit, Types
    <3> QED
      BY <3>1
  <2>3. CASE m = c
    BY <2>1, <2>2, <2>3 DEF HeardOf, MaxMissed
  <2>4. CASE m # c
    <3>1. registry'[n] = registry[n] /\ up'[m] = up[m] /\ announce'[x] = announce[x] /\ net' = net
      BY <1>0, <1>4, <2>2, <2>4, Zenon DEF Quit, Types
    <3> QED
      BY <1>1, <2>1, <2>2, <2>4, <3>1, Kept, Zenon DEF Coming
  <2> QED
    BY <2>3, <2>4
<1>5. ASSUME NEW c \in Node, Announce(c) PROVE HeardOf(n, m)'
  <2>1. UNCHANGED <<registry, missed, up>> /\ net \subseteq net' /\ m \in DOMAIN registry[n]
    BY <1>5 DEF Announce
  <2>2. CASE c # x
    <3>1. announce'[x] = announce[x]
      BY <1>0, <1>5, <2>2, ZenonT(60) DEF Announce, Types
    <3> QED
      BY <1>1, <2>1, <3>1, Kept DEF Coming
  <2>3. CASE c = x
    <3>1. t = 0 /\ announce'[x] = AnnounceInterval
      BY <1>0, <1>5, <2>3 DEF Announce, Types
    <3>2. Coming(n, m)'
      <4>1. CASE x = m /\ <<m, n>> \in Reaches
        <5>1. Send("announce", m, n) \in net'
          BY <1>5, <2>3, <4>1 DEF Announce
        <5> QED
          BY <5>1, SendFacts DEF Coming, Counts
      <4>2. CASE x = n /\ <<n, m>> \in Reaches
        <5>1. Send("announce", n, m) \in net'
          BY <1>5, <2>3, <4>2 DEF Announce
        <5> QED
          BY <5>1, SendFacts DEF Coming, Counts
      <4> QED
        BY <1>0, <4>1, <4>2, ReachAssumption DEF Announcer
    <3>3. CASE k = MaxMissed
      BY <2>1, <3>3 DEF HeardOf, MaxMissed
    <3>4. CASE k # MaxMissed
      <4>1. up[m] /\ Due(n, m) /\ a \in Nat
        BY <1>1, <2>1, <3>4 DEF HeardOf
      <4>2. a <= Limit(k)
        BY <3>1, <4>1, IntervalAssumption DEF Due
      <4> QED
        BY <2>1, <3>1, <3>2, <4>1, <4>2 DEF HeardOf, Due, Limit
    <3> QED
      BY <3>3, <3>4
  <2> QED
    BY <2>2, <2>3
<1>6. ASSUME NEW c \in Node, PruneStale(c) PROVE HeardOf(n, m)'
  <2>1. UNCHANGED <<up, announce, missed, net>>
    BY <1>6 DEF PruneStale
  <2>2. m \in DOMAIN registry[n] /\ registry'[n][m] = registry[n][m]
    <3>1. CASE c = n
      <4>1. registry'[n] = [i \in {h \in DOMAIN registry[n] : registry[n][h] <= PeerTimeout} |-> registry[n][i]]
        BY <1>6, <3>1 DEF PruneStale, Types
      <4> QED
        BY <4>1
    <3>2. CASE c # n
      BY <1>6, <3>2, Zenon DEF PruneStale, Types
    <3> QED
      BY <3>1, <3>2
  <2> QED
    BY <1>1, <2>1, <2>2, Kept DEF Coming
<1>7. ASSUME NEW p \in net, Deliver(p) PROVE HeardOf(n, m)'
  <2>1. /\ p \in Packet /\ p.to \in Node /\ p.from \in Node
        /\ UNCHANGED <<up, announce>>
        /\ Stamps(p.to, p.from)
        /\ missed' = [missed EXCEPT ![p.to][p.from] = IF up[p.from] THEN 0 ELSE MaxMissed]
        /\ net' = (net \ {p}) \cup Response(p)
    BY <1>7, PacketFacts, Zenon DEF Types, Deliver, Hear, Upsert, Stamps
  <2>2. CASE p.to = n /\ p.from = m
    <3>1. registry'[n][m] = 0
      BY <2>1, <2>2, StampsFacts
    <3>2. missed'[n][m] = IF up[m] THEN 0 ELSE MaxMissed
      BY <2>1, <2>2 DEF Types
    <3>3. CASE up[m]
      <4>1. registry'[n][m] + announce[x] <= Limit(0)
        BY <1>0, <3>1, LimitFacts, IntervalAssumption
      <4> QED
        BY <2>1, <3>2, <3>3, <4>1 DEF HeardOf, Due, Limit
    <3>4. CASE ~ up[m]
      BY <3>2, <3>4 DEF HeardOf, MaxMissed
    <3> QED
      BY <3>3, <3>4
  <2>3. CASE ~ (p.to = n /\ p.from = m)
    <3>1. m \in DOMAIN registry[n] /\ registry'[n][m] = registry[n][m]
      BY <2>1, <2>3, StampsFacts
    <3>2. missed'[n][m] = missed[n][m]
      BY <2>1, <2>3 DEF Types
    <3>3. ASSUME Coming(n, m) PROVE Coming(n, m)'
      <4>1. PICK q \in net : Counts(q, n, m)
        BY <3>3 DEF Coming
      <4>2. CASE q # p
        BY <2>1, <4>1, <4>2 DEF Coming
      <4>3. CASE q = p
        <5>1. p.kind = "announce" /\ p.from = n /\ p.to = m
          BY <2>3, <4>1, <4>3 DEF Counts
        <5>2. Send("reply", m, n) \in net'
          BY <2>1, <5>1, ResponseFacts
        <5> QED
          BY <5>2, SendFacts DEF Coming, Counts
      <4> QED
        BY <4>2, <4>3
    <3> QED
      BY <1>1, <2>1, <3>1, <3>2, <3>3, Kept, Zenon
  <2> QED
    BY <2>2, <2>3
<1>8. ASSUME NEW p \in net, IgnoreOwn(p) PROVE HeardOf(n, m)'
  <2>1. UNCHANGED <<registry, missed, up, announce>> /\ net' = net \ {p} /\ p.from = p.to
    BY <1>8 DEF IgnoreOwn
  <2>2. ~ Counts(p, n, m)
    BY <1>0, <2>1 DEF Counts
  <2>3. Coming(n, m) => Coming(n, m)'
    BY <2>1, <2>2 DEF Coming
  <2> QED
    BY <1>1, <2>1, <2>3, Kept
<1>9. ASSUME NEW p \in net, Lose(p) PROVE HeardOf(n, m)'
  <2>1. UNCHANGED <<registry, up, announce>> /\ net' = net \ {p} /\ m \in DOMAIN registry[n]
    BY <1>9 DEF Lose
  <2> DEFINE one == IF Counts(p, n, m) THEN 1 ELSE 0
  <2>2. missed'[n][m] = IF k + one > MaxMissed THEN MaxMissed ELSE k + one
    BY <1>0, <1>9, Zenon DEF Lose, Miss, Counts
  <2>3. MaxMissed \in Nat /\ k \in 0..MaxMissed
    BY <1>0, MaxMissedFacts
  <2>4. CASE ~ Counts(p, n, m)
    <3>1. missed'[n][m] = missed[n][m]
      BY <2>2, <2>3, <2>4
    <3>2. Coming(n, m) => Coming(n, m)'
      BY <2>1, <2>4 DEF Coming
    <3> QED
      BY <1>1, <2>1, <3>1, <3>2, Kept, Zenon
  <2>5. CASE Counts(p, n, m) /\ k # MaxMissed
    <3>1. missed'[n][m] = k + 1 /\ k \in Nat
      BY <2>2, <2>3, <2>5
    <3>2. up[m] /\ Due(n, m) /\ a \in Nat
      BY <1>1, <2>1, <2>5 DEF HeardOf
    <3>3. Limit(k) \in Nat /\ Limit(k + 1) = Limit(k) + AnnounceInterval
      BY <3>1, LimitFacts, Zenon
    <3>4. a + t <= Limit(k) + AnnounceInterval
      BY <1>0, <3>2, <3>3, IntervalAssumption DEF Due
    <3>5. registry'[n][m] + announce'[x] <= Limit(missed'[n][m])
      BY <2>1, <3>1, <3>3, <3>4
    <3> QED
      BY <2>1, <3>2, <3>5, Zenon DEF HeardOf, Due, Limit
  <2>6. CASE Counts(p, n, m) /\ k = MaxMissed
    <3>1. missed'[n][m] = MaxMissed
      BY <2>2, <2>3, <2>6
    <3> QED
      BY <3>1 DEF HeardOf, MaxMissed
  <2> QED
    BY <2>4, <2>5, <2>6
<1>10. ASSUME NEW c \in Node, ConnectDone(c) PROVE HeardOf(n, m)'
  <2>1. UNCHANGED <<up, announce, missed>> /\ net \subseteq net'
    BY <1>10 DEF ConnectDone
  <2>2. \/ registry' = registry
        \/ \E d \in Node : Stamps(c, Manual(d))
    <3>1. dialing[c] \in Node
      BY <1>10, ZenonT(60) DEF ConnectDone, Types
    <3> QED
      BY <1>10, <3>1, Zenon DEF ConnectDone, Stamps
  <2>3. m \in DOMAIN registry[n] /\ registry'[n][m] = registry[n][m]
    <3>1. ASSUME NEW d \in Node, Stamps(c, Manual(d)) PROVE m \in DOMAIN registry[n] /\ registry'[n][m] = registry[n][m]
      <4>1. m # Manual(d)
        BY IdAssumption
      <4> QED
        BY <3>1, <4>1, StampsFacts
    <3> QED
      BY <2>2, <3>1
  <2> QED
    BY <1>1, <2>1, <2>3, Kept, Zenon DEF Coming
<1>11. CASE Tick
  <2>1. /\ net = {} /\ UNCHANGED <<up, missed>>
        /\ registry' = [c \in Node |-> [i \in DOMAIN registry[c] |-> registry[c][i] + 1]]
    BY <1>11 DEF Tick
  <2>2. m \in DOMAIN registry[n] /\ registry'[n][m] = a + 1
    BY <2>1
  <2>3. CASE k = MaxMissed
    BY <2>1, <2>3 DEF HeardOf, MaxMissed
  <2>4. CASE k # MaxMissed
    <3>1. up[m] /\ up[n] /\ Due(n, m) /\ a \in Nat
      BY <1>1, <2>2, <2>4 DEF HeardOf
    <3>2. a + t <= Limit(k)
      BY <2>1, <3>1 DEF Due, Coming
    <3>3. announce'[x] = t - 1 /\ t \in Nat
      BY <1>0, <1>11, <3>1, IntervalAssumption DEF Tick, Types
    <3>4. Limit(k) \in Nat
      BY <1>0, MaxMissedFacts, LimitFacts
    <3>5. registry'[n][m] + announce'[x] <= Limit(missed'[n][m])
      BY <2>1, <2>2, <3>1, <3>2, <3>3, <3>4
    <3> QED
      BY <2>1, <3>1, <3>5 DEF HeardOf, Due, Limit
  <2> QED
    BY <2>3, <2>4, Zenon
<1>12. \/ UNCHANGED <<registry, missed, up, announce>> /\ net \subseteq net'
       \/ \E c \in Node : Start(c) \/ Quit(c) \/ Announce(c) \/ PruneStale(c) \/ ConnectDone(c)
       \/ \E p \in net : Deliver(p) \/ IgnoreOwn(p) \/ Lose(p)
       \/ Tick
  BY ZenonT(60) DEF Next, User, Network, Connect, ConnectFail, Select, SendText, vars
<1> QED
  BY <1>2, <1>3, <1>4, <1>5, <1>6, <1>7, <1>8, <1>9, <1>10, <1>11, <1>12

LEMMA HeardInit == Init => Heard
<1>1. DOMAIN << >> = {}
  OBVIOUS
<1> QED
  BY <1>1 DEF Init, Heard, Listed

\* OfflineWasMissed: a peer leaves the list of a running node only after as
\* many announcements went missing as fit in PEER_TIMEOUT.
THEOREM LossesAreTolerated == Spec => OfflineWasMissed
<1> DEFINE Rule == \A n, m \in Node : Listed(n, m) /\ up'[n] /\ m \notin DOMAIN registry'[n] => missed[n][m] = MaxMissed
<1>1. Types /\ Heard /\ [Next]_vars => [Rule]_vars
  <2> SUFFICES ASSUME Types, Heard, [Next]_vars, NEW n \in Node, NEW m \in Node,
                      m \in DOMAIN registry[n], up'[n], m \notin DOMAIN registry'[n]
               PROVE  missed[n][m] = MaxMissed
    BY Zenon DEF Listed
  <2>1. ASSUME NEW c \in Node, NEW i, Stamps(c, i) PROVE FALSE
    BY <2>1, StampsFacts
  <2>2. ASSUME NEW c \in Node, Quit(c) PROVE FALSE
    BY <2>2 DEF Quit, Types
  <2>3. ~ Tick
    BY DEF Tick
  <2>4. ASSUME NEW p \in net, Deliver(p) PROVE FALSE
    <3>1. p.to \in Node /\ Stamps(p.to, p.from)
      BY <2>4, PacketFacts, Zenon DEF Types, Deliver, Hear, Upsert, Stamps
    <3> QED
      BY <2>1, <3>1
  <2>5. ASSUME NEW c \in Node, ConnectDone(c) PROVE FALSE
    <3>1. registry' = registry \/ \E i : Stamps(c, i)
      BY <2>5, Zenon DEF ConnectDone, Stamps
    <3> QED
      BY <2>1, <3>1, Zenon
  <2>6. PICK c \in Node : PruneStale(c)
    <3>1. \/ registry' = registry \/ Tick
          \/ \E c \in Node : Quit(c) \/ PruneStale(c) \/ ConnectDone(c)
          \/ \E p \in net : Deliver(p)
      BY Zenon DEF Next, User, Network, Start, Announce, IgnoreOwn, Lose, Connect, ConnectFail, Select, SendText, vars
    <3> QED
      BY <2>2, <2>3, <2>4, <2>5, <3>1
  <2>7. c = n
    BY <2>6 DEF PruneStale, Types
  <2>8. registry'[n] = [i \in {h \in DOMAIN registry[n] : registry[n][h] <= PeerTimeout} |-> registry[n][i]]
    BY <2>6, <2>7, ZenonT(60) DEF PruneStale, Types
  <2>9. ~ (registry[n][m] <= PeerTimeout) /\ registry[n][m] \in Nat
    BY <2>8 DEF Types
  <2>10. SUFFICES ASSUME missed[n][m] # MaxMissed PROVE FALSE
    BY Zenon
  <2>11. missed[n][m] \in Nat /\ missed[n][m] < MaxMissed
    <3>1. missed[n][m] \in 0..MaxMissed
      BY DEF Types
    <3> QED
      BY <2>10, <3>1, MaxMissedFacts
  <2>12. Due(n, m)
    BY <2>10, Zenon DEF Heard, HeardOf, Listed
  <2>13. announce[Announcer(n, m)] \in Nat
    BY IntervalAssumption DEF Announcer, Types
  <2>14. Limit(missed[n][m]) \in Nat /\ Limit(missed[n][m]) <= PeerTimeout
    BY <2>11, LimitFacts, Zenon
  <2> QED
    BY <2>9, <2>12, <2>13, <2>14, IntervalAssumption DEF Due
<1>2. Types /\ Young /\ Heard /\ [Next]_vars => Heard'
  BY HeardStep, TypesStep
<1> QED
  BY <1>1, <1>2, HeardInit, YoungHolds, PTL DEF Spec, OfflineWasMissed

-----------------------------------------------------------------------------
(* Discovery both ways.  What is left to show of FoundBothWays once the    *)
(* announce loop of one of the two nodes keeps waking up: an announcement, *)
(* the strongly fair delivery of it, the reply, the strongly fair delivery *)
(* of that, and the entry of the announcer still being there by then.      *)

CanAnnounce(n) == ENABLED <<Announce(n)>>_vars
CanDeliver(kind, n, m) == ENABLED <<Deliver(Send(kind, n, m))>>_vars

\* What a step needs to be possible: its guard (the provers do not look into
\* ENABLED).
AnnounceRuns == \A n \in Node : up[n] /\ announce[n] = 0 => CanAnnounce(n)
DeliveryRuns ==
    \A kind \in {"announce", "reply"}, n, m \in Node :
        n # m /\ Send(kind, n, m) \in net /\ up[m] => CanDeliver(kind, n, m)

\* While m's reply to n is under way, m's entry of n is new: no time passes
\* with a packet in the network.
ReplyIsFresh(n, m) ==
    Send("reply", m, n) \in net => n \in DOMAIN registry[m] /\ registry[m][n] = 0

\* A reply is put into the network only for an announcement.
LEMMA ReplyHasCause ==
    ASSUME NEW p \in Packet, NEW n \in Node, NEW m \in Node, Send("reply", m, n) \in Response(p)
    PROVE  p.kind = "announce" /\ p.from = n /\ p.to = m
<1>1. p.from \in Node /\ p.to \in Node
  BY PacketFacts
<1>2. CASE p.kind = "announce"
  <2>1. Send("reply", m, n) = Send("reply", p.to, p.from)
    BY <1>2, ResponseFacts
  <2>2. m = p.to /\ n = p.from
    BY <1>1, <2>1, SendFacts
  <2> QED
    BY <1>2, <2>2
<1>3. CASE p.kind = "hello"
  <2>1. Response(p) = {Send("hello_ack", p.to, p.from)}
    BY <1>3 DEF Response
  <2>2. Send("reply", m, n).kind = "reply" /\ Send("hello_ack", p.to, p.from).kind = "hello_ack"
    BY <1>1, SendFacts
  <2> QED
    BY <2>1, <2>2
<1>4. CASE p.kind # "announce" /\ p.kind # "hello"
  BY <1>4 DEF Response
<1> QED
  BY <1>2, <1>3, <1>4

\* While m runs, its entry of n stays new until the reply is gone.
LEMMA FreshStep ==
    ASSUME Types, [Next]_vars, NEW n \in Node, NEW m \in Node, ReplyIsFresh(n, m), up'[m]
    PROVE  ReplyIsFresh(n, m)'
<1> DEFINE r == Send("reply", m, n)
           New == n \in DOMAIN registry[m] /\ registry[m][n] = 0
           Goal == ReplyIsFresh(n, m)'
<1>1. ASSUME r \in net' => r \in net, New => New' PROVE Goal
  BY <1>1 DEF ReplyIsFresh
<1>2. r.kind = "reply"
  BY SendFacts
<1>3. ASSUME registry'[m] = registry[m] PROVE New => New'
  BY <1>3
<1>4. ASSUME NEW c \in Node, NEW i, Stamps(c, i) PROVE New => New'
  <2>1. CASE c = m
    BY <1>4, <2>1, StampsFacts
  <2>2. CASE c # m
    BY <1>4, <2>2, <1>3, StampsFacts
  <2> QED
    BY <2>1, <2>2
<1>5. ASSUME NEW p \in net, Deliver(p) PROVE Goal
  <2>1. p \in Packet /\ p.to \in Node /\ Stamps(p.to, p.from) /\ net' = (net \ {p}) \cup Response(p)
    BY <1>5, PacketFacts, Zenon DEF Types, Deliver, Hear, Upsert, Stamps
  <2>2. New => New'
    BY <1>4, <2>1, Zenon
  <2>3. CASE r \in Response(p)
    <3>1. p.from = n /\ p.to = m
      BY <2>1, <2>3, ReplyHasCause
    <3>2. New'
      BY <2>1, <3>1, StampsFacts
    <3> QED
      BY <3>2 DEF ReplyIsFresh
  <2>4. CASE r \notin Response(p)
    <3>1. r \in net' => r \in net
      BY <2>1, <2>4
    <3> QED
      BY <1>1, <2>2, <3>1, Zenon
  <2> QED
    BY <2>3, <2>4
<1>6. ASSUME NEW c \in Node, PruneStale(c) PROVE Goal
  <2>1. net' = net
    BY <1>6 DEF PruneStale
  <2>2. CASE c = m
    <3>1. registry'[m] = [i \in {h \in DOMAIN registry[m] : registry[m][h] <= PeerTimeout} |-> registry[m][i]]
      BY <1>6, <2>2, Zenon DEF PruneStale, Types
    <3>2. 0 <= PeerTimeout
      BY IntervalAssumption
    <3>3. New => New'
      BY <3>1, <3>2
    <3> QED
      BY <1>1, <2>1, <3>3, Zenon
  <2>3. CASE c # m
    <3>1. registry'[m] = registry[m]
      BY <1>6, <2>3 DEF PruneStale, Types
    <3> QED
      BY <1>1, <1>3, <2>1, <3>1, Zenon
  <2> QED
    BY <2>2, <2>3
<1>7. ASSUME NEW c \in Node, ConnectDone(c) PROVE Goal
  <2>1. registry' = registry \/ \E i : Stamps(c, i)
    BY <1>7, Zenon DEF ConnectDone, Stamps
  <2>2. New => New'
    BY <1>3, <1>4, <2>1, Zenon
  <2>3. dialing[c] \in Node
    BY <1>7 DEF ConnectDone, Types
  <2>4. net' = net \cup {Send("hello", c, dialing[c])}
    BY <1>7, Zenon DEF ConnectDone
  <2>5. r # Send("hello", c, dialing[c])
    BY <1>2, <2>3, SendFacts
  <2> QED
    BY <1>1, <2>2, <2>4, <2>5
<1>8. ASSUME NEW c \in Node, Quit(c) PROVE Goal
  <2>1. c # m
    BY <1>8 DEF Quit, Types
  <2>2. registry'[m] = registry[m] /\ net' = net
    BY <1>8, <2>1 DEF Quit, Types
  <2> QED
    BY <1>1, <1>3, <2>2, Zenon
<1>9. ASSUME Tick PROVE Goal
  BY <1>9, Zenon DEF Tick, ReplyIsFresh
<1>10. ASSUME NEW c \in Node, Announce(c) PROVE Goal
  <2>1. \A k \in Node : r # Send("announce", c, k)
    BY <1>2, SendFacts
  <2>2. (r \in net' => r \in net) /\ registry' = registry
    BY <1>10, <2>1, Zenon DEF Announce
  <2> QED
    BY <1>1, <1>3, <2>2
<1>11. ASSUME NEW c \in Node, NEW k \in Node, Connect(c, k) PROVE Goal
  <2>1. r # Send("announce", c, k)
    BY <1>2, SendFacts
  <2>2. (r \in net' => r \in net) /\ registry' = registry
    BY <1>11, <2>1 DEF Connect
  <2> QED
    BY <1>1, <1>3, <2>2, Zenon
<1>12. ASSUME NEW c \in Node, SendText(c) PROVE Goal
  <2>1. active[c] \in Others(c) /\ AddrOf(active[c]) \in Node
    BY <1>12, IdFacts, Zenon DEF SendText, Types
  <2>2. r # Send("chat", c, AddrOf(active[c]))
    BY <1>2, <2>1, SendFacts
  <2>3. (r \in net' => r \in net) /\ registry' = registry
    BY <1>12, <2>2, Zenon DEF SendText
  <2> QED
    BY <1>1, <1>3, <2>3
<1>13. ASSUME registry' = registry, net' \subseteq net PROVE Goal
  BY <1>1, <1>3, <1>13
<1>14. \/ registry' = registry /\ net' \subseteq net
       \/ \E c \in Node : Quit(c) \/ PruneStale(c) \/ ConnectDone(c) \/ Announce(c) \/ SendText(c)
       \/ \E c, k \in Node : Connect(c, k)
       \/ \E p \in net : Deliver(p)
       \/ Tick
  BY Zenon DEF Next, User, Network, Start, IgnoreOwn, Lose, ConnectFail, Select, vars
<1> HIDE DEF Goal
<1>15. Goal
  BY <1>5, <1>6, <1>7, <1>8, <1>9, <1>10, <1>11, <1>12, <1>13, <1>14, Zenon
<1> QED
  BY <1>15 DEF Goal

\* Nothing but the announcement ends the wait of a loop that is due.
LEMMA DueStep ==
    ASSUME Types, [Next]_vars, NEW n \in Node, NEW m \in Node, <<n, m>> \in Reaches,
           up[n], announce[n] = 0
    PROVE  announce'[n] = 0 \/ Send("announce", n, m) \in net'
<1>1. ASSUME NEW c \in Node, Quit(c) PROVE announce'[n] = 0
  BY <1>1 DEF Quit, Types
<1>2. ~ Tick
  <2>1. Tick => announce[n] > 0
    BY Zenon DEF Tick
  <2> QED
    BY <2>1
<1>3. ASSUME NEW c \in Node, Announce(c)
      PROVE  announce'[n] = 0 \/ Send("announce", n, m) \in net'
  <2>1. CASE c = n
    BY <1>3, <2>1 DEF Announce
  <2>2. CASE c # n
    BY <1>3, <2>2 DEF Announce, Types
  <2> QED
    BY <2>1, <2>2
<1>4. \/ announce' = announce \/ Tick
      \/ \E c \in Node : Quit(c) \/ Announce(c)
  BY Zenon DEF Next, User, Network, Start, PruneStale, Deliver, IgnoreOwn, Lose, Connect, ConnectDone,
               ConnectFail, Select, SendText, vars
<1> QED
  BY <1>1, <1>2, <1>3, <1>4

\* What the delivery of an announcement and of its reply do.
LEMMA DeliverySteps ==
    ASSUME Types, NEW n \in Node, NEW m \in Node, n # m
    PROVE  /\ Deliver(Send("announce", n, m)) => Send("reply", m, n) \in net'
           /\ Deliver(Send("reply", m, n)) => ReplyIsFresh(n, m)'
           /\ Deliver(Send("reply", m, n)) /\ ReplyIsFresh(n, m) => Listed(n, m)' /\ Listed(m, n)'
<1> DEFINE a == Send("announce", n, m)
           r == Send("reply", m, n)
<1>1. /\ a \in Packet /\ a.kind = "announce" /\ a.from = n /\ a.to = m
      /\ r \in Packet /\ r.kind = "reply" /\ r.from = m /\ r.to = n
  BY SendFacts
<1>2. Deliver(a) => r \in net'
  BY <1>1, ResponseFacts, Zenon DEF Deliver
<1>3. Response(r) = {}
  BY <1>1 DEF Response
<1>4. Deliver(r) => r \in net /\ r \notin net' /\ Stamps(n, m)
  BY <1>1, <1>3, Zenon DEF Deliver, Hear, Upsert, Stamps
<1>5. Deliver(r) => m \in DOMAIN registry'[n] /\ registry'[m] = registry[m]
  BY <1>4, StampsFacts
<1> QED
  BY <1>2, <1>4, <1>5, Zenon DEF ReplyIsFresh, Listed

\* A broadcast heard one way is enough for both: when n's announcements reach
\* m, both keep running and n's announce loop wakes up again and again
\* (_announce_loop), then both list each other again and again, whatever is
\* lost on the way (_handle_packet's unicast reply).  The fairness is that of
\* the announce loop and of the two deliveries.
THEOREM AnnouncedIsMutual ==
    FairSpec /\ []AnnounceRuns /\ []DeliveryRuns =>
        \A n, m \in Node :
            n # m /\ <<n, m>> \in Reaches /\ <>[](up[n] /\ up[m]) /\ []<>(announce[n] = 0)
            => []<>(Listed(n, m) /\ Listed(m, n))
<1> SUFFICES ASSUME NEW n \in Node, NEW m \in Node, n # m, <<n, m>> \in Reaches
             PROVE  FairSpec /\ []AnnounceRuns /\ []DeliveryRuns =>
                      (<>[](up[n] /\ up[m]) /\ []<>(announce[n] = 0)
                       => []<>(Listed(n, m) /\ Listed(m, n)))
  OBVIOUS
<1> DEFINE Both == up[n] /\ up[m]
           Woken == announce[n] = 0
           Asked == Send("announce", n, m) \in net
           Replied == Send("reply", m, n) \in net
           Fresh == ReplyIsFresh(n, m)
           Mutual == Listed(n, m) /\ Listed(m, n)
<1>1. Types /\ [Next]_vars /\ Both /\ Woken => Woken' \/ Asked'
  BY DueStep
<1>2. Types /\ Both /\ <<Announce(n)>>_vars => Asked'
  BY DEF Announce
<1>3. AnnounceRuns /\ Both /\ Woken => CanAnnounce(n)
  BY DEF AnnounceRuns
<1>4. DeliveryRuns /\ Both /\ Asked => CanDeliver("announce", n, m)
  BY DEF DeliveryRuns
<1>5. DeliveryRuns /\ Both /\ Replied => CanDeliver("reply", m, n)
  BY DEF DeliveryRuns
<1>6. Types /\ <<Deliver(Send("announce", n, m))>>_vars => Replied'
  BY DeliverySteps
<1>7. Types /\ <<Deliver(Send("reply", m, n))>>_vars => Fresh'
  BY DeliverySteps
<1>8. Types /\ Fresh /\ <<Deliver(Send("reply", m, n))>>_vars => Mutual'
  BY DeliverySteps
<1>9. Types /\ [Next]_vars /\ Fresh /\ Both' => Fresh'
  BY FreshStep
<1>10. Fairness => LoopFairness(n) /\ PairFairness(n, m) /\ PairFairness(m, n)
  BY DEF Fairness
<1>11. LoopFairness(n) => WF_vars(Announce(n))
  BY PTL DEF LoopFairness
<1>12. /\ PairFairness(n, m) => SF_vars(Deliver(Send("announce", n, m)))
       /\ PairFairness(m, n) => SF_vars(Deliver(Send("reply", m, n)))
  BY PTL DEF PairFairness
<1> HIDE DEF Both, Woken, Asked, Replied, Fresh, Mutual
<1>13. FairSpec /\ []AnnounceRuns /\ []DeliveryRuns => (<>[]Both /\ []<>Woken => []<>Asked)
  BY <1>1, <1>2, <1>3, <1>10, <1>11, TypesHold, PTL DEF FairSpec, Spec, CanAnnounce
<1>14. FairSpec /\ []DeliveryRuns => (<>[]Both /\ []<>Asked => []<>Replied)
  BY <1>4, <1>6, <1>10, <1>12, TypesHold, PTL DEF FairSpec, Spec, CanDeliver
<1>15. FairSpec /\ []DeliveryRuns => (<>[]Both /\ []<>Replied => []<>Mutual)
  BY <1>5, <1>7, <1>8, <1>9, <1>10, <1>12, TypesHold, PTL DEF FairSpec, Spec, CanDeliver
<1> QED
  BY <1>13, <1>14, <1>15, PTL DEF Both, Woken, Mutual
==============================================================================
