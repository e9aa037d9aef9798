----------------------------- MODULE Discovery -----------------------------
(***************************************************************************)
(* Peer discovery: the announce, listen and prune loops of discovery.py,   *)
(* the PeerRegistry they share, and what ui.py does to it (hello and       *)
(* hello_ack, received chats, /connect, the active peer).                  *)
(*                                                                         *)
(* Time advances in seconds by Tick, once everything due in the current    *)
(* second is done and every packet in flight has arrived or is lost.       *)
(***************************************************************************)
EXTENDS Naturals, FiniteSets

CONSTANTS
    Node,
    None,
    Reaches,           \* <<n, m>>: a broadcast of n can reach m
    AnnounceInterval,
    PeerTimeout,
    PruneInterval,     \* PEER_TIMEOUT / 2
    MaxCommands,       \* bound: user commands in a behaviour
    MaxQuits           \* bound: times the application is stopped

\* Of two nodes at least one hears the other's broadcasts.
ASSUME ReachAssumption ==
    \A n, m \in Node : n # m => <<n, m>> \in Reaches \/ <<m, n>> \in Reaches
ASSUME IntervalAssumption ==
    /\ {AnnounceInterval, PeerTimeout, PruneInterval} \subseteq Nat \ {0}
    /\ AnnounceInterval <= PeerTimeout
    /\ MaxCommands \in Nat /\ MaxQuits \in Nat

VARIABLES
    up,         \* up[n]: the application runs on n
    registry,   \* registry[n]: seconds since last_seen, of each listed peer
    active,     \* active[n]: active_peer_id
    announce,   \* announce[n]: seconds until the announce loop wakes
    prune,      \* prune[n]: seconds until the prune loop wakes
    dialing,    \* dialing[n]: the node /connect is connecting to
    net,        \* packets and frames in flight
    commands,   \* user commands given
    quits,      \* times the application was stopped
    missed      \* missed[n][m]: history, see Miss

vars == <<up, registry, active, announce, prune, dialing, net, commands, quits, missed>>

\* The entry /connect makes for an address whose peer_id is not yet known.
Manual(m) == <<"peer", m>>
Id == Node \cup {Manual(m) : m \in Node}

\* An entry made by /connect has a prefix before the address.
ASSUME IdAssumption == None \notin Id /\ \A m \in Node : Manual(m) \notin Node

Others(n) == Id \ {n, Manual(n)}
AddrOf(i) == IF i \in Node THEN i ELSE i[2]
Listed(n, i) == i \in DOMAIN registry[n]

Packet == [kind : {"announce", "reply", "hello", "hello_ack", "chat"}, from : Node, to : Node]
Send(kind, n, m) == [kind |-> kind, from |-> n, to |-> m]

\* The announcements that fit in PEER_TIMEOUT.
MaxMissed == PeerTimeout \div AnnounceInterval

TypeOK ==
    /\ up \in [Node -> BOOLEAN]
    /\ \A n \in Node : /\ DOMAIN registry[n] \subseteq Others(n)
                       /\ \A i \in DOMAIN registry[n] : registry[n][i] \in Nat
                       /\ active[n] \in Others(n) \cup {None}
    /\ announce \in [Node -> 0..AnnounceInterval]
    /\ prune \in [Node -> 0..PruneInterval]
    /\ dialing \in [Node -> Node \cup {None}]
    /\ net \subseteq Packet
    /\ commands \in 0..MaxCommands /\ quits \in 0..MaxQuits
    /\ missed \in [Node -> [Node -> 0..MaxMissed]]

Init ==
    /\ up = [n \in Node |-> FALSE]
    /\ registry = [n \in Node |-> << >>]
    /\ active = [n \in Node |-> None]
    /\ announce = [n \in Node |-> 0]
    /\ prune = [n \in Node |-> 0]
    /\ dialing = [n \in Node |-> None]
    /\ net = {}
    /\ commands = 0 /\ quits = 0
    /\ missed = [n \in Node |-> [m \in Node |-> 0]]

\* on_mount: an empty registry; the loops run their first round at once.
Start(n) ==
    /\ ~up[n]
    /\ up' = [up EXCEPT ![n] = TRUE]
    /\ UNCHANGED <<registry, active, announce, prune, dialing, net, commands, quits, missed>>

\* All of it is in memory.  A node that is down misses every chance to be
\* heard.
Quit(n) ==
    /\ up[n] /\ quits < MaxQuits
    /\ up' = [up EXCEPT ![n] = FALSE]
    /\ registry' = [registry EXCEPT ![n] = << >>]
    /\ active' = [active EXCEPT ![n] = None]
    /\ dialing' = [dialing EXCEPT ![n] = None]
    /\ announce' = [announce EXCEPT ![n] = 0]
    /\ prune' = [prune EXCEPT ![n] = 0]
    /\ quits' = quits + 1
    /\ missed' = [k \in Node |-> [m \in Node |->
                     IF k = n THEN 0 ELSE IF m = n THEN MaxMissed ELSE missed[k][m]]]
    /\ UNCHANGED <<net, commands>>

\* Mutation: last_seen is set only when the entry is made.
UpsertKeepsStamp(n, i) ==
    /\ registry' = [registry EXCEPT ![n] = [j \in DOMAIN @ \cup {i} |-> IF j \in DOMAIN @ THEN @[j] ELSE 0]]
    /\ active' = [active EXCEPT ![n] = IF @ = None THEN i ELSE @]

\* PeerRegistry.upsert: last_seen is now, whether or not i was listed.
Stamped(peers, i) == [j \in DOMAIN peers \cup {i} |-> IF j = i THEN 0 ELSE peers[j]]

\* PeerRegistry.upsert with _on_peer_new; the UI's own callers make the same
\* choice of an active peer after it.
Upsert(n, i) ==
    /\ registry' = [registry EXCEPT ![n] = Stamped(@, i)]
    /\ active' = [active EXCEPT ![n] = IF @ = None THEN i ELSE @]

Announce(n) ==
    /\ up[n] /\ announce[n] = 0
    /\ announce' = [announce EXCEPT ![n] = AnnounceInterval]
    /\ net' = net \cup {Send("announce", n, m) : m \in {n} \cup {k \in Node : <<n, k>> \in Reaches}}
    /\ UNCHANGED <<up, registry, active, prune, dialing, commands, quits, missed>>

\* Mutation: only the first stale entry is removed.
PruneStaleFirst(n) ==
    /\ up[n] /\ prune[n] = 0
    /\ prune' = [prune EXCEPT ![n] = PruneInterval]
    /\ LET stale == {i \in DOMAIN registry[n] : registry[n][i] > PeerTimeout}
           gone == IF stale = {} THEN {} ELSE {CHOOSE i \in stale : TRUE}
       IN registry' = [registry EXCEPT ![n] = [i \in DOMAIN @ \ gone |-> @[i]]]
    /\ UNCHANGED <<up, active, announce, dialing, net, commands, quits, missed>>

\* prune_stale with _on_peer_lost, which leaves active_peer_id alone.
PruneStale(n) ==
    /\ up[n] /\ prune[n] = 0
    /\ prune' = [prune EXCEPT ![n] = PruneInterval]
    /\ LET fresh == {i \in DOMAIN registry[n] : registry[n][i] <= PeerTimeout}
       IN registry' = [registry EXCEPT ![n] = [i \in fresh |-> @[i]]]
    /\ UNCHANGED <<up, active, announce, dialing, net, commands, quits, missed>>

Hear(n, m) ==
    /\ Upsert(n, m)
    /\ missed' = [missed EXCEPT ![n][m] = IF up[m] THEN 0 ELSE MaxMissed]

\* Mutation: no reply to an announce.
ResponseSilent(p) == IF p.kind = "hello" THEN {Send("hello_ack", p.to, p.from)} ELSE {}

\* Mutation: a reply is answered too.
ResponseToAll(p) ==
    CASE p.kind \in {"announce", "reply"} -> {Send("reply", p.to, p.from)}
      [] p.kind = "hello" -> {Send("hello_ack", p.to, p.from)}
      [] OTHER -> {}

\* What the receiver of a packet sends back: an announce asks for a reply, a
\* reply does not.
Response(p) ==
    CASE p.kind = "announce" -> {Send("reply", p.to, p.from)}
      [] p.kind = "hello" -> {Send("hello_ack", p.to, p.from)}
      [] OTHER -> {}

\* Mutation: our own broadcast is not told apart.
DeliverOwn(p) ==
    /\ p \in net /\ up[p.to]
    /\ Hear(p.to, p.from)
    /\ net' = (net \ {p}) \cup Response(p)
    /\ UNCHANGED <<up, announce, prune, dialing, commands, quits>>

\* _handle_packet and _on_network_message_handshake, _on_chat_received.
Deliver(p) ==
    /\ p \in net /\ up[p.to] /\ p.from # p.to
    /\ Hear(p.to, p.from)
    /\ net' = (net \ {p}) \cup Response(p)
    /\ UNCHANGED <<up, announce, prune, dialing, commands, quits>>

\* "ignore our own broadcast".
IgnoreOwn(p) ==
    /\ p \in net /\ up[p.to] /\ p.from = p.to
    /\ net' = net \ {p}
    /\ UNCHANGED <<up, registry, active, announce, prune, dialing, commands, quits, missed>>

\* History: an announce or reply of m that n did not get, or an announce of n
\* that m did not get and so cannot answer.
Miss(p) ==
    LET count(n, m) == IF \/ p.kind \in {"announce", "reply"} /\ p.from = m /\ p.to = n
                          \/ p.kind = "announce" /\ p.from = n /\ p.to = m
                       THEN 1 ELSE 0
        capped(k) == IF k > MaxMissed THEN MaxMissed ELSE k
    IN missed' = [n \in Node |-> [m \in Node |->
                     IF n = m THEN missed[n][m] ELSE capped(missed[n][m] + count(n, m))]]

\* A packet is lost, or its receiver does not run; a frame, when its
\* connection breaks.
Lose(p) ==
    /\ p \in net
    /\ net' = net \ {p}
    /\ Miss(p)
    /\ UNCHANGED <<up, registry, active, announce, prune, dialing, commands, quits>>

\* /connect: a probe, then connect_to is awaited.
Connect(n, m) ==
    /\ up[n] /\ n # m /\ dialing[n] = None /\ commands < MaxCommands
    /\ commands' = commands + 1
    /\ dialing' = [dialing EXCEPT ![n] = m]
    /\ net' = net \cup {Send("announce", n, m)}
    /\ UNCHANGED <<up, registry, active, announce, prune, quits, missed>>

ConnectFail(n) ==
    /\ dialing[n] # None
    /\ dialing' = [dialing EXCEPT ![n] = None]
    /\ UNCHANGED <<up, registry, active, announce, prune, net, commands, quits, missed>>

\* The connection is open: hello, then the first entry with this address
\* becomes the active peer, an entry made for it when there is none.  A manual
\* entry is made only while no other has the address, so it is the first.
ConnectDone(n) ==
    LET m == dialing[n]
        id == IF Listed(n, m) /\ ~Listed(n, Manual(m)) THEN m ELSE Manual(m)
    IN
    /\ m # None /\ up[m]
    /\ dialing' = [dialing EXCEPT ![n] = None]
    /\ net' = net \cup {Send("hello", n, m)}
    /\ registry' = IF Listed(n, id) THEN registry
                   ELSE [registry EXCEPT ![n] = Stamped(@, id)]
    /\ active' = [active EXCEPT ![n] = id]
    /\ UNCHANGED <<up, announce, prune, commands, quits, missed>>

\* /msg, or a click in the peer list.
Select(n, i) ==
    /\ up[n] /\ Listed(n, i) /\ commands < MaxCommands
    /\ commands' = commands + 1
    /\ active' = [active EXCEPT ![n] = i]
    /\ UNCHANGED <<up, registry, announce, prune, dialing, net, quits, missed>>

\* A line of chat goes to the address of the active peer, if it is listed.
SendText(n) ==
    /\ up[n] /\ active[n] # None /\ Listed(n, active[n]) /\ commands < MaxCommands
    /\ commands' = commands + 1
    /\ net' = net \cup {Send("chat", n, AddrOf(active[n]))}
    /\ UNCHANGED <<up, registry, active, announce, prune, dialing, quits, missed>>

Tick ==
    /\ net = {}
    /\ \A n \in Node : up[n] => announce[n] > 0 /\ prune[n] > 0
    /\ \E n \in Node : up[n]
    /\ registry' = [n \in Node |-> [i \in DOMAIN registry[n] |-> registry[n][i] + 1]]
    /\ announce' = [n \in Node |-> IF up[n] THEN announce[n] - 1 ELSE announce[n]]
    /\ prune' = [n \in Node |-> IF up[n] THEN prune[n] - 1 ELSE prune[n]]
    /\ UNCHANGED <<up, active, dialing, net, commands, quits, missed>>

User == \E n \in Node : \/ Quit(n) \/ SendText(n)
                        \/ \E m \in Node : Connect(n, m)
                        \/ \E i \in Id : Select(n, i)

Network == \E p \in net : Deliver(p) \/ IgnoreOwn(p) \/ Lose(p)

Next ==
    \/ User \/ Tick \/ Network
    \/ \E n \in Node : \/ Start(n) \/ Announce(n) \/ PruneStale(n)
                       \/ ConnectDone(n) \/ ConnectFail(n)

Spec == Init /\ [][Next]_vars

\* The loops run and time passes; a packet sent again and again arrives.
ClockFairness == WF_vars(Tick) /\ WF_vars(Network)

LoopFairness(n) == WF_vars(Announce(n)) /\ WF_vars(PruneStale(n))

PairFairness(n, m) ==
    /\ SF_vars(Deliver(Send("announce", n, m)))
    /\ SF_vars(Deliver(Send("reply", n, m)))

Fairness ==
    /\ ClockFairness
    /\ \A n \in Node : LoopFairness(n)
    /\ \A n, m \in Node : n # m => PairFairness(n, m)

FairSpec == Spec /\ Fairness

-----------------------------------------------------------------------------

\* No entry, manual ones included, outlives the timeout by more than one round
\* of the prune loop (prune_stale, _prune_loop).
StaleIsPruned ==
    \A n \in Node : \A i \in DOMAIN registry[n] :
        registry[n][i] <= PeerTimeout + PruneInterval

\* A peer leaves the list of a running node only after as many announcements
\* went missing as fit in PEER_TIMEOUT: fewer losses in a row never show a
\* running peer as offline (prune_stale against _announce_loop and the replies
\* of _handle_packet).
OfflineWasMissed ==
    [][\A n, m \in Node : Listed(n, m) /\ up'[n] /\ m \notin DOMAIN registry'[n]
                          => missed[n][m] = MaxMissed]_vars

\* Two nodes that keep running list each other again and again, even if only
\* one hears the other's broadcasts: the unicast reply of _handle_packet.
FoundBothWays ==
    \A n, m \in Node : n # m /\ <>[](up[n] /\ up[m]) => []<>(Listed(n, m) /\ Listed(m, n))

\* Replies are not answered: the traffic an announcement causes dies down.
TrafficSettles == []<>(net = {})
=============================================================================
