---------------------------- MODULE Connections ----------------------------
(***************************************************************************)
(* ConnectionManager (peer.py): the table of open connections, filled by   *)
(* the TCP server and by connect_to, emptied by the read loops, by failing *)
(* sends and by close_all.  All of these are coroutines of one event loop; *)
(* what they know goes stale over an await: connect_to awaits the opening  *)
(* of the connection, send awaits drain, a read loop awaits its handlers.  *)
(***************************************************************************)
EXTENDS Naturals, FiniteSets

CONSTANTS
    Inbound,         \* addr_keys of remote ends that connect to us
    Outbound,        \* addr_keys (ip:listen port) that we connect to
    Conn,            \* Connection objects; bound on how many are ever made
    Dial,            \* connect_to calls that may be in progress together
    Sender,          \* send / send_binary calls that may be suspended together
    None,
    MaxConnections,
    MaxUnread        \* bound: frames received on a connection and not yet read

Addr == Inbound \cup Outbound

ASSUME SetAssumption ==
    /\ IsFiniteSet(Addr) /\ IsFiniteSet(Conn) /\ IsFiniteSet(Dial)
    /\ None \notin Addr /\ None \notin Conn
ASSUME BoundAssumption == MaxConnections \in Nat /\ MaxUnread \in Nat

VARIABLES
    table,       \* table[k]: _connections[k], or None
    addrOf,      \* addrOf[c]: the addr_key c was made with
    tcp,         \* tcp[c]: the TCP connection under c
    writer,      \* writer[c]: whether writer.close() was called
    loop,        \* loop[c]: the read loop of c
    unread,      \* unread[c]: frames waiting for the read loop of c
    opening,     \* opening[d]: the addr_key a connect_to call is opening
    draining,    \* draining[s]: the connection a send call is suspended on
    server       \* the listening socket is open

connVars == <<addrOf, tcp, writer, loop, unread>>
vars == <<table, connVars, opening, draining, server>>

TypeOK ==
    /\ table \in [Addr -> Conn \cup {None}]
    /\ addrOf \in [Conn -> Addr \cup {None}]
    /\ tcp \in [Conn -> {"unused", "up", "ended", "failed"}]
    /\ writer \in [Conn -> {"open", "closed"}]
    /\ loop \in [Conn -> {"none", "reading", "handling", "done"}]
    /\ unread \in [Conn -> 0..MaxUnread]
    /\ opening \in [Dial -> Outbound \cup {None}]
    /\ draining \in [Sender -> Conn \cup {None}]
    /\ server \in BOOLEAN

Init ==
    /\ table = [k \in Addr |-> None]
    /\ addrOf = [c \in Conn |-> None]
    /\ tcp = [c \in Conn |-> "unused"]
    /\ writer = [c \in Conn |-> "open"]
    /\ loop = [c \in Conn |-> "none"]
    /\ unread = [c \in Conn |-> 0]
    /\ opening = [d \in Dial |-> None]
    /\ draining = [s \in Sender |-> None]
    /\ server = TRUE

Registered == {k \in Addr : table[k] # None}
Dialing == {d \in Dial : opening[d] # None}
AtLimit == Cardinality(Registered) >= MaxConnections

\* A new Connection for k is put in the table, over any previous entry, and
\* its read loop starts.
Register(c, k) ==
    /\ tcp[c] = "unused"
    /\ addrOf' = [addrOf EXCEPT ![c] = k]
    /\ tcp' = [tcp EXCEPT ![c] = "up"]
    /\ loop' = [loop EXCEPT ![c] = "reading"]
    /\ table' = [table EXCEPT ![k] = c]
    /\ UNCHANGED <<writer, unread>>

\* _connections.pop(k, None): the entry is removed whoever it belongs to.
Pop(k) == table' = [table EXCEPT ![k] = None]

-----------------------------------------------------------------------------
\* Mutation: the limit is not checked for incoming connections.
HandleIncomingUnlimited(k, c) ==
    /\ server
    /\ \A d \in Conn : addrOf[d] = k => tcp[d] # "up"
    /\ Register(c, k)
    /\ UNCHANGED <<opening, draining, server>>

\* _handle_incoming.  The kernel gives no second connection from a remote end
\* whose connection is still up.
HandleIncoming(k, c) ==
    /\ server
    /\ \A d \in Conn : addrOf[d] = k => tcp[d] # "up"
    /\ IF AtLimit
       THEN /\ tcp[c] = "unused"
            /\ addrOf' = [addrOf EXCEPT ![c] = k]
            /\ tcp' = [tcp EXCEPT ![c] = "ended"]
            /\ writer' = [writer EXCEPT ![c] = "closed"]
            /\ UNCHANGED <<loop, unread, table>>
       ELSE Register(c, k)
    /\ UNCHANGED <<opening, draining, server>>

\* connect_to up to the await of open_connection; when the key is in the table
\* or the limit is reached it returns or raises without a state change.
ConnectTo(d, k) ==
    /\ opening[d] = None
    /\ table[k] = None
    /\ ~AtLimit
    /\ opening' = [opening EXCEPT ![d] = k]
    /\ UNCHANGED <<table, connVars, draining, server>>

\* open_connection succeeded: nothing that was checked before is checked again.
ConnectDone(d, c) ==
    /\ opening[d] # None
    /\ Register(c, opening[d])
    /\ opening' = [opening EXCEPT ![d] = None]
    /\ UNCHANGED <<draining, server>>

\* open_connection failed or CONNECT_TIMEOUT passed.
ConnectFail(d) ==
    /\ opening[d] # None
    /\ opening' = [opening EXCEPT ![d] = None]
    /\ UNCHANGED <<table, connVars, draining, server>>

-----------------------------------------------------------------------------
\* A frame arrives on c.
Arrive(c) ==
    /\ tcp[c] = "up"
    /\ writer[c] = "open"
    /\ unread[c] < MaxUnread
    /\ unread' = [unread EXCEPT ![c] = @ + 1]
    /\ UNCHANGED <<table, addrOf, tcp, writer, loop, opening, draining, server>>

\* The connection ends: in order (what arrived can still be read) or with an error.
Lose(c) ==
    /\ tcp[c] = "up"
    /\ \E how \in {"ended", "failed"} : tcp' = [tcp EXCEPT ![c] = how]
    /\ UNCHANGED <<table, addrOf, writer, loop, unread, opening, draining, server>>

\* Mutation: a frame is taken although none is complete.
ReadFrameEarly(c) ==
    /\ loop[c] = "reading"
    /\ tcp[c] # "failed"
    /\ loop' = [loop EXCEPT ![c] = "handling"]
    /\ unread' = [unread EXCEPT ![c] = @ - 1]
    /\ UNCHANGED <<table, addrOf, tcp, writer, opening, draining, server>>

\* The read loop takes a frame and awaits its handlers ...
ReadFrame(c) ==
    /\ loop[c] = "reading"
    /\ unread[c] > 0
    /\ tcp[c] # "failed"
    /\ loop' = [loop EXCEPT ![c] = "handling"]
    /\ unread' = [unread EXCEPT ![c] = @ - 1]
    /\ UNCHANGED <<table, addrOf, tcp, writer, opening, draining, server>>

\* ... which have finished.
Handled(c) ==
    /\ loop[c] = "handling"
    /\ loop' = [loop EXCEPT ![c] = "reading"]
    /\ UNCHANGED <<table, addrOf, tcp, writer, unread, opening, draining, server>>

\* The read loop is left: the connection failed, was closed, or ended with
\* nothing to read, or the next frame is malformed (ProtocolError).
ReadRaises(c) ==
    \/ tcp[c] = "failed" \/ writer[c] = "closed" \/ (tcp[c] = "ended" /\ unread[c] = 0)
    \/ unread[c] > 0

\* Mutation: the finally clause closes the writer but keeps the table entry.
ReadLoopEndsKeeps(c) ==
    /\ loop[c] = "reading" /\ ReadRaises(c)
    /\ loop' = [loop EXCEPT ![c] = "done"]
    /\ writer' = [writer EXCEPT ![c] = "closed"]
    /\ UNCHANGED <<table, addrOf, tcp, unread, opening, draining, server>>

\* finally: pop the key, close the writer.
ReadLoopEnds(c) ==
    /\ loop[c] = "reading" /\ ReadRaises(c)
    /\ loop' = [loop EXCEPT ![c] = "done"]
    /\ writer' = [writer EXCEPT ![c] = "closed"]
    /\ Pop(addrOf[c])
    /\ UNCHANGED <<addrOf, tcp, unread, opening, draining, server>>

-----------------------------------------------------------------------------
\* send / send_binary: look the connection up, write, and suspend in drain.
Send(s, k) ==
    /\ draining[s] = None
    /\ table[k] # None
    /\ draining' = [draining EXCEPT ![s] = table[k]]
    /\ UNCHANGED <<table, connVars, opening, server>>

SendOk(s) ==
    /\ draining[s] # None
    /\ draining' = [draining EXCEPT ![s] = None]
    /\ UNCHANGED <<table, connVars, opening, server>>

\* Mutation: the key is popped however drain ended.
SendResetAlways(s) ==
    /\ draining[s] # None
    /\ Pop(addrOf[draining[s]])
    /\ draining' = [draining EXCEPT ![s] = None]
    /\ UNCHANGED <<connVars, opening, server>>

\* drain raised ConnectionResetError, which a write after the peer's end meets
\* too: the key is popped, the writer stays open.
SendReset(s) ==
    /\ draining[s] # None
    /\ tcp[draining[s]] \in {"ended", "failed"}
    /\ Pop(addrOf[draining[s]])
    /\ draining' = [draining EXCEPT ![s] = None]
    /\ UNCHANGED <<connVars, opening, server>>

\* Mutation: the table is not cleared.
CloseAllKeeps ==
    /\ server
    /\ writer' = [c \in Conn |-> IF \E k \in Addr : table[k] = c THEN "closed" ELSE writer[c]]
    /\ server' = FALSE
    /\ UNCHANGED <<table, addrOf, tcp, loop, unread, opening, draining>>

\* close_all: what is in the table is closed, the table cleared, the server stopped.
CloseAll ==
    /\ server
    /\ writer' = [c \in Conn |-> IF \E k \in Addr : table[k] = c THEN "closed" ELSE writer[c]]
    /\ table' = [k \in Addr |-> None]
    /\ server' = FALSE
    /\ UNCHANGED <<addrOf, tcp, loop, unread, opening, draining>>

-----------------------------------------------------------------------------
ReadLoop(c) == ReadFrame(c) \/ Handled(c) \/ ReadLoopEnds(c)

Next ==
    \/ \E k \in Inbound, c \in Conn : HandleIncoming(k, c)
    \/ \E d \in Dial, k \in Outbound : ConnectTo(d, k)
    \/ \E d \in Dial, c \in Conn : ConnectDone(d, c)
    \/ \E d \in Dial : ConnectFail(d)
    \/ \E c \in Conn : Arrive(c) \/ Lose(c) \/ ReadLoop(c)
    \/ \E s \in Sender, k \in Addr : Send(s, k)
    \/ \E s \in Sender : SendOk(s) \/ SendReset(s)
    \/ CloseAll

Spec == Init /\ [][Next]_vars

\* The event loop runs every read loop that can run; that includes that the
\* handlers come back, which for a file offer needs the user's answer.
LoopFairness(c) == WF_vars(ReadLoop(c))

Fairness == \A c \in Conn : LoopFairness(c)

FairSpec == Spec /\ Fairness

-----------------------------------------------------------------------------
(* Properties.                                                             *)

\* MAX_CONNECTIONS is for "simultaneous connections, incoming + outgoing", but
\* connect_to checks it before it awaits the opening.  The table exceeds it by
\* the connect_to calls that were past their check, and by no more.
OvershootBounded ==
    Cardinality(Registered) + Cardinality(Dialing) <= MaxConnections + Cardinality(Dial)

\* An entry of the table is a connection that is being served: it was made
\* for that key, its read loop has not ended and its writer is open, so the
\* entry will be removed when the connection ends.
TableIsServed ==
    \A k \in Registered :
        LET c == table[k] IN
        addrOf[c] = k /\ loop[c] \in {"reading", "handling"} /\ writer[c] = "open"

\* "Owns the TCP server and all active connections" (ConnectionManager), as
\* far as the code keeps it: a connection that is up and was not closed is
\* missing from the table only where another Connection was made for the same
\* addr_key (the later one replaced it, or the end of the earlier one popped
\* the later one's entry).
OwnedUnlessReused ==
    \A c \in Conn : tcp[c] = "up" /\ writer[c] = "open" =>
        \/ table[addrOf[c]] = c
        \/ \E d \in Conn \ {c} : addrOf[d] = addrOf[c]

\* A connection that has ended leaves the table, provided handlers return.
EndedIsForgotten ==
    \A c \in Conn : (tcp[c] \in {"ended", "failed"}) ~> (\A k \in Addr : table[k] # c)
=============================================================================
