-------------------------------- MODULE Chat --------------------------------
(***************************************************************************)
(* ChatSession (chat.py) at both ends of one TCP connection: the send_chat *)
(* coroutine of every message, its acknowledgement, its timeout, and the   *)
(* parts of ConnectionManager (peer.py) it rests on: send() and the read   *)
(* loop that runs every handler to its end before it reads the next frame. *)
(*                                                                         *)
(* Coroutines interleave only where they suspend, which in this code is    *)
(* writer.drain().  asyncio's flow control decides when that happens: the  *)
(* transport is paused while its buffer is above the high-water mark and   *)
(* wakes every waiting drain() once it is at or below the low-water mark,  *)
(* or once the connection is lost.  The marks count large frames (chat     *)
(* text and file data reach 64 KiB, the size of the high-water mark);      *)
(* acknowledgements and the other control frames weigh nothing.            *)
(***************************************************************************)
EXTENDS Naturals, Sequences, FiniteSets

CONSTANTS
    Node,        \* the two ends of the connection
    Msg,         \* chat messages (one message_id each)
    From,        \* From[m]: the node whose user sends m
    NoMsg,       \* the read loop is not answering a chat message
    High, Low,   \* water marks of a transport's write buffer, in large frames
    NetCap,      \* large frames the network and the kernels hold per direction
    LossKind,    \* how a transport may learn that the connection is gone
    OtherKind,   \* frames the file transfer session writes
    MaxOther     \* bound: frames of the file transfer session per node

ASSUME NodeAssumption ==
    /\ IsFiniteSet(Node) /\ Cardinality(Node) = 2
    /\ Node \cap Msg = {}
ASSUME MsgAssumption ==
    /\ From \in [Msg -> Node]
    /\ NoMsg \notin Msg
ASSUME BoundAssumption ==
    /\ High \in Nat /\ Low \in Nat /\ Low <= High
    /\ NetCap \in Nat \ {0}
    /\ MaxOther \in Nat
ASSUME KindAssumption ==
    /\ LossKind \subseteq {"clean", "reset", "oserror"}
    /\ OtherKind \subseteq {"file_offer", "file_data"}

VARIABLES
    call,        \* call[m]: where the send_chat coroutine of m is
    drain,       \* drain[w]: the drain() a send_chat or a read loop waits in
    pending,     \* the _pending dictionaries of both sessions
    timer,       \* timer[m]: the _timeout_watcher task of m
    notified,    \* notified[m]: the statuses on_status_change was given for m
    taken,       \* history: chat messages taken off the wire
    shown,       \* messages handed to on_chat_received of the other node
    loop,        \* loop[n]: where the read loop of n is
    reply,       \* reply[n]: the chat message n's read loop is acknowledging
    connected,   \* connected[n]: n's manager has the connection in its table
    buf,         \* buf[n]: frames in n's write buffer
    paused,      \* paused[n]: n's transport asked writers to pause
    net,         \* net[n]: frames on their way from n
    lost,        \* lost[n]: how n's transport saw the connection end
    link,        \* the TCP connection itself
    other        \* other[n]: file transfer frames n has written

sending  == <<call, drain, pending, timer, notified>>
reading  == <<taken, shown, loop, reply>>
tcp      == <<connected, buf, paused, net, lost, link, other>>
vars     == <<sending, reading, tcp>>

Peer(n) == CHOOSE p \in Node : p # n
Owner(w) == IF w \in Node THEN w ELSE From[w]

Frame == [type : {"chat", "chat_ack"}, id : Msg]
             \cup [type : {"file_offer", "file_accept", "file_data"}]

\* How full a write buffer is, in large frames.
Large(f) == f.type \in {"chat", "file_data"}
Level(s) == Cardinality({i \in 1..Len(s) : Large(s[i])})

TypeOK ==
    /\ call \in [Msg -> {"idle", "sending", "returned", "raised"}]
    /\ drain \in [Msg \cup Node -> {"none", "wait", "ok", "reset", "oserror"}]
    /\ pending \subseteq Msg
    /\ timer \in [Msg -> {"none", "armed", "over"}]
    /\ notified \in [Msg -> Seq({"delivered", "failed"})]
    /\ taken \subseteq Msg
    /\ shown \subseteq Msg
    /\ loop \in [Node -> {"read", "sending", "hold", "closed"}]
    /\ reply \in [Node -> Msg \cup {NoMsg}]
    /\ connected \in [Node -> BOOLEAN]
    /\ buf \in [Node -> Seq(Frame)]
    /\ paused \in [Node -> BOOLEAN]
    /\ net \in [Node -> Seq(Frame)]
    /\ lost \in [Node -> {"no"} \cup LossKind]
    /\ link \in {"up", "down"}
    /\ other \in [Node -> 0..MaxOther]

Init ==
    /\ call = [m \in Msg |-> "idle"]
    /\ drain = [w \in Msg \cup Node |-> "none"]
    /\ pending = {}
    /\ timer = [m \in Msg |-> "none"]
    /\ notified = [m \in Msg |-> <<>>]
    /\ taken = {}
    /\ shown = {}
    /\ loop = [n \in Node |-> "read"]
    /\ reply = [n \in Node |-> NoMsg]
    /\ connected = [n \in Node |-> TRUE]
    /\ buf = [n \in Node |-> <<>>]
    /\ paused = [n \in Node |-> FALSE]
    /\ net = [n \in Node |-> <<>>]
    /\ lost = [n \in Node |-> "no"]
    /\ link = "up"
    /\ other = [n \in Node |-> 0]

-----------------------------------------------------------------------------
(* ConnectionManager.send: write a frame and drain.                        *)

\* A write reaches the buffer only while the transport is alive.
Writable(n) == connected[n] /\ lost[n] = "no"

\* Whether the transport is paused once f is in the buffer.
PausedAfter(n, f) == paused[n] \/ Level(Append(buf[n], f)) > High

\* What send() does next: return False ("refused"), return True ("ok"),
\* suspend in drain ("wait"), or have drain raise.  After an orderly end of
\* the peer's stream a write may still be taken or may meet the reset.
SendOutcomes(n, f) ==
    IF ~connected[n] THEN {"refused"}
    ELSE IF lost[n] = "no" THEN {IF PausedAfter(n, f) THEN "wait" ELSE "ok"}
    ELSE IF lost[n] = "clean" THEN {"ok", "reset"}
    ELSE {lost[n]}

Write(n, f) ==
    /\ buf' = IF Writable(n) THEN [buf EXCEPT ![n] = Append(@, f)] ELSE buf
    /\ paused' = IF Writable(n) THEN [paused EXCEPT ![n] = PausedAfter(n, f)] ELSE paused

\* send() forgets the connection on ConnectionResetError and BrokenPipeError only.
ForgetIfReset(n, outcome) ==
    connected' = IF outcome = "reset" THEN [connected EXCEPT ![n] = FALSE] ELSE connected

-----------------------------------------------------------------------------
(* The sending side of ChatSession.                                        *)

Notify(m, status) == notified' = [notified EXCEPT ![m] = Append(@, status)]

\* Mutation: the timeout watcher is never started.
AfterSendNoTimer(m, outcome, tracked) ==
    /\ call' = [call EXCEPT ![m] = IF outcome = "wait" THEN "sending"
                                   ELSE IF outcome = "oserror" THEN "raised" ELSE "returned"]
    /\ drain' = [drain EXCEPT ![m] = IF outcome = "wait" THEN "wait" ELSE "none"]
    /\ IF outcome \in {"refused", "reset"}
       THEN pending' = tracked \ {m} /\ Notify(m, "failed")
       ELSE pending' = tracked /\ UNCHANGED notified
    /\ UNCHANGED timer

\* send_chat from the moment manager.send gave its outcome; tracked is _pending.
\* An exception other than the two that send() handles leaves the coroutine.
AfterSend(m, outcome, tracked) ==
    /\ call' = [call EXCEPT ![m] = IF outcome = "wait" THEN "sending"
                                   ELSE IF outcome = "oserror" THEN "raised" ELSE "returned"]
    /\ drain' = [drain EXCEPT ![m] = IF outcome = "wait" THEN "wait" ELSE "none"]
    /\ IF outcome \in {"refused", "reset"}
       THEN pending' = tracked \ {m} /\ Notify(m, "failed")
       ELSE pending' = tracked /\ UNCHANGED notified
    /\ timer' = IF outcome = "ok" /\ m \in tracked
                THEN [timer EXCEPT ![m] = "armed"] ELSE timer

\* send_chat with a text above MAX_CHAT_TEXT_SIZE.
SendOversize(m) ==
    /\ call[m] = "idle"
    /\ call' = [call EXCEPT ![m] = "returned"]
    /\ Notify(m, "failed")
    /\ UNCHANGED <<drain, pending, timer, reading, tcp>>

\* send_chat up to its first suspension.
SendChat(m) ==
    LET n == From[m]
        f == [type |-> "chat", id |-> m]
    IN
    /\ call[m] = "idle"
    /\ \E outcome \in SendOutcomes(n, f) :
        /\ Write(n, f)
        /\ ForgetIfReset(n, outcome)
        /\ AfterSend(m, outcome, pending \cup {m})
    /\ UNCHANGED <<reading, net, lost, link, other>>

\* The drain() that send_chat was suspended in has ended.
ResumeSend(m) ==
    /\ drain[m] \notin {"none", "wait"}
    /\ ForgetIfReset(From[m], drain[m])
    /\ AfterSend(m, drain[m], pending)
    /\ UNCHANGED <<reading, buf, paused, net, lost, link, other>>

TimeoutWatcher(m) ==
    /\ timer[m] = "armed"
    /\ timer' = [timer EXCEPT ![m] = "over"]
    /\ IF m \in pending
       THEN pending' = pending \ {m} /\ Notify(m, "failed")
       ELSE UNCHANGED <<pending, notified>>
    /\ UNCHANGED <<call, drain, reading, tcp>>

\* Mutation: the lookup in _pending is dropped.
HandleAckUnchecked(m) ==
    /\ pending' = pending \ {m}
    /\ timer' = [timer EXCEPT ![m] = IF @ = "armed" THEN "over" ELSE @]
    /\ Notify(m, "delivered")

\* An ack for a message that is no longer tracked is ignored.
HandleAck(m) ==
    IF m \in pending
    THEN /\ pending' = pending \ {m}
         /\ timer' = [timer EXCEPT ![m] = IF @ = "armed" THEN "over" ELSE @]
         /\ Notify(m, "delivered")
    ELSE UNCHANGED <<pending, timer, notified>>

-----------------------------------------------------------------------------
(* The read loop.  Every handler runs inside it, so a handler that waits   *)
(* stops the reading of this connection.                                   *)

\* The next frame for n; a transport that died with an error yields no more.
NextFrame(n) == Head(net[Peer(n)])

Take(n) ==
    /\ loop[n] = "read"
    /\ lost[n] \in {"no", "clean"}
    /\ net[Peer(n)] # <<>>
    /\ net' = [net EXCEPT ![Peer(n)] = Tail(@)]

\* A handler sends frame f and, once sent, shows message m (if there is one);
\* an exception that send() does not handle ends the handler before that.
Answer(n, f, m) ==
    \E outcome \in SendOutcomes(n, f) :
        /\ Write(n, f)
        /\ ForgetIfReset(n, outcome)
        /\ drain' = [drain EXCEPT ![n] = IF outcome = "wait" THEN "wait" ELSE "none"]
        /\ loop' = [loop EXCEPT ![n] = IF outcome = "wait" THEN "sending" ELSE "read"]
        /\ reply' = [reply EXCEPT ![n] = IF outcome = "wait" THEN m ELSE NoMsg]
        /\ shown' = IF outcome \in {"ok", "refused", "reset"} THEN shown \cup ({m} \ {NoMsg}) ELSE shown

\* _handle_incoming_chat: acknowledge first, then publish and call back.
ReceiveChat(n) ==
    /\ Take(n)
    /\ NextFrame(n).type = "chat"
    /\ taken' = taken \cup {NextFrame(n).id}
    /\ Answer(n, [type |-> "chat_ack", id |-> NextFrame(n).id], NextFrame(n).id)
    /\ UNCHANGED <<call, pending, timer, notified, lost, link, other>>

ReceiveAck(n) ==
    /\ Take(n)
    /\ NextFrame(n).type = "chat_ack"
    /\ HandleAck(NextFrame(n).id)
    /\ UNCHANGED <<call, drain, reading, connected, buf, paused, lost, link, other>>

\* The file transfer session's handler asks the user and waits for the answer.
ReceiveOffer(n) ==
    /\ Take(n)
    /\ NextFrame(n).type = "file_offer"
    /\ loop' = [loop EXCEPT ![n] = "hold"]
    /\ UNCHANGED <<sending, taken, shown, reply, connected, buf, paused, lost, link, other>>

UserAnswers(n) ==
    /\ loop[n] = "hold"
    /\ Answer(n, [type |-> "file_accept"], NoMsg)
    /\ UNCHANGED <<call, pending, timer, notified, taken, net, lost, link, other>>

ReceiveOther(n) ==
    /\ Take(n)
    /\ NextFrame(n).type \in {"file_accept", "file_data"}
    /\ UNCHANGED <<sending, reading, connected, buf, paused, lost, link, other>>

\* Mutation: the callback is lost when the acknowledgement had to wait.
ResumeLoopForgets(n) ==
    /\ loop[n] = "sending"
    /\ drain[n] # "wait"
    /\ ForgetIfReset(n, drain[n])
    /\ loop' = [loop EXCEPT ![n] = "read"]
    /\ reply' = [reply EXCEPT ![n] = NoMsg]
    /\ drain' = [drain EXCEPT ![n] = "none"]
    /\ UNCHANGED <<call, pending, timer, notified, taken, shown, buf, paused, net, lost, link, other>>

\* Mutation: the callback is called after every answer that had to wait.
ResumeLoopShowsAny(n) ==
    /\ loop[n] = "sending"
    /\ drain[n] # "wait"
    /\ ForgetIfReset(n, drain[n])
    /\ loop' = [loop EXCEPT ![n] = "read"]
    /\ reply' = [reply EXCEPT ![n] = NoMsg]
    /\ drain' = [drain EXCEPT ![n] = "none"]
    /\ shown' = IF drain[n] = "oserror" THEN shown ELSE shown \cup {reply[n]}
    /\ UNCHANGED <<call, pending, timer, notified, taken, buf, paused, net, lost, link, other>>

\* The drain() a handler was suspended in has ended.
ResumeLoop(n) ==
    /\ loop[n] = "sending"
    /\ drain[n] # "wait"
    /\ ForgetIfReset(n, drain[n])
    /\ loop' = [loop EXCEPT ![n] = "read"]
    /\ reply' = [reply EXCEPT ![n] = NoMsg]
    /\ drain' = [drain EXCEPT ![n] = "none"]
    /\ shown' = IF drain[n] = "oserror" THEN shown ELSE shown \cup ({reply[n]} \ {NoMsg})
    /\ UNCHANGED <<call, pending, timer, notified, taken, buf, paused, net, lost, link, other>>

\* The read raises and the finally clause removes the connection.
ExitLoop(n) ==
    /\ loop[n] = "read"
    /\ lost[n] # "no"
    /\ loop' = [loop EXCEPT ![n] = "closed"]
    /\ connected' = [connected EXCEPT ![n] = FALSE]
    /\ UNCHANGED <<sending, taken, shown, reply, buf, paused, net, lost, link, other>>

-----------------------------------------------------------------------------
(* asyncio's transport and the network.                                    *)

\* Every drain() waiting on n's transport ends with the given outcome.
Wake(n, outcome) ==
    drain' = [w \in Msg \cup Node |->
                IF drain[w] = "wait" /\ Owner(w) = n THEN outcome ELSE drain[w]]

\* The transport hands a frame to the network; at the low-water mark it
\* resumes writing.
Flush(n) ==
    /\ link = "up" /\ lost[n] = "no"
    /\ buf[n] # <<>> /\ Level(Append(net[n], Head(buf[n]))) <= NetCap
    /\ net' = [net EXCEPT ![n] = Append(@, Head(buf[n]))]
    /\ buf' = [buf EXCEPT ![n] = Tail(@)]
    /\ IF paused[n] /\ Level(Tail(buf[n])) <= Low
       THEN paused' = [paused EXCEPT ![n] = FALSE] /\ Wake(n, "ok")
       ELSE UNCHANGED <<paused, drain>>
    /\ UNCHANGED <<call, pending, timer, notified, reading, connected, lost, link, other>>

\* The file transfer session of n writes on the same connection; its own
\* suspension does not concern the chat session.
WriteOther(n) ==
    /\ other[n] < MaxOther
    /\ Writable(n)
    /\ other' = [other EXCEPT ![n] = @ + 1]
    /\ \E type \in OtherKind : Write(n, [type |-> type])
    /\ UNCHANGED <<sending, reading, connected, net, lost, link>>

\* The TCP connection breaks or is closed by one side.
Break ==
    /\ link = "up"
    /\ link' = "down"
    /\ UNCHANGED <<sending, reading, connected, buf, paused, net, lost, other>>

\* n's transport notices.  After an orderly end the waiting writers are let
\* go by the close or meet the reset; an error is raised in each of them.
ConnectionLost(n) ==
    /\ link = "down" /\ lost[n] = "no"
    /\ \E how \in LossKind :
        /\ lost' = [lost EXCEPT ![n] = how]
        /\ \E outcome \in IF how = "clean" THEN {"ok", "reset"} ELSE {how} : Wake(n, outcome)
    /\ buf' = [buf EXCEPT ![n] = <<>>]
    /\ UNCHANGED <<call, pending, timer, notified, reading, connected, paused, net, link, other>>

-----------------------------------------------------------------------------
ReadLoop(n) ==
    ReceiveChat(n) \/ ReceiveAck(n) \/ ReceiveOffer(n) \/ ReceiveOther(n) \/ ResumeLoop(n) \/ ExitLoop(n)

Next ==
    \/ \E m \in Msg : SendChat(m) \/ SendOversize(m) \/ ResumeSend(m) \/ TimeoutWatcher(m)
    \/ \E n \in Node : ReadLoop(n) \/ UserAnswers(n)
    \/ \E n \in Node : Flush(n) \/ WriteOther(n) \/ ConnectionLost(n)
    \/ Break

Spec == Init /\ [][Next]_vars

\* The event loop runs every coroutine that can run and the network moves
\* what it can; users, other traffic and the breaking of the connection owe
\* nothing.
MsgFairness(m) == WF_vars(ResumeSend(m)) /\ WF_vars(TimeoutWatcher(m))
NodeFairness(n) == WF_vars(ReadLoop(n)) /\ WF_vars(Flush(n)) /\ WF_vars(ConnectionLost(n))

Fairness ==
    /\ \A m \in Msg : MsgFairness(m)
    /\ \A n \in Node : NodeFairness(n)

FairSpec == Spec /\ Fairness

-----------------------------------------------------------------------------
(* Properties.                                                             *)

\* A message is reported at most once, except that a message reported
\* delivered may be reported failed afterwards; in particular an ack that
\* arrives after the timeout never turns "failed" into "delivered"
\* (_handle_ack and _timeout_watcher both go through _pending).
FailedIsFinal ==
    \A m \in Msg : notified[m] \in {<<>>, <<"delivered">>, <<"failed">>, <<"delivered", "failed">>}

\* A message in _pending has something that will take it out, a send in
\* progress or an armed timeout, unless send_chat was left by an exception:
\* send() handles only ConnectionResetError and BrokenPipeError, and any other
\* OSError leaves the message tracked without a watcher.  That is the only way
\* a message is forgotten (send_chat registers before it sends and starts the
\* watcher only if the message is still tracked).
PendingHasOwner ==
    \A m \in pending : call[m] = "sending" \/ timer[m] = "armed" \/ call[m] = "raised"

\* "delivered" is reported only for a message that the other user sees: it
\* was shown, or its handler is past the acknowledgement and about to show it.
\* The exception is a receiving transport that failed with an error send() does
\* not handle: _handle_incoming_chat acknowledges before it calls back, and the
\* exception of the acknowledgement's drain ends it in between.
DeliveredIsShown ==
    \A m \in Msg : "delivered" \in {notified[m][i] : i \in 1..Len(notified[m])} =>
        \/ m \in shown
        \/ loop[Peer(From[m])] = "sending" /\ reply[Peer(From[m])] = m
        \/ lost[Peer(From[m])] = "oserror"

\* The header of chat.py: "a timeout that marks a message 'failed' if no ack
\* arrives in time", for every message that is tracked.
TrackedIsResolved ==
    \A m \in Msg : (m \in pending) ~> (m \notin pending)

\* What the users of the session observe.
UserStatus ==
    [m \in Msg |-> IF notified[m] # <<>> THEN notified[m][Len(notified[m])]
                   ELSE IF call[m] = "idle" THEN "new" ELSE "sent"]

D == INSTANCE Delivery WITH status <- UserStatus, received <- taken

\* The session implements the delivery machine of Delivery.tla.
ImplementsDelivery == D!Spec
=============================================================================
