---------------------------- MODULE SecureSession ----------------------------
(***************************************************************************)
(* Authenticated sessions between two nodes: the three-message handshake   *)
(* (core/crypto/handshake.py), the channel with its sequence numbers       *)
(* (core/crypto/encryption.py, core/transport/secure.py, tcp.py) and the   *)
(* SecureSessionManager of each node (core/transport/session.py).  Either  *)
(* node may open connections, so both may do so at once.                   *)
(*                                                                         *)
(* Keys are directional and fresh per connection, so a frame is accepted   *)
(* by nobody but the other end of its connection; what is left of the      *)
(* cryptography is the nonce, which is the sequence number.                *)
(***************************************************************************)
EXTENDS Naturals, Sequences, FiniteSets

CONSTANTS
    Node,        \* the two nodes
    Conn,        \* TCP connections between them
    Initiator,   \* Initiator[c]: the node that opens c
    NoConn,
    MaxSend      \* bound: MaxSend[e] send calls on end e of a connection

ASSUME NodeAssumption == IsFiniteSet(Node) /\ Cardinality(Node) = 2
ASSUME ConnAssumption == Initiator \in [Conn -> Node] /\ NoConn \notin Conn

End == Conn \X Node
ASSUME SendAssumption == MaxSend \in [End -> Nat]

Peer(n) == CHOOSE p \in Node : p # n
Other(e) == <<e[1], Peer(e[2])>>
InitiatorEnd(c) == <<c, Initiator[c]>>
ResponderEnd(c) == Other(InitiatorEnd(c))

VARIABLES
    hs,          \* hs[e]: how far the handshake is at e
    wire,        \* wire[e]: frames on their way to e
    up,          \* up[c]: the network still carries c
    open,        \* open[e]: e is not closing (is_alive)
    sessions,    \* sessions[n]: _sessions of n, for the other node's device_id
    known,       \* ends whose session was registered and not handed back (history)
    closing,     \* ends with a scheduled close()
    sendSeq,     \* sendSeq[e]: _send_sequence
    recvSeq,     \* recvSeq[e]: _expected_recv_sequence
    spent,       \* spent[e]: the nonces e encrypted with, in order (history)
    written,     \* written[e]: sequence numbers of the frames e wrote (history)
    accepted     \* accepted[e]: sequence numbers of the frames e decrypted (history)

handshakeVars == <<hs, up>>
managerVars == <<sessions, known, closing>>
channelVars == <<sendSeq, recvSeq, spent, written, accepted>>
vars == <<handshakeVars, wire, open, managerVars, channelVars>>

Waiting == {"wait_init", "wait_response", "wait_finish"}
Handshake(kind) == [kind |-> kind, seq |-> 0]
Data(seq) == [kind |-> "data", seq |-> seq]

TypeOK ==
    /\ hs \in [End -> {"idle", "established", "failed"} \cup Waiting]
    /\ wire \in [End -> Seq([kind : {"init", "response", "finish", "data"}, seq : Nat])]
    /\ up \in [Conn -> BOOLEAN]
    /\ open \in [End -> BOOLEAN]
    /\ sessions \in [Node -> Conn \cup {NoConn}]
    /\ known \subseteq End /\ closing \subseteq End
    /\ sendSeq \in [End -> Nat]
    /\ recvSeq \in [End -> Nat]
    /\ spent \in [End -> Seq(Nat)]
    /\ written \in [End -> Seq(Nat)]
    /\ accepted \in [End -> Seq(Nat)]
    /\ \A e \in End : recvSeq[e] <= sendSeq[Other(e)]

Init ==
    /\ hs = [e \in End |-> "idle"]
    /\ wire = [e \in End |-> <<>>]
    /\ up = [c \in Conn |-> TRUE]
    /\ open = [e \in End |-> FALSE]
    /\ sessions = [n \in Node |-> NoConn]
    /\ known = {} /\ closing = {}
    /\ sendSeq = [e \in End |-> 0]
    /\ recvSeq = [e \in End |-> 0]
    /\ spent = [e \in End |-> <<>>]
    /\ written = [e \in End |-> <<>>]
    /\ accepted = [e \in End |-> <<>>]

-----------------------------------------------------------------------------
(* The handshake.                                                          *)

\* e takes a handshake message of the given kind off the wire and answers it;
\* an answer to a closed or broken connection goes nowhere.
Exchange(e, kind, answer) ==
    /\ open[e] /\ wire[e] # <<>> /\ Head(wire[e]).kind = kind
    /\ wire' = [wire EXCEPT ![e] = Tail(@),
                            ![Other(e)] = IF up[e[1]] /\ open[Other(e)] THEN @ \o answer ELSE @]

\* The handshake raises and its caller closes the connection.
Fail(e) ==
    /\ hs' = [hs EXCEPT ![e] = "failed"]
    /\ open' = [open EXCEPT ![e] = FALSE]

\* initiate_secure_session: the connection opens and handshake_init is sent.
Connect(c) ==
    LET i == InitiatorEnd(c) IN
    /\ hs[i] = "idle"
    /\ hs' = [hs EXCEPT ![i] = "wait_response", ![Other(i)] = "wait_init"]
    /\ open' = [open EXCEPT ![i] = TRUE, ![Other(i)] = TRUE]
    /\ wire' = [wire EXCEPT ![Other(i)] = <<Handshake("init")>>]
    /\ UNCHANGED <<up, managerVars, channelVars>>

\* perform_handshake_responder, handshake_init: the trust store may refuse.
HandleInit(e) ==
    /\ hs[e] = "wait_init"
    /\ \/ /\ Exchange(e, "init", <<Handshake("response")>>)
          /\ hs' = [hs EXCEPT ![e] = "wait_finish"]
          /\ UNCHANGED open
       \/ Exchange(e, "init", <<>>) /\ Fail(e)
    /\ UNCHANGED <<up, managerVars, channelVars>>

\* perform_handshake_initiator, handshake_response: the session exists as soon
\* as handshake_finish is written.
HandleResponse(e) ==
    /\ hs[e] = "wait_response"
    /\ \/ /\ Exchange(e, "response", <<Handshake("finish")>>)
          /\ hs' = [hs EXCEPT ![e] = "established"]
          /\ UNCHANGED open
       \/ Exchange(e, "response", <<>>) /\ Fail(e)
    /\ UNCHANGED <<up, managerVars, channelVars>>

\* Mutation: the responder has its session before handshake_finish arrives.
HandleFinishEarly(e) ==
    /\ hs[e] = "wait_finish"
    /\ hs' = [hs EXCEPT ![e] = "established"]
    /\ UNCHANGED <<wire, open, up, managerVars, channelVars>>

\* perform_handshake_responder, handshake_finish.
HandleFinish(e) ==
    /\ hs[e] = "wait_finish"
    /\ Exchange(e, "finish", <<>>)
    /\ hs' = [hs EXCEPT ![e] = "established"]
    /\ UNCHANGED <<open, up, managerVars, channelVars>>

\* HANDSHAKE_TIMEOUT passes.
HandshakeTimeout(e) ==
    /\ hs[e] \in Waiting
    /\ Fail(e)
    /\ UNCHANGED <<wire, up, managerVars, channelVars>>

-----------------------------------------------------------------------------
(* The encrypted transport.                                                *)

\* Mutation: the counter advances only once the frame is written.
EncryptLate(e, fits) ==
    /\ spent' = [spent EXCEPT ![e] = Append(@, sendSeq[e])]
    /\ sendSeq' = [sendSeq EXCEPT ![e] = IF fits THEN @ + 1 ELSE @]

\* SecureChannel.encrypt: the sequence number is the nonce, used once.
Encrypt(e, fits) ==
    /\ spent' = [spent EXCEPT ![e] = Append(@, sendSeq[e])]
    /\ sendSeq' = [sendSeq EXCEPT ![e] = @ + 1]

\* EncryptedTransport._send_encrypted: encrypt, then write the frame.  A frame
\* that does not fit (over MAX_MESSAGE_SIZE, found by encode_binary_frame) or a
\* connection that is closing raises after the encryption.
Send(e, fits) ==
    /\ hs[e] = "established"
    /\ Len(spent[e]) < MaxSend[e]
    /\ Encrypt(e, fits)
    /\ IF fits /\ open[e]
       THEN /\ written' = [written EXCEPT ![e] = Append(@, sendSeq[e])]
            /\ wire' = [wire EXCEPT ![Other(e)] =
                          IF up[e[1]] /\ open[Other(e)] THEN Append(@, Data(sendSeq[e])) ELSE @]
       ELSE UNCHANGED <<written, wire>>
    /\ UNCHANGED <<handshakeVars, open, managerVars, recvSeq, accepted>>

\* Mutation: any sequence number that is not too old is taken.
DecryptsAhead(e, seq) == seq >= recvSeq[e]

\* SecureChannel.decrypt takes the expected sequence number and no other.
Decrypts(e, seq) == seq = recvSeq[e]

\* Mutation: the expected sequence number is not advanced.
ExpectedAfterSame(e) == recvSeq[e]

\* Mutation: it is advanced twice.
ExpectedAfterTwice(e) == recvSeq[e] + 2

\* _expected_recv_sequence once a frame was accepted.
ExpectedAfter(e) == recvSeq[e] + 1

\* EncryptedTransport.receive_frame; a frame that is refused is dropped and the
\* session stays as it was.
Receive(e) ==
    /\ hs[e] = "established" /\ open[e]
    /\ wire[e] # <<>> /\ Head(wire[e]).kind = "data"
    /\ wire' = [wire EXCEPT ![e] = Tail(@)]
    /\ LET seq == Head(wire[e]).seq IN
       IF Decrypts(e, seq)
       THEN /\ accepted' = [accepted EXCEPT ![e] = Append(@, seq)]
            /\ recvSeq' = [recvSeq EXCEPT ![e] = ExpectedAfter(e)]
       ELSE UNCHANGED <<accepted, recvSeq>>
    /\ UNCHANGED <<handshakeVars, open, managerVars, sendSeq, spent, written>>

\* Mutation: a closed peer is noticed by a handshake only.
NoticeClosedInHandshake(e) ==
    /\ open[e] /\ wire[e] = <<>>
    /\ ~up[e[1]] \/ ~open[Other(e)]
    /\ hs[e] \in Waiting /\ Fail(e)
    /\ UNCHANGED <<wire, up, managerVars, channelVars>>

\* A read meets the end of the stream: the other end closed, or c broke.
NoticeClosed(e) ==
    /\ open[e] /\ wire[e] = <<>>
    /\ ~up[e[1]] \/ ~open[Other(e)]
    /\ IF hs[e] \in Waiting THEN Fail(e)
       ELSE open' = [open EXCEPT ![e] = FALSE] /\ UNCHANGED hs
    /\ UNCHANGED <<wire, up, managerVars, channelVars>>

\* The network loses c and what is on it.
Break(c) ==
    /\ up[c] /\ hs[InitiatorEnd(c)] # "idle"
    /\ up' = [up EXCEPT ![c] = FALSE]
    /\ wire' = [e \in End |-> IF e[1] = c THEN <<>> ELSE wire[e]]
    /\ UNCHANGED <<hs, open, managerVars, channelVars>>

-----------------------------------------------------------------------------
(* SecureSessionManager.                                                   *)

\* Mutation: the previous session is replaced but not closed.
RegisterOver(e) ==
    /\ hs[e] = "established" /\ e \notin known
    /\ known' = known \cup {e}
    /\ sessions' = [sessions EXCEPT ![e[2]] = e[1]]
    /\ UNCHANGED <<closing, handshakeVars, wire, open, channelVars>>

\* register: a previous session that is alive is closed by a task.
Register(e) ==
    LET n   == e[2]
        old == <<sessions[n], n>>
    IN
    /\ hs[e] = "established" /\ e \notin known
    /\ known' = known \cup {e}
    /\ sessions' = [sessions EXCEPT ![n] = e[1]]
    /\ closing' = IF sessions[n] # NoConn /\ open[old] THEN closing \cup {old} ELSE closing
    /\ UNCHANGED <<handshakeVars, wire, open, channelVars>>

\* The scheduled close() runs.
CloseTask(e) ==
    /\ e \in closing
    /\ closing' = closing \ {e}
    /\ open' = [open EXCEPT ![e] = FALSE]
    /\ UNCHANGED <<handshakeVars, wire, sessions, known, channelVars>>

\* get and active_device_ids drop a session that is no longer alive.
Get(n) ==
    /\ sessions[n] # NoConn
    /\ ~open[<<sessions[n], n>>]
    /\ sessions' = [sessions EXCEPT ![n] = NoConn]
    /\ UNCHANGED <<handshakeVars, wire, open, known, closing, channelVars>>

\* remove: the session is handed back as it is, and is its caller's from now on.
Remove(n) ==
    /\ sessions[n] # NoConn
    /\ sessions' = [sessions EXCEPT ![n] = NoConn]
    /\ known' = known \ {<<sessions[n], n>>}
    /\ UNCHANGED <<handshakeVars, wire, open, closing, channelVars>>

\* close_all.
CloseAll(n) ==
    /\ sessions[n] # NoConn
    /\ open' = [open EXCEPT ![<<sessions[n], n>>] = FALSE]
    /\ sessions' = [sessions EXCEPT ![n] = NoConn]
    /\ UNCHANGED <<handshakeVars, wire, known, closing, channelVars>>

-----------------------------------------------------------------------------
HandshakeStep(e) == HandleInit(e) \/ HandleResponse(e) \/ HandleFinish(e)

Next ==
    \/ \E c \in Conn : Connect(c) \/ Break(c)
    \/ \E e \in End : HandshakeStep(e) \/ HandshakeTimeout(e)
    \/ \E e \in End, fits \in BOOLEAN : Send(e, fits)
    \/ \E e \in End : Receive(e) \/ NoticeClosed(e)
    \/ \E e \in End : Register(e) \/ CloseTask(e)
    \/ \E n \in Node : Get(n) \/ Remove(n) \/ CloseAll(n)

Spec == Init /\ [][Next]_vars

\* The event loop runs timeouts and tasks, and the owner of a session reads it.
EndFairness(e) ==
    WF_vars(HandshakeTimeout(e)) /\ WF_vars(Receive(e)) /\ WF_vars(NoticeClosed(e))

Fairness == \A e \in End : EndFairness(e)

FairSpec == Spec /\ Fairness

-----------------------------------------------------------------------------
(* Properties.                                                             *)

\* A node that waits for handshake_finish and gets it knows that the other
\* node has accepted it too: the responder has a session only if the initiator
\* had one first.
EstablishedIsMutual ==
    \A c \in Conn : hs[ResponderEnd(c)] = "established" => hs[InitiatorEnd(c)] = "established"

\* SecureChannel "refuses to reuse a nonce under the same key", also for frames
\* that were encrypted and never written.
NonceIsFresh ==
    \A e \in End : \A i, j \in 1..Len(spent[e]) : spent[e][i] = spent[e][j] => i = j

\* What an end accepts is what the other end wrote, from sequence number 0 on,
\* without gap, repetition or reordering, across every close and break
\* (decrypt "enforces strict, gap-free sequence order").
AcceptedIsPrefix ==
    \A e \in End : /\ Len(accepted[e]) <= Len(written[Other(e)])
                   /\ \A i \in 1..Len(accepted[e]) : 
                          accepted[e][i] = i - 1 /\ written[Other(e)][i] = i - 1

\* Where ReplayOrReorderError can fire without any fault of the network: only
\* after the other end spent a sequence number on a frame it did not write.
RefusedMeansUnwritten ==
    \A e \in End :
        (wire[e] # <<>> /\ Head(wire[e]).kind = "data" /\ Head(wire[e]).seq # recvSeq[e])
            => Len(written[Other(e)]) < Len(spent[Other(e)])

\* No session is lost while it is alive: one that was registered and is no
\* longer in the table was handed back by remove, is closed, or its close()
\* is scheduled (register, get, close_all).
ReplacedIsClosed ==
    \A e \in known : open[e] => sessions[e[2]] = e[1] \/ e \in closing

\* An initiator whose session the responder gave up on does not keep it: as
\* long as it reads, it learns that the connection is gone.
HalfOpenEnds ==
    \A c \in Conn :
        (hs[InitiatorEnd(c)] = "established" /\ hs[ResponderEnd(c)] = "failed")
            ~> ~open[InitiatorEnd(c)]
=============================================================================
