------------------------- MODULE SecureSessionProofs -------------------------
(***************************************************************************)
(* Proofs about SecureSession, for any connections between the two nodes   *)
(* and any number of frames.  Four arguments: the states of the handshake  *)
(* only move forward, and handshake_finish is on the wire only after the   *)
(* initiator has its session; the sequence numbers of written frames       *)
(* increase, and a frame on the wire was written; a session that leaves    *)
(* the table leaves it closed, closing or handed back; and while every     *)
(* sealed frame was written, the frames on the wire are numbered from the  *)
(* number their receiver expects.                                          *)
(***************************************************************************)
EXTENDS SecureSession, SequenceTheorems, FiniteSetTheorems, TLAPS

Frame == [kind : {"init", "response", "finish", "data"}, seq : Nat]

Types ==
    /\ hs \in [End -> {"idle", "established", "failed"} \cup Waiting]
    /\ wire \in [End -> Seq(Frame)]
    /\ up \in [Conn -> BOOLEAN]
    /\ open \in [End -> BOOLEAN]
    /\ sessions \in [Node -> Conn \cup {NoConn}]
    /\ known \subseteq End /\ closing \subseteq End
    /\ sendSeq \in [End -> Nat]
    /\ recvSeq \in [End -> Nat]
    /\ spent \in [End -> Seq(Nat)]
    /\ written \in [End -> Seq(Nat)]
    /\ accepted \in [End -> Seq(Nat)]

-----------------------------------------------------------------------------
(* The two ends of a connection.                                           *)

\* There is exactly one other node.
LEMMA PeerFacts ==
    \A n \in Node : Peer(n) \in Node /\ Peer(n) # n /\ \A m \in Node : m = n \/ m = Peer(n)
<1> TAKE n \in Node
<1>1. IsFiniteSet(Node \ {n}) /\ Cardinality(Node \ {n}) = 1
  BY NodeAssumption, FS_RemoveElement
<1>2. PICK p : Node \ {n} = {p}
  BY <1>1, FS_Singleton, Zenon
<1>3. \E q \in Node : q # n
  BY <1>2
<1>4. Peer(n) \in Node /\ Peer(n) # n
  BY <1>3 DEF Peer
<1> QED
  BY <1>2, <1>4

\* The other end of a connection, and which end is whose.
LEMMA OtherFacts ==
    \A e \in End : /\ Other(e) \in End /\ Other(e) # e /\ Other(Other(e)) = e
                   /\ Other(e)[1] = e[1] /\ e[1] \in Conn /\ e[2] \in Node /\ e = <<e[1], e[2]>>
                   /\ Other(e)[2] = Peer(e[2])
<1> TAKE e \in End
<1>1. e[1] \in Conn /\ e[2] \in Node /\ e = <<e[1], e[2]>>
  BY DEF End
<1>2. Other(e) = <<e[1], Peer(e[2])>> /\ Peer(e[2]) \in Node /\ Peer(e[2]) # e[2] /\ Peer(Peer(e[2])) = e[2]
  BY <1>1, PeerFacts DEF Other
<1>3. Other(e) \in End /\ Other(e)[1] = e[1] /\ Other(e)[2] = Peer(e[2])
  BY <1>1, <1>2 DEF End
<1>4. Other(e) # e
  BY <1>2, <1>3
<1>5. Other(Other(e)) = e
  BY <1>1, <1>2, <1>3 DEF Other
<1> QED
  BY <1>1, <1>3, <1>4, <1>5

LEMMA EndFacts ==
    /\ \A c \in Conn : /\ InitiatorEnd(c) \in End /\ ResponderEnd(c) \in End
                       /\ ResponderEnd(c) = Other(InitiatorEnd(c)) /\ InitiatorEnd(c) = Other(ResponderEnd(c))
                       /\ InitiatorEnd(c) # ResponderEnd(c)
                       /\ InitiatorEnd(c)[1] = c /\ ResponderEnd(c)[1] = c
    /\ \A c, d \in Conn : /\ InitiatorEnd(c) = InitiatorEnd(d) => c = d
                          /\ ResponderEnd(c) = ResponderEnd(d) => c = d
                          /\ InitiatorEnd(c) # ResponderEnd(d)
<1>1. ASSUME NEW c \in Conn
      PROVE  /\ InitiatorEnd(c) \in End /\ ResponderEnd(c) \in End
             /\ ResponderEnd(c) = Other(InitiatorEnd(c)) /\ InitiatorEnd(c) = Other(ResponderEnd(c))
             /\ InitiatorEnd(c) # ResponderEnd(c)
             /\ InitiatorEnd(c)[1] = c /\ ResponderEnd(c)[1] = c
  <2>1. InitiatorEnd(c) \in End /\ InitiatorEnd(c)[1] = c
    BY ConnAssumption DEF InitiatorEnd, End
  <2> QED
    BY <2>1, OtherFacts DEF ResponderEnd
<1> QED
  BY <1>1

-----------------------------------------------------------------------------
(* The handshake.                                                          *)

HandshakeInv ==
    \A c \in Conn : /\ hs[ResponderEnd(c)] # "wait_response"
                    /\ hs[InitiatorEnd(c)] = "idle" => hs[ResponderEnd(c)] = "idle"

\* The frames that may be on their way to e: a handshake_finish was sent by an
\* end that has its session, and a data frame was written by the other end.
Genuine(e) ==
    {f \in Frame : /\ f.kind = "finish" => hs[Other(e)] = "established"
                   /\ f.kind = "data" => \E j \in 1..Len(written[Other(e)]) : written[Other(e)][j] = f.seq}

WireInv == \A e \in End : wire[e] \in Seq(Genuine(e))

KnownInv == \A e \in known : hs[e] = "established"

(* The channel.                                                            *)

NonceInv ==
    \A e \in End : Len(spent[e]) = sendSeq[e] /\ \A i \in 1..Len(spent[e]) : spent[e][i] = i - 1

Increasing(e) ==
    \A i \in 1..Len(written[e]) :
        written[e][i] < sendSeq[e] /\ \A j \in 1..Len(written[e]) : i < j => written[e][i] < written[e][j]

AcceptedInv ==
    \A e \in End : /\ Len(accepted[e]) = recvSeq[e]
                   /\ Len(accepted[e]) <= Len(written[Other(e)])
                   /\ \A i \in 1..Len(accepted[e]) : accepted[e][i] = i - 1 /\ written[Other(e)][i] = i - 1

Inv ==
    /\ Types /\ HandshakeInv /\ EstablishedIsMutual /\ WireInv
    /\ KnownInv /\ ReplacedIsClosed
    /\ NonceInv /\ (\A e \in End : Increasing(e)) /\ AcceptedInv

-----------------------------------------------------------------------------
\* The frames the steps put on the wire.
LEMMA FrameTypes ==
    /\ \A kind \in {"init", "response", "finish"} : Handshake(kind) \in Frame /\ Handshake(kind).kind = kind
    /\ \A seq \in Nat : Data(seq) \in Frame /\ Data(seq).kind = "data" /\ Data(seq).seq = seq
BY DEF Handshake, Data, Frame

LEMMA ExchangeTypes ==
    ASSUME Types, NEW e \in End, NEW kind, NEW answer \in Seq(Frame), Exchange(e, kind, answer)
    PROVE  wire' \in [End -> Seq(Frame)]
<1>1. wire[e] # <<>> /\ Tail(wire[e]) \in Seq(Frame)
  BY HeadTailProperties DEF Exchange, Types
<1>2. wire[Other(e)] \in Seq(Frame) /\ wire[Other(e)] \o answer \in Seq(Frame)
  BY OtherFacts, ConcatProperties DEF Types
<1> QED
  BY <1>1, <1>2, OtherFacts, Zenon DEF Exchange, Types

LEMMA TypesStep == Types /\ [Next]_vars => Types'
<1> SUFFICES ASSUME Types, [Next]_vars PROVE Types'
  OBVIOUS
<1> USE DEF handshakeVars, managerVars, channelVars
<1>1. ASSUME NEW c \in Conn, Connect(c) PROVE Types'
  <2>1. <<Handshake("init")>> \in Seq(Frame)
    BY FrameTypes
  <2> QED
    BY <1>1, <2>1, EndFacts, OtherFacts, Zenon DEF Connect, Types, Waiting
<1>2. ASSUME NEW c \in Conn, Break(c) PROVE Types'
  BY <1>2 DEF Break, Types
<1>3. ASSUME NEW e \in End, HandshakeStep(e) PROVE Types'
  <2>1. <<Handshake("response")>> \in Seq(Frame) /\ <<Handshake("finish")>> \in Seq(Frame) /\ <<>> \in Seq(Frame)
    BY FrameTypes
  <2>2. wire' \in [End -> Seq(Frame)]
    BY <1>3, <2>1, ExchangeTypes, Zenon DEF HandshakeStep, HandleInit, HandleResponse, HandleFinish
  <2> QED
    BY <1>3, <2>2, Zenon DEF HandshakeStep, HandleInit, HandleResponse, HandleFinish, Fail, Types, Waiting
<1>4. ASSUME NEW e \in End, HandshakeTimeout(e) PROVE Types'
  BY <1>4, Zenon DEF HandshakeTimeout, Fail, Types
<1>5. ASSUME NEW e \in End, NEW fits \in BOOLEAN, Send(e, fits) PROVE Types'
  <2>1. sendSeq[e] \in Nat /\ spent[e] \in Seq(Nat) /\ written[e] \in Seq(Nat)
    BY DEF Types
  <2>2. Append(spent[e], sendSeq[e]) \in Seq(Nat) /\ Append(written[e], sendSeq[e]) \in Seq(Nat)
    BY <2>1, AppendProperties
  <2>3. spent' \in [End -> Seq(Nat)] /\ sendSeq' \in [End -> Nat]
    <3>1. spent' = [spent EXCEPT ![e] = Append(spent[e], sendSeq[e])] /\ sendSeq' = [sendSeq EXCEPT ![e] = sendSeq[e] + 1]
      BY <1>5 DEF Send, Encrypt
    <3>2. sendSeq[e] + 1 \in Nat
      BY <2>1
    <3> QED
      BY <2>2, <3>1, <3>2, Zenon DEF Types
  <2>4. written' \in [End -> Seq(Nat)]
    <3>1. written' = written \/ written' = [written EXCEPT ![e] = Append(written[e], sendSeq[e])]
      BY <1>5 DEF Send
    <3> QED
      BY <2>2, <3>1, ZenonT(60) DEF Types
  <2>5. Other(e) \in End /\ wire[Other(e)] \in Seq(Frame) /\ Data(sendSeq[e]) \in Frame
    BY <2>1, OtherFacts, FrameTypes DEF Types
  <2>6. Append(wire[Other(e)], Data(sendSeq[e])) \in Seq(Frame)
    BY <2>5, AppendProperties
  <2>7. wire' \in [End -> Seq(Frame)]
    <3>1. wire' = wire \/ \E w \in Seq(Frame) : wire' = [wire EXCEPT ![Other(e)] = w]
      BY <1>5, <2>5, <2>6, Zenon DEF Send
    <3> QED
      BY <3>1, Zenon DEF Types
  <2> QED
    BY <1>5, <2>3, <2>4, <2>7, Zenon DEF Send, Types
<1>6. ASSUME NEW e \in End, Receive(e) PROVE Types'
  <2>1. wire[e] \in Seq(Frame) /\ wire[e] # <<>> /\ accepted[e] \in Seq(Nat)
    BY <1>6 DEF Receive, Types
  <2>2. Head(wire[e]) \in Frame /\ Tail(wire[e]) \in Seq(Frame)
    BY <2>1, HeadTailProperties
  <2>3. Head(wire[e]).seq \in Nat
    BY <2>2 DEF Frame
  <2>4. Append(accepted[e], Head(wire[e]).seq) \in Seq(Nat)
    BY <2>1, <2>3, AppendProperties
  <2>5. wire' \in [End -> Seq(Frame)]
    BY <1>6, <2>2 DEF Receive, Types
  <2>6. accepted' \in [End -> Seq(Nat)] /\ recvSeq' \in [End -> Nat]
    <3>1. CASE Decrypts(e, Head(wire[e]).seq)
      <4>1. /\ accepted' = [accepted EXCEPT ![e] = Append(@, Head(wire[e]).seq)]
            /\ recvSeq' = [recvSeq EXCEPT ![e] = recvSeq[e] + 1]
        BY <1>6, <3>1 DEF Receive, ExpectedAfter
      <4>2. recvSeq[e] + 1 \in Nat
        BY DEF Types
      <4> QED
        BY <2>4, <4>1, <4>2, Zenon DEF Types
    <3>2. CASE ~Decrypts(e, Head(wire[e]).seq)
      BY <1>6, <3>2 DEF Receive, Types
    <3> QED
      BY <3>1, <3>2
  <2> QED
    BY <1>6, <2>5, <2>6, Zenon DEF Receive, Types
<1>7. ASSUME NEW e \in End, NoticeClosed(e) PROVE Types'
  <2>1. hs' \in [End -> {"idle", "established", "failed"} \cup Waiting] /\ open' \in [End -> BOOLEAN]
    <3>1. /\ hs' = hs \/ hs' = [hs EXCEPT ![e] = "failed"]
          /\ open' = [open EXCEPT ![e] = FALSE]
      BY <1>7 DEF NoticeClosed, Fail
    <3> QED
      BY <3>1, Zenon DEF Types
  <2> QED
    BY <1>7, <2>1, ZenonT(60) DEF NoticeClosed, Types
<1>8. ASSUME NEW e \in End, Register(e) \/ CloseTask(e) PROVE Types'
  <2>1. e[1] \in Conn /\ e[2] \in Node
    BY OtherFacts
  <2>2. CASE Register(e)
    <3>1. sessions[e[2]] # NoConn => <<sessions[e[2]], e[2]>> \in End
      BY <2>1 DEF Types, End
    <3>2. closing' \subseteq End /\ known' \subseteq End
      BY <2>2, <3>1, Zenon DEF Register, Types
    <3>3. sessions' \in [Node -> Conn \cup {NoConn}]
      BY <2>1, <2>2, Zenon DEF Register, Types
    <3> QED
      BY <2>2, <3>2, <3>3, Zenon DEF Register, Types
  <2>3. CASE CloseTask(e)
    BY <2>3 DEF CloseTask, Types
  <2> QED
    BY <1>8, <2>2, <2>3
<1>9. ASSUME NEW n \in Node, Get(n) \/ Remove(n) \/ CloseAll(n) PROVE Types'
  BY <1>9, Zenon DEF Get, Remove, CloseAll, Types
<1> QED
  BY <1>1, <1>2, <1>3, <1>4, <1>5, <1>6, <1>7, <1>8, <1>9, Zenon DEF Next, vars, Types

\* What the handshake does to the state of an end.
LEMMA HandshakeMoves ==
    ASSUME NEW d \in End, HandshakeStep(d) \/ HandshakeTimeout(d) \/ NoticeClosed(d)
    PROVE  \/ hs' = hs
           \/ hs[d] \in Waiting /\ \E s \in {"established", "failed", "wait_finish"} : hs' = [hs EXCEPT ![d] = s]
<1>1. CASE HandleInit(d)
  BY <1>1 DEF HandleInit, Fail, Waiting
<1>2. CASE HandleResponse(d)
  BY <1>2 DEF HandleResponse, Fail, Waiting
<1>3. CASE HandleFinish(d)
  BY <1>3 DEF HandleFinish, Waiting
<1>4. CASE HandshakeTimeout(d) \/ NoticeClosed(d)
  BY <1>4 DEF HandshakeTimeout, NoticeClosed, Fail
<1> QED
  BY <1>1, <1>2, <1>3, <1>4 DEF HandshakeStep

-----------------------------------------------------------------------------
\* A session once established stays so, whatever becomes of its connection.
LEMMA HandshakeMovesOn ==
    ASSUME Types, HandshakeInv, [Next]_vars, NEW e \in End
    PROVE  /\ hs[e] = "established" => hs'[e] = "established"
           /\ hs[e] # "idle" => hs'[e] # "idle"
<1> USE DEF handshakeVars, Types
<1>1. CASE hs' = hs
  BY <1>1
<1>2. ASSUME NEW c \in Conn, Connect(c)
      PROVE  /\ hs[e] = "established" => hs'[e] = "established"
             /\ hs[e] # "idle" => hs'[e] # "idle"
  <2>1. hs[InitiatorEnd(c)] = "idle" /\ hs[Other(InitiatorEnd(c))] = "idle"
    BY <1>2, EndFacts DEF Connect, HandshakeInv
  <2> QED
    BY <1>2, <2>1, EndFacts, Zenon DEF Connect
<1>3. ASSUME NEW d \in End, HandshakeStep(d) \/ HandshakeTimeout(d) \/ NoticeClosed(d)
      PROVE  /\ hs[e] = "established" => hs'[e] = "established"
             /\ hs[e] # "idle" => hs'[e] # "idle"
  <2>1. \/ hs' = hs
        \/ hs[d] \in Waiting /\ \E s \in {"established", "failed", "wait_finish"} : hs' = [hs EXCEPT ![d] = s]
    BY <1>3, HandshakeMoves, Zenon
  <2> QED
    BY <2>1, Zenon DEF Waiting
<1>4. \/ hs' = hs
      \/ \E c \in Conn : Connect(c)
      \/ \E d \in End : HandshakeStep(d) \/ HandshakeTimeout(d) \/ NoticeClosed(d)
  BY Zenon DEF Next, vars, Break, Send, Receive, Register, CloseTask, Get, Remove, CloseAll
<1> QED
  BY <1>1, <1>2, <1>3, <1>4

LEMMA HandshakeInvStep == Types /\ HandshakeInv /\ [Next]_vars => HandshakeInv'
<1> SUFFICES ASSUME Types, HandshakeInv, [Next]_vars, NEW c \in Conn
             PROVE  /\ hs'[ResponderEnd(c)] # "wait_response"
                    /\ hs'[InitiatorEnd(c)] = "idle" => hs'[ResponderEnd(c)] = "idle"
  BY DEF HandshakeInv
<1> USE DEF handshakeVars, Types
<1>1. CASE hs' = hs
  BY <1>1 DEF HandshakeInv
<1>2. ASSUME NEW d \in Conn, Connect(d)
      PROVE  /\ hs'[ResponderEnd(c)] # "wait_response"
             /\ hs'[InitiatorEnd(c)] = "idle" => hs'[ResponderEnd(c)] = "idle"
  <2>1. hs' = [hs EXCEPT ![InitiatorEnd(d)] = "wait_response", ![ResponderEnd(d)] = "wait_init"]
    BY <1>2, EndFacts, Zenon DEF Connect
  <2> QED
    BY <2>1, EndFacts, ZenonT(60) DEF HandshakeInv
<1>3. ASSUME NEW d \in End, HandshakeStep(d) \/ HandshakeTimeout(d) \/ NoticeClosed(d)
      PROVE  /\ hs'[ResponderEnd(c)] # "wait_response"
             /\ hs'[InitiatorEnd(c)] = "idle" => hs'[ResponderEnd(c)] = "idle"
  <2>1. \/ hs' = hs
        \/ hs[d] \in Waiting /\ \E s \in {"established", "failed", "wait_finish"} : hs' = [hs EXCEPT ![d] = s]
    BY <1>3, HandshakeMoves, Zenon
  <2>2. ASSUME hs[d] \in Waiting, NEW s \in {"established", "failed", "wait_finish"}, hs' = [hs EXCEPT ![d] = s]
        PROVE  /\ hs'[ResponderEnd(c)] # "wait_response"
               /\ hs'[InitiatorEnd(c)] = "idle" => hs'[ResponderEnd(c)] = "idle"
    <3>1. /\ hs'[ResponderEnd(c)] \in {hs[ResponderEnd(c)], s} /\ hs'[InitiatorEnd(c)] \in {hs[InitiatorEnd(c)], s}
          /\ hs[ResponderEnd(c)] = "idle" => hs'[ResponderEnd(c)] = "idle"
      BY <2>2, EndFacts, Zenon DEF Waiting
    <3> QED
      BY <3>1, Zenon DEF HandshakeInv
  <2> QED
    BY <1>1, <2>1, <2>2, Zenon
<1>4. \/ hs' = hs
      \/ \E d \in Conn : Connect(d)
      \/ \E d \in End : HandshakeStep(d) \/ HandshakeTimeout(d) \/ NoticeClosed(d)
  BY Zenon DEF Next, vars, Break, Send, Receive, Register, CloseTask, Get, Remove, CloseAll
<1> QED
  BY <1>1, <1>2, <1>3, <1>4

\* A sequence that grows keeps what it has.
LEMMA LenIsNat == \A S, q : q \in Seq(S) => Len(q) \in Nat
OBVIOUS

LEMMA AppendKeeps ==
    ASSUME NEW S, NEW q \in Seq(S), NEW x \in S
    PROVE  \A j \in 1..Len(q) : j \in 1..Len(Append(q, x)) /\ Append(q, x)[j] = q[j]
BY AppendProperties

\* What was written stays written.
LEMMA WrittenGrows ==
    ASSUME Types, [Next]_vars, NEW e \in End
    PROVE  \A j \in 1..Len(written[e]) : j \in 1..Len(written'[e]) /\ written'[e][j] = written[e][j]
<1> USE DEF channelVars, Types
<1>1. CASE written' = written
  BY <1>1
<1>2. ASSUME NEW d \in End, NEW fits \in BOOLEAN, Send(d, fits)
      PROVE  \A j \in 1..Len(written[e]) : j \in 1..Len(written'[e]) /\ written'[e][j] = written[e][j]
  <2>1. written' = written \/ written' = [written EXCEPT ![d] = Append(@, sendSeq[d])]
    BY <1>2, Zenon DEF Send
  <2> DEFINE longer == Append(written[d], sendSeq[d])
  <2>2. written[d] \in Seq(Nat) /\ sendSeq[d] \in Nat
    BY Zenon
  <2>3. written' = written \/ written' = [written EXCEPT ![d] = longer]
    BY <2>1, Zenon DEF longer
  <2>4. \A j \in 1..Len(written[d]) : j \in 1..Len(longer) /\ longer[j] = written[d][j]
    BY ONLY <2>2, AppendKeeps
  <2> HIDE DEF longer
  <2>5. written'[e] = written[e] \/ (e = d /\ written'[e] = longer)
    BY <2>3, Zenon
  <2>6. CASE written'[e] = written[e]
    BY <2>6, Zenon
  <2>7. CASE e = d /\ written'[e] = longer
    BY <2>4, <2>7, Zenon
  <2> QED
    BY <2>5, <2>6, <2>7, Zenon
<1>3. written' = written \/ \E d \in End, fits \in BOOLEAN : Send(d, fits)
  BY Zenon DEF Next, vars, Connect, Break, HandshakeStep, HandleInit, HandleResponse, HandleFinish, HandshakeTimeout,
         NoticeClosed, Receive, Register, CloseTask, Get, Remove, CloseAll
<1> QED
  BY <1>1, <1>2, <1>3, SMTT(30)

\* So a frame that may be on its way may be on its way after any step.
LEMMA GenuineGrows ==
    ASSUME Types, HandshakeInv, [Next]_vars, NEW e \in End
    PROVE  Genuine(e) \subseteq Genuine(e)' /\ Seq(Genuine(e)) \subseteq Seq(Genuine(e)')
<1>1. Other(e) \in End
  BY OtherFacts
<1>2. hs[Other(e)] = "established" => hs'[Other(e)] = "established"
  BY <1>1, HandshakeMovesOn
<1>3. \A j \in 1..Len(written[Other(e)]) :
        j \in 1..Len(written'[Other(e)]) /\ written'[Other(e)][j] = written[Other(e)][j]
  BY <1>1, WrittenGrows
<1>4. Genuine(e) \subseteq Genuine(e)'
  BY <1>2, <1>3 DEF Genuine
<1> QED
  BY <1>4

\* One end takes a frame off the wire and may answer with a genuine one.
LEMMA ExchangeKeeps ==
    ASSUME Types, HandshakeInv, WireInv, [Next]_vars,
           NEW d \in End, NEW kind, NEW answer \in Seq(Genuine(Other(d))'), Exchange(d, kind, answer)
    PROVE  WireInv'
<1> SUFFICES ASSUME NEW e \in End PROVE wire'[e] \in Seq(Genuine(e)')
  BY DEF WireInv
<1>1. wire[e] \in Seq(Genuine(e)') /\ wire[d] \in Seq(Genuine(d)')
  BY GenuineGrows DEF WireInv
<1>2. /\ Other(d) \in End /\ Other(d) # d
      /\ wire[d] # <<>>
      /\ wire' = [wire EXCEPT ![d] = Tail(@),
                              ![Other(d)] = IF up[d[1]] /\ open[Other(d)] THEN @ \o answer ELSE @]
  BY OtherFacts DEF Exchange
<1>3. CASE e = d
  <2>1. wire'[e] = Tail(wire[e])
    BY <1>2, <1>3, Zenon DEF Types
  <2> QED
    BY <1>1, <1>2, <1>3, <2>1, HeadTailProperties, ZenonT(60)
<1>4. CASE e = Other(d)
  <2>1. wire'[e] = wire[e] \o answer \/ wire'[e] = wire[e]
    BY <1>2, <1>4, Zenon DEF Types
  <2>2. wire[e] \o answer \in Seq(Genuine(e)')
    BY <1>1, <1>4, ConcatProperties
  <2> QED
    BY <1>1, <2>1, <2>2, Zenon
<1>5. CASE e # d /\ e # Other(d)
  BY <1>1, <1>2, <1>5 DEF Types
<1> QED
  BY <1>3, <1>4, <1>5

LEMMA WireInvStep == Types /\ HandshakeInv /\ WireInv /\ [Next]_vars => WireInv'
<1> SUFFICES ASSUME Types, HandshakeInv, WireInv, [Next]_vars PROVE WireInv'
  OBVIOUS
<1>0. \A e \in End : Genuine(e) \subseteq Genuine(e)' /\ wire[e] \in Seq(Genuine(e)')
  BY GenuineGrows DEF WireInv
<1>1. CASE wire' = wire
  BY <1>0, <1>1 DEF WireInv
<1>2. ASSUME NEW c \in Conn, Connect(c) PROVE WireInv'
  <2>1. wire' = [wire EXCEPT ![ResponderEnd(c)] = <<Handshake("init")>>]
    BY <1>2 DEF Connect, ResponderEnd
  <2>2. Handshake("init") \in Genuine(ResponderEnd(c))'
    BY DEF Genuine, Frame, Handshake
  <2>3. <<Handshake("init")>> \in Seq(Genuine(ResponderEnd(c))')
    BY <2>2
  <2> QED
    BY <1>0, <2>1, <2>3, EndFacts DEF WireInv, Types
<1>3. ASSUME NEW c \in Conn, Break(c) PROVE WireInv'
  <2>1. \A e \in End : wire'[e] = <<>> \/ wire'[e] = wire[e]
    BY <1>3 DEF Break
  <2> QED
    BY <1>0, <2>1, EmptySeq, Zenon DEF WireInv
<1>4. ASSUME NEW d \in End, HandshakeStep(d) PROVE WireInv'
  <2>1. Other(d) \in End /\ Other(Other(d)) = d
    BY OtherFacts
  <2>2. <<>> \in Seq(Genuine(Other(d))')
    BY EmptySeq
  <2>3. Handshake("response") \in Genuine(Other(d))'
    BY DEF Genuine, Frame, Handshake
  <2>4. <<Handshake("response")>> \in Seq(Genuine(Other(d))')
    BY <2>3
  <2>5. CASE HandleResponse(d) /\ hs'[d] = "established"
    <3>1. Handshake("finish") \in Genuine(Other(d))'
      BY <2>1, <2>5 DEF Genuine, Frame, Handshake
    <3>2. <<Handshake("finish")>> \in Seq(Genuine(Other(d))')
      BY <3>1
    <3> QED
      BY <2>2, <2>5, <3>2, ExchangeKeeps, Zenon DEF HandleResponse
  <2>6. CASE HandleResponse(d) /\ hs'[d] # "established"
    <3>1. Exchange(d, "response", <<>>)
      BY <2>6 DEF HandleResponse, Types
    <3> QED
      BY <2>2, <3>1, ExchangeKeeps, Zenon
  <2>7. CASE HandleInit(d)
    BY <2>2, <2>4, <2>7, ExchangeKeeps, Zenon DEF HandleInit
  <2>8. CASE HandleFinish(d)
    BY <2>2, <2>8, ExchangeKeeps, Zenon DEF HandleFinish
  <2> QED
    BY <1>4, <2>5, <2>6, <2>7, <2>8 DEF HandshakeStep
<1>5. ASSUME NEW d \in End, NEW fits \in BOOLEAN, Send(d, fits), wire' # wire PROVE WireInv'
  <2>1. Other(d) \in End /\ Other(Other(d)) = d
    BY OtherFacts
  <2>2. /\ wire' = [wire EXCEPT ![Other(d)] = Append(wire[Other(d)], Data(sendSeq[d]))]
        /\ written' = [written EXCEPT ![d] = Append(written[d], sendSeq[d])]
    BY <1>5, <2>1, ZenonT(60) DEF Send, Types
  <2>3. /\ written'[d] = Append(written[d], sendSeq[d])
        /\ written[d] \in Seq(Nat) /\ sendSeq[d] \in Nat
    BY <2>2 DEF Types
  <2>4. /\ Len(written'[d]) = Len(written[d]) + 1 /\ Len(written[d]) \in Nat
        /\ written'[d][Len(written[d]) + 1] = sendSeq[d]
    BY <2>3, AppendProperties
  <2>5. Len(written[d]) + 1 \in 1..Len(written'[d])
    BY <2>4
  <2>6. Data(sendSeq[d]) \in Genuine(Other(d))'
    BY <2>1, <2>3, <2>4, <2>5, Zenon DEF Genuine, Frame, Data
  <2>7. Append(wire[Other(d)], Data(sendSeq[d])) \in Seq(Genuine(Other(d))')
    BY <1>0, <2>1, <2>6, AppendProperties
  <2> QED
    BY <1>0, <2>1, <2>2, <2>7 DEF WireInv, Types
<1>6. ASSUME NEW d \in End, Receive(d) PROVE WireInv'
  <2>1. wire[d] # <<>> /\ wire' = [wire EXCEPT ![d] = Tail(wire[d])]
    BY <1>6 DEF Receive
  <2>2. Tail(wire[d]) \in Seq(Genuine(d)')
    BY <1>0, <2>1, HeadTailProperties
  <2> QED
    BY <1>0, <2>1, <2>2 DEF WireInv, Types
<1>7. \/ wire' = wire
      \/ \E c \in Conn : Connect(c) \/ Break(c)
      \/ \E d \in End : HandshakeStep(d) \/ Receive(d)
      \/ \E d \in End, fits \in BOOLEAN : Send(d, fits)
  BY Zenon DEF Next, vars, HandshakeTimeout, NoticeClosed, Register, CloseTask, Get, Remove, CloseAll
<1> QED
  BY <1>1, <1>2, <1>3, <1>4, <1>5, <1>6, <1>7

LEMMA MutualStep ==
    Types /\ HandshakeInv /\ WireInv /\ EstablishedIsMutual /\ [Next]_vars => EstablishedIsMutual'
<1> SUFFICES ASSUME Types, HandshakeInv, WireInv, EstablishedIsMutual, [Next]_vars,
                    NEW c \in Conn, hs'[ResponderEnd(c)] = "established"
             PROVE  hs'[InitiatorEnd(c)] = "established"
  BY DEF EstablishedIsMutual
<1> DEFINE r == ResponderEnd(c)
           i == InitiatorEnd(c)
<1>1. r \in End /\ i \in End /\ Other(r) = i /\ hs[r] # "wait_response"
  BY EndFacts DEF HandshakeInv
<1>2. SUFFICES hs[i] = "established"
  BY <1>1, HandshakeMovesOn
<1>3. CASE hs[r] = "established"
  BY <1>3 DEF EstablishedIsMutual
<1>4. CASE hs[r] # "established"
  <2>1. ASSUME NEW d \in End, HandshakeStep(d) PROVE HandleFinish(r)
    BY <1>1, <1>4, <2>1, Zenon DEF HandshakeStep, HandleInit, HandleResponse, HandleFinish, Fail, Types
  <2>2. ~ \E d \in Conn : Connect(d)
    BY <1>1, <1>4, EndFacts DEF Connect, Types
  <2>3. ~ \E d \in End : HandshakeTimeout(d) \/ NoticeClosed(d)
    BY <1>1, <1>4, ZenonT(60) DEF HandshakeTimeout, NoticeClosed, Fail, Types
  <2>4. HandleFinish(r)
    BY <1>4, <2>1, <2>2, <2>3, Zenon
    DEF Next, vars, handshakeVars, Break, Send, Receive, Register, CloseTask, Get, Remove, CloseAll
  <2>5. wire[r] # <<>> /\ Head(wire[r]).kind = "finish"
    BY <2>4, Zenon DEF HandleFinish, Exchange
  <2>6. Head(wire[r]) \in Genuine(r)
    BY <1>1, <2>5, HeadTailProperties DEF WireInv
  <2> QED
    BY <1>1, <2>5, <2>6 DEF Genuine
<1> QED
  BY <1>3, <1>4

-----------------------------------------------------------------------------
(* The session manager.                                                    *)

LEMMA KnownStep == Types /\ HandshakeInv /\ KnownInv /\ [Next]_vars => KnownInv'
<1> SUFFICES ASSUME Types, HandshakeInv, KnownInv, [Next]_vars, NEW e \in known'
             PROVE  hs'[e] = "established"
  BY DEF KnownInv
<1>1. e \in known \/ Register(e)
  BY ZenonT(60) DEF Next, vars, managerVars, Connect, Break, HandshakeStep, HandleInit, HandleResponse, HandleFinish,
         HandshakeTimeout, NoticeClosed, Send, Receive, Register, CloseTask, Get, Remove, CloseAll
<1>2. e \in End /\ hs[e] = "established"
  BY <1>1, TypesStep, Zenon DEF KnownInv, Register, Types
<1> QED
  BY <1>2, HandshakeMovesOn

LEMMA ReplacedStep ==
    Types /\ HandshakeInv /\ KnownInv /\ ReplacedIsClosed /\ [Next]_vars => ReplacedIsClosed'
<1> SUFFICES ASSUME Types, HandshakeInv, KnownInv, ReplacedIsClosed, [Next]_vars, NEW e \in known', open'[e]
             PROVE  sessions'[e[2]] = e[1] \/ e \in closing'
  BY DEF ReplacedIsClosed
<1> USE DEF managerVars
<1>0. e \in End /\ e[1] \in Conn /\ e[2] \in Node /\ e = <<e[1], e[2]>>
  BY TypesStep, OtherFacts, Zenon DEF Types
<1>1. CASE /\ UNCHANGED managerVars
           /\ \/ \E c \in Conn : Connect(c)
              \/ \E d \in End : open' = [open EXCEPT ![d] = FALSE]
              \/ open' = open
  <2>2. ASSUME NEW c \in Conn, Connect(c) PROVE open[e]
    <3>1. hs[InitiatorEnd(c)] = "idle" /\ hs[ResponderEnd(c)] = "idle"
      BY <2>2 DEF Connect, HandshakeInv
    <3>2. hs[e] = "established"
      BY <1>1 DEF KnownInv
    <3> QED
      BY <1>0, <2>2, <3>1, <3>2, EndFacts, Zenon DEF Connect, Types
  <2>3. open[e]
    BY <1>0, <1>1, <2>2, Zenon DEF Types
  <2> QED
    BY <1>1, <2>3 DEF ReplacedIsClosed
<1>2. ASSUME NEW d \in End, Register(d) PROVE sessions'[e[2]] = e[1] \/ e \in closing'
  <2>1. d[2] \in Node /\ open[e] /\ sessions' = [sessions EXCEPT ![d[2]] = d[1]] /\ closing \subseteq closing'
    BY <1>2, OtherFacts DEF Register
  <2>2. CASE e = d
    BY <2>1, <2>2 DEF Types
  <2>3. CASE e # d /\ e[2] # d[2]
    BY <1>0, <1>2, <2>1, <2>3, Zenon DEF Register, ReplacedIsClosed, Types
  <2>4. CASE e # d /\ e[2] = d[2] /\ sessions[e[2]] = e[1]
    <3>1. <<sessions[d[2]], d[2]>> = e /\ sessions[d[2]] # NoConn
      BY <1>0, <2>4, ConnAssumption
    <3> QED
      BY <1>2, <2>1, <3>1 DEF Register
  <2>5. CASE e # d /\ sessions[e[2]] # e[1]
    BY <1>2, <2>1, <2>5 DEF Register, ReplacedIsClosed
  <2> QED
    BY <2>2, <2>3, <2>4, <2>5
<1>3. ASSUME NEW d \in End, CloseTask(d) PROVE sessions'[e[2]] = e[1] \/ e \in closing'
  BY <1>0, <1>3 DEF CloseTask, ReplacedIsClosed, Types
<1>4. ASSUME NEW n \in Node, Get(n) \/ Remove(n) \/ CloseAll(n)
      PROVE  sessions'[e[2]] = e[1] \/ e \in closing'
  <2>1. /\ e \in known /\ open[e] /\ closing' = closing
        /\ sessions' = [sessions EXCEPT ![n] = NoConn]
        /\ e # <<sessions[n], n>>
    BY <1>0, <1>4, ZenonT(60) DEF Get, Remove, CloseAll, Types
  <2>2. CASE e[2] = n
    BY <1>0, <2>1, <2>2 DEF ReplacedIsClosed
  <2>3. CASE e[2] # n
    BY <1>0, <2>1, <2>3 DEF ReplacedIsClosed, Types
  <2> QED
    BY <2>2, <2>3
<1>5. \/ /\ UNCHANGED managerVars
         /\ \/ \E c \in Conn : Connect(c)
            \/ \E d \in End : open' = [open EXCEPT ![d] = FALSE]
            \/ open' = open
      \/ \E d \in End : Register(d) \/ CloseTask(d)
      \/ \E n \in Node : Get(n) \/ Remove(n) \/ CloseAll(n)
  BY ZenonT(60) DEF Next, vars, Connect, Break, HandshakeStep, HandleInit, HandleResponse, HandleFinish,
         HandshakeTimeout, Fail, NoticeClosed, Send, Receive
<1> QED
  BY <1>1, <1>2, <1>3, <1>4, <1>5, Zenon

-----------------------------------------------------------------------------
(* The channel.                                                            *)

\* Only Send uses a sequence number, and only Receive expects the next.
LEMMA ChannelSteps ==
    ASSUME [Next]_vars
    PROVE  \/ UNCHANGED channelVars
           \/ \E d \in End, fits \in BOOLEAN : Send(d, fits)
           \/ \E d \in End : Receive(d)
BY ZenonT(60) DEF Next, vars, channelVars, Connect, Break, HandshakeStep, HandleInit, HandleResponse, HandleFinish,
       HandshakeTimeout, NoticeClosed, Register, CloseTask, Get, Remove, CloseAll

LEMMA NonceStep == Types /\ NonceInv /\ [Next]_vars => NonceInv'
<1> SUFFICES ASSUME Types, NonceInv, [Next]_vars PROVE NonceInv'
  OBVIOUS
<1>1. CASE UNCHANGED <<spent, sendSeq>>
  BY <1>1 DEF NonceInv
<1>2. ASSUME NEW d \in End, NEW fits \in BOOLEAN, Send(d, fits) PROVE NonceInv'
  <2> SUFFICES ASSUME NEW e \in End
               PROVE  Len(spent'[e]) = sendSeq'[e] /\ \A i \in 1..Len(spent'[e]) : spent'[e][i] = i - 1
    BY DEF NonceInv
  <2>1. CASE e # d
    BY <1>2, <2>1, Zenon DEF Send, Encrypt, NonceInv, Types
  <2>2. CASE e = d
    <3>1. spent'[e] = Append(spent[e], sendSeq[e]) /\ sendSeq'[e] = sendSeq[e] + 1
      BY <1>2, <2>2, Zenon DEF Send, Encrypt, Types
    <3>2. spent[e] \in Seq(Nat) /\ sendSeq[e] \in Nat
      BY DEF Types
    <3>3. /\ Len(spent'[e]) = Len(spent[e]) + 1
          /\ \A i \in 1..Len(spent[e]) : spent'[e][i] = spent[e][i]
          /\ spent'[e][Len(spent[e]) + 1] = sendSeq[e]
      BY <3>1, <3>2, AppendProperties
    <3>4. Len(spent[e]) = sendSeq[e] /\ \A i \in 1..Len(spent[e]) : spent[e][i] = i - 1
      BY DEF NonceInv
    <3> QED
      BY <3>1, <3>2, <3>3, <3>4, SMTT(30)
  <2> QED
    BY <2>1, <2>2
<1> QED
  BY <1>1, <1>2, ChannelSteps, Zenon DEF channelVars, Receive

LEMMA IncreasingStep == Types /\ (\A e \in End : Increasing(e)) /\ [Next]_vars => \A e \in End : Increasing(e)'
<1> SUFFICES ASSUME Types, [Next]_vars, NEW e \in End, Increasing(e) PROVE Increasing(e)'
  OBVIOUS
<1>1. CASE UNCHANGED <<written, sendSeq>>
  BY <1>1 DEF Increasing
<1>2. ASSUME NEW d \in End, NEW fits \in BOOLEAN, Send(d, fits) PROVE Increasing(e)'
  <2>0. written[e] \in Seq(Nat) /\ sendSeq[e] \in Nat /\ \A i \in 1..Len(written[e]) : written[e][i] \in Nat
    <3>1. written[e] \in Seq(Nat) /\ sendSeq[e] \in Nat
      BY DEF Types
    <3> QED
      BY <3>1, ElementOfSeq, SMTT(30)
  <2>1. CASE written'[e] = written[e]
    <3>1. sendSeq' = [sendSeq EXCEPT ![d] = sendSeq[d] + 1]
      BY <1>2 DEF Send, Encrypt
    <3>2. sendSeq'[e] = sendSeq[e] \/ sendSeq'[e] = sendSeq[e] + 1
      BY <3>1 DEF Types
    <3>3. ASSUME NEW i \in 1..Len(written[e]) PROVE written[e][i] < sendSeq'[e]
      <4>1. written[e][i] < sendSeq[e] /\ written[e][i] \in Nat
        BY <2>0 DEF Increasing
      <4> QED
        BY <2>0, <3>2, <4>1, SMTT(30)
    <3> QED
      BY <2>1, <3>3, Zenon DEF Increasing
  <2>2. CASE written'[e] # written[e]
    <3>1. written'[e] = Append(written[e], sendSeq[e]) /\ sendSeq'[e] = sendSeq[e] + 1
      <4>1. written' = written \/ written' = [written EXCEPT ![d] = Append(written[d], sendSeq[d])]
        BY <1>2, Zenon DEF Send
      <4>2. sendSeq' = [sendSeq EXCEPT ![d] = sendSeq[d] + 1]
        BY <1>2 DEF Send, Encrypt
      <4>3. e = d
        BY <2>2, <4>1, Zenon DEF Types
      <4> QED
        BY <2>2, <4>1, <4>2, <4>3, Zenon DEF Types
    <3>2. /\ Len(written'[e]) = Len(written[e]) + 1 /\ Len(written[e]) \in Nat
          /\ \A i \in 1..Len(written[e]) : written'[e][i] = written[e][i]
          /\ written'[e][Len(written[e]) + 1] = sendSeq[e]
      BY <2>0, <3>1, AppendProperties
    <3> DEFINE n == Len(written[e])
    <3>3. SUFFICES ASSUME NEW i \in 1..n + 1
                   PROVE  /\ written'[e][i] < sendSeq'[e]
                          /\ \A j \in 1..n + 1 : i < j => written'[e][i] < written'[e][j]
      BY <3>2 DEF Increasing
    <3>4. CASE i = n + 1
      BY <2>0, <3>1, <3>2, <3>4, SMTT(30)
    <3>5. CASE i \in 1..n
      <4>1. written'[e][i] = written[e][i] /\ written[e][i] \in Nat /\ written[e][i] < sendSeq[e]
        BY <2>0, <3>2, <3>5 DEF Increasing
      <4>2. ASSUME NEW j \in 1..n + 1, i < j PROVE written'[e][i] < written'[e][j]
        <5>1. CASE j = n + 1
          BY <3>2, <4>1, <5>1
        <5>2. CASE j \in 1..n
          <6>1. written[e][i] < written[e][j]
            BY <3>5, <4>2, <5>2 DEF Increasing
          <6> QED
            BY <3>2, <4>1, <5>2, <6>1
        <5> QED
          BY <3>2, <5>1, <5>2, SMTT(30)
      <4>3. written'[e][i] < sendSeq'[e]
        BY <2>0, <3>1, <4>1, SMTT(30)
      <4> QED
        BY <4>2, <4>3
    <3> QED
      BY <3>2, <3>4, <3>5, SMTT(30)
  <2> QED
    BY <2>1, <2>2
<1> QED
  BY <1>1, <1>2, ChannelSteps, Zenon DEF channelVars, Receive

\* If the numbers below r were accepted and r was written, r was written next
\* after them: the numbers written increase.
LEMMA NextWritten ==
    ASSUME NEW w \in Seq(Nat), NEW r \in Nat, r <= Len(w),
           \A i \in 1..r : w[i] = i - 1,
           \A i, j \in 1..Len(w) : i < j => w[i] < w[j],
           NEW k \in 1..Len(w), w[k] = r
    PROVE  r + 1 <= Len(w) /\ w[r + 1] = r
<1>1. k > r
  OBVIOUS
<1>2. r + 1 \in 1..Len(w) /\ w[r + 1] \in Nat
  BY <1>1
<1>3. w[r + 1] >= r
  <2>1. CASE r = 0
    BY <1>2, <2>1
  <2>2. CASE r > 0
    <3>1. r \in 1..Len(w) /\ w[r] = r - 1 /\ w[r] < w[r + 1]
      BY <1>2, <2>2
    <3> QED
      BY <1>2, <3>1, SMTT(30)
  <2> QED
    BY <2>1, <2>2
<1>4. k = r + 1
  BY <1>1, <1>2, <1>3, SMTT(30)
<1> QED
  BY <1>2, <1>4

LEMMA AcceptedStep ==
    Types /\ WireInv /\ (\A e \in End : Increasing(e)) /\ AcceptedInv /\ [Next]_vars => AcceptedInv'
<1> SUFFICES ASSUME Types, WireInv, \A d \in End : Increasing(d), AcceptedInv, [Next]_vars, NEW e \in End
             PROVE  /\ Len(accepted'[e]) = recvSeq'[e]
                    /\ Len(accepted'[e]) <= Len(written'[Other(e)])
                    /\ \A i \in 1..Len(accepted'[e]) : accepted'[e][i] = i - 1 /\ written'[Other(e)][i] = i - 1
  BY DEF AcceptedInv
<1> DEFINE o == Other(e)
           r == recvSeq[e]
<1>1. /\ o \in End
      /\ accepted[e] \in Seq(Nat) /\ written[o] \in Seq(Nat) /\ written'[o] \in Seq(Nat) /\ r \in Nat
      /\ Len(accepted[e]) = r /\ r <= Len(written[o])
      /\ \A i \in 1..r : accepted[e][i] = i - 1 /\ written[o][i] = i - 1
  <2>1. o \in End
    BY OtherFacts
  <2>2. accepted[e] \in Seq(Nat) /\ written[o] \in Seq(Nat) /\ r \in Nat
    BY <2>1 DEF Types
  <2>3. written'[o] \in Seq(Nat)
    <3>1. Types'
      BY TypesStep
    <3> QED
      BY <2>1, <3>1 DEF Types
  <2>4. Len(accepted[e]) = r /\ r <= Len(written[o]) /\ \A i \in 1..r : accepted[e][i] = i - 1 /\ written[o][i] = i - 1
    BY Zenon DEF AcceptedInv
  <2> QED
    BY <2>1, <2>2, <2>3, <2>4, Zenon
<1>2. Len(written[o]) <= Len(written'[o]) /\ \A i \in 1..Len(written[o]) : written'[o][i] = written[o][i]
  <2>1. \A j \in 1..Len(written[o]) : j \in 1..Len(written'[o]) /\ written'[o][j] = written[o][j]
    BY <1>1, WrittenGrows, Zenon
  <2>2. Len(written[o]) \in Nat /\ Len(written'[o]) \in Nat
    BY <1>1
  <2>3. CASE Len(written[o]) = 0
    BY <2>1, <2>2, <2>3
  <2>4. CASE Len(written[o]) # 0
    <3>1. Len(written[o]) \in 1..Len(written[o])
      BY <2>2, <2>4
    <3>2. Len(written[o]) \in 1..Len(written'[o])
      BY <2>1, <3>1
    <3> QED
      BY <2>1, <2>2, <3>2
  <2> QED
    BY <2>3, <2>4, Zenon
<1> HIDE DEF o, r
<1>3. CASE accepted'[e] = accepted[e] /\ recvSeq'[e] = recvSeq[e]
  <2>1. /\ Len(accepted'[e]) = r /\ r <= Len(written'[o])
        /\ \A i \in 1..r : accepted'[e][i] = i - 1 /\ written'[o][i] = i - 1
    <3>1. Len(accepted'[e]) = r /\ \A i \in 1..r : accepted'[e][i] = i - 1
      BY <1>1, <1>3, Zenon
    <3>2. r <= Len(written'[o]) /\ \A i \in 1..r : written'[o][i] = i - 1
      <4>1. /\ Len(written[o]) \in Nat /\ Len(written'[o]) \in Nat /\ r \in Nat
            /\ r <= Len(written[o]) /\ Len(written[o]) <= Len(written'[o])
        BY <1>1, <1>2, LenIsNat, Zenon
      <4>2. r <= Len(written'[o])
        BY ONLY <4>1
      <4>3. \A i \in 1..r : i \in 1..Len(written[o])
        BY ONLY <4>1
      <4> QED
        BY <1>1, <1>2, <4>2, <4>3, Zenon
    <3> QED
      BY <3>1, <3>2, Zenon
  <2> QED
    BY <1>3, <2>1, Zenon DEF o, r
<1>4. CASE ~(accepted'[e] = accepted[e] /\ recvSeq'[e] = recvSeq[e])
  <2>1. PICK d \in End : Receive(d)
    BY <1>4, ChannelSteps, Zenon DEF channelVars, Send
  <2>2. /\ d = e /\ wire[e] # <<>> /\ Head(wire[e]).kind = "data" /\ Head(wire[e]).seq = r
        /\ accepted'[e] = Append(accepted[e], r) /\ recvSeq'[e] = r + 1
        /\ written' = written
    <3>1. Decrypts(d, Head(wire[d]).seq)
      BY <1>4, <2>1, Zenon DEF Receive
    <3>2. /\ accepted' = [accepted EXCEPT ![d] = Append(accepted[d], Head(wire[d]).seq)]
          /\ recvSeq' = [recvSeq EXCEPT ![d] = recvSeq[d] + 1]
          /\ wire[d] # <<>> /\ Head(wire[d]).kind = "data" /\ written' = written
      BY <2>1, <3>1, Zenon DEF Receive, ExpectedAfter
    <3>3. d = e
      BY <1>4, <3>2 DEF Types
    <3> QED
      BY <3>1, <3>2, <3>3 DEF Decrypts, Types, r
  <2>3. Head(wire[e]) \in Genuine(e)
    BY <2>2, HeadTailProperties, Zenon DEF WireInv
  <2>4. PICK k \in 1..Len(written[o]) : written[o][k] = r
    BY <2>2, <2>3, Zenon DEF Genuine, o
  <2>5. \A i, j \in 1..Len(written[o]) : i < j => written[o][i] < written[o][j]
    BY <1>1 DEF Increasing
  <2>6. r + 1 <= Len(written[o]) /\ written[o][r + 1] = r
    BY <1>1, <2>4, <2>5, NextWritten, ZenonT(60)
  <2>7. /\ Len(accepted'[e]) = r + 1
        /\ \A i \in 1..r : accepted'[e][i] = accepted[e][i]
        /\ accepted'[e][r + 1] = r
    BY <1>1, <2>2, AppendProperties, SMTT(30)
  <2>8. \A i \in 1..(r + 1) : accepted'[e][i] = i - 1 /\ written[o][i] = i - 1
    BY <1>1, <2>6, <2>7, SMTT(30)
  <2> QED
    BY <2>2, <2>6, <2>7, <2>8, Zenon DEF o
<1> QED
  BY <1>3, <1>4

-----------------------------------------------------------------------------
(* The invariant holds, and what follows from it.                          *)

LEMMA InitInv == Init => Inv
<1> SUFFICES ASSUME Init PROVE Inv
  OBVIOUS
<1>1. Types
  BY EmptySeq DEF Init, Types
<1>2. HandshakeInv /\ EstablishedIsMutual
  BY EndFacts DEF Init, HandshakeInv, EstablishedIsMutual
<1>3. WireInv
  BY EmptySeq DEF Init, WireInv
<1>4. KnownInv /\ ReplacedIsClosed
  BY DEF Init, KnownInv, ReplacedIsClosed
<1>5. NonceInv /\ (\A e \in End : Increasing(e)) /\ AcceptedInv
  BY OtherFacts DEF Init, NonceInv, Increasing, AcceptedInv
<1> QED
  BY <1>1, <1>2, <1>3, <1>4, <1>5 DEF Inv

LEMMA InvStep == Inv /\ [Next]_vars => Inv'
<1> SUFFICES ASSUME Inv, [Next]_vars PROVE Inv'
  OBVIOUS
<1>1. Types' /\ HandshakeInv' /\ EstablishedIsMutual' /\ WireInv'
  BY TypesStep, HandshakeInvStep, MutualStep, WireInvStep DEF Inv
<1>2. KnownInv' /\ ReplacedIsClosed'
  BY KnownStep, ReplacedStep DEF Inv
<1>3. NonceInv' /\ (\A e \in End : Increasing(e))' /\ AcceptedInv'
  BY NonceStep, IncreasingStep, AcceptedStep DEF Inv
<1> QED
  BY <1>1, <1>2, <1>3 DEF Inv

LEMMA InvHolds == Spec => []Inv
BY InitInv, InvStep, PTL DEF Spec

\* Type correctness, with the relation of the two counters: a receiver never
\* expects a sequence number its peer has not reached.
THEOREM TypeCorrect == Spec => []TypeOK
<1>1. ASSUME Inv PROVE TypeOK
  <2>1. ASSUME NEW e \in End PROVE recvSeq[e] <= sendSeq[Other(e)]
    <3> DEFINE o == Other(e)
               r == recvSeq[e]
    <3>1. o \in End /\ r \in Nat /\ sendSeq[o] \in Nat /\ Len(written[o]) \in Nat
      BY <1>1, OtherFacts DEF Inv, Types
    <3>2. r <= Len(written[o]) /\ \A i \in 1..r : written[o][i] = i - 1
      BY <1>1, Zenon DEF Inv, AcceptedInv
    <3>3. \A i \in 1..Len(written[o]) : written[o][i] < sendSeq[o]
      BY <1>1, <3>1, Zenon DEF Inv, Increasing
    <3> HIDE DEF o, r
    <3>4. r <= sendSeq[o]
      <4>1. CASE r = 0
        BY <3>1, <4>1
      <4>2. CASE r > 0
        <5>1. r \in 1..r /\ r \in 1..Len(written[o])
          BY <3>1, <3>2, <4>2
        <5> QED
          BY <3>1, <3>2, <3>3, <5>1
      <4> QED
        BY <3>1, <4>1, <4>2
    <3> QED
      BY <3>4 DEF o, r
  <2> QED
    BY <1>1, <2>1, Zenon DEF Inv, Types, TypeOK, Frame
<1> QED
  BY <1>1, InvHolds, PTL

\* perform_handshake_responder returns a session only if
\* perform_handshake_initiator returned one before, on any connection.
THEOREM MutualEstablishment == Spec => []EstablishedIsMutual
<1>1. Inv => EstablishedIsMutual
  BY DEF Inv
<1> QED
  BY <1>1, InvHolds, PTL

\* SecureChannel.encrypt never uses a nonce twice, whatever fails after it.
THEOREM NoncesAreFresh == Spec => []NonceIsFresh
<1>1. Inv => NonceIsFresh
  BY DEF Inv, NonceInv, NonceIsFresh, Types
<1> QED
  BY <1>1, InvHolds, PTL

\* SecureChannel.decrypt accepts what the peer wrote from the start, without
\* gap, repetition or reordering, for any number of frames.
THEOREM AcceptedPrefix == Spec => []AcceptedIsPrefix
<1>1. Inv => AcceptedIsPrefix
  BY DEF Inv, AcceptedInv, AcceptedIsPrefix
<1> QED
  BY <1>1, InvHolds, PTL

\* SecureSessionManager drops no session that is alive: it is in the table,
\* closed, about to be closed, or was handed back by remove.
THEOREM ReplacedClosed == Spec => []ReplacedIsClosed
<1>1. Inv => ReplacedIsClosed
  BY DEF Inv
<1> QED
  BY <1>1, InvHolds, PTL

-----------------------------------------------------------------------------
(* The order of the frames on the wire.                                    *)

\* Handshake messages ahead of the data, and the numbers the data must have.
Base(w) == IF w # <<>> /\ Head(w).kind # "data" THEN 1 ELSE 0
DataAfter(w) == \A i \in 2..Len(w) : w[i].kind = "data"
Numbered(w, r) == \A i \in 1..Len(w) : w[i].kind = "data" => w[i].seq + 1 + Base(w) = r + i

\* Nothing happens at an end before its connection is opened.
IdleInv ==
    \A e \in End : hs[e] = "idle" => ~open[e] /\ wire[e] = <<>> /\ sendSeq[e] = 0 /\ recvSeq[e] = 0

\* The two ends take turns: until the initiator has its session there is at
\* most one message on the connection.
TurnInv ==
    \A c \in Conn :
        /\ hs[InitiatorEnd(c)] \notin {"wait_init", "wait_finish"}
        /\ hs[InitiatorEnd(c)] = "wait_response" => Len(wire[InitiatorEnd(c)]) + Len(wire[ResponderEnd(c)]) <= 1
        /\ hs[ResponderEnd(c)] = "wait_init" => wire[InitiatorEnd(c)] = <<>>

\* As long as the other end wrote all that it encrypted, the frames on the way
\* to e carry the numbers e expects, up to the last one used while e listens.
OrderInv ==
    \A e \in End :
        /\ Len(written[e]) <= Len(spent[e])
        /\ DataAfter(wire[e])
        /\ Len(written[Other(e)]) = Len(spent[Other(e)]) =>
              /\ Numbered(wire[e], recvSeq[e])
              /\ up[e[1]] /\ open[e] => sendSeq[Other(e)] + Base(wire[e]) = recvSeq[e] + Len(wire[e])

LineInv == IdleInv /\ TurnInv /\ OrderInv

\* A receiver takes the first frame.
LEMMA LineTail ==
    ASSUME NEW w \in Seq(Frame), w # <<>>, DataAfter(w)
    PROVE  /\ Tail(w) \in Seq(Frame) /\ Len(Tail(w)) + 1 = Len(w) /\ Len(Tail(w)) \in Nat
           /\ DataAfter(Tail(w)) /\ Base(Tail(w)) = 0
           /\ \A r \in Nat : Numbered(w, r) /\ Head(w).kind # "data" => Numbered(Tail(w), r)
           /\ \A r \in Nat : Numbered(w, r) /\ Head(w).kind = "data"
                                => Head(w).seq = r /\ Numbered(Tail(w), r + 1)
<1>1. /\ Tail(w) \in Seq(Frame) /\ Len(w) \in Nat \ {0} /\ Len(Tail(w)) = Len(w) - 1
      /\ Head(w) = w[1] /\ w[1] \in Frame
      /\ \A i \in 1..Len(Tail(w)) : Tail(w)[i] = w[i + 1] /\ i + 1 \in 2..Len(w) /\ w[i + 1] \in Frame
  BY HeadTailProperties, ElementOfSeq
<1>2. \A i \in 1..Len(Tail(w)) : Tail(w)[i].kind = "data"
  BY <1>1 DEF DataAfter
<1>3. DataAfter(Tail(w))
  BY <1>1, <1>2 DEF DataAfter
<1>4. Base(Tail(w)) = 0
  BY <1>1, <1>2, HeadTailProperties DEF Base
<1>5. ASSUME NEW r \in Nat, Numbered(w, r), Head(w).kind # "data" PROVE Numbered(Tail(w), r)
  <2>1. Base(w) = 1
    BY <1>5 DEF Base
  <2> SUFFICES ASSUME NEW i \in 1..Len(Tail(w)) PROVE Tail(w)[i].seq + 1 + 0 = r + i
    BY <1>4 DEF Numbered
  <2>2. w[i + 1].seq + 1 + 1 = r + (i + 1) /\ w[i + 1].seq \in Nat
    BY <1>1, <1>2, <1>5, <2>1 DEF Numbered, Frame
  <2> QED
    BY <1>1, <2>2
<1>6. ASSUME NEW r \in Nat, Numbered(w, r), Head(w).kind = "data"
      PROVE  Head(w).seq = r /\ Numbered(Tail(w), r + 1)
  <2>1. Base(w) = 0
    BY <1>6 DEF Base
  <2>2. w[1].seq + 1 + 0 = r + 1 /\ w[1].seq \in Nat
    BY <1>1, <1>6, <2>1 DEF Numbered, Frame
  <2>3. ASSUME NEW i \in 1..Len(Tail(w)) PROVE Tail(w)[i].seq + 1 + 0 = (r + 1) + i
    <3>1. w[i + 1].seq + 1 + 0 = r + (i + 1) /\ w[i + 1].seq \in Nat
      BY <1>1, <1>2, <1>6, <2>1 DEF Numbered, Frame
    <3> QED
      BY <1>1, <3>1
  <2> QED
    BY <1>1, <1>4, <2>2, <2>3, SMTT(30) DEF Numbered
<1> QED
  BY <1>1, <1>3, <1>4, <1>5, <1>6

\* A sender adds a data frame.
LEMMA LineAppend ==
    ASSUME NEW w \in Seq(Frame), NEW seq \in Nat, DataAfter(w)
    PROVE  /\ Len(Append(w, Data(seq))) = Len(w) + 1 /\ Len(w) \in Nat
           /\ DataAfter(Append(w, Data(seq))) /\ Base(Append(w, Data(seq))) = Base(w)
           /\ \A r \in Nat : Numbered(w, r) /\ seq + Base(w) = r + Len(w)
                                => Numbered(Append(w, Data(seq)), r)
<1> DEFINE v == Append(w, Data(seq))
<1>1. /\ v \in Seq(Frame) /\ Len(w) \in Nat /\ Len(v) = Len(w) + 1 /\ v # <<>>
      /\ \A i \in 1..Len(w) : v[i] = w[i]
      /\ v[Len(w) + 1] = Data(seq)
  BY FrameTypes, AppendProperties
<1>2. Data(seq).kind = "data" /\ Data(seq).seq = seq
  BY FrameTypes
<1> HIDE DEF v
<1>3. DataAfter(v)
  BY <1>1, <1>2 DEF DataAfter
<1>4. Base(v) = Base(w)
  <2>1. Head(v) = v[1]
    BY <1>1, HeadTailProperties
  <2>2. CASE w = <<>>
    BY <1>1, <1>2, <2>1, <2>2 DEF Base
  <2>3. CASE w # <<>>
    BY <1>1, <2>1, <2>3, HeadTailProperties DEF Base
  <2> QED
    BY <2>2, <2>3
<1>5. Base(w) \in Nat
  BY DEF Base
<1>6. ASSUME NEW r \in Nat, Numbered(w, r), seq + Base(w) = r + Len(w) PROVE Numbered(v, r)
  <2> SUFFICES ASSUME NEW i \in 1..Len(w) + 1, v[i].kind = "data"
               PROVE  v[i].seq + 1 + Base(w) = r + i
    BY <1>1, <1>4 DEF Numbered
  <2>1. CASE i = Len(w) + 1
    <3>1. v[i].seq = seq
      BY <1>1, <1>2, <2>1, Zenon
    <3>2. Len(w) \in Nat
      BY <1>1
    <3> QED
      BY <1>5, <1>6, <2>1, <3>1, <3>2, SMTT(30)
  <2>2. CASE i \in 1..Len(w)
    BY <1>1, <1>6, <2>2, Zenon DEF Numbered
  <2> QED
    BY <1>1, <2>1, <2>2
<1> QED
  BY <1>1, <1>3, <1>4, <1>6, Zenon DEF v

\* Nothing, or one handshake message.
LEMMA LineShort ==
    /\ DataAfter(<<>>) /\ Base(<<>>) = 0 /\ Len(<<>>) = 0
    /\ \A r \in Nat : Numbered(<<>>, r)
    /\ \A kind \in {"init", "response", "finish"} :
          /\ DataAfter(<<Handshake(kind)>>) /\ Base(<<Handshake(kind)>>) = 1 /\ Len(<<Handshake(kind)>>) = 1
          /\ \A r \in Nat : Numbered(<<Handshake(kind)>>, r)
<1>1. ASSUME NEW kind \in {"init", "response", "finish"}
      PROVE  /\ DataAfter(<<Handshake(kind)>>) /\ Base(<<Handshake(kind)>>) = 1
             /\ \A r \in Nat : Numbered(<<Handshake(kind)>>, r)
  <2>1. Handshake(kind).kind # "data"
    BY FrameTypes
  <2> DEFINE h == Handshake(kind)
  <2> HIDE DEF h
  <2>2. h.kind # "data" /\ Len(<<h>>) = 1 /\ <<h>>[1] = h /\ Head(<<h>>) = h /\ <<h>> # <<>>
    BY <2>1 DEF h
  <2>3. DataAfter(<<h>>) /\ Base(<<h>>) = 1 /\ \A r \in Nat : Numbered(<<h>>, r)
    BY <2>2 DEF DataAfter, Base, Numbered
  <2> QED
    BY <2>3 DEF h
<1>2. DataAfter(<<>>) /\ Base(<<>>) = 0 /\ \A r \in Nat : Numbered(<<>>, r)
  BY DEF DataAfter, Base, Numbered
<1> QED
  BY <1>1, <1>2

\* An end is its connection's initiator or its responder.
LEMMA EndCases ==
    \A e \in End : e = InitiatorEnd(e[1]) \/ e = ResponderEnd(e[1])
<1> TAKE e \in End
<1>1. e[1] \in Conn /\ e[2] \in Node /\ e = <<e[1], e[2]>> /\ Initiator[e[1]] \in Node
  BY OtherFacts, ConnAssumption
<1>2. e[2] = Initiator[e[1]] \/ e[2] = Peer(Initiator[e[1]])
  BY <1>1, PeerFacts
<1>3. CASE e[2] = Initiator[e[1]]
  BY <1>1, <1>3 DEF InitiatorEnd
<1>4. CASE e[2] = Peer(Initiator[e[1]])
  <2>1. ResponderEnd(e[1]) = <<e[1], Peer(Initiator[e[1]])>>
    BY Zenon DEF ResponderEnd, Other, InitiatorEnd
  <2> QED
    BY <1>1, <1>4, <2>1
<1> QED
  BY <1>2, <1>3, <1>4, Zenon

\* What a step of the handshake does: one message is taken, and one may be
\* put on a wire that is empty.
LEMMA StepMoves ==
    ASSUME Types, HandshakeInv, TurnInv, NEW d \in End, HandshakeStep(d)
    PROVE  /\ open[d] /\ wire[d] # <<>> /\ Head(wire[d]).kind # "data"
           /\ wire'[d] = Tail(wire[d])
           /\ \/ wire'[Other(d)] = wire[Other(d)]
              \/ /\ wire[Other(d)] = <<>> /\ up[d[1]] /\ open[Other(d)]
                 /\ hs[d] \in {"wait_init", "wait_response"}
                 /\ \E kind \in {"response", "finish"} : wire'[Other(d)] = <<Handshake(kind)>>
           /\ \A e \in End : e # d /\ e # Other(d) => wire'[e] = wire[e]
           /\ \A e \in End : open'[e] => open[e]
           /\ hs[d] \in Waiting
           /\ \E s \in {"established", "failed", "wait_finish"} : hs' = [hs EXCEPT ![d] = s]
           /\ hs'[d] # hs[d]
           /\ hs[d] = "wait_response" => hs'[d] # "wait_finish"
           /\ UNCHANGED <<up, channelVars>>
<1> DEFINE answers == {<<>>, <<Handshake("response")>>, <<Handshake("finish")>>}
<1>0. Other(d) \in End /\ Other(d) # d /\ d[1] \in Conn
  BY OtherFacts
<1>1. PICK kind \in {"init", "response", "finish"}, answer \in answers :
         /\ Exchange(d, kind, answer)
         /\ answer = <<Handshake("response")>> => hs[d] = "wait_init"
         /\ answer = <<Handshake("finish")>> => hs[d] = "wait_response"
  <2>1. CASE HandleInit(d)
    <3>1. <<Handshake("response")>> # <<Handshake("finish")>> /\ <<>> # <<Handshake("finish")>> /\ <<>> # <<Handshake("response")>>
      BY DEF Handshake
    <3> QED
      BY <2>1, <3>1, Zenon DEF HandleInit
  <2>2. CASE HandleResponse(d)
    <3>1. <<Handshake("response")>> # <<Handshake("finish")>> /\ <<>> # <<Handshake("finish")>> /\ <<>> # <<Handshake("response")>>
      BY DEF Handshake
    <3> QED
      BY <2>2, <3>1, Zenon DEF HandleResponse
  <2>3. CASE HandleFinish(d)
    <3>1. <<>> # <<Handshake("finish")>> /\ <<>> # <<Handshake("response")>>
      OBVIOUS
    <3> QED
      BY <2>3, <3>1, Zenon DEF HandleFinish
  <2> QED
    BY <2>1, <2>2, <2>3, Zenon DEF HandshakeStep
<1>2. /\ open[d] /\ wire[d] # <<>> /\ Head(wire[d]).kind # "data"
      /\ wire'[d] = Tail(wire[d])
      /\ wire'[Other(d)] = IF up[d[1]] /\ open[Other(d)] THEN wire[Other(d)] \o answer ELSE wire[Other(d)]
      /\ \A e \in End : e # d /\ e # Other(d) => wire'[e] = wire[e]
  BY <1>0, <1>1, Zenon DEF Exchange, Types
<1>3. wire[Other(d)] \in Seq(Frame) /\ wire[d] \in Seq(Frame)
  BY <1>0, Zenon DEF Types
<1>4. answer # <<>> => wire[Other(d)] = <<>>
  <2>1. CASE answer = <<Handshake("response")>>
    <3>1. hs[d] = "wait_init" /\ d = ResponderEnd(d[1]) /\ Other(d) = InitiatorEnd(d[1])
      <4>1. hs[d] = "wait_init"
        BY <1>1, <2>1, Zenon
      <4>2. d # InitiatorEnd(d[1])
        BY <1>0, <4>1, Zenon DEF TurnInv
      <4> QED
        BY <1>0, <4>1, <4>2, EndCases, EndFacts
    <3> QED
      BY <1>0, <3>1, Zenon DEF TurnInv
  <2>2. CASE answer = <<Handshake("finish")>>
    <3>1. hs[d] = "wait_response" /\ d = InitiatorEnd(d[1]) /\ Other(d) = ResponderEnd(d[1])
      <4>1. hs[d] = "wait_response"
        BY <1>1, <2>2, Zenon
      <4>2. d # ResponderEnd(d[1])
        BY <1>0, <4>1, Zenon DEF HandshakeInv
      <4> QED
        BY <1>0, <4>1, <4>2, EndCases, EndFacts, ZenonT(60)
    <3>2. Len(wire[d]) + Len(wire[Other(d)]) <= 1
      BY <1>0, <3>1, Zenon DEF TurnInv
    <3> DEFINE m == Len(wire[d])
               n == Len(wire[Other(d)])
    <3>3. m \in Nat \ {0}
      BY <1>2, <1>3, EmptySeq, Zenon
    <3>4. ASSUME wire[Other(d)] # <<>> PROVE FALSE
      <4>1. n \in Nat \ {0}
        BY <1>3, <3>4, EmptySeq
      <4>2. m + n <= 1
        BY <3>2, Zenon
      <4> HIDE DEF m, n
      <4> QED
        BY <3>3, <4>1, <4>2
    <3> QED
      BY <3>4, Zenon
  <2> QED
    BY <2>1, <2>2, Zenon
<1>5. \/ wire'[Other(d)] = wire[Other(d)]
      \/ /\ wire[Other(d)] = <<>> /\ up[d[1]] /\ open[Other(d)]
         /\ hs[d] \in {"wait_init", "wait_response"}
         /\ \E k \in {"response", "finish"} : wire'[Other(d)] = <<Handshake(k)>>
  <2>1. CASE answer = <<>>
    <3>1. wire[Other(d)] \o answer = wire[Other(d)]
      BY <1>3, <2>1, ConcatEmptySeq
    <3> QED
      BY <1>2, <3>1, Zenon
  <2>2. CASE answer # <<>>
    <3>1. answer \in Seq(Frame)
      <4>1. <<Handshake("response")>> \in Seq(Frame) /\ <<Handshake("finish")>> \in Seq(Frame)
        BY FrameTypes
      <4> QED
        BY <2>2, <4>1, Zenon
    <3>2. wire[Other(d)] \o answer = answer
      BY <1>4, <2>2, <3>1, ConcatEmptySeq, Zenon
    <3> QED
      BY <1>1, <1>2, <1>4, <2>2, <3>2, Zenon
  <2> QED
    BY <2>1, <2>2, Zenon
<1>6. /\ \A e \in End : open'[e] => open[e]
      /\ UNCHANGED <<up, channelVars>>
  BY Zenon DEF HandshakeStep, HandleInit, HandleResponse, HandleFinish, Fail, Types
<1>7. /\ hs[d] \in Waiting
      /\ \E s \in {"established", "failed", "wait_finish"} : hs' = [hs EXCEPT ![d] = s]
      /\ hs'[d] # hs[d]
      /\ hs[d] = "wait_response" => hs'[d] # "wait_finish"
  BY Zenon DEF HandshakeStep, HandleInit, HandleResponse, HandleFinish, Fail, Types, Waiting
<1> QED
  BY <1>2, <1>5, <1>6, <1>7, Zenon

LEMMA IdleStep ==
    Types /\ HandshakeInv /\ TurnInv /\ IdleInv /\ [Next]_vars => IdleInv'
<1> SUFFICES ASSUME Types, HandshakeInv, TurnInv, IdleInv, [Next]_vars, NEW e \in End, hs'[e] = "idle"
             PROVE  ~open'[e] /\ wire'[e] = <<>> /\ sendSeq'[e] = 0 /\ recvSeq'[e] = 0
  BY Zenon DEF IdleInv
<1>0. hs[e] = "idle" /\ ~open[e] /\ wire[e] = <<>> /\ sendSeq[e] = 0 /\ recvSeq[e] = 0
  BY HandshakeMovesOn, Zenon DEF IdleInv
<1>1. ASSUME NEW c \in Conn, Connect(c) PROVE UNCHANGED <<open[e], wire[e], sendSeq[e], recvSeq[e]>>
  <2>1. e # InitiatorEnd(c) /\ e # ResponderEnd(c)
    BY <1>1, EndFacts, Zenon DEF Connect, Types
  <2> QED
    BY <1>1, <2>1, EndFacts, Zenon DEF Connect, Types, channelVars
<1>2. ASSUME NEW c \in Conn, Break(c) PROVE UNCHANGED <<open[e], sendSeq[e], recvSeq[e]>> /\ wire'[e] = <<>>
  BY <1>0, <1>2, Zenon DEF Break, channelVars
<1>3. ASSUME NEW d \in End, HandshakeStep(d) PROVE ~open'[e] /\ UNCHANGED <<wire[e], sendSeq[e], recvSeq[e]>>
  <2>1. e # d /\ (e = Other(d) => wire'[e] = wire[e])
    BY <1>0, <1>3, StepMoves, Zenon
  <2> QED
    BY <1>0, <1>3, <2>1, StepMoves, Zenon DEF channelVars
<1>4. ASSUME NEW d \in End, NEW fits \in BOOLEAN, Send(d, fits)
      PROVE  UNCHANGED <<open[e], wire[e], sendSeq[e], recvSeq[e]>>
  <2>1. e # d
    BY <1>0, <1>4, Zenon DEF Send
  <2>2. wire'[e] = wire[e]
    BY <1>0, <1>4, OtherFacts, ZenonT(60) DEF Send, Types
  <2> QED
    BY <1>4, <2>1, <2>2, Zenon DEF Send, Encrypt, Types
<1>5. ASSUME NEW d \in End, Receive(d) PROVE UNCHANGED <<open[e], wire[e], sendSeq[e], recvSeq[e]>>
  <2>1. e # d
    BY <1>0, <1>5, Zenon DEF Receive
  <2> QED
    BY <1>5, <2>1, Zenon DEF Receive, Types
<1>6. CASE UNCHANGED <<wire, channelVars>> /\ (\A d \in End : open'[d] => open[d])
  BY <1>0, <1>6, Zenon DEF channelVars
<1>7. \/ UNCHANGED <<wire, channelVars>> /\ (\A d \in End : open'[d] => open[d])
      \/ \E c \in Conn : Connect(c) \/ Break(c)
      \/ \E d \in End : HandshakeStep(d) \/ Receive(d)
      \/ \E d \in End, fits \in BOOLEAN : Send(d, fits)
  BY ZenonT(60) DEF Next, vars, HandshakeTimeout, NoticeClosed, Fail, Register, CloseTask, Get, Remove, CloseAll, Types, End
<1> QED
  BY <1>0, <1>1, <1>2, <1>3, <1>4, <1>5, <1>6, <1>7, Zenon

LEMMA TurnStep ==
    Types /\ HandshakeInv /\ EstablishedIsMutual /\ IdleInv /\ TurnInv /\ [Next]_vars => TurnInv'
<1> SUFFICES ASSUME Types, HandshakeInv, EstablishedIsMutual, IdleInv, TurnInv, [Next]_vars, NEW c \in Conn
             PROVE  /\ hs'[InitiatorEnd(c)] \notin {"wait_init", "wait_finish"}
                    /\ hs'[InitiatorEnd(c)] = "wait_response"
                          => Len(wire'[InitiatorEnd(c)]) + Len(wire'[ResponderEnd(c)]) <= 1
                    /\ hs'[ResponderEnd(c)] = "wait_init" => wire'[InitiatorEnd(c)] = <<>>
  BY Zenon DEF TurnInv
<1> DEFINE i == InitiatorEnd(c)
           r == ResponderEnd(c)
           Turn == /\ hs'[i] \notin {"wait_init", "wait_finish"}
                   /\ hs'[i] = "wait_response" => Len(wire'[i]) + Len(wire'[r]) <= 1
                   /\ hs'[r] = "wait_init" => wire'[i] = <<>>
<1> SUFFICES Turn
  BY Zenon
<1>0. /\ i \in End /\ r \in End /\ i # r /\ Other(i) = r /\ Other(r) = i
      /\ wire[i] \in Seq(Frame) /\ wire[r] \in Seq(Frame)
      /\ hs[i] \notin {"wait_init", "wait_finish"}
      /\ hs[i] = "wait_response" => Len(wire[i]) + Len(wire[r]) <= 1
      /\ hs[r] = "wait_init" => wire[i] = <<>>
      /\ hs[r] # "wait_response"
      /\ hs[r] = "established" => hs[i] = "established"
  BY EndFacts, Zenon DEF Types, TurnInv, HandshakeInv, EstablishedIsMutual
<1>a. \A d \in End : d # i /\ d # r => Other(d) # i /\ Other(d) # r
  BY <1>0, OtherFacts, Zenon
<1> HIDE DEF i, r
<1>1. CASE /\ hs'[i] \in {hs[i], "failed"} /\ hs'[r] \in {hs[r], "failed"}
           /\ wire'[i] = wire[i] /\ wire'[r] = wire[r]
  BY <1>0, <1>1, Zenon
<1>2. ASSUME NEW d \in Conn, Connect(d) PROVE Turn
  <2>1. CASE d = c
    <3>1. wire[i] = <<>> /\ Len(<<Handshake("init")>>) = 1 /\ Len(<<>>) = 0
      BY <1>0, <1>2, <2>1, Zenon DEF Connect, IdleInv, i
    <3>2. /\ wire'[i] = wire[i] /\ wire'[r] = <<Handshake("init")>>
          /\ hs'[i] = "wait_response"
      BY <1>0, <1>2, <2>1, Zenon DEF Connect, Types, i
    <3> QED
      BY <3>1, <3>2
  <2>2. CASE d # c
    <3>1. i # InitiatorEnd(d) /\ i # ResponderEnd(d) /\ r # InitiatorEnd(d) /\ r # ResponderEnd(d)
      BY <2>2, EndFacts, Zenon DEF i, r
    <3>2. ResponderEnd(d) = Other(InitiatorEnd(d))
      BY EndFacts, Zenon
    <3>3. wire'[i] = wire[i] /\ wire'[r] = wire[r] /\ hs'[i] = hs[i] /\ hs'[r] = hs[r]
      BY <1>0, <1>2, <3>1, <3>2, Zenon DEF Connect, Types
    <3> QED
      BY <1>1, <3>3, Zenon
  <2> QED
    BY <2>1, <2>2, Zenon
<1>3. ASSUME NEW d \in Conn, Break(d) PROVE Turn
  <2>1. \/ wire'[i] = wire[i] /\ wire'[r] = wire[r]
        \/ wire'[i] = <<>> /\ wire'[r] = <<>>
    BY <1>0, <1>3, EndFacts, ZenonT(60) DEF Break, i, r
  <2>2. hs'[i] = hs[i] /\ hs'[r] = hs[r] /\ Len(<<>>) = 0
    BY <1>3, Zenon DEF Break
  <2>3. CASE wire'[i] = <<>> /\ wire'[r] = <<>>
    BY <1>0, <2>2, <2>3
  <2> QED
    BY <1>1, <2>1, <2>2, <2>3, Zenon
<1>4. ASSUME NEW d \in End, HandshakeStep(d) PROVE Turn
  <2>0. PICK s \in {"established", "failed", "wait_finish"} : hs' = [hs EXCEPT ![d] = s]
    BY <1>4, StepMoves, Zenon
  <2>1. CASE d = i
    <3>1. hs'[i] = s /\ hs'[r] = hs[r] /\ s # "wait_finish" /\ wire[i] # <<>>
      <4>1. hs'[i] = s /\ hs'[r] = hs[r] /\ wire[i] # <<>>
        BY <1>0, <1>4, <2>0, <2>1, StepMoves, ZenonT(60) DEF Types
      <4>2. hs[i] = "wait_response"
        BY <1>0, <1>4, <2>1, StepMoves, Zenon DEF Waiting
      <4> QED
        BY <1>4, <2>1, <4>1, <4>2, StepMoves, Zenon
    <3> QED
      BY <1>0, <3>1, Zenon
  <2>2. CASE d = r
    <3>1. hs'[r] = s /\ hs'[i] = hs[i]
      BY <1>0, <2>0, <2>2, Zenon DEF Types
    <3>2. /\ wire[r] # <<>> /\ wire'[r] = Tail(wire[r])
          /\ \/ wire'[i] = wire[i]
             \/ wire[i] = <<>> /\ \E kind \in {"response", "finish"} : wire'[i] = <<Handshake(kind)>>
      BY <1>0, <1>4, <2>2, StepMoves, Zenon
    <3> DEFINE m == Len(wire[i])
               n == Len(wire[r])
               mm == Len(wire'[i])
               nn == Len(wire'[r])
    <3>3. \A h : Len(<<h>>) = 1 /\ Len(<<>>) = 0
      OBVIOUS
    <3>4. mm = m \/ (m = 0 /\ mm = 1)
      BY <3>2, <3>3, Zenon
    <3>5. n \in Nat /\ nn = n - 1 /\ m \in Nat
      BY <1>0, <3>2, HeadTailProperties
    <3>6. hs[i] = "wait_response" => m + n <= 1
      BY <1>0, Zenon
    <3> HIDE DEF m, n, mm, nn
    <3>7. m + n <= 1 => mm + nn <= 1
      BY <3>4, <3>5
    <3> QED
      BY <1>0, <3>1, <3>6, <3>7, Zenon DEF mm, nn
  <2>3. CASE d # i /\ d # r
    <3>1. hs'[i] = hs[i] /\ hs'[r] = hs[r]
      BY <1>0, <2>0, <2>3, Zenon DEF Types
    <3>2. wire'[i] = wire[i] /\ wire'[r] = wire[r]
      BY <1>0, <1>a, <1>4, <2>3, StepMoves
    <3> QED
      BY <1>1, <3>1, <3>2, Zenon
  <2> QED
    BY <2>1, <2>2, <2>3, Zenon
<1>5. ASSUME NEW d \in End, NEW fits \in BOOLEAN, Send(d, fits) PROVE Turn
  <2>1. hs' = hs /\ hs[d] = "established"
    BY <1>5, Zenon DEF Send, handshakeVars
  <2>2. \A e \in End : e # Other(d) => wire'[e] = wire[e]
    BY <1>5, OtherFacts, ZenonT(60) DEF Send, Types
  <2>3. CASE d # i /\ d # r
    BY <1>0, <1>1, <1>a, <2>1, <2>2, <2>3, Zenon
  <2>4. CASE d = r
    BY <1>0, <2>1, <2>4, Zenon
  <2>5. CASE d = i
    BY <1>0, <2>1, <2>2, <2>5, Zenon
  <2> QED
    BY <2>3, <2>4, <2>5, Zenon
<1>6. ASSUME NEW d \in End, Receive(d) PROVE Turn
  <2>1. hs' = hs /\ wire' = [wire EXCEPT ![d] = Tail(wire[d])] /\ wire[d] # <<>>
    BY <1>6, Zenon DEF Receive, handshakeVars
  <2>2. wire'[i] = wire[i] \/ (wire[i] # <<>> /\ wire'[i] = Tail(wire[i]))
    BY <1>0, <2>1, Zenon DEF Types
  <2>3. wire'[r] = wire[r] \/ (wire[r] # <<>> /\ wire'[r] = Tail(wire[r]))
    BY <1>0, <2>1, Zenon DEF Types
  <2>4. \A w \in Seq(Frame) : Len(w) \in Nat /\ (w # <<>> => Len(Tail(w)) = Len(w) - 1)
    BY HeadTailProperties, LenProperties
  <2> DEFINE m == Len(wire[i])
             n == Len(wire[r])
             mm == Len(wire'[i])
             nn == Len(wire'[r])
  <2>5. m \in Nat /\ (mm = m \/ mm = m - 1)
    BY <1>0, <2>2, <2>4, Zenon
  <2>6. n \in Nat /\ (nn = n \/ nn = n - 1)
    BY <1>0, <2>3, <2>4, Zenon
  <2>7. hs[i] = "wait_response" => m + n <= 1
    BY <1>0, Zenon
  <2> HIDE DEF m, n, mm, nn
  <2>8. m + n <= 1 => mm + nn <= 1
    BY <2>5, <2>6
  <2> QED
    BY <1>0, <2>1, <2>2, <2>7, <2>8, Zenon DEF mm, nn
<1>7. \/ /\ wire' = wire
         /\ \/ hs' = hs
            \/ \E d \in End : hs' = [hs EXCEPT ![d] = "failed"]
      \/ \E d \in Conn : Connect(d) \/ Break(d)
      \/ \E d \in End : HandshakeStep(d) \/ Receive(d)
      \/ \E d \in End, fits \in BOOLEAN : Send(d, fits)
  BY Zenon DEF Next, vars, handshakeVars, HandshakeTimeout, NoticeClosed, Fail, Register, CloseTask, Get, Remove, CloseAll
<1>8. CASE /\ wire' = wire
           /\ \/ hs' = hs
              \/ \E d \in End : hs' = [hs EXCEPT ![d] = "failed"]
  <2>1. hs'[i] \in {hs[i], "failed"} /\ hs'[r] \in {hs[r], "failed"}
    BY <1>0, <1>8, Zenon DEF Types
  <2> QED
    BY <1>1, <1>8, <2>1, Zenon
<1> QED
  BY <1>2, <1>3, <1>4, <1>5, <1>6, <1>7, <1>8, Zenon

LEMMA OrderStep ==
    Types /\ HandshakeInv /\ NonceInv /\ IdleInv /\ TurnInv /\ OrderInv /\ [Next]_vars => OrderInv'
<1> SUFFICES ASSUME Types, HandshakeInv, NonceInv, IdleInv, TurnInv, OrderInv, [Next]_vars, NEW e \in End
             PROVE  /\ Len(written'[e]) <= Len(spent'[e])
                    /\ DataAfter(wire'[e])
                    /\ Len(written'[Other(e)]) = Len(spent'[Other(e)]) =>
                          /\ Numbered(wire'[e], recvSeq'[e])
                          /\ up'[e[1]] /\ open'[e]
                                => sendSeq'[Other(e)] + Base(wire'[e]) = recvSeq'[e] + Len(wire'[e])
  BY Zenon DEF OrderInv
<1> DEFINE o == Other(e)
           w == wire[e]
           r == recvSeq[e]
           s == sendSeq[o]
           Level == Len(written[o]) = Len(spent[o])
           Goal == /\ DataAfter(wire'[e])
                   /\ Len(written'[o]) = Len(spent'[o]) =>
                         /\ Numbered(wire'[e], recvSeq'[e])
                         /\ up'[e[1]] /\ open'[e]
                               => sendSeq'[o] + Base(wire'[e]) = recvSeq'[e] + Len(wire'[e])
<1>0. /\ o \in End /\ o # e /\ Other(o) = e /\ e[1] \in Conn /\ o[1] = e[1]
      /\ w \in Seq(Frame) /\ r \in Nat /\ s \in Nat
      /\ Len(written[e]) <= Len(spent[e]) /\ Len(written[o]) <= Len(spent[o])
      /\ \A d \in End : Len(written[d]) \in Nat /\ Len(spent[d]) \in Nat
      /\ DataAfter(w)
      /\ Level => Numbered(w, r) /\ (up[e[1]] /\ open[e] => s + Base(w) = r + Len(w))
      /\ Base(w) \in Nat /\ Len(w) \in Nat
  <2>1. o \in End /\ o # e /\ Other(o) = e /\ e[1] \in Conn /\ o[1] = e[1]
    BY OtherFacts, Zenon
  <2>2. \A d \in End : Len(written[d]) \in Nat /\ Len(spent[d]) \in Nat
    BY LenIsNat, Zenon DEF Types
  <2> QED
    BY <2>1, <2>2, SMTT(30) DEF Types, OrderInv, Base
<1>1. Len(written'[e]) <= Len(spent'[e])
  <2>1. CASE UNCHANGED <<written, spent>>
    BY <1>0, <2>1, Zenon
  <2>2. ASSUME NEW d \in End, NEW fits \in BOOLEAN, Send(d, fits) PROVE Len(written'[e]) <= Len(spent'[e])
    <3>1. /\ spent' = [spent EXCEPT ![d] = Append(spent[d], sendSeq[d])]
          /\ written' = written \/ written' = [written EXCEPT ![d] = Append(written[d], sendSeq[d])]
      BY <2>2, Zenon DEF Send, Encrypt
    <3>2. CASE e # d
      BY <1>0, <3>1, <3>2, Zenon DEF Types
    <3>3. CASE e = d
      <4>1. /\ spent'[e] = Append(spent[e], sendSeq[e])
            /\ written'[e] = written[e] \/ written'[e] = Append(written[e], sendSeq[e])
            /\ spent[e] \in Seq(Nat) /\ written[e] \in Seq(Nat) /\ sendSeq[e] \in Nat
        BY <3>1, <3>3, Zenon DEF Types
      <4>2. /\ Len(spent'[e]) = Len(spent[e]) + 1
            /\ Len(written'[e]) \in {Len(written[e]), Len(written[e]) + 1}
        BY <4>1, AppendProperties
      <4> QED
        BY <1>0, <4>2, SMTT(30)
    <3> QED
      BY <3>2, <3>3
  <2> QED
    BY <2>1, <2>2, ChannelSteps, Zenon DEF channelVars, Receive
<1> SUFFICES Goal
  BY <1>1, Zenon
<1> HIDE DEF o
<1>2. CASE /\ wire'[e] = w /\ recvSeq'[e] = r /\ sendSeq'[o] = s
           /\ UNCHANGED <<written[o], spent[o]>>
           /\ up'[e[1]] /\ open'[e] => up[e[1]] /\ open[e]
  BY <1>0, <1>2, Zenon
<1>3. ASSUME NEW c \in Conn, Connect(c) PROVE Goal
  <2>1. UNCHANGED <<up, written, spent, sendSeq, recvSeq>>
    BY <1>3, Zenon DEF Connect, channelVars
  <2>2. CASE e[1] # c
    <3>1. e # InitiatorEnd(c) /\ e # ResponderEnd(c) /\ ResponderEnd(c) = Other(InitiatorEnd(c))
      BY <2>2, EndFacts, Zenon
    <3>2. wire'[e] = wire[e] /\ open'[e] = open[e]
      BY <1>3, <3>1, Zenon DEF Connect, Types
    <3> QED
      BY <1>2, <2>1, <3>2, Zenon
  <2>3. CASE e[1] = c
    <3>1. /\ InitiatorEnd(c) \in End /\ ResponderEnd(c) \in End
          /\ hs[InitiatorEnd(c)] = "idle" /\ hs[ResponderEnd(c)] = "idle"
          /\ {e, o} = {InitiatorEnd(c), ResponderEnd(c)}
      BY <1>3, <2>3, EndFacts, EndCases DEF Connect, HandshakeInv, o
    <3>2. w = <<>> /\ r = 0 /\ s = 0
      BY <1>0, <3>1, ZenonT(60) DEF IdleInv
    <3>3. wire'[e] = <<>> \/ wire'[e] = <<Handshake("init")>>
      BY <1>3, <3>1, <3>2, EndFacts, Zenon DEF Connect, Types
    <3>4. DataAfter(wire'[e]) /\ Numbered(wire'[e], 0) /\ Base(wire'[e]) = Len(wire'[e]) /\ Len(wire'[e]) \in Nat
      BY <3>3, LineShort, Zenon
    <3> QED
      BY <2>1, <3>2, <3>4, Zenon
  <2> QED
    BY <2>2, <2>3, Zenon
<1>4. ASSUME NEW c \in Conn, Break(c) PROVE Goal
  <2>1. UNCHANGED <<open, written, spent, sendSeq, recvSeq>>
    BY <1>4, Zenon DEF Break, channelVars
  <2>2. CASE e[1] # c
    <3>1. wire'[e] = wire[e] /\ up'[e[1]] = up[e[1]]
      BY <1>0, <1>4, <2>2, Zenon DEF Break, Types
    <3> QED
      BY <1>2, <2>1, <3>1, Zenon
  <2>3. CASE e[1] = c
    <3>1. wire'[e] = <<>> /\ ~up'[e[1]]
      BY <1>0, <1>4, <2>3, Zenon DEF Break, Types
    <3> QED
      BY <1>0, <2>1, <3>1, LineShort, Zenon
  <2> QED
    BY <2>2, <2>3
<1>5. ASSUME NEW d \in End, HandshakeStep(d) PROVE Goal
  <2>1. UNCHANGED <<up, written, spent, sendSeq, recvSeq>> /\ (open'[e] => open[e])
    BY <1>5, StepMoves, Zenon DEF channelVars
  <2>2. CASE e = d
    <3>1. w # <<>> /\ wire'[e] = Tail(w) /\ Head(w).kind # "data"
      BY <1>5, <2>2, StepMoves, Zenon
    <3>2. Base(w) = 1
      BY <3>1, Zenon DEF Base
    <3>3. /\ Len(Tail(w)) + 1 = Len(w) /\ Len(Tail(w)) \in Nat
          /\ DataAfter(Tail(w)) /\ Base(Tail(w)) = 0
          /\ Numbered(w, r) => Numbered(Tail(w), r)
      BY <1>0, <3>1, LineTail, Zenon
    <3>4. recvSeq'[e] = r /\ sendSeq'[o] = s /\ up' = up
          /\ (Len(written'[o]) = Len(spent'[o]) => Level)
      BY <2>1, Zenon
    <3> HIDE DEF w, r, s, Level
    <3>5. s + Base(w) = r + Len(w) => s + Base(Tail(w)) = r + Len(Tail(w))
      <4>1. s \in Nat /\ r \in Nat /\ Len(w) \in Nat
        BY <1>0, Zenon
      <4> QED
        BY <4>1, <3>2, <3>3, SMTT(30)
    <3>6. DataAfter(wire'[e])
      BY <3>1, <3>3, Zenon
    <3>7. ASSUME Len(written'[o]) = Len(spent'[o]) PROVE Numbered(wire'[e], recvSeq'[e])
      BY <1>0, <3>1, <3>3, <3>4, <3>7, Zenon
    <3>8. ASSUME Len(written'[o]) = Len(spent'[o]), up'[e[1]], open'[e]
          PROVE  sendSeq'[o] + Base(wire'[e]) = recvSeq'[e] + Len(wire'[e])
      <4>1. s + Base(w) = r + Len(w)
        BY <1>0, <2>1, <3>4, <3>8, Zenon
      <4> QED
        BY <3>1, <3>4, <3>5, <4>1, Zenon
    <3> QED
      BY <3>6, <3>7, <3>8, Zenon
  <2>3. CASE e = Other(d) /\ wire'[e] # w
    <3>1. PICK kind \in {"response", "finish"} : w = <<>> /\ wire'[e] = <<Handshake(kind)>>
      BY <1>5, <2>3, StepMoves, ZenonT(60)
    <3>2. /\ DataAfter(wire'[e]) /\ Base(wire'[e]) = 1 /\ Len(wire'[e]) = 1 /\ Numbered(wire'[e], r)
          /\ Base(w) = 0 /\ Len(w) = 0
      BY <1>0, <3>1, LineShort, Zenon
    <3> QED
      BY <1>0, <2>1, <3>2, SMTT(30)
  <2>4. CASE e # d /\ (e = Other(d) => wire'[e] = w)
    <3>1. wire'[e] = w
      BY <1>5, <2>4, StepMoves, Zenon
    <3> QED
      BY <1>2, <2>1, <3>1, Zenon
  <2> QED
    BY <2>2, <2>3, <2>4, Zenon
<1>6. ASSUME NEW d \in End, NEW fits \in BOOLEAN, Send(d, fits) PROVE Goal
  <2>1. /\ UNCHANGED <<up, open, recvSeq>>
        /\ spent' = [spent EXCEPT ![d] = Append(spent[d], sendSeq[d])]
        /\ sendSeq' = [sendSeq EXCEPT ![d] = sendSeq[d] + 1]
    BY <1>6, Zenon DEF Send, Encrypt, handshakeVars
  <2>2. CASE d # o
    <3>1. Other(d) # e
      BY <2>2, OtherFacts, Zenon DEF o
    <3>2. wire'[e] = w /\ written'[o] = written[o]
      BY <1>0, <1>6, <2>2, <3>1, OtherFacts, ZenonT(60) DEF Send, Types
    <3>3. sendSeq'[o] = s /\ spent'[o] = spent[o]
      BY <1>0, <2>1, <2>2, Zenon DEF Types
    <3> QED
      BY <1>2, <2>1, <3>2, <3>3, Zenon
  <2>3. CASE d = o
    <3>1. /\ spent'[o] = Append(spent[o], s) /\ sendSeq'[o] = s + 1
          /\ spent[o] \in Seq(Nat) /\ written[o] \in Seq(Nat) /\ s \in Nat
      BY <1>0, <2>1, <2>3, Zenon DEF Types
    <3> HIDE DEF s
    <3>2. Len(spent'[o]) = Len(spent[o]) + 1 /\ Len(spent[o]) \in Nat
      BY <3>1, AppendProperties, LenProperties
    <3> USE DEF s
    <3>3. CASE fits /\ open[o]
      <4>1. /\ written'[o] = Append(written[o], s)
            /\ wire'[e] = IF up[e[1]] /\ open[e] THEN Append(w, Data(s)) ELSE w
        BY <1>0, <1>6, <2>3, <3>3, Zenon DEF Send, Types
      <4> HIDE DEF s
      <4>2. Len(written'[o]) = Len(written[o]) + 1 /\ Len(written[o]) \in Nat
        BY <3>1, <4>1, AppendProperties, LenProperties
      <4>3. Len(written'[o]) = Len(spent'[o]) => Level
        BY <3>2, <4>2
      <4> USE DEF s
      <4>4. CASE up[e[1]] /\ open[e]
        <5>1. /\ Len(Append(w, Data(s))) = Len(w) + 1
              /\ DataAfter(Append(w, Data(s))) /\ Base(Append(w, Data(s))) = Base(w)
              /\ Numbered(w, r) /\ s + Base(w) = r + Len(w) => Numbered(Append(w, Data(s)), r)
          BY <1>0, LineAppend, Zenon
        <5>2. wire'[e] = Append(w, Data(s)) /\ recvSeq'[e] = r
          BY <2>1, <4>1, <4>4, Zenon
        <5>3. Level => Numbered(w, r) /\ s + Base(w) = r + Len(w)
          BY <1>0, <4>4, Zenon
        <5>4. s \in Nat /\ r \in Nat /\ Base(w) \in Nat /\ Len(w) \in Nat
          BY <1>0, Zenon
        <5> HIDE DEF w, r, s, Level
        <5>5. Level => s + 1 + Base(w) = r + (Len(w) + 1)
          BY <5>3, <5>4
        <5> QED
          BY <3>1, <4>3, <5>1, <5>2, <5>3, <5>5, Zenon
      <4>5. CASE ~(up[e[1]] /\ open[e])
        BY <1>0, <2>1, <4>1, <4>3, <4>5, Zenon
      <4> QED
        BY <4>4, <4>5, Zenon
    <3>4. CASE ~(fits /\ open[o])
      <4>1. written'[o] = written[o] /\ wire'[e] = w
        BY <1>0, <1>6, <2>3, <3>4, Zenon DEF Send, Types
      <4>2. Len(written'[o]) # Len(spent'[o])
        BY <1>0, <3>2, <4>1, SMTT(30)
      <4> QED
        BY <1>0, <4>1, <4>2, Zenon
    <3> QED
      BY <3>3, <3>4, Zenon
  <2> QED
    BY <2>2, <2>3, Zenon
<1>7. ASSUME NEW d \in End, Receive(d) PROVE Goal
  <2>1. /\ UNCHANGED <<up, open, sendSeq, spent, written>>
        /\ wire' = [wire EXCEPT ![d] = Tail(wire[d])]
        /\ wire[d] # <<>> /\ Head(wire[d]).kind = "data"
    BY <1>7, Zenon DEF Receive, handshakeVars
  <2>2. CASE e # d
    BY <1>2, <1>7, <2>1, <2>2, ZenonT(60) DEF Receive, Types
  <2>3. CASE e = d
    <3>1. w # <<>> /\ wire'[e] = Tail(w) /\ Head(w).kind = "data"
      BY <2>1, <2>3, Zenon DEF Types
    <3>2. Base(w) = 0
      BY <3>1, Zenon DEF Base
    <3>3. /\ Len(Tail(w)) + 1 = Len(w) /\ Len(Tail(w)) \in Nat
          /\ DataAfter(Tail(w)) /\ Base(Tail(w)) = 0
          /\ Numbered(w, r) => Head(w).seq = r /\ Numbered(Tail(w), r + 1)
      BY <1>0, <3>1, LineTail, Zenon
    <3>4. Head(w).seq = r => recvSeq'[e] = r + 1
      BY <1>7, <2>3, Zenon DEF Receive, Decrypts, ExpectedAfter, Types
    <3> HIDE DEF w, r, s, Level
    <3>5. Level => recvSeq'[e] = r + 1 /\ Numbered(wire'[e], r + 1)
      BY <1>0, <3>1, <3>3, <3>4, Zenon
    <3>6. Len(written'[o]) = Len(spent'[o]) => Level
      BY <2>1, Zenon DEF Level
    <3>7. sendSeq'[o] = s /\ up' = up /\ open' = open
      BY <2>1, Zenon DEF s
    <3>8. ASSUME Level, up[e[1]], open[e] PROVE s + Base(wire'[e]) = recvSeq'[e] + Len(wire'[e])
      <4> DEFINE k == Len(wire'[e])
      <4>1. s + 0 = r + Len(w) /\ s \in Nat /\ r \in Nat
        BY <1>0, <3>2, <3>8, Zenon
      <4>2. recvSeq'[e] = r + 1 /\ Base(wire'[e]) = 0 /\ Len(w) = k + 1 /\ k \in Nat
        BY <3>1, <3>3, <3>5, <3>8, Zenon
      <4> HIDE DEF k
      <4>3. s + 0 = (r + 1) + k
        BY <4>1, <4>2
      <4> QED
        BY <4>2, <4>3, Zenon DEF k
    <3> QED
      BY <3>1, <3>3, <3>5, <3>6, <3>7, <3>8, Zenon
  <2> QED
    BY <2>2, <2>3, Zenon
<1>8. CASE UNCHANGED <<wire, up, channelVars>> /\ (open'[e] => open[e])
  BY <1>2, <1>8, Zenon DEF channelVars
<1>9. \/ UNCHANGED <<wire, up, channelVars>> /\ (open'[e] => open[e])
      \/ \E c \in Conn : Connect(c) \/ Break(c)
      \/ \E d \in End : HandshakeStep(d) \/ Receive(d)
      \/ \E d \in End, fits \in BOOLEAN : Send(d, fits)
  BY ZenonT(60) DEF Next, vars, handshakeVars, HandshakeTimeout, NoticeClosed, Fail, Register, CloseTask, Get, Remove, CloseAll, Types, End
<1> QED
  BY <1>3, <1>4, <1>5, <1>6, <1>7, <1>8, <1>9, Zenon

\* Where ReplayOrReorderError can fire without a fault of the network: only
\* after the other end encrypted a frame that it did not write.
THEOREM RefusalIsExplained == Spec => []RefusedMeansUnwritten
<1>1. Init => LineInv
  <2> SUFFICES ASSUME Init PROVE LineInv
    OBVIOUS
  <2>1. IdleInv /\ TurnInv
    BY EndFacts, Zenon DEF Init, IdleInv, TurnInv
  <2>2. OrderInv
    BY OtherFacts, LineShort DEF Init, OrderInv
  <2> QED
    BY <2>1, <2>2 DEF LineInv
<1>2. Inv /\ LineInv /\ [Next]_vars => LineInv'
  BY IdleStep, TurnStep, OrderStep DEF Inv, LineInv
<1>3. Inv /\ LineInv => RefusedMeansUnwritten
  <2> SUFFICES ASSUME Inv, LineInv, NEW e \in End, wire[e] # <<>>,
                      Head(wire[e]).kind = "data", Head(wire[e]).seq # recvSeq[e]
               PROVE  Len(written[Other(e)]) < Len(spent[Other(e)])
    BY Zenon DEF RefusedMeansUnwritten
  <2>1. /\ Other(e) \in End /\ wire[e] \in Seq(Frame) /\ recvSeq[e] \in Nat
        /\ DataAfter(wire[e]) /\ Len(written[Other(e)]) <= Len(spent[Other(e)])
        /\ Len(written[Other(e)]) = Len(spent[Other(e)]) => Numbered(wire[e], recvSeq[e])
    BY OtherFacts, Zenon DEF Inv, Types, LineInv, OrderInv
  <2>2. Len(written[Other(e)]) \in Nat /\ Len(spent[Other(e)]) \in Nat
    BY <2>1, LenIsNat, Zenon DEF Inv, Types
  <2>3. ~ Numbered(wire[e], recvSeq[e])
    BY <2>1, LineTail, Zenon
  <2> QED
    BY <2>1, <2>2, <2>3
<1> QED
  BY <1>1, <1>2, <1>3, InvHolds, PTL DEF Spec

-----------------------------------------------------------------------------
(* What ends by itself.  Weak fairness speaks of ENABLED, which the prover  *)
(* does not expand: that an action can be taken when its guard holds is a  *)
(* hypothesis of the theorems below.                                       *)

\* An end that gave up is closed.  Both ends leave "idle" together, the
\* responder has answered when the initiator has its session, and from then on
\* only an established responder writes.
HalfInv ==
    /\ \A e \in End : hs[e] = "failed" => ~open[e]
    /\ \A c \in Conn :
          /\ hs[ResponderEnd(c)] = "idle" => hs[InitiatorEnd(c)] = "idle"
          /\ hs[InitiatorEnd(c)] = "established" =>
                /\ hs[ResponderEnd(c)] # "wait_init"
                /\ hs[ResponderEnd(c)] # "established" => wire[InitiatorEnd(c)] = <<>>

\* The timeout of a handshake and the end of a stream can be seen: under its
\* guard the action has a step.
CanTimeout(e) == ENABLED <<HandshakeTimeout(e)>>_vars
CanNotice(e) == ENABLED <<NoticeClosed(e)>>_vars
TimeoutRuns == \A e \in End : hs[e] \in Waiting => CanTimeout(e)
NoticeRuns ==
    \A e \in End : open[e] /\ wire[e] = <<>> /\ (~up[e[1]] \/ ~open[Other(e)]) => CanNotice(e)

\* Who gives up closes, and nothing is opened again.
LEMMA FailedStep ==
    ASSUME Types, HandshakeInv, [Next]_vars, NEW e \in End, hs[e] = "failed" => ~open[e]
    PROVE  hs'[e] = "failed" => ~open'[e]
<1> DEFINE Goal == hs'[e] = "failed" => ~open'[e]
<1>1. ASSUME NEW c \in Conn, Connect(c) PROVE Goal
  <2>1. CASE e = InitiatorEnd(c) \/ e = ResponderEnd(c)
    BY <1>1, <2>1, EndFacts, Zenon DEF Connect, Types
  <2>2. CASE e # InitiatorEnd(c) /\ e # ResponderEnd(c)
    <3>1. hs'[e] = hs[e] /\ open'[e] = open[e]
      BY <1>1, <2>2, EndFacts, Zenon DEF Connect, Types
    <3> QED
      BY <3>1, Zenon
  <2> QED
    BY <2>1, <2>2, Zenon
<1>2. ASSUME NEW d \in End, HandshakeStep(d) \/ HandshakeTimeout(d) \/ NoticeClosed(d) PROVE Goal
  <2> DEFINE Moved == \E s \in {"wait_finish", "established"} : hs' = [hs EXCEPT ![d] = s] /\ open' = open
             Closed == (hs' = [hs EXCEPT ![d] = "failed"] \/ hs' = hs) /\ open' = [open EXCEPT ![d] = FALSE]
  <2>1. Moved \/ Closed
    <3>1. CASE HandleInit(d)
      BY <3>1, Zenon DEF HandleInit, Fail
    <3>2. CASE HandleResponse(d)
      BY <3>2, Zenon DEF HandleResponse, Fail
    <3>3. CASE HandleFinish(d)
      BY <3>3, Zenon DEF HandleFinish
    <3>4. CASE HandshakeTimeout(d) \/ NoticeClosed(d)
      BY <3>4, Zenon DEF HandshakeTimeout, NoticeClosed, Fail
    <3> QED
      BY <1>2, <3>1, <3>2, <3>3, <3>4, Zenon DEF HandshakeStep
  <2> QED
    BY <2>1, Zenon DEF Types
<1>3. CASE hs' = hs /\ \A d \in End : open'[d] => open[d]
  BY <1>3, Zenon
<1>4. \/ hs' = hs /\ \A d \in End : open'[d] => open[d]
      \/ \E c \in Conn : Connect(c)
      \/ \E d \in End : HandshakeStep(d) \/ HandshakeTimeout(d) \/ NoticeClosed(d)
  BY Zenon DEF Next, vars, handshakeVars, Break, Send, Receive, Register, CloseTask, Get, Remove, CloseAll, Types, End
<1> QED
  BY <1>1, <1>2, <1>3, <1>4, Zenon

LEMMA HalfStep ==
    Types /\ HandshakeInv /\ TurnInv /\ HalfInv /\ [Next]_vars => HalfInv'
<1> SUFFICES ASSUME Types, HandshakeInv, TurnInv, HalfInv, [Next]_vars, NEW c \in Conn
             PROVE  /\ hs'[ResponderEnd(c)] = "idle" => hs'[InitiatorEnd(c)] = "idle"
                    /\ hs'[InitiatorEnd(c)] = "established" =>
                          /\ hs'[ResponderEnd(c)] # "wait_init"
                          /\ hs'[ResponderEnd(c)] # "established" => wire'[InitiatorEnd(c)] = <<>>
  BY FailedStep, Zenon DEF HalfInv
<1> DEFINE i == InitiatorEnd(c)
           r == ResponderEnd(c)
           Goal == /\ hs'[r] = "idle" => hs'[i] = "idle"
                   /\ hs'[i] = "established" =>
                         hs'[r] # "wait_init" /\ (hs'[r] # "established" => wire'[i] = <<>>)
<1> SUFFICES Goal
  BY Zenon
<1>0. /\ i \in End /\ r \in End /\ i # r /\ Other(i) = r /\ Other(r) = i
      /\ wire[i] \in Seq(Frame) /\ wire[r] \in Seq(Frame)
      /\ hs[i] \notin {"wait_init", "wait_finish"}
      /\ hs[i] = "wait_response" => Len(wire[i]) + Len(wire[r]) <= 1
      /\ hs[r] = "wait_init" => wire[i] = <<>>
      /\ hs[r] # "wait_response"
      /\ hs[r] = "idle" => hs[i] = "idle"
      /\ hs[i] = "established" =>
            hs[r] # "wait_init" /\ (hs[r] # "established" => wire[i] = <<>>)
  BY EndFacts, Zenon DEF Types, HandshakeInv, TurnInv, HalfInv
<1> HIDE DEF i, r
<1>1. CASE hs'[i] = hs[i] /\ hs'[r] = hs[r] /\ (wire[i] = <<>> => wire'[i] = <<>>)
  BY <1>0, <1>1, Zenon
<1>2. ASSUME NEW k \in Conn, Connect(k) PROVE Goal
  <2>1. CASE k = c
    BY <1>0, <1>2, <2>1, EndFacts, Zenon DEF Connect, Types, i, r
  <2>2. CASE k # c
    <3>1. /\ i # InitiatorEnd(k) /\ i # ResponderEnd(k) /\ r # InitiatorEnd(k) /\ r # ResponderEnd(k)
          /\ ResponderEnd(k) = Other(InitiatorEnd(k))
      BY <2>2, EndFacts, Zenon DEF i, r
    <3>2. hs'[i] = hs[i] /\ hs'[r] = hs[r] /\ wire'[i] = wire[i]
      BY <1>0, <1>2, <3>1, Zenon DEF Connect, Types
    <3> QED
      BY <1>1, <3>2, Zenon
  <2> QED
    BY <2>1, <2>2, Zenon
<1>3. ASSUME NEW d \in End, HandshakeStep(d) PROVE Goal
  <2>0. PICK s \in {"established", "failed", "wait_finish"} : hs' = [hs EXCEPT ![d] = s]
    BY <1>3, StepMoves, Zenon
  <2>1. CASE d = i
    <3>1. hs[i] = "wait_response" /\ wire[i] # <<>> /\ wire'[i] = Tail(wire[i])
      BY <1>0, <1>3, <2>1, StepMoves, Zenon DEF Waiting
    <3>2. wire'[i] = <<>>
      <4>1. wire[i] \in Seq(Frame) /\ wire[r] \in Seq(Frame) /\ Len(wire[i]) + Len(wire[r]) <= 1
        BY <1>0, <3>1, Zenon
      <4>2. /\ Len(wire[i]) \in Nat \ {0} /\ Len(wire[r]) \in Nat
            /\ Tail(wire[i]) \in Seq(Frame) /\ Len(Tail(wire[i])) = Len(wire[i]) - 1
        BY <3>1, <4>1, EmptySeq, LenProperties, HeadTailProperties, Zenon
      <4>3. \A x \in Nat \ {0}, y \in Nat : x + y <= 1 => x - 1 = 0
        OBVIOUS
      <4>4. Len(Tail(wire[i])) = 0
        BY <4>1, <4>2, <4>3, Zenon
      <4> QED
        BY <3>1, <4>2, <4>4, EmptySeq, Zenon
    <3>3. hs'[r] = hs[r]
      BY <1>0, <2>0, <2>1, Zenon DEF Types
    <3> QED
      BY <1>0, <3>1, <3>2, <3>3, Zenon
  <2>2. CASE d = r
    <3>1. hs[r] \in {"wait_init", "wait_finish"} /\ hs'[r] = s /\ hs'[i] = hs[i]
      BY <1>0, <1>3, <2>0, <2>2, StepMoves, ZenonT(60) DEF Waiting, Types
    <3>2. hs[i] = "established" => wire'[i] = wire[i]
      BY <1>0, <1>3, <2>2, <3>1, StepMoves, ZenonT(60)
    <3> QED
      BY <1>0, <2>0, <3>1, <3>2, Zenon
  <2>3. CASE d # i /\ d # r
    <3>1. Other(d) # i
      BY <1>0, <2>3, OtherFacts, Zenon
    <3>2. hs'[i] = hs[i] /\ hs'[r] = hs[r]
      BY <1>0, <2>0, <2>3, Zenon DEF Types
    <3>3. wire'[i] = wire[i]
      BY <1>0, <1>3, <2>3, <3>1, StepMoves, ZenonT(60)
    <3> QED
      BY <1>1, <3>2, <3>3, Zenon
  <2> QED
    BY <2>1, <2>2, <2>3, Zenon
<1>4. ASSUME NEW d \in End, HandshakeTimeout(d) \/ NoticeClosed(d) PROVE Goal
  <2>1. wire' = wire /\ (hs' = hs \/ (hs[d] \in Waiting /\ hs' = [hs EXCEPT ![d] = "failed"]))
    BY <1>4, Zenon DEF HandshakeTimeout, NoticeClosed, Fail
  <2>2. CASE hs' = hs
    BY <1>1, <2>1, <2>2, Zenon
  <2>3. CASE hs[d] \in Waiting /\ hs' = [hs EXCEPT ![d] = "failed"]
    <3>1. hs'[i] = (IF i = d THEN "failed" ELSE hs[i]) /\ hs'[r] = (IF r = d THEN "failed" ELSE hs[r])
      BY <1>0, <2>3, Zenon DEF Types
    <3> QED
      BY <1>0, <2>1, <2>3, <3>1 DEF Waiting
  <2> QED
    BY <2>1, <2>2, <2>3, Zenon
<1>5. ASSUME NEW d \in End, NEW fits \in BOOLEAN, Send(d, fits) PROVE Goal
  <2>1. hs' = hs /\ hs[d] = "established"
    BY <1>5, Zenon DEF Send, handshakeVars
  <2>2. CASE d = r
    BY <1>0, <2>1, <2>2, Zenon
  <2>3. CASE d # r
    <3>1. Other(d) # i
      BY <1>0, <2>3, OtherFacts, Zenon
    <3>2. wire'[i] = wire[i]
      BY <1>0, <1>5, <3>1, ZenonT(60) DEF Send, Types
    <3> QED
      BY <1>1, <2>1, <3>2, Zenon
  <2> QED
    BY <2>2, <2>3, Zenon
<1>6. ASSUME NEW d \in End, Receive(d) PROVE Goal
  <2>1. hs' = hs /\ wire[d] # <<>> /\ wire' = [wire EXCEPT ![d] = Tail(wire[d])]
    BY <1>6, Zenon DEF Receive, handshakeVars
  <2>2. wire[i] = <<>> => wire'[i] = <<>>
    BY <1>0, <2>1, Zenon DEF Types
  <2> QED
    BY <1>1, <2>1, <2>2, Zenon
<1>7. ASSUME NEW k \in Conn, Break(k) PROVE Goal
  <2>1. hs' = hs /\ (wire[i] = <<>> => wire'[i] = <<>>)
    BY <1>0, <1>7, Zenon DEF Break
  <2> QED
    BY <1>1, <2>1, Zenon
<1>8. \/ hs' = hs /\ wire' = wire
      \/ \E k \in Conn : Connect(k) \/ Break(k)
      \/ \E d \in End : HandshakeStep(d) \/ HandshakeTimeout(d) \/ NoticeClosed(d) \/ Receive(d)
      \/ \E d \in End, fits \in BOOLEAN : Send(d, fits)
  BY Zenon DEF Next, vars, handshakeVars, Register, CloseTask, Get, Remove, CloseAll
<1> QED
  BY <1>1, <1>2, <1>3, <1>4, <1>5, <1>6, <1>7, <1>8, Zenon

\* A handshake that failed is not tried again on its connection.
LEMMA FailedStays ==
    ASSUME Types, HandshakeInv, [Next]_vars, NEW e \in End, hs[e] = "failed"
    PROVE  hs'[e] = "failed"
<1>1. ASSUME NEW c \in Conn, Connect(c) PROVE hs'[e] = "failed"
  <2>1. hs[InitiatorEnd(c)] = "idle" /\ hs[ResponderEnd(c)] = "idle"
    BY <1>1, EndFacts, Zenon DEF Connect, HandshakeInv
  <2>2. e # InitiatorEnd(c) /\ e # Other(InitiatorEnd(c))
    BY <2>1, EndFacts, Zenon
  <2> QED
    BY <1>1, <2>2, Zenon DEF Connect, Types
<1>2. ASSUME NEW d \in End, HandshakeStep(d) \/ HandshakeTimeout(d) \/ NoticeClosed(d) PROVE hs'[e] = "failed"
  <2>1. \/ hs' = hs
        \/ hs[d] \in Waiting /\ \E s \in {"established", "failed", "wait_finish"} : hs' = [hs EXCEPT ![d] = s]
    BY <1>2, HandshakeMoves, Zenon
  <2> QED
    BY <2>1, Zenon DEF Waiting, Types
<1>3. \/ hs' = hs
      \/ \E c \in Conn : Connect(c)
      \/ \E d \in End : HandshakeStep(d) \/ HandshakeTimeout(d) \/ NoticeClosed(d)
  BY Zenon DEF Next, vars, handshakeVars, Break, Send, Receive, Register, CloseTask, Get, Remove, CloseAll
<1> QED
  BY <1>1, <1>2, <1>3, Zenon

LEMMA AllInv == Spec => [](Inv /\ LineInv /\ HalfInv)
<1>1. Init => LineInv /\ HalfInv
  <2> SUFFICES ASSUME Init PROVE LineInv /\ HalfInv
    OBVIOUS
  <2>1. IdleInv /\ TurnInv /\ HalfInv
    BY EndFacts, Zenon DEF Init, IdleInv, TurnInv, HalfInv
  <2>2. OrderInv
    BY OtherFacts, LineShort DEF Init, OrderInv
  <2> QED
    BY <2>1, <2>2 DEF LineInv
<1>2. Inv /\ LineInv /\ [Next]_vars => LineInv'
  BY IdleStep, TurnStep, OrderStep DEF Inv, LineInv
<1>3. Inv /\ LineInv /\ HalfInv /\ [Next]_vars => HalfInv'
  BY HalfStep DEF Inv, LineInv
<1> QED
  BY <1>1, <1>2, <1>3, InvHolds, PTL DEF Spec

\* A handshake never waits for ever, whatever the other node does: it ends in
\* a session or in a failure (HANDSHAKE_TIMEOUT).
THEOREM HandshakesEnd ==
    FairSpec /\ []TimeoutRuns
        => \A e \in End : (hs[e] \in Waiting) ~> (hs[e] \in {"established", "failed"})
<1> SUFFICES ASSUME NEW e \in End
             PROVE  FairSpec /\ []TimeoutRuns
                        => ((hs[e] \in Waiting) ~> (hs[e] \in {"established", "failed"}))
  OBVIOUS
<1> DEFINE P == hs[e] \in Waiting
           Q == hs[e] \in {"established", "failed"}
<1>1. Inv /\ P /\ [Next]_vars => P' \/ Q'
  <2> SUFFICES ASSUME Inv, P, [Next]_vars PROVE P' \/ Q'
    BY Zenon
  <2>1. hs[e] # "idle" /\ Types /\ Types' /\ HandshakeInv
    BY TypesStep DEF Inv, Waiting
  <2>2. hs'[e] # "idle" /\ hs'[e] \in {"idle", "established", "failed"} \cup Waiting
    BY <2>1, HandshakeMovesOn, Zenon DEF Types
  <2> QED
    BY <2>2, Zenon
<1>2. Inv /\ P /\ <<HandshakeTimeout(e)>>_vars => Q'
  BY Zenon DEF Inv, Types, HandshakeTimeout, Fail
<1>3. TimeoutRuns => (P => CanTimeout(e))
  BY DEF TimeoutRuns
<1>4. Fairness => EndFairness(e)
  BY DEF Fairness
<1>5. EndFairness(e) => WF_vars(HandshakeTimeout(e))
  BY PTL DEF EndFairness
<1> QED
  BY <1>1, <1>2, <1>3, <1>4, <1>5, InvHolds, PTL DEF FairSpec, Spec, CanTimeout

\* An initiator whose session the responder gave up on does not keep it, for
\* any connections and whatever was sent on them: the responder has written
\* nothing that could keep the initiator reading.
THEOREM HalfOpenCloses == FairSpec /\ []NoticeRuns => HalfOpenEnds
<1> SUFFICES ASSUME NEW c \in Conn
             PROVE  FairSpec /\ []NoticeRuns
                        => ((hs[InitiatorEnd(c)] = "established" /\ hs[ResponderEnd(c)] = "failed")
                               ~> ~open[InitiatorEnd(c)])
  BY DEF HalfOpenEnds
<1> DEFINE i == InitiatorEnd(c)
           r == ResponderEnd(c)
           Half == hs[i] = "established" /\ hs[r] = "failed"
           P == Half /\ open[i]
           Q == ~open[i]
<1>0. i \in End /\ r \in End /\ Other(i) = r
  BY EndFacts, Zenon
<1>1. Inv /\ LineInv /\ P /\ [Next]_vars => P' \/ Q'
  <2> SUFFICES ASSUME Inv, LineInv, P, [Next]_vars PROVE hs'[i] = "established" /\ hs'[r] = "failed"
    BY Zenon
  <2>1. Types /\ HandshakeInv
    BY Zenon DEF Inv
  <2>2. hs'[i] = "established"
    BY <1>0, <2>1, HandshakeMovesOn, Zenon
  <2>3. hs'[r] = hs[r]
    BY <1>0, <2>1, FailedStays, Zenon
  <2> QED
    BY <2>2, <2>3, Zenon
<1>2. Inv /\ P /\ <<NoticeClosed(i)>>_vars => Q'
  BY <1>0, Zenon DEF Inv, Types, NoticeClosed, Fail
<1>3. NoticeRuns /\ HalfInv => (P => CanNotice(i))
  <2> SUFFICES ASSUME NoticeRuns, HalfInv, P PROVE CanNotice(i)
    BY Zenon
  <2>1. wire[i] = <<>> /\ ~open[r]
    BY <1>0, Zenon DEF HalfInv
  <2> QED
    BY <1>0, <2>1, Zenon DEF NoticeRuns
<1>4. Fairness => EndFairness(i)
  BY <1>0 DEF Fairness
<1>5. EndFairness(i) => WF_vars(NoticeClosed(i))
  BY PTL DEF EndFairness
<1>6. Half => P \/ Q
  BY Zenon
<1> QED
  BY <1>1, <1>2, <1>3, <1>4, <1>5, <1>6, AllInv, PTL DEF FairSpec, Spec, CanNotice
=============================================================================
