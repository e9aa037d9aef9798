-------------------------- MODULE FileTransferProofs --------------------------
(***************************************************************************)
(* Proofs about FileTransfer, for any transfers, sizes and connections.    *)
(* Two invariants carry them.  The first follows one transfer through its  *)
(* frames: which of them can be on the wire in which state of its sender   *)
(* and its receiver.  The second is about the downloads directory: which   *)
(* transfer a path can name.                                               *)
(***************************************************************************)
EXTENDS FileTransfer, FiniteSetTheorems, TLAPS

-----------------------------------------------------------------------------
(* Frames on a wire.                                                       *)

Frames(s) == {s[i] : i \in 1..Len(s)}
Once(s, f) == \A i, j \in 1..Len(s) : s[i] = f /\ s[j] = f => i = j

LEMMA EmptyWire == Frames(<<>>) = {} /\ \A f : Once(<<>>, f)
BY DEF Frames, Once

LEMMA AppendFrame ==
    ASSUME NEW S, NEW s \in Seq(S), NEW g \in S
    PROVE  /\ Append(s, g) \in Seq(S)
           /\ Frames(Append(s, g)) = Frames(s) \cup {g}
           /\ \A f : Once(s, f) /\ (f = g => f \notin Frames(s)) => Once(Append(s, g), f)
<1> DEFINE v == Append(s, g)
<1>1. /\ Len(s) \in Nat /\ Len(v) = Len(s) + 1 /\ v \in Seq(S)
      /\ v[Len(s) + 1] = g /\ \A i \in 1..Len(s) : v[i] = s[i]
  OBVIOUS
<1> HIDE DEF v
<1>2. \A i \in 1..Len(v) : i \in 1..Len(s) \/ i = Len(s) + 1
  BY <1>1
<1>3. 1..Len(s) \subseteq 1..Len(v) /\ Len(s) + 1 \in 1..Len(v)
  BY <1>1
<1>4. Frames(v) = Frames(s) \cup {g}
  <2>1. ASSUME NEW f \in Frames(v) PROVE f \in Frames(s) \cup {g}
    BY <1>1, <1>2, <2>1, Zenon DEF Frames
  <2>2. ASSUME NEW f \in Frames(s) \cup {g} PROVE f \in Frames(v)
    BY <1>1, <1>3, <2>2, Zenon DEF Frames
  <2> QED
    BY <2>1, <2>2
<1>5. ASSUME NEW f, Once(s, f), f = g => f \notin Frames(s) PROVE Once(v, f)
  <2> SUFFICES ASSUME NEW i \in 1..Len(v), NEW j \in 1..Len(v), v[i] = f, v[j] = f PROVE i = j
    BY DEF Once
  <2>1. ASSUME NEW k \in 1..Len(s), f = g PROVE v[k] # f
    BY <1>1, <1>5, <2>1, Zenon DEF Frames
  <2> QED
    BY <1>1, <1>2, <1>5, <2>1, Zenon DEF Once
<1> QED
  BY <1>1, <1>4, <1>5 DEF v

LEMMA TakeFrame ==
    ASSUME NEW S, NEW s \in Seq(S), s # <<>>
    PROVE  /\ Tail(s) \in Seq(S) /\ Head(s) \in S
           /\ Frames(s) = Frames(Tail(s)) \cup {Head(s)}
           /\ \A f : Once(s, f) => Once(Tail(s), f) /\ (f = Head(s) => f \notin Frames(Tail(s)))
<1> DEFINE v == Tail(s)
           n == Len(s)
           m == Len(v)
<1>1. /\ n \in Nat \ {0} /\ m = n - 1 /\ v \in Seq(S)
      /\ \A i \in 1..m : v[i] = s[i + 1]
      /\ Head(s) = s[1] /\ Head(s) \in S
  OBVIOUS
<1> HIDE DEF v, m, n
<1>2. \A i \in 1..m : i + 1 \in 1..n /\ i + 1 # 1
  BY <1>1
<1>3. \A i \in 1..n : i = 1 \/ \E j \in 1..m : i = j + 1
  <2> TAKE i \in 1..n
  <2>1. i # 1 => i - 1 \in 1..m /\ i = (i - 1) + 1
    BY <1>1
  <2> QED
    BY <2>1
<1>4. 1 \in 1..n
  BY <1>1
<1>5. \A i, j \in 1..m : i + 1 = j + 1 => i = j
  BY <1>1
<1>6. Frames(s) = Frames(v) \cup {Head(s)}
  <2>1. ASSUME NEW f \in Frames(s) PROVE f \in Frames(v) \cup {Head(s)}
    <3>1. PICK i \in 1..n : f = s[i]
      BY DEF Frames, n
    <3>2. CASE i = 1
      BY <1>1, <3>1, <3>2
    <3>3. ASSUME NEW j \in 1..m, i = j + 1 PROVE f \in Frames(v)
      <4>1. f = v[j]
        BY <1>1, <3>1, <3>3
      <4> QED
        BY <4>1 DEF Frames, m
    <3> QED
      BY <1>3, <3>2, <3>3
  <2>2. ASSUME NEW f \in Frames(v) \cup {Head(s)} PROVE f \in Frames(s)
    <3>1. CASE f = Head(s)
      BY <1>1, <1>4, <3>1 DEF Frames, n
    <3>2. CASE f \in Frames(v)
      <4>1. PICK i \in 1..m : f = v[i]
        BY <3>2 DEF Frames, m
      <4>2. i + 1 \in 1..n /\ f = s[i + 1]
        BY <1>1, <1>2, <4>1
      <4> QED
        BY <4>2 DEF Frames, n
    <3> QED
      BY <2>2, <3>1, <3>2
  <2> QED
    BY <2>1, <2>2
<1>7. ASSUME NEW f, Once(s, f) PROVE Once(v, f) /\ (f = Head(s) => f \notin Frames(v))
  <2>1. Once(v, f)
    BY <1>1, <1>2, <1>5, <1>7, ZenonT(60) DEF Once, m, n
  <2>2. ASSUME f = Head(s), NEW i \in 1..m, v[i] = f PROVE FALSE
    BY <1>1, <1>2, <1>4, <1>7, <2>2, ZenonT(60) DEF Once, m, n
  <2> QED
    BY <2>1, <2>2, Zenon DEF Frames, m
<1> QED
  BY <1>1, <1>6, <1>7 DEF v

LEMMA FramesInSet == ASSUME NEW S, NEW s \in Seq(S) PROVE Frames(s) \subseteq S
BY DEF Frames

-----------------------------------------------------------------------------
(* The frames of a transfer.                                               *)

OfferFrame(t) == [type |-> "file_offer", id |-> t]
DoneFrame(t) == [type |-> "file_done", id |-> t]
ChunkFrame(t, i, good) == [type |-> "file_data", id |-> t, seq |-> i, good |-> good]
AcceptFrame(t) == [type |-> "file_accept", id |-> t]
RejectFrame(t) == [type |-> "file_reject", id |-> t]
AckFrame(t, success) == [type |-> "file_complete_ack", id |-> t, success |-> success]

LEMMA FrameFacts ==
    ASSUME NEW t \in Transfer
    PROVE  /\ OfferFrame(t) \in DataFrame /\ OfferFrame(t).type = "file_offer" /\ OfferFrame(t).id = t
           /\ DoneFrame(t) \in DataFrame /\ DoneFrame(t).type = "file_done" /\ DoneFrame(t).id = t
           /\ AcceptFrame(t) \in BackFrame /\ AcceptFrame(t).type = "file_accept" /\ AcceptFrame(t).id = t
           /\ RejectFrame(t) \in BackFrame /\ RejectFrame(t).type = "file_reject" /\ RejectFrame(t).id = t
           /\ \A b \in BOOLEAN : /\ AckFrame(t, b) \in BackFrame /\ AckFrame(t, b).type = "file_complete_ack"
                                 /\ AckFrame(t, b).id = t /\ AckFrame(t, b).success = b
           /\ \A i \in Nat, b \in BOOLEAN : /\ ChunkFrame(t, i, b) \in DataFrame
                                            /\ ChunkFrame(t, i, b).type = "file_data" /\ ChunkFrame(t, i, b).id = t
BY DEF OfferFrame, DoneFrame, AcceptFrame, RejectFrame, AckFrame, ChunkFrame, DataFrame, BackFrame

LEMMA FrameKinds ==
    /\ \A f \in DataFrame : /\ f.id \in Transfer /\ f.type \in {"file_offer", "file_done", "file_data"}
                            /\ f.type = "file_offer" => f = OfferFrame(f.id)
                            /\ f.type = "file_done" => f = DoneFrame(f.id)
                            /\ f.type = "file_data" => f.good \in BOOLEAN /\ f.seq \in Nat
    /\ \A f \in BackFrame : /\ f.id \in Transfer /\ f.type \in {"file_accept", "file_reject", "file_complete_ack"}
                            /\ f.type = "file_accept" => f = AcceptFrame(f.id)
                            /\ f.type = "file_reject" => f = RejectFrame(f.id)
                            /\ f.type = "file_complete_ack" => f.success \in BOOLEAN /\ f = AckFrame(f.id, f.success)
<1>1. ASSUME NEW f \in DataFrame
      PROVE  /\ f.id \in Transfer /\ f.type \in {"file_offer", "file_done", "file_data"}
             /\ f.type = "file_offer" => f = OfferFrame(f.id)
             /\ f.type = "file_done" => f = DoneFrame(f.id)
             /\ f.type = "file_data" => f.good \in BOOLEAN /\ f.seq \in Nat
  BY DEF DataFrame, OfferFrame, DoneFrame
<1>2. ASSUME NEW f \in BackFrame
      PROVE  /\ f.id \in Transfer /\ f.type \in {"file_accept", "file_reject", "file_complete_ack"}
             /\ f.type = "file_accept" => f = AcceptFrame(f.id)
             /\ f.type = "file_reject" => f = RejectFrame(f.id)
             /\ f.type = "file_complete_ack" => f.success \in BOOLEAN /\ f = AckFrame(f.id, f.success)
  BY DEF BackFrame, AcceptFrame, RejectFrame, AckFrame
<1> QED
  BY <1>1, <1>2

-----------------------------------------------------------------------------
(* The wires: every frame travels on the connection of its transfer, and   *)
(* nothing is on a closed connection.                                      *)

Carries(w) ==
    \A l \in Link : /\ \A f \in Frames(w[l]) : On[f.id] = l
                    /\ ~up[l] => w[l] = <<>>

Wires ==
    /\ data \in [Link -> Seq(DataFrame)] /\ Carries(data)
    /\ back \in [Link -> Seq(BackFrame)] /\ Carries(back)
    /\ up \in [Link -> BOOLEAN]

\* What a step other than a break does to the wires of one direction.
Puts(w, v, F) == \E l \in Link, g \in F : up[l] /\ On[g.id] = l /\ v = [w EXCEPT ![l] = Append(w[l], g)]
Takes(w, v) == \E l \in Link : w[l] # <<>> /\ v = [w EXCEPT ![l] = Tail(w[l])]
Moves(w, v, F) == v = w \/ Puts(w, v, F) \/ Takes(w, v)

LEMMA MovesKeep ==
    ASSUME NEW F, NEW w \in [Link -> Seq(F)], NEW v, Carries(w), Moves(w, v, F)
    PROVE  v \in [Link -> Seq(F)] /\ Carries(v)
<1>1. CASE v = w
  BY <1>1
<1>2. CASE Puts(w, v, F)
  <2>1. PICK l \in Link, g \in F : up[l] /\ On[g.id] = l /\ v = [w EXCEPT ![l] = Append(w[l], g)]
    BY <1>2, Zenon DEF Puts
  <2>2. w[l] \in Seq(F)
    OBVIOUS
  <2>3. Append(w[l], g) \in Seq(F) /\ Frames(Append(w[l], g)) = Frames(w[l]) \cup {g}
    BY <2>2, AppendFrame
  <2>4. v \in [Link -> Seq(F)] /\ v[l] = Append(w[l], g) /\ \A k \in Link : k # l => v[k] = w[k]
    BY <2>1, <2>3
  <2>5. Carries(v)
    <3> SUFFICES ASSUME NEW k \in Link PROVE (\A f \in Frames(v[k]) : On[f.id] = k) /\ (~up[k] => v[k] = <<>>)
      BY DEF Carries
    <3>1. CASE k = l
      BY <2>1, <2>3, <2>4, <3>1 DEF Carries
    <3>2. CASE k # l
      <4>1. v[k] = w[k]
        BY <2>4, <3>2
      <4> QED
        BY <4>1 DEF Carries
    <3> QED
      BY <3>1, <3>2
  <2> QED
    BY <2>4, <2>5
<1>3. CASE Takes(w, v)
  <2>1. PICK l \in Link : w[l] # <<>> /\ v = [w EXCEPT ![l] = Tail(w[l])]
    BY <1>3, Zenon DEF Takes
  <2>2. w[l] \in Seq(F)
    OBVIOUS
  <2>3. Tail(w[l]) \in Seq(F) /\ Frames(w[l]) = Frames(Tail(w[l])) \cup {Head(w[l])}
    BY <2>1, <2>2, TakeFrame
  <2>4. v \in [Link -> Seq(F)] /\ v[l] = Tail(w[l]) /\ \A k \in Link : k # l => v[k] = w[k]
    BY <2>1, <2>3
  <2>5. Carries(v)
    <3> SUFFICES ASSUME NEW k \in Link PROVE (\A f \in Frames(v[k]) : On[f.id] = k) /\ (~up[k] => v[k] = <<>>)
      BY DEF Carries
    <3>1. CASE k = l
      BY <2>1, <2>3, <2>4, <3>1 DEF Carries
    <3>2. CASE k # l
      <4>1. v[k] = w[k]
        BY <2>4, <3>2
      <4> QED
        BY <4>1 DEF Carries
    <3> QED
      BY <3>1, <3>2
  <2> QED
    BY <2>4, <2>5
<1> QED
  BY <1>1, <1>2, <1>3 DEF Moves

LEMMA ReplyMoves ==
    ASSUME NEW l \in Link, NEW g \in BackFrame, On[g.id] = l, Reply(l, g)
    PROVE  Moves(back, back', BackFrame)
BY Zenon DEF Reply, Put, Moves, Puts

\* The next frame for the receiver on l.
LEMMA NextData ==
    ASSUME Wires, NEW l \in Link, NEW type, ReceiverTakes(l, type)
    PROVE  /\ Head(data[l]) \in DataFrame /\ Head(data[l]).id \in Transfer /\ On[Head(data[l]).id] = l
           /\ Head(data[l]).type = type /\ up[l] /\ data[l] # <<>> /\ data[l] \in Seq(DataFrame)
           /\ data' = [data EXCEPT ![l] = Tail(data[l])]
           /\ Moves(data, data', DataFrame)
<1>1. /\ data[l] \in Seq(DataFrame) /\ data[l] # <<>> /\ up[l] /\ Head(data[l]).type = type
      /\ data' = [data EXCEPT ![l] = Tail(data[l])]
  BY DEF ReceiverTakes, Wires
<1>2. Head(data[l]) \in DataFrame /\ Head(data[l]) \in Frames(data[l])
  BY <1>1, TakeFrame
<1>3. On[Head(data[l]).id] = l
  BY <1>2 DEF Wires, Carries
<1> QED
  BY <1>1, <1>2, <1>3, FrameKinds, Zenon DEF Moves, Takes

LEMMA WireMoves ==
    ASSUME Wires, next \in [Transfer -> Nat], Next, \A l \in Link : ~ Break(l)
    PROVE  Moves(data, data', DataFrame) /\ Moves(back, back', BackFrame) /\ up' = up
<1> USE DEF senderVars, receiverVars, wires
<1> DEFINE Goal == Moves(data, data', DataFrame) /\ Moves(back, back', BackFrame) /\ up' = up
<1>0. \A t \in Transfer : On[t] \in Link
  BY TransferAssumption
<1>1. ASSUME UNCHANGED <<data, back, up>> PROVE Goal
  BY <1>1 DEF Moves
<1>2. ASSUME NEW t \in Transfer, NEW g \in DataFrame, g.id = t, up[On[t]], data' = Put(data, On[t], g), UNCHANGED <<back, up>>
      PROVE  Goal
  <2>1. Puts(data, data', DataFrame)
    BY <1>0, <1>2, Zenon DEF Puts, Put
  <2> QED
    BY <1>2, <2>1 DEF Moves
<1>3. ASSUME NEW t \in Transfer, OfferFile(t) PROVE Goal
  <2>1. OfferFrame(t) \in DataFrame /\ OfferFrame(t).id = t
    BY FrameFacts
  <2>2. \/ up[On[t]] /\ data' = Put(data, On[t], OfferFrame(t)) /\ UNCHANGED <<back, up>>
        \/ UNCHANGED <<data, back, up>>
    BY <1>3, Zenon DEF OfferFile, OfferFrame
  <2> QED
    BY <1>1, <1>2, <2>1, <2>2, Zenon
<1>4. ASSUME NEW t \in Transfer, SendTask(t) PROVE Goal
  <2>1. CASE SendChunk(t)
    <3>1. PICK i \in Nat, b \in BOOLEAN : up[On[t]] /\ data' = Put(data, On[t], ChunkFrame(t, i, b)) /\ UNCHANGED <<back, up>>
      <4>1. next[t] \in Nat
        OBVIOUS
      <4>2. (edit[t] # "changed" /\ next[t] < Size[t]) \in BOOLEAN
        OBVIOUS
      <4> QED
        BY <2>1, <4>1, <4>2, Zenon DEF SendChunk, ChunkFrame
    <3>2. ChunkFrame(t, i, b) \in DataFrame /\ ChunkFrame(t, i, b).id = t
      BY FrameFacts
    <3> QED
      BY <1>2, <3>1, <3>2, Zenon
  <2>2. CASE SendDone(t)
    <3>1. DoneFrame(t) \in DataFrame /\ DoneFrame(t).id = t
      BY FrameFacts
    <3>2. \/ up[On[t]] /\ data' = Put(data, On[t], DoneFrame(t)) /\ UNCHANGED <<back, up>>
          \/ UNCHANGED <<data, back, up>>
      BY <2>2, Zenon DEF SendDone, DoneFrame
    <3> QED
      BY <1>1, <1>2, <3>1, <3>2, Zenon
  <2>3. CASE SendFails(t) \/ DoneSent(t) \/ AckWaitEnds(t)
    BY <1>1, <2>3, Zenon DEF SendFails, DoneSent, AckWaitEnds
  <2> QED
    BY <1>4, <2>1, <2>2, <2>3, Zenon DEF SendTask
<1>5. ASSUME NEW t \in Transfer, UserAnswers(t) PROVE Goal
  <2>1. UNCHANGED <<data, up>> /\ (Reply(On[t], AcceptFrame(t)) \/ Reply(On[t], RejectFrame(t)))
    BY <1>5, Zenon DEF UserAnswers, Accept, Decline, AcceptFrame, RejectFrame
  <2>2. Moves(back, back', BackFrame)
    BY <1>0, <2>1, FrameFacts, ReplyMoves
  <2> QED
    BY <2>1, <2>2 DEF Moves
<1>6. ASSUME NEW l \in Link, SenderReads(l) PROVE Goal
  <2>1. back[l] # <<>> /\ back' = [back EXCEPT ![l] = Tail(back[l])] /\ UNCHANGED <<data, up>>
    BY <1>6 DEF SenderReads
  <2> QED
    BY <2>1, Zenon DEF Moves, Takes
<1>7. ASSUME NEW l \in Link, ReceiverReads(l) PROVE Goal
  <2> DEFINE t == Head(data[l]).id
  <2>1. t \in Transfer /\ On[t] = l /\ Moves(data, data', DataFrame)
    BY <1>7, NextData, Zenon DEF ReceiverReads, HandleOffer, HandleChunk, HandleDone
  <2>2. /\ up' = up
        /\ \/ back' = back
           \/ Reply(l, RejectFrame(t))
           \/ Reply(On[t], AckFrame(t, FALSE))
           \/ Reply(l, AckFrame(t, Verified(t)))
    BY <1>7, Zenon DEF ReceiverReads, HandleOffer, HandleChunk, HandleDone, AbortIncoming, RejectFrame, AckFrame
  <2>3. Verified(t) \in BOOLEAN
    BY DEF Verified
  <2>4. \A b \in BOOLEAN : AckFrame(t, b) \in BackFrame /\ AckFrame(t, b).id = t
    BY <2>1, FrameFacts
  <2>5. RejectFrame(t) \in BackFrame /\ RejectFrame(t).id = t
    BY <2>1, FrameFacts
  <2>6. AckFrame(t, Verified(t)) \in BackFrame /\ AckFrame(t, Verified(t)).id = t
    BY <2>3, <2>4, Zenon
  <2>7. AckFrame(t, FALSE) \in BackFrame /\ AckFrame(t, FALSE).id = t
    BY <2>4, Zenon
  <2> HIDE DEF t
  <2>8. Moves(back, back', BackFrame)
    BY <2>1, <2>2, <2>5, <2>6, <2>7, ReplyMoves, Zenon DEF Moves
  <2> QED
    BY <2>1, <2>2, <2>8
<1>8. \/ UNCHANGED <<data, back, up>>
      \/ \E t \in Transfer : OfferFile(t) \/ SendTask(t) \/ UserAnswers(t)
      \/ \E l \in Link : SenderReads(l) \/ ReceiverReads(l)
  BY Zenon DEF Next, OfferSent, EditFile, FinishDone, HandlerReturns, HandlerRaises
<1> HIDE DEF Goal
<1>9. Goal
  BY <1>1, <1>3, <1>4, <1>5, <1>6, <1>7, <1>8, Zenon
<1> QED
  BY <1>9 DEF Goal

LEMMA WiresStep ==
    ASSUME Wires, next \in [Transfer -> Nat], [Next]_vars
    PROVE  Wires'
<1>1. ASSUME NEW l \in Link, Break(l) PROVE Wires'
  <2>1. /\ up' = [up EXCEPT ![l] = FALSE]
        /\ data' = [data EXCEPT ![l] = <<>>] /\ back' = [back EXCEPT ![l] = <<>>]
    BY <1>1 DEF Break
  <2>2. up' \in [Link -> BOOLEAN] /\ data' \in [Link -> Seq(DataFrame)] /\ back' \in [Link -> Seq(BackFrame)]
    BY <2>1 DEF Wires
  <2>3. ASSUME NEW k \in Link
        PROVE  \/ data'[k] = <<>> /\ back'[k] = <<>>
               \/ data'[k] = data[k] /\ back'[k] = back[k] /\ up'[k] = up[k]
    BY <2>1 DEF Wires
  <2>4. ASSUME NEW k \in Link
        PROVE  /\ \A f \in Frames(data'[k]) : On[f.id] = k
               /\ \A f \in Frames(back'[k]) : On[f.id] = k
               /\ ~up'[k] => data'[k] = <<>> /\ back'[k] = <<>>
    BY <2>3, EmptyWire DEF Wires, Carries
  <2> QED
    BY <2>2, <2>4, Zenon DEF Wires, Carries
<1>2. CASE UNCHANGED vars
  BY <1>2 DEF vars, wires, Wires, Carries
<1>3. CASE Next /\ \A l \in Link : ~ Break(l)
  <2>1. Moves(data, data', DataFrame) /\ Moves(back, back', BackFrame) /\ up' = up
    BY <1>3, WireMoves
  <2>2. data' \in [Link -> Seq(DataFrame)] /\ Carries(data')
    BY <2>1, MovesKeep, Zenon DEF Wires
  <2>3. back' \in [Link -> Seq(BackFrame)] /\ Carries(back')
    BY <2>1, MovesKeep DEF Wires
  <2> QED
    BY <2>1, <2>2, <2>3 DEF Wires, Carries
<1> QED
  BY <1>1, <1>2, <1>3

-----------------------------------------------------------------------------
(* The downloads directory: a path names only a transfer that resolved it  *)
(* and was accepted, a ".part" only one that is still under way or whose   *)
(* handler raised.                                                         *)

Active == {"receiving", "verified", "mismatch"}
Keeping == Active \cup {"raised"}
Unaccepted == {"none", "asked", "rejected"}

Owned ==
    /\ \A k \in Path : part[k] # NoFile => dest[part[k]] = k /\ got[part[k]] \in Keeping
    /\ \A k \in Path : final[k] # NoFile => dest[final[k]] = k /\ got[final[k]] \notin Unaccepted

LeftBehind ==
    \A k \in Path : part[k] # NoFile /\ got[part[k]] = "raised" => ~up[On[part[k]]]

StateTypes ==
    /\ sent \in [Transfer -> {"new", "offering", "offered", "sending", "finishing",
                              "awaiting_ack", "done", "failed", "rejected", "unsent"}]
    /\ next \in [Transfer -> Nat]
    /\ edit \in [Transfer -> {"none", "changed", "longer", "shorter", "gone"}]
    /\ ack \in [Transfer -> {"none", "good", "bad"}]
    /\ got \in [Transfer -> {"none", "asked", "receiving", "verified", "mismatch",
                             "done", "failed", "rejected", "raised"}]
    /\ dest \in [Transfer -> Path]
    /\ written \in [Transfer -> Seq(BOOLEAN)]
    /\ \A t \in Transfer : Len(written[t]) <= Size[t]
    /\ part \in [Path -> Transfer \cup {NoFile}]
    /\ final \in [Path -> Transfer \cup {NoFile}]
    /\ busy \in [Link -> Transfer \cup {NoTransfer}]
    /\ early \subseteq Transfer

LEMMA LeastOfPaths ==
    ASSUME NEW T \in SUBSET Nat, T # {}
    PROVE  \E x \in T : \A y \in T : x <= y
<1>1. PICK m \in T : \A k \in T : <<k, m>> \notin OpToRel(<, Nat)
  BY WFMin, NatLessThanWellFounded, Zenon
<1>2. \A k \in T : ~ (k < m)
  BY <1>1, Zenon DEF OpToRel
<1> QED
  BY <1>2

\* There is always a free counter: each one taken is the counter of a
\* different transfer, and there is one more of them than transfers.
LEMMA FreePath ==
    ASSUME StateTypes, Owned
    PROVE  ResolvedPath \in Path /\ final[ResolvedPath] = NoFile /\ part[ResolvedPath] = NoFile
<1> DEFINE free == {k \in Path : final[k] = NoFile /\ part[k] = NoFile}
<1>1. Cardinality(Transfer) \in Nat /\ IsFiniteSet(Transfer)
  BY TransferAssumption, FS_CardinalityType
<1>2. free # {}
  <2> SUFFICES ASSUME free = {} PROVE FALSE
    OBVIOUS
  <2>1. \A k \in Path : \E t \in Transfer : dest[t] = k
    BY SMTT(30) DEF StateTypes, Owned
  <2>2. dest \in Surjection(Transfer, Path)
    BY <2>1 DEF StateTypes, Surjection
  <2>3. Cardinality(Path) <= Cardinality(Transfer)
    BY <1>1, <2>2, FS_Surjection
  <2>4. Cardinality(0..Cardinality(Transfer)) = Cardinality(Transfer) + 1
    <3>1. \A c \in Nat : 0 <= c /\ c - 0 + 1 = c + 1
      OBVIOUS
    <3> QED
      BY <1>1, <3>1, FS_Interval
  <2> QED
    BY <1>1, <2>3, <2>4 DEF Path
<1>3. free \in SUBSET Nat
  BY <1>1 DEF Path
<1>4. \E k \in free : \A j \in free : k <= j
  BY <1>2, <1>3, LeastOfPaths, Zenon
<1>5. ResolvedPath \in free
  BY <1>4, Zenon DEF ResolvedPath
<1> QED
  BY <1>5

LEMMA StateTypesStep ==
    ASSUME StateTypes, Wires, Owned, [Next]_vars
    PROVE  StateTypes'
<1> USE DEF senderVars, receiverVars, wires
<1>0. \A t \in Transfer : On[t] \in Link
  BY TransferAssumption
<1>1. ASSUME NEW t \in Transfer, OfferFile(t) \/ OfferSent(t) \/ EditFile(t) PROVE StateTypes'
  <2>1. CASE OfferFile(t)
    BY <2>1, ZenonT(60) DEF OfferFile, StateTypes
  <2>2. CASE OfferSent(t)
    BY <2>2, Zenon DEF OfferSent, StateTypes
  <2>3. CASE EditFile(t)
    BY <2>3 DEF EditFile, StateTypes
  <2> QED
    BY <1>1, <2>1, <2>2, <2>3
<1>2. ASSUME NEW t \in Transfer, SendTask(t) PROVE StateTypes'
  <2>1. CASE SendChunk(t)
    BY <2>1 DEF SendChunk, StateTypes
  <2>2. CASE SendFails(t)
    BY <2>2, Zenon DEF SendFails, StateTypes
  <2>3. CASE SendDone(t)
    BY <2>3, Zenon DEF SendDone, StateTypes
  <2>4. CASE AckWaitEnds(t)
    BY <2>4 DEF AckWaitEnds, StateTypes
  <2>5. CASE DoneSent(t)
    BY <2>5, Zenon DEF DoneSent, StateTypes
  <2> QED
    BY <1>2, <2>1, <2>2, <2>3, <2>4, <2>5 DEF SendTask
<1>3. ASSUME NEW t \in Transfer, UserAnswers(t) PROVE StateTypes'
  <2>1. CASE Accept(t)
    BY <1>0, <2>1, Zenon DEF Accept, StateTypes
  <2>2. CASE Decline(t)
    BY <1>0, <2>2, Zenon DEF Decline, StateTypes
  <2> QED
    BY <1>3, <2>1, <2>2 DEF UserAnswers
<1>4. ASSUME NEW t \in Transfer, FinishDone(t) \/ HandlerRaises(t) PROVE StateTypes'
  <2>1. UNCHANGED <<sent, next, edit, ack, early, dest, written>> /\ busy' = [busy EXCEPT ![On[t]] = NoTransfer]
    BY <1>4, Zenon DEF FinishDone, HandlerRaises
  <2>2. busy' \in [Link -> Transfer \cup {NoTransfer}]
    BY <1>0, <2>1, Zenon DEF StateTypes
  <2>3. PICK g \in {"failed", "raised", "done"} : got' = [got EXCEPT ![t] = g]
    BY <1>4, Zenon DEF FinishDone, HandlerRaises
  <2>4. got' \in [Transfer -> {"none", "asked", "receiving", "verified", "mismatch",
                               "done", "failed", "rejected", "raised"}]
    BY <2>3 DEF StateTypes
  <2>5. dest[t] \in Path
    BY DEF StateTypes
  <2>6. part' \in [Path -> Transfer \cup {NoFile}]
    BY <1>4, <2>5, ZenonT(60) DEF FinishDone, HandlerRaises, StateTypes
  <2>7. final' \in [Path -> Transfer \cup {NoFile}]
    BY <1>4, <2>5, ZenonT(60) DEF FinishDone, HandlerRaises, StateTypes
  <2> QED
    BY <2>1, <2>2, <2>4, <2>6, <2>7, Zenon DEF StateTypes
<1>5. ASSUME NEW l \in Link, SenderReads(l) PROVE StateTypes'
  <2> DEFINE f == Head(back[l])
  <2>1. f \in BackFrame
    BY <1>5, TakeFrame, Zenon DEF SenderReads, Wires
  <2>2. f.id \in Transfer
    BY <2>1, FrameKinds
  <2>3. /\ UNCHANGED <<next, edit, got, dest, written, part, final, busy>>
        /\ early' = early \/ early' = early \cup {f.id}
        /\ sent' = sent \/ \E g \in {"sending", "rejected", sent[f.id]} : sent' = [sent EXCEPT ![f.id] = g]
        /\ ack' = ack \/ \E g \in {"good", "bad", ack[f.id]} : ack' = [ack EXCEPT ![f.id] = g]
    <3>1. early' = early \/ early' = early \cup {f.id}
      BY <1>5, Zenon DEF SenderReads, EarlyAfter
    <3>2. sent' = sent \/ \E g \in {"sending", "rejected", sent[f.id]} : sent' = [sent EXCEPT ![f.id] = g]
      BY <1>5 DEF SenderReads
    <3>3. ack' = ack \/ \E g \in {"good", "bad", ack[f.id]} : ack' = [ack EXCEPT ![f.id] = g]
      BY <1>5, Zenon DEF SenderReads
    <3> QED
      BY <1>5, <3>1, <3>2, <3>3, Zenon DEF SenderReads
  <2>4. sent[f.id] \in {"new", "offering", "offered", "sending", "finishing",
                       "awaiting_ack", "done", "failed", "rejected", "unsent"} /\ ack[f.id] \in {"none", "good", "bad"}
    BY <2>2, Zenon DEF StateTypes
  <2> HIDE DEF f
  <2>5. sent' \in [Transfer -> {"new", "offering", "offered", "sending", "finishing",
                               "awaiting_ack", "done", "failed", "rejected", "unsent"}]
    BY <2>3, <2>4, ZenonT(60) DEF StateTypes
  <2>6. ack' \in [Transfer -> {"none", "good", "bad"}]
    BY <2>3, <2>4, ZenonT(60) DEF StateTypes
  <2>7. early' \subseteq Transfer
    BY <2>2, <2>3 DEF StateTypes
  <2> QED
    BY <2>3, <2>5, <2>6, <2>7, Zenon DEF StateTypes
<1>6. ASSUME NEW l \in Link, HandleOffer(l) PROVE StateTypes'
  <2> DEFINE t == Head(data[l]).id
  <2>1. t \in Transfer
    BY <1>6, NextData, Zenon DEF HandleOffer
  <2>2. /\ UNCHANGED <<senderVars, written, part, final>>
        /\ got' = [got EXCEPT ![t] = "rejected"] \/ got' = [got EXCEPT ![t] = "asked"]
        /\ dest' = dest \/ dest' = [dest EXCEPT ![t] = ResolvedPath]
        /\ busy' = [busy EXCEPT ![l] = t]
    BY <1>6, Zenon DEF HandleOffer
  <2> HIDE DEF t
  <2>3. ResolvedPath \in Path
    BY FreePath
  <2>4. got' \in [Transfer -> {"none", "asked", "receiving", "verified", "mismatch",
                              "done", "failed", "rejected", "raised"}]
    BY <2>1, <2>2, ZenonT(60) DEF StateTypes
  <2>5. dest' \in [Transfer -> Path]
    BY <2>1, <2>2, <2>3, ZenonT(60) DEF StateTypes
  <2>6. busy' \in [Link -> Transfer \cup {NoTransfer}]
    BY <2>1, <2>2, ZenonT(60) DEF StateTypes
  <2> QED
    BY <2>2, <2>4, <2>5, <2>6 DEF StateTypes
<1>7. ASSUME NEW l \in Link, HandleChunk(l) PROVE StateTypes'
  <2> DEFINE f == Head(data[l])
  <2>1. f \in DataFrame /\ f.id \in Transfer /\ f.type = "file_data"
    BY <1>7, NextData, Zenon DEF HandleChunk
  <2>2. f.good \in BOOLEAN
    BY <2>1, FrameKinds
  <2>3. UNCHANGED <<senderVars, dest>>
    BY <1>7, Zenon DEF HandleChunk
  <2>4. \/ UNCHANGED <<got, written, part, final, busy>>
        \/ AbortIncoming(f.id)
        \/ /\ Len(written[f.id]) + 1 <= Size[f.id]
           /\ written' = [written EXCEPT ![f.id] = Append(written[f.id], f.good)]
           /\ UNCHANGED <<got, part, final, busy>>
    <3>1. Len(written[f.id]) \in Nat /\ Size[f.id] \in Nat
      BY <2>1, TransferAssumption DEF StateTypes
    <3>2. ~ (Len(written[f.id]) + 1 > Size[f.id]) => Len(written[f.id]) + 1 <= Size[f.id]
      BY <3>1, SMTT(30)
    <3> QED
      BY <1>7, <3>2, Zenon DEF HandleChunk
  <2> HIDE DEF f
  <2>5. CASE UNCHANGED <<got, written, part, final, busy>>
    BY <2>3, <2>5 DEF StateTypes
  <2>6. CASE AbortIncoming(f.id)
    BY <1>0, <2>1, <2>3, <2>6, Zenon DEF AbortIncoming, StateTypes
  <2>7. CASE /\ Len(written[f.id]) + 1 <= Size[f.id]
             /\ written' = [written EXCEPT ![f.id] = Append(written[f.id], f.good)]
             /\ UNCHANGED <<got, part, final, busy>>
    <3>1. written[f.id] \in Seq(BOOLEAN)
      BY <2>1 DEF StateTypes
    <3>2. Append(written[f.id], f.good) \in Seq(BOOLEAN) /\ Len(Append(written[f.id], f.good)) = Len(written[f.id]) + 1
      BY <2>2, <3>1
    <3>3. written' \in [Transfer -> Seq(BOOLEAN)]
      BY <2>1, <2>7, <3>2 DEF StateTypes
    <3>4. ASSUME NEW t \in Transfer PROVE Len(written'[t]) <= Size[t]
      <4>1. CASE t = f.id
        <5>1. written'[t] = Append(written[f.id], f.good)
          BY <2>1, <2>7, <4>1, Zenon DEF StateTypes
        <5> QED
          BY <2>7, <3>2, <4>1, <5>1
      <4>2. CASE t # f.id
        <5>1. written'[t] = written[t]
          BY <2>1, <2>7, <4>2, Zenon DEF StateTypes
        <5> QED
          BY <5>1 DEF StateTypes
      <4> QED
        BY <4>1, <4>2
    <3> QED
      BY <2>3, <2>7, <3>3, <3>4, Zenon DEF StateTypes
  <2> QED
    BY <2>4, <2>5, <2>6, <2>7, Zenon
<1>8. ASSUME NEW l \in Link, HandleDone(l) PROVE StateTypes'
  <2> DEFINE t == Head(data[l]).id
  <2>1. t \in Transfer
    BY <1>8, NextData, Zenon DEF HandleDone
  <2>2. /\ UNCHANGED <<senderVars, dest, written, part, final>>
        /\ got' = got \/ \E g \in {"raised", "verified", "mismatch"} : got' = [got EXCEPT ![t] = g]
        /\ busy' = busy \/ busy' = [busy EXCEPT ![l] = t]
    <3>1. (IF Verified(t) THEN "verified" ELSE "mismatch") \in {"raised", "verified", "mismatch"}
      OBVIOUS
    <3> QED
      BY <1>8, <3>1, Zenon DEF HandleDone
  <2> HIDE DEF t
  <2>3. got' \in [Transfer -> {"none", "asked", "receiving", "verified", "mismatch",
                              "done", "failed", "rejected", "raised"}]
    BY <2>1, <2>2, ZenonT(60) DEF StateTypes
  <2>4. busy' \in [Link -> Transfer \cup {NoTransfer}]
    BY <2>1, <2>2, ZenonT(60) DEF StateTypes
  <2> QED
    BY <2>2, <2>3, <2>4 DEF StateTypes
<1>9. CASE UNCHANGED vars \/ \E l \in Link : Break(l) \/ HandlerReturns(l)
  BY <1>9, ZenonT(60) DEF vars, Break, HandlerReturns, StateTypes
<1> QED
  BY <1>1, <1>2, <1>3, <1>4, <1>5, <1>6, <1>7, <1>8, <1>9, Zenon DEF Next, ReceiverReads

-----------------------------------------------------------------------------
(* One transfer's frames: which are under way, and how a step changes that. *)

OfferOut(t) == OfferFrame(t) \in Frames(data[On[t]])
DoneOut(t) == DoneFrame(t) \in Frames(data[On[t]])
OneOffer(t) == Once(data[On[t]], OfferFrame(t))
AcceptOut(t) == AcceptFrame(t) \in Frames(back[On[t]])
RejectOut(t) == RejectFrame(t) \in Frames(back[On[t]])
GoodAckOut(t) == AckFrame(t, TRUE) \in Frames(back[On[t]])
OneAccept(t) == Once(back[On[t]], AcceptFrame(t))

DataSame(t) ==
    /\ OfferOut(t)' <=> OfferOut(t)
    /\ DoneOut(t)' <=> DoneOut(t)
    /\ OneOffer(t) => OneOffer(t)'
BackSame(t) ==
    /\ AcceptOut(t)' <=> AcceptOut(t)
    /\ RejectOut(t)' <=> RejectOut(t)
    /\ GoodAckOut(t)' <=> GoodAckOut(t)
    /\ OneAccept(t) => OneAccept(t)'

\* v is w with g appended on l, or with the first frame on l taken off, and
\* what that makes of the frames on k.
Added(w, v, l, g) == v = [w EXCEPT ![l] = Append(w[l], g)]
Dropped(w, v, l, g) == w[l] # <<>> /\ g = Head(w[l]) /\ v = [w EXCEPT ![l] = Tail(w[l])]

AddedAt(w, v, l, g, k) ==
    /\ \A f : f # g => /\ f \in Frames(v[k]) <=> f \in Frames(w[k])
                       /\ Once(w[k], f) => Once(v[k], f)
    /\ k = l => g \in Frames(v[k]) /\ (g \notin Frames(w[k]) /\ Once(w[k], g) => Once(v[k], g))
DroppedAt(w, v, l, g, k) ==
    /\ \A f : Once(w[k], f) => Once(v[k], f)
    /\ \A f : f # g => (f \in Frames(v[k]) <=> f \in Frames(w[k]))
    /\ \A f : f \in Frames(v[k]) => f \in Frames(w[k])
    /\ k = l => \A f : f = g => f \in Frames(w[k]) /\ (Once(w[k], f) => f \notin Frames(v[k]))

LEMMA PutFrame ==
    ASSUME NEW F, NEW w \in [Link -> Seq(F)], NEW l \in Link, NEW g \in F, NEW v,
           Added(w, v, l, g), NEW k \in Link
    PROVE  AddedAt(w, v, l, g, k)
<1> USE DEF Added, AddedAt
<1>1. CASE k # l
  <2>1. v[k] = w[k]
    BY <1>1
  <2> QED
    BY <1>1, <2>1
<1>2. CASE k = l
  <2>1. w[k] \in Seq(F) /\ v[k] = Append(w[k], g)
    BY <1>2
  <2>2. /\ Frames(v[k]) = Frames(w[k]) \cup {g}
        /\ \A f : Once(w[k], f) /\ (f = g => f \notin Frames(w[k])) => Once(v[k], f)
    BY <2>1, AppendFrame
  <2> QED
    BY <2>2
<1> QED
  BY <1>1, <1>2

LEMMA DropFrame ==
    ASSUME NEW F, NEW w \in [Link -> Seq(F)], NEW l \in Link, NEW g, NEW v,
           Dropped(w, v, l, g), NEW k \in Link
    PROVE  DroppedAt(w, v, l, g, k)
<1> USE DEF Dropped, DroppedAt
<1>1. CASE k # l
  <2>1. v[k] = w[k]
    BY <1>1
  <2> QED
    BY <1>1, <2>1
<1>2. CASE k = l
  <2>1. w[k] \in Seq(F) /\ v[k] = Tail(w[k]) /\ w[k] # <<>>
    BY <1>2
  <2>2. /\ Frames(w[k]) = Frames(v[k]) \cup {Head(w[k])}
        /\ \A f : Once(w[k], f) => Once(v[k], f) /\ (f = Head(w[k]) => f \notin Frames(v[k]))
    BY <2>1, TakeFrame
  <2> QED
    BY <1>2, <2>2
<1> QED
  BY <1>1, <1>2

\* Frames of different kinds or of different transfers differ.
LEMMA FramesDiffer ==
    ASSUME NEW t \in Transfer, NEW g, g.id # t \/ g.type \notin {"file_offer", "file_done", "file_accept", "file_reject", "file_complete_ack"}
    PROVE  /\ OfferFrame(t) # g /\ DoneFrame(t) # g /\ AcceptFrame(t) # g /\ RejectFrame(t) # g
           /\ AckFrame(t, TRUE) # g
<1>1. /\ OfferFrame(t).type = "file_offer" /\ OfferFrame(t).id = t
      /\ DoneFrame(t).type = "file_done" /\ DoneFrame(t).id = t
      /\ AcceptFrame(t).type = "file_accept" /\ AcceptFrame(t).id = t
      /\ RejectFrame(t).type = "file_reject" /\ RejectFrame(t).id = t
      /\ AckFrame(t, TRUE).type = "file_complete_ack" /\ AckFrame(t, TRUE).id = t
  BY DEF OfferFrame, DoneFrame, AcceptFrame, RejectFrame, AckFrame
<1> QED
  BY <1>1, Zenon

LEMMA KindsDiffer ==
    ASSUME NEW t \in Transfer
    PROVE  /\ OfferFrame(t) # DoneFrame(t)
           /\ AcceptFrame(t) # RejectFrame(t)
           /\ \A b \in BOOLEAN : AckFrame(t, b) # AcceptFrame(t) /\ AckFrame(t, b) # RejectFrame(t)
           /\ AckFrame(t, TRUE) # AckFrame(t, FALSE)
<1>1. /\ OfferFrame(t).type = "file_offer" /\ DoneFrame(t).type = "file_done"
      /\ AcceptFrame(t).type = "file_accept" /\ RejectFrame(t).type = "file_reject"
      /\ \A b \in BOOLEAN : AckFrame(t, b).type = "file_complete_ack" /\ AckFrame(t, b).success = b
  BY DEF OfferFrame, DoneFrame, AcceptFrame, RejectFrame, AckFrame
<1>2. OfferFrame(t) # DoneFrame(t) /\ AcceptFrame(t) # RejectFrame(t)
  BY <1>1
<1>3. \A b \in BOOLEAN : AckFrame(t, b) # AcceptFrame(t) /\ AckFrame(t, b) # RejectFrame(t)
  BY <1>1, Zenon
<1>4. AckFrame(t, TRUE) # AckFrame(t, FALSE)
  <2>1. AckFrame(t, TRUE).success = TRUE /\ AckFrame(t, FALSE).success = FALSE
    BY <1>1, Zenon
  <2> QED
    BY <2>1, Zenon
<1> QED
  BY <1>2, <1>3, <1>4, Zenon

LEMMA DataStays == ASSUME NEW t \in Transfer, data'[On[t]] = data[On[t]] PROVE DataSame(t)
BY DEF DataSame, OfferOut, DoneOut, OneOffer

LEMMA BackStays == ASSUME NEW t \in Transfer, back'[On[t]] = back[On[t]] PROVE BackSame(t)
BY Zenon DEF BackSame, AcceptOut, RejectOut, GoodAckOut, OneAccept

LEMMA SendsData ==
    ASSUME Wires, NEW t \in Transfer, NEW g \in DataFrame, g.id = t, data' = Put(data, On[t], g)
    PROVE  /\ \A u \in Transfer : u # t \/ g.type = "file_data" => DataSame(u)
           /\ g = OfferFrame(t) => /\ DoneOut(t)' <=> DoneOut(t)
                                   /\ ~ OfferOut(t) /\ OneOffer(t) => OneOffer(t)'
           /\ g = DoneFrame(t) => /\ DoneOut(t)'
                                  /\ OfferOut(t)' <=> OfferOut(t)
                                  /\ OneOffer(t) => OneOffer(t)'
<1>0. /\ data \in [Link -> Seq(DataFrame)] /\ On[t] \in Link /\ \A u \in Transfer : On[u] \in Link
      /\ data' = [data EXCEPT ![On[t]] = Append(data[On[t]], g)]
  BY TransferAssumption DEF Wires, Put
<1>a. Added(data, data', On[t], g)
  BY <1>0 DEF Added
<1>1. \A k \in Link : AddedAt(data, data', On[t], g, k)
  BY <1>0, <1>a, PutFrame, Zenon
<1>2. ASSUME NEW u \in Transfer, u # t \/ g.type = "file_data" PROVE DataSame(u)
  <2>1. OfferFrame(u) # g /\ DoneFrame(u) # g
    BY <1>2, FramesDiffer, Zenon
  <2> QED
    BY <1>0, <1>1, <2>1, Zenon DEF AddedAt, DataSame, OfferOut, DoneOut, OneOffer
<1>3. ASSUME g = OfferFrame(t)
      PROVE  /\ DoneOut(t)' <=> DoneOut(t)
             /\ ~ OfferOut(t) /\ OneOffer(t) => OneOffer(t)'
  BY <1>0, <1>1, <1>3, KindsDiffer, ZenonT(60) DEF AddedAt, OfferOut, DoneOut, OneOffer
<1>4. ASSUME g = DoneFrame(t)
      PROVE  /\ DoneOut(t)'
             /\ OfferOut(t)' <=> OfferOut(t)
             /\ OneOffer(t) => OneOffer(t)'
  BY <1>0, <1>1, <1>4, KindsDiffer, ZenonT(60) DEF AddedAt, OfferOut, DoneOut, OneOffer
<1> QED
  BY <1>2, <1>3, <1>4, Zenon

LEMMA SendsBack ==
    ASSUME Wires, NEW t \in Transfer, NEW g \in BackFrame, g.id = t, Reply(On[t], g)
    PROVE  /\ \A u \in Transfer : u # t => BackSame(u)
           /\ ~up[On[t]] => BackSame(t)
           /\ g = AcceptFrame(t) => /\ up[On[t]] => AcceptOut(t)'
                                    /\ RejectOut(t)' <=> RejectOut(t)
                                    /\ GoodAckOut(t)' <=> GoodAckOut(t)
                                    /\ ~ AcceptOut(t) /\ OneAccept(t) => OneAccept(t)'
           /\ g = RejectFrame(t) => /\ AcceptOut(t)' <=> AcceptOut(t)
                                    /\ GoodAckOut(t)' <=> GoodAckOut(t)
                                    /\ OneAccept(t) => OneAccept(t)'
           /\ g = AckFrame(t, TRUE) => /\ AcceptOut(t)' <=> AcceptOut(t)
                                       /\ RejectOut(t)' <=> RejectOut(t)
                                       /\ OneAccept(t) => OneAccept(t)'
           /\ g = AckFrame(t, FALSE) => BackSame(t)
<1> DEFINE Goal ==
           /\ g = AcceptFrame(t) => /\ up[On[t]] => AcceptOut(t)'
                                    /\ RejectOut(t)' <=> RejectOut(t)
                                    /\ GoodAckOut(t)' <=> GoodAckOut(t)
                                    /\ ~ AcceptOut(t) /\ OneAccept(t) => OneAccept(t)'
           /\ g = RejectFrame(t) => /\ AcceptOut(t)' <=> AcceptOut(t)
                                    /\ GoodAckOut(t)' <=> GoodAckOut(t)
                                    /\ OneAccept(t) => OneAccept(t)'
           /\ g = AckFrame(t, TRUE) => /\ AcceptOut(t)' <=> AcceptOut(t)
                                       /\ RejectOut(t)' <=> RejectOut(t)
                                       /\ OneAccept(t) => OneAccept(t)'
           /\ g = AckFrame(t, FALSE) => BackSame(t)
<1>0. back \in [Link -> Seq(BackFrame)] /\ On[t] \in Link /\ \A u \in Transfer : On[u] \in Link
  BY TransferAssumption DEF Wires
<1>1. ASSUME ~up[On[t]] PROVE (\A u \in Transfer : BackSame(u)) /\ Goal
  <2>1. back' = back
    BY <1>1 DEF Reply
  <2>2. \A u \in Transfer : BackSame(u)
    BY <2>1, BackStays
  <2> QED
    BY <1>1, <2>2, Zenon DEF BackSame
<1>2. ASSUME up[On[t]] PROVE (\A u \in Transfer : u # t => BackSame(u)) /\ Goal
  <2>0. back' = [back EXCEPT ![On[t]] = Append(back[On[t]], g)]
    BY <1>2 DEF Reply, Put
  <2>a. Added(back, back', On[t], g)
    BY <2>0 DEF Added
  <2>1. \A k \in Link : AddedAt(back, back', On[t], g, k)
    BY <1>0, <2>a, PutFrame, Zenon
  <2>2. ASSUME NEW u \in Transfer, u # t PROVE BackSame(u)
    <3>1. AcceptFrame(u) # g /\ RejectFrame(u) # g /\ AckFrame(u, TRUE) # g
      BY <2>2, FramesDiffer, Zenon
    <3> QED
      BY <1>0, <2>1, <3>1, Zenon DEF AddedAt, BackSame, AcceptOut, RejectOut, GoodAckOut, OneAccept
  <2>3. /\ AcceptFrame(t) # RejectFrame(t) /\ AckFrame(t, TRUE) # AckFrame(t, FALSE)
        /\ AckFrame(t, TRUE) # AcceptFrame(t) /\ AckFrame(t, TRUE) # RejectFrame(t)
        /\ AckFrame(t, FALSE) # AcceptFrame(t) /\ AckFrame(t, FALSE) # RejectFrame(t)
    BY KindsDiffer, Zenon
  <2>4. Goal
    BY <1>0, <2>1, <2>3, Zenon DEF AddedAt, BackSame, AcceptOut, RejectOut, GoodAckOut, OneAccept
  <2> QED
    BY <2>2, <2>4, Zenon
<1> QED
  BY <1>1, <1>2, Zenon

LEMMA TakesData ==
    ASSUME Wires, NEW l \in Link, NEW type, ReceiverTakes(l, type), NEW t \in Transfer, t = Head(data[l]).id
    PROVE  /\ \A u \in Transfer : u # t \/ type = "file_data" => DataSame(u)
           /\ OneOffer(t) => OneOffer(t)'
           /\ type = "file_offer" => /\ DoneOut(t)' <=> DoneOut(t)
                                     /\ OfferOut(t) /\ (OneOffer(t) => ~ OfferOut(t)')
           /\ type = "file_done" => (OfferOut(t)' <=> OfferOut(t))
<1> DEFINE g == Head(data[l])
<1>0. /\ data \in [Link -> Seq(DataFrame)] /\ On[t] = l /\ \A u \in Transfer : On[u] \in Link
      /\ data[l] # <<>> /\ g \in DataFrame /\ g.type = type /\ g.id = t
      /\ data' = [data EXCEPT ![l] = Tail(data[l])]
  BY NextData, TransferAssumption, ZenonT(60) DEF Wires
<1>a. Dropped(data, data', l, g)
  BY <1>0 DEF Dropped
<1>1. \A k \in Link : DroppedAt(data, data', l, g, k)
  BY <1>0, <1>a, DropFrame, Zenon
<1>k. (type = "file_offer" => g = OfferFrame(t)) /\ (type = "file_done" => g = DoneFrame(t))
  BY <1>0, FrameKinds
<1> HIDE DEF g
<1>2. ASSUME NEW u \in Transfer, u # t \/ type = "file_data" PROVE DataSame(u)
  <2>1. OfferFrame(u) # g /\ DoneFrame(u) # g
    BY <1>0, <1>2, FramesDiffer, Zenon
  <2> QED
    BY <1>0, <1>1, <2>1, Zenon DEF DroppedAt, DataSame, OfferOut, DoneOut, OneOffer
<1>3. OneOffer(t) => OneOffer(t)'
  BY <1>0, <1>1, Zenon DEF DroppedAt, OneOffer
<1>4. type = "file_offer" => /\ DoneOut(t)' <=> DoneOut(t)
                             /\ OfferOut(t) /\ (OneOffer(t) => ~ OfferOut(t)')
  BY <1>0, <1>1, <1>k, KindsDiffer, Zenon DEF DroppedAt, OfferOut, DoneOut, OneOffer
<1>5. type = "file_done" => (OfferOut(t)' <=> OfferOut(t))
  BY <1>0, <1>1, <1>k, KindsDiffer, Zenon DEF DroppedAt, OfferOut
<1> QED
  BY <1>2, <1>3, <1>4, <1>5, Zenon

LEMMA TakesBack ==
    ASSUME Wires, NEW l \in Link, back[l] # <<>>, back' = [back EXCEPT ![l] = Tail(back[l])],
           NEW g, g = Head(back[l])
    PROVE  /\ g \in BackFrame /\ g.id \in Transfer /\ On[g.id] = l
           /\ \A u \in Transfer : u # g.id => BackSame(u)
           /\ \A t \in Transfer : t = g.id =>
                /\ OneAccept(t) => OneAccept(t)'
                /\ RejectOut(t)' => RejectOut(t)
                /\ GoodAckOut(t)' => GoodAckOut(t)
                /\ AcceptOut(t)' => AcceptOut(t)
                /\ g.type # "file_accept" => (AcceptOut(t)' <=> AcceptOut(t))
                /\ g.type = "file_accept" => AcceptOut(t) /\ (OneAccept(t) => ~ AcceptOut(t)')
                /\ g.type = "file_reject" => RejectOut(t)
                /\ g.type = "file_complete_ack" /\ g.success => GoodAckOut(t)
<1>0. /\ back \in [Link -> Seq(BackFrame)] /\ back[l] \in Seq(BackFrame) /\ \A u \in Transfer : On[u] \in Link
  BY TransferAssumption DEF Wires
<1>a. Dropped(back, back', l, g)
  BY <1>0 DEF Dropped
<1>1. \A k \in Link : DroppedAt(back, back', l, g, k)
  BY <1>0, <1>a, DropFrame, Zenon
<1>2. g \in BackFrame /\ g \in Frames(back[l])
  BY <1>0, TakeFrame
<1>3. g.id \in Transfer /\ On[g.id] = l
  BY <1>2, FrameKinds, Zenon DEF Wires, Carries
<1>4. ASSUME NEW u \in Transfer, u # g.id PROVE BackSame(u)
  <2>1. AcceptFrame(u) # g /\ RejectFrame(u) # g /\ AckFrame(u, TRUE) # g
    BY <1>4, FramesDiffer, Zenon
  <2> QED
    BY <1>0, <1>1, <2>1, Zenon DEF DroppedAt, BackSame, AcceptOut, RejectOut, GoodAckOut, OneAccept
<1>5. ASSUME NEW t \in Transfer, t = g.id
      PROVE  /\ OneAccept(t) => OneAccept(t)'
             /\ RejectOut(t)' => RejectOut(t)
             /\ GoodAckOut(t)' => GoodAckOut(t)
             /\ AcceptOut(t)' => AcceptOut(t)
             /\ g.type # "file_accept" => (AcceptOut(t)' <=> AcceptOut(t))
             /\ g.type = "file_accept" => AcceptOut(t) /\ (OneAccept(t) => ~ AcceptOut(t)')
             /\ g.type = "file_reject" => RejectOut(t)
             /\ g.type = "file_complete_ack" /\ g.success => GoodAckOut(t)
  <2>1. /\ g.type = "file_accept" => g = AcceptFrame(t)
        /\ g.type = "file_reject" => g = RejectFrame(t)
        /\ g.type = "file_complete_ack" /\ g.success => g = AckFrame(t, TRUE)
        /\ g.type # "file_accept" => g # AcceptFrame(t)
    <3>1. /\ g.type = "file_accept" => g = AcceptFrame(t)
          /\ g.type = "file_reject" => g = RejectFrame(t)
          /\ g.type = "file_complete_ack" => g.success \in BOOLEAN /\ g = AckFrame(t, g.success)
      BY <1>2, <1>5, FrameKinds, Zenon
    <3>2. AcceptFrame(t).type = "file_accept"
      BY FrameFacts, Zenon
    <3> QED
      BY <3>1, <3>2, Zenon
  <2>2. On[t] = l
    BY <1>3, <1>5, Zenon
  <2> QED
    BY <1>1, <2>1, <2>2, Zenon DEF DroppedAt, AcceptOut, RejectOut, GoodAckOut, OneAccept
<1> QED
  BY <1>2, <1>3, <1>4, <1>5, Zenon

-----------------------------------------------------------------------------
(* The life of one transfer.                                               *)

\* The receiver is through with t, and its copy is complete and as offered.
Settled(t) == got[t] \notin {"none", "asked", "receiving"} /\ Complete(t)

\* What keeps a receiver waiting on an open connection.
Pending(t) ==
    \/ sent[t] = "sending"
    \/ AcceptOut(t)
    \/ DoneOut(t)
    \/ t \in early
    \/ edit[t] = "gone"

TransferInv(t) ==
    /\ OfferOut(t) => got[t] = "none" /\ sent[t] # "new"
    /\ OneOffer(t)
    /\ AcceptOut(t) => got[t] \notin Unaccepted /\ sent[t] \in {"offering", "offered"}
    /\ OneAccept(t)
    /\ RejectOut(t) => got[t] = "rejected"
    /\ GoodAckOut(t) \/ ack[t] = "good" \/ sent[t] = "done" \/ got[t] \in {"verified", "done"} => Settled(t)
    /\ sent[t] = "new" => got[t] = "none"
    /\ got[t] \in {"none", "asked"} => sent[t] \in {"new", "offering", "offered", "unsent"}
    /\ sent[t] = "unsent" => ~up[On[t]]
    /\ got[t] = "receiving" /\ up[On[t]] => Pending(t)

TransfersInv == \A t \in Transfer : TransferInv(t)

\* What a step leaves alone of transfer t at its sender, and at its receiver.
SenderQuiet(t) == /\ sent'[t] = sent[t] /\ ack'[t] = ack[t] /\ edit'[t] = edit[t]
                  /\ t \in early => t \in early'
ReceiverQuiet(t) == got'[t] = got[t] /\ written'[t] = written[t]

LEMMA QuietStep ==
    ASSUME NEW t \in Transfer, TransferInv(t), SenderQuiet(t), ReceiverQuiet(t),
           up'[On[t]] = up[On[t]], DataSame(t), BackSame(t)
    PROVE  TransferInv(t)'
<1>1. Complete(t)' <=> Complete(t)
  BY DEF ReceiverQuiet, Complete
<1>2. Settled(t)' <=> Settled(t)
  BY <1>1, Zenon DEF ReceiverQuiet, Settled
<1>3. Pending(t) => Pending(t)'
  BY Zenon DEF SenderQuiet, DataSame, BackSame, Pending
<1> QED
  BY <1>2, <1>3, ZenonT(60) DEF TransferInv, SenderQuiet, ReceiverQuiet, DataSame, BackSame

\* A closed connection carries nothing.
LEMMA ClosedIsEmpty ==
    ASSUME Wires, NEW t \in Transfer, ~up[On[t]]
    PROVE  ~OfferOut(t) /\ ~DoneOut(t) /\ ~AcceptOut(t) /\ ~RejectOut(t) /\ ~GoodAckOut(t)
<1>1. data[On[t]] = <<>> /\ back[On[t]] = <<>>
  BY TransferAssumption DEF Wires, Carries
<1> QED
  BY <1>1, EmptyWire, Zenon DEF OfferOut, DoneOut, AcceptOut, RejectOut, GoodAckOut

LEMMA OfferFileStep ==
    ASSUME StateTypes, Wires, TransfersInv, NEW t \in Transfer, OfferFile(t)
    PROVE  TransfersInv'
<1> USE DEF receiverVars
<1>1. /\ sent[t] = "new" /\ UNCHANGED <<ack, edit, early, got, written, back, up>>
      /\ \A u \in Transfer : u # t => sent'[u] = sent[u]
      /\ \/ up[On[t]] /\ sent'[t] = "offering" /\ data' = Put(data, On[t], OfferFrame(t))
         \/ ~up[On[t]] /\ sent'[t] = "unsent" /\ data' = data
  BY ZenonT(60) DEF OfferFile, StateTypes, OfferFrame
<1>2. OfferFrame(t) \in DataFrame /\ OfferFrame(t).id = t
  BY FrameFacts, Zenon
<1>3. \A u \in Transfer : u # t => DataSame(u)
  BY <1>1, <1>2, SendsData, DataStays, Zenon
<1>4. (DoneOut(t)' <=> DoneOut(t)) /\ (OneOffer(t)' \/ OfferOut(t))
  BY <1>1, <1>2, SendsData, DataStays, ZenonT(60) DEF DataSame, TransfersInv, TransferInv
<1>5. \A u \in Transfer : BackSame(u)
  BY <1>1, BackStays, Zenon
<1>6. ASSUME NEW u \in Transfer, u # t PROVE TransferInv(u)'
  <2>1. SenderQuiet(u) /\ ReceiverQuiet(u) /\ up'[On[u]] = up[On[u]]
    BY <1>1, <1>6, Zenon DEF SenderQuiet, ReceiverQuiet
  <2> QED
    BY <1>3, <1>5, <1>6, <2>1, QuietStep, Zenon DEF TransfersInv
<1>7. TransferInv(t)'
  <2>1. TransferInv(t)
    BY DEF TransfersInv
  <2>2. BackSame(t) /\ (Settled(t)' <=> Settled(t)) /\ got'[t] = got[t] /\ ack'[t] = ack[t] /\ up'[On[t]] = up[On[t]]
    BY <1>1, <1>5, Zenon DEF Settled, Complete
  <2>3. OfferOut(t)' => sent'[t] # "new"
    BY <1>1, Zenon
  <2> QED
    BY <1>1, <1>4, <2>1, <2>2, <2>3, Zenon DEF TransferInv, BackSame
<1> QED
  BY <1>6, <1>7 DEF TransfersInv

\* The steps of a sender that touch no wire.
LEMMA SenderStep ==
    ASSUME StateTypes, Wires, TransfersInv, NEW t \in Transfer,
           OfferSent(t) \/ EditFile(t) \/ SendFails(t) \/ DoneSent(t) \/ AckWaitEnds(t)
    PROVE  TransfersInv'
<1> USE DEF receiverVars, wires
<1>1. /\ UNCHANGED <<ack, early, got, written, data, back, up>>
      /\ \A u \in Transfer : u # t => sent'[u] = sent[u] /\ edit'[u] = edit[u]
      /\ \/ sent[t] = "offering" /\ sent'[t] \in {"offered", "unsent"} /\ (sent'[t] = "unsent" => ~up[On[t]]) /\ edit'[t] = edit[t]
         \/ sent'[t] = sent[t] /\ edit[t] = "none"
         \/ /\ sent[t] \in {"sending", "finishing"} /\ sent'[t] = "failed"
            /\ (edit[t] = "gone" \/ ~up[On[t]]) /\ edit'[t] = edit[t]
         \/ sent[t] = "finishing" /\ sent'[t] = "awaiting_ack" /\ edit'[t] = edit[t]
         \/ sent[t] = "awaiting_ack" /\ sent'[t] \in {"done", "failed"} /\ (sent'[t] = "done" => ack[t] = "good") /\ edit'[t] = edit[t]
  <2>1. CASE OfferSent(t)
    BY <2>1, Zenon DEF OfferSent, StateTypes
  <2>2. CASE EditFile(t)
    BY <2>2, Zenon DEF EditFile, StateTypes
  <2>3. CASE SendFails(t)
    BY <2>3, Zenon DEF SendFails, Unreadable, StateTypes
  <2>4. CASE AckWaitEnds(t)
    BY <2>4, Zenon DEF AckWaitEnds, StateTypes
  <2>5. CASE DoneSent(t)
    BY <2>5, Zenon DEF DoneSent, StateTypes
  <2> QED
    BY <2>1, <2>2, <2>3, <2>4, <2>5, Zenon
<1>2. \A u \in Transfer : DataSame(u) /\ BackSame(u)
  BY <1>1, DataStays, BackStays, Zenon
<1>3. ASSUME NEW u \in Transfer, u # t PROVE TransferInv(u)'
  <2>1. SenderQuiet(u) /\ ReceiverQuiet(u) /\ up'[On[u]] = up[On[u]]
    BY <1>1, <1>3, Zenon DEF SenderQuiet, ReceiverQuiet
  <2> QED
    BY <1>2, <1>3, <2>1, QuietStep, Zenon DEF TransfersInv
<1>4. TransferInv(t)'
  <2>1. TransferInv(t)
    BY DEF TransfersInv
  <2>2. (Settled(t)' <=> Settled(t)) /\ got'[t] = got[t] /\ ack'[t] = ack[t] /\ up'[On[t]] = up[On[t]] /\ early' = early
    BY <1>1, Zenon DEF Settled, Complete
  <2>3. DataSame(t) /\ BackSame(t)
    BY <1>2
  <2>4. ~up[On[t]] => ~AcceptOut(t)
    BY ClosedIsEmpty, Zenon
  <2> QED
    BY <1>1, <2>1, <2>2, <2>3, <2>4, ZenonT(60) DEF TransferInv, DataSame, BackSame, Pending
<1> QED
  BY <1>3, <1>4 DEF TransfersInv

LEMMA SendDataStep ==
    ASSUME StateTypes, Wires, TransfersInv, NEW t \in Transfer, SendChunk(t) \/ SendDone(t)
    PROVE  TransfersInv'
<1> USE DEF receiverVars
<1>1. /\ UNCHANGED <<ack, early, edit, got, written, back, up>>
      /\ \A u \in Transfer : u # t => sent'[u] = sent[u]
      /\ sent[t] = "sending"
  BY Zenon DEF SendChunk, SendDone, StateTypes
<1>2. \A u \in Transfer : BackSame(u)
  BY <1>1, BackStays, Zenon
<1>3. /\ \A u \in Transfer : u # t => DataSame(u)
      /\ OfferOut(t)' <=> OfferOut(t)
      /\ OneOffer(t)'
      /\ DoneOut(t) => DoneOut(t)'
      /\ \/ sent'[t] = sent[t]
         \/ sent'[t] = "finishing" /\ (up[On[t]] => DoneOut(t)')
  <2>1. CASE SendChunk(t)
    <3>1. PICK i \in Nat, b \in BOOLEAN : data' = Put(data, On[t], ChunkFrame(t, i, b))
      <4>1. next[t] \in Nat
        BY Zenon DEF StateTypes
      <4>2. (edit[t] # "changed" /\ next[t] < Size[t]) \in BOOLEAN
        OBVIOUS
      <4> QED
        BY <2>1, <4>1, <4>2, Zenon DEF SendChunk, ChunkFrame
    <3>2. ChunkFrame(t, i, b) \in DataFrame /\ ChunkFrame(t, i, b).id = t /\ ChunkFrame(t, i, b).type = "file_data"
      BY FrameFacts, SMTT(30)
    <3>3. \A u \in Transfer : DataSame(u)
      BY <3>1, <3>2, SendsData, Zenon
    <3>4. sent'[t] = sent[t]
      BY <2>1, Zenon DEF SendChunk
    <3> QED
      BY <3>3, <3>4, Zenon DEF DataSame, TransfersInv, TransferInv
  <2>2. CASE SendDone(t)
    <3>1. DoneFrame(t) \in DataFrame /\ DoneFrame(t).id = t
      BY FrameFacts, Zenon
    <3>2. /\ sent'[t] = "finishing"
          /\ \/ data' = Put(data, On[t], DoneFrame(t))
             \/ ~up[On[t]] /\ data' = data
      BY <2>2, Zenon DEF SendDone, StateTypes, DoneFrame
    <3>3. CASE data' = Put(data, On[t], DoneFrame(t))
      BY <3>1, <3>2, <3>3, SendsData, Zenon DEF TransfersInv, TransferInv
    <3>4. CASE ~up[On[t]] /\ data' = data
      <4>1. \A u \in Transfer : DataSame(u)
        BY <3>4, DataStays, Zenon
      <4> QED
        BY <3>2, <3>4, <4>1, Zenon DEF DataSame, TransfersInv, TransferInv
    <3> QED
      BY <3>2, <3>3, <3>4, Zenon
  <2> QED
    BY <2>1, <2>2, Zenon
<1>4. ASSUME NEW u \in Transfer, u # t PROVE TransferInv(u)'
  <2>1. SenderQuiet(u) /\ ReceiverQuiet(u) /\ up'[On[u]] = up[On[u]]
    BY <1>1, <1>4, Zenon DEF SenderQuiet, ReceiverQuiet
  <2> QED
    BY <1>2, <1>3, <1>4, <2>1, QuietStep, Zenon DEF TransfersInv
<1>5. TransferInv(t)'
  <2>1. TransferInv(t)
    BY DEF TransfersInv
  <2>2. (Settled(t)' <=> Settled(t)) /\ got'[t] = got[t] /\ ack'[t] = ack[t] /\ edit'[t] = edit[t] /\ up'[On[t]] = up[On[t]] /\ early' = early
    BY <1>1, Zenon DEF Settled, Complete
  <2>3. BackSame(t)
    BY <1>2
  <2> QED
    BY <1>1, <1>3, <2>1, <2>2, <2>3, Zenon DEF TransferInv, BackSame, Pending
<1> QED
  BY <1>4, <1>5 DEF TransfersInv

LEMMA UserStep ==
    ASSUME StateTypes, Wires, TransfersInv, NEW t \in Transfer, UserAnswers(t)
    PROVE  TransfersInv'
<1> USE DEF senderVars
<1>1. /\ UNCHANGED <<sent, ack, early, edit, written, data, up>> /\ got[t] = "asked"
      /\ \A u \in Transfer : u # t => got'[u] = got[u]
      /\ \/ got'[t] = "receiving" /\ Reply(On[t], AcceptFrame(t))
         \/ got'[t] = "rejected" /\ Reply(On[t], RejectFrame(t))
  BY ZenonT(60) DEF UserAnswers, Accept, Decline, StateTypes, AcceptFrame, RejectFrame
<1>2. /\ AcceptFrame(t) \in BackFrame /\ AcceptFrame(t).id = t
      /\ RejectFrame(t) \in BackFrame /\ RejectFrame(t).id = t
  BY FrameFacts, Zenon
<1>3. \A u \in Transfer : DataSame(u)
  BY <1>1, DataStays, Zenon
<1>4. \A u \in Transfer : u # t => BackSame(u)
  BY <1>1, <1>2, SendsBack, Zenon
<1>5. ASSUME NEW u \in Transfer, u # t PROVE TransferInv(u)'
  <2>1. SenderQuiet(u) /\ ReceiverQuiet(u) /\ up'[On[u]] = up[On[u]]
    BY <1>1, <1>5, Zenon DEF SenderQuiet, ReceiverQuiet
  <2> QED
    BY <1>3, <1>4, <1>5, <2>1, QuietStep, Zenon DEF TransfersInv
<1>6. TransferInv(t)'
  <2>1. TransferInv(t)
    BY DEF TransfersInv
  <2>2. sent'[t] = sent[t] /\ ack'[t] = ack[t] /\ up'[On[t]] = up[On[t]] /\ DataSame(t)
    BY <1>1, <1>3, Zenon
  <2>3. ~AcceptOut(t) /\ ~RejectOut(t) /\ ~OfferOut(t) /\ ~Settled(t)
    BY <1>1, <2>1, Zenon DEF TransferInv, Settled, Unaccepted
  <2>4. CASE got'[t] = "receiving" /\ Reply(On[t], AcceptFrame(t))
    <3>1. /\ up[On[t]] => AcceptOut(t)'
          /\ ~up[On[t]] => BackSame(t)
          /\ RejectOut(t)' <=> RejectOut(t)
          /\ GoodAckOut(t)' <=> GoodAckOut(t)
          /\ ~ AcceptOut(t) /\ OneAccept(t) => OneAccept(t)'
      BY <1>2, <2>4, SendsBack, Zenon
    <3>2. up[On[t]] => sent[t] \in {"offering", "offered"}
      BY <1>1, <2>1, Zenon DEF TransferInv
    <3> QED
      BY <1>1, <2>1, <2>2, <2>3, <2>4, <3>1, <3>2, Zenon DEF TransferInv, DataSame, BackSame, Pending, Unaccepted
  <2>5. CASE got'[t] = "rejected" /\ Reply(On[t], RejectFrame(t))
    <3>1. /\ AcceptOut(t)' <=> AcceptOut(t)
          /\ GoodAckOut(t)' <=> GoodAckOut(t)
          /\ OneAccept(t) => OneAccept(t)'
      BY <1>2, <2>5, SendsBack, Zenon
    <3> QED
      BY <1>1, <2>1, <2>2, <2>3, <2>5, <3>1, Zenon DEF TransferInv, DataSame
  <2> QED
    BY <1>1, <2>4, <2>5, Zenon
<1> QED
  BY <1>5, <1>6 DEF TransfersInv

LEMMA FinishStep ==
    ASSUME StateTypes, Wires, TransfersInv, NEW t \in Transfer, FinishDone(t) \/ HandlerRaises(t)
    PROVE  TransfersInv'
<1> USE DEF senderVars, wires
<1>1. /\ UNCHANGED <<sent, ack, early, edit, written, data, back, up>>
      /\ \A u \in Transfer : u # t => got'[u] = got[u]
      /\ got[t] \in {"verified", "mismatch"}
      /\ got'[t] \in {"failed", "raised", "done"} /\ (got'[t] = "done" => got[t] = "verified")
  BY ZenonT(60) DEF FinishDone, HandlerRaises, StateTypes
<1>2. \A u \in Transfer : DataSame(u) /\ BackSame(u)
  BY <1>1, DataStays, BackStays, Zenon
<1>3. ASSUME NEW u \in Transfer, u # t PROVE TransferInv(u)'
  <2>1. SenderQuiet(u) /\ ReceiverQuiet(u) /\ up'[On[u]] = up[On[u]]
    BY <1>1, <1>3, Zenon DEF SenderQuiet, ReceiverQuiet
  <2> QED
    BY <1>2, <1>3, <2>1, QuietStep, Zenon DEF TransfersInv
<1>4. TransferInv(t)'
  <2>1. TransferInv(t)
    BY DEF TransfersInv
  <2>2. sent'[t] = sent[t] /\ ack'[t] = ack[t] /\ up'[On[t]] = up[On[t]] /\ DataSame(t) /\ BackSame(t)
    BY <1>1, <1>2, Zenon
  <2>3. Settled(t) => Settled(t)'
    BY <1>1, Zenon DEF Settled, Complete
  <2> QED
    BY <1>1, <2>1, <2>2, <2>3, Zenon DEF TransferInv, DataSame, BackSame, Unaccepted
<1> QED
  BY <1>3, <1>4 DEF TransfersInv

LEMMA SenderReadsStep ==
    ASSUME StateTypes, Wires, TransfersInv, NEW l \in Link, SenderReads(l)
    PROVE  TransfersInv'
<1> USE DEF receiverVars
<1>g. PICK g : g = Head(back[l])
  OBVIOUS
<1>t. PICK t : t = g.id
  OBVIOUS
<1>1. /\ up[l] /\ back[l] # <<>> /\ back' = [back EXCEPT ![l] = Tail(back[l])]
      /\ UNCHANGED <<edit, got, written, data, up>>
      /\ early' = EarlyAfter(g)
  BY <1>g, Zenon DEF SenderReads
<1>2. /\ g \in BackFrame /\ t \in Transfer /\ On[t] = l
      /\ \A u \in Transfer : u # t => BackSame(u)
      /\ OneAccept(t) => OneAccept(t)'
      /\ RejectOut(t)' => RejectOut(t)
      /\ GoodAckOut(t)' => GoodAckOut(t)
      /\ AcceptOut(t)' => AcceptOut(t)
      /\ g.type # "file_accept" => (AcceptOut(t)' <=> AcceptOut(t))
      /\ g.type = "file_accept" => AcceptOut(t) /\ (OneAccept(t) => ~ AcceptOut(t)')
      /\ g.type = "file_reject" => RejectOut(t)
      /\ g.type = "file_complete_ack" /\ g.success => GoodAckOut(t)
  <2>1. /\ g \in BackFrame /\ g.id \in Transfer /\ On[g.id] = l
        /\ \A u \in Transfer : u # g.id => BackSame(u)
        /\ \A v \in Transfer : v = g.id =>
             /\ OneAccept(v) => OneAccept(v)'
             /\ RejectOut(v)' => RejectOut(v)
             /\ GoodAckOut(v)' => GoodAckOut(v)
             /\ AcceptOut(v)' => AcceptOut(v)
             /\ g.type # "file_accept" => (AcceptOut(v)' <=> AcceptOut(v))
             /\ g.type = "file_accept" => AcceptOut(v) /\ (OneAccept(v) => ~ AcceptOut(v)')
             /\ g.type = "file_reject" => RejectOut(v)
             /\ g.type = "file_complete_ack" /\ g.success => GoodAckOut(v)
    BY <1>1, <1>g, TakesBack, ZenonT(60)
  <2> QED
    BY <1>t, <2>1, Zenon
<1>3. /\ \A u \in Transfer : u # t => sent'[u] = sent[u] /\ ack'[u] = ack[u]
      /\ t \notin Outgoing => sent'[t] = sent[t] /\ ack'[t] = ack[t]
      /\ t \in Outgoing =>
           /\ sent'[t] = CASE g.type = "file_accept" -> "sending"
                           [] g.type = "file_reject" -> "rejected"
                           [] OTHER -> sent[t]
           /\ ack'[t] = IF g.type # "file_complete_ack" THEN ack[t] ELSE IF g.success THEN "good" ELSE "bad"
  <2>1. IF t \notin Outgoing THEN UNCHANGED <<sent, ack>>
        ELSE /\ sent' = [sent EXCEPT ![t] = CASE g.type = "file_accept" -> "sending"
                                              [] g.type = "file_reject" -> "rejected"
                                              [] OTHER -> sent[t]]
             /\ ack' = [ack EXCEPT ![t] = IF g.type # "file_complete_ack" THEN ack[t]
                                           ELSE IF g.success THEN "good" ELSE "bad"]
    BY <1>g, <1>t, Zenon DEF SenderReads
  <2> QED
    BY <1>2, <2>1, ZenonT(60) DEF StateTypes
<1>4. g.type \in {"file_accept", "file_reject", "file_complete_ack"}
  BY <1>2, FrameKinds, Zenon
<1>5. early \subseteq early' /\ (g.type = "file_accept" /\ sent[t] = "offering" => t \in early')
  BY <1>1, <1>t, Zenon DEF EarlyAfter
<1>6. sent[t] = "offered" => t \in Outgoing
  BY <1>2, Zenon DEF Outgoing
<1>7. t \in Outgoing => sent[t] \in {"offered", "sending", "finishing", "awaiting_ack"}
  BY DEF Outgoing
<1>8. \A u \in Transfer : DataSame(u)
  BY <1>1, DataStays, Zenon
<1>9. ASSUME NEW u \in Transfer, u # t PROVE TransferInv(u)'
  <2>1. SenderQuiet(u) /\ ReceiverQuiet(u) /\ up'[On[u]] = up[On[u]]
    BY <1>1, <1>3, <1>5, <1>9 DEF SenderQuiet, ReceiverQuiet
  <2> QED
    BY <1>2, <1>8, <1>9, <2>1, QuietStep, Zenon DEF TransfersInv
<1>10. TransferInv(t)'
  <2>1. TransferInv(t)
    BY <1>2, Zenon DEF TransfersInv
  <2>2. (Settled(t)' <=> Settled(t)) /\ got'[t] = got[t] /\ edit'[t] = edit[t] /\ up'[On[t]] = up[On[t]] /\ DataSame(t)
    BY <1>1, <1>2, <1>8, Zenon DEF Settled, Complete
  <2>3. CASE g.type = "file_accept"
    <3>1. /\ ack'[t] = ack[t]
          /\ \/ sent'[t] = "sending"
             \/ sent'[t] = "offering" /\ sent[t] = "offering" /\ t \in early'
          /\ ~AcceptOut(t)' /\ OneAccept(t)' /\ got[t] \notin Unaccepted
      <4>1. ~AcceptOut(t)' /\ OneAccept(t)' /\ got[t] \notin Unaccepted /\ sent[t] \in {"offering", "offered"}
        BY <1>2, <2>1, <2>3, Zenon DEF TransferInv
      <4>2. CASE sent[t] = "offered"
        <5>1. t \in Outgoing
          BY <1>6, <4>2
        <5>2. sent'[t] = "sending"
          <6>1. sent'[t] = CASE g.type = "file_accept" -> "sending"
                             [] g.type = "file_reject" -> "rejected"
                             [] OTHER -> sent[t]
            BY <1>3, <5>1, Zenon
          <6>2. g.type # "file_reject"
            BY <2>3
          <6> QED
            BY <2>3, <6>1, <6>2
        <5>3. ack'[t] = ack[t]
          <6>1. ack'[t] = IF g.type # "file_complete_ack" THEN ack[t] ELSE IF g.success THEN "good" ELSE "bad"
            BY <1>3, <5>1, Zenon
          <6> QED
            BY <2>3, <6>1, Zenon
        <5> QED
          BY <4>1, <5>2, <5>3, Zenon
      <4>3. CASE sent[t] = "offering"
        <5>1. t \notin Outgoing
          BY <1>7, <4>3
        <5> QED
          BY <1>3, <1>5, <2>3, <4>1, <4>3, <5>1
      <4> QED
        BY <4>1, <4>2, <4>3, Zenon
    <3> QED
      BY <1>2, <2>1, <2>2, <3>1, Zenon DEF TransferInv, DataSame, Pending, Unaccepted
  <2>4. CASE g.type = "file_reject"
    <3>1. /\ ack'[t] = ack[t] /\ sent'[t] \in {"rejected", sent[t]} /\ got[t] = "rejected"
          /\ ~AcceptOut(t) /\ ~AcceptOut(t)' /\ OneAccept(t)'
      BY <1>2, <1>3, <2>1, <2>4 DEF TransferInv, Unaccepted
    <3> QED
      BY <1>2, <2>1, <2>2, <3>1, Zenon DEF TransferInv, DataSame
  <2>5. CASE g.type = "file_complete_ack"
    <3>1. /\ sent'[t] = sent[t] /\ (ack'[t] = "good" => GoodAckOut(t) \/ ack[t] = "good")
          /\ AcceptOut(t)' <=> AcceptOut(t)
          /\ OneAccept(t)'
      BY <1>2, <1>3, <2>1, <2>5 DEF TransferInv
    <3> QED
      BY <1>2, <1>5, <2>1, <2>2, <3>1, Zenon DEF TransferInv, DataSame, Pending
  <2> QED
    BY <1>4, <2>3, <2>4, <2>5
<1> QED
  BY <1>9, <1>10 DEF TransfersInv

LEMMA HandleOfferStep ==
    ASSUME StateTypes, Wires, TransfersInv, NEW l \in Link, HandleOffer(l)
    PROVE  TransfersInv'
<1> USE DEF senderVars
<1>t. PICK t : t = Head(data[l]).id
  OBVIOUS
<1>1. /\ UNCHANGED <<sent, ack, early, edit, written, up>> /\ ReceiverTakes(l, "file_offer")
      /\ \/ got' = [got EXCEPT ![t] = "rejected"] /\ Reply(l, RejectFrame(t))
         \/ got' = [got EXCEPT ![t] = "asked"] /\ back' = back
  BY <1>t, Zenon DEF HandleOffer, RejectFrame
<1>2. t \in Transfer /\ On[t] = l /\ up[On[t]]
  BY <1>t, <1>1, NextData, ZenonT(60)
<1>3. RejectFrame(t) \in BackFrame /\ RejectFrame(t).id = t
  BY <1>2, FrameFacts, Zenon
<1>4. \A u \in Transfer : u # t => got'[u] = got[u]
  BY <1>1, <1>2, ZenonT(60) DEF StateTypes
<1>5. /\ \A u \in Transfer : u # t => DataSame(u)
      /\ OneOffer(t) => OneOffer(t)'
      /\ DoneOut(t)' <=> DoneOut(t)
      /\ OfferOut(t) /\ (OneOffer(t) => ~ OfferOut(t)')
  <2>1. ReceiverTakes(l, "file_offer")
    BY <1>1
  <2> QED
    BY <1>t, <1>2, <2>1, TakesData, ZenonT(60)
<1>6. \/ got'[t] = "rejected" /\ Reply(On[t], RejectFrame(t))
      \/ got'[t] = "asked" /\ back' = back
  <2>1. \A g : got' = [got EXCEPT ![t] = g] => got'[t] = g
    BY <1>2, ZenonT(60) DEF StateTypes
  <2> QED
    BY <1>1, <1>2, <2>1, Zenon
<1>7. \A u \in Transfer : u # t => BackSame(u)
  <2>1. CASE Reply(On[t], RejectFrame(t))
    BY <1>2, <1>3, <2>1, SendsBack, Zenon
  <2>2. CASE back' = back
    BY <2>2, BackStays, Zenon
  <2> QED
    BY <1>6, <2>1, <2>2, Zenon
<1>8. ASSUME NEW u \in Transfer, u # t PROVE TransferInv(u)'
  <2>1. SenderQuiet(u) /\ ReceiverQuiet(u) /\ up'[On[u]] = up[On[u]]
    BY <1>1, <1>4, <1>8, Zenon DEF SenderQuiet, ReceiverQuiet
  <2> QED
    BY <1>5, <1>7, <1>8, <2>1, QuietStep, Zenon DEF TransfersInv
<1>9. TransferInv(t)'
  <2>1. TransferInv(t)
    BY <1>2, Zenon DEF TransfersInv
  <2>2. sent'[t] = sent[t] /\ ack'[t] = ack[t] /\ up'[On[t]] = up[On[t]]
    BY <1>1, Zenon
  <2>3. /\ got[t] = "none" /\ sent[t] # "new" /\ ~AcceptOut(t) /\ ~RejectOut(t) /\ ~Settled(t)
        /\ ~OfferOut(t)' /\ OneOffer(t)'
    BY <1>5, <2>1, Zenon DEF TransferInv, Settled, Unaccepted
  <2>4. CASE got'[t] = "rejected" /\ Reply(On[t], RejectFrame(t))
    <3>1. /\ AcceptOut(t)' <=> AcceptOut(t)
          /\ GoodAckOut(t)' <=> GoodAckOut(t)
          /\ OneAccept(t) => OneAccept(t)'
      BY <1>2, <1>3, <2>4, SendsBack, Zenon
    <3> QED
      BY <2>1, <2>2, <2>3, <2>4, <3>1, Zenon DEF TransferInv
  <2>5. CASE got'[t] = "asked" /\ back' = back
    <3>1. BackSame(t)
      BY <1>2, <2>5, BackStays, Zenon
    <3> QED
      BY <2>1, <2>2, <2>3, <2>5, <3>1, Zenon DEF TransferInv, BackSame
  <2> QED
    BY <1>6, <2>4, <2>5, Zenon
<1> QED
  BY <1>8, <1>9 DEF TransfersInv

LEMMA HandleChunkStep ==
    ASSUME StateTypes, Wires, TransfersInv, NEW l \in Link, HandleChunk(l)
    PROVE  TransfersInv'
<1> USE DEF senderVars
<1>t. PICK t : t = Head(data[l]).id
  OBVIOUS
<1>1. /\ UNCHANGED <<sent, ack, early, edit, up>> /\ ReceiverTakes(l, "file_data")
      /\ \/ UNCHANGED <<got, written, back>>
         \/ /\ got[t] = "receiving" /\ got' = [got EXCEPT ![t] = "failed"]
            /\ Reply(On[t], AckFrame(t, FALSE)) /\ written' = written
         \/ /\ got[t] = "receiving" /\ written' = [written EXCEPT ![t] = Append(written[t], Head(data[l]).good)]
            /\ UNCHANGED <<got, back>>
  BY <1>t, Zenon DEF HandleChunk, AbortIncoming, AckFrame
<1>2. t \in Transfer /\ On[t] = l /\ up[On[t]]
  BY <1>t, <1>1, NextData, ZenonT(60)
<1>3. AckFrame(t, FALSE) \in BackFrame /\ AckFrame(t, FALSE).id = t
  BY <1>2, FrameFacts, Zenon
<1>4. \A u \in Transfer : DataSame(u)
  BY <1>t, <1>1, <1>2, TakesData, Zenon
<1>5. \A u \in Transfer : BackSame(u)
  <2>1. CASE Reply(On[t], AckFrame(t, FALSE))
    BY <1>2, <1>3, <2>1, SendsBack, Zenon
  <2>2. CASE back' = back
    BY <2>2, BackStays, Zenon
  <2> QED
    BY <1>1, <2>1, <2>2, Zenon
<1>6. /\ \A u \in Transfer : u # t \/ got[t] # "receiving" => ReceiverQuiet(u)
      /\ got[t] = "receiving" => got'[t] \in {"receiving", "failed"}
  BY <1>1, <1>2, ZenonT(60) DEF StateTypes, ReceiverQuiet
<1>7. \A u \in Transfer : SenderQuiet(u) /\ up'[On[u]] = up[On[u]]
  BY <1>1, Zenon DEF SenderQuiet
<1>8. ASSUME NEW u \in Transfer, u # t \/ got[t] # "receiving" PROVE TransferInv(u)'
  BY <1>4, <1>5, <1>6, <1>7, <1>8, QuietStep, Zenon DEF TransfersInv
<1>9. ASSUME got[t] = "receiving" PROVE TransferInv(t)'
  <2>1. TransferInv(t) /\ DataSame(t) /\ BackSame(t) /\ SenderQuiet(t) /\ up'[On[t]] = up[On[t]]
    BY <1>2, <1>4, <1>5, <1>7, Zenon DEF TransfersInv
  <2>2. ~Settled(t) /\ (Pending(t) => Pending(t)')
    BY <1>9, <2>1, Zenon DEF Settled, Pending, SenderQuiet, DataSame, BackSame
  <2> QED
    BY <1>6, <1>9, <2>1, <2>2, Zenon DEF TransferInv, SenderQuiet, DataSame, BackSame, Unaccepted
<1> QED
  BY <1>8, <1>9 DEF TransfersInv

LEMMA HandleDoneStep ==
    ASSUME StateTypes, Wires, TransfersInv, NEW l \in Link, HandleDone(l)
    PROVE  TransfersInv'
<1> USE DEF senderVars
<1>t. PICK t : t = Head(data[l]).id
  OBVIOUS
<1>1. /\ UNCHANGED <<sent, ack, early, edit, written, up>> /\ ReceiverTakes(l, "file_done")
      /\ \/ got[t] # "receiving" /\ UNCHANGED <<got, back>>
         \/ got[t] = "receiving" /\ got' = [got EXCEPT ![t] = "raised"] /\ back' = back
         \/ /\ got[t] = "receiving"
            /\ got' = [got EXCEPT ![t] = IF Verified(t) THEN "verified" ELSE "mismatch"]
            /\ Reply(l, AckFrame(t, Verified(t)))
  BY <1>t, Zenon DEF HandleDone, AckFrame
<1>2. t \in Transfer /\ On[t] = l /\ up[On[t]]
  BY <1>t, <1>1, NextData, ZenonT(60)
<1>3. /\ AckFrame(t, FALSE) \in BackFrame /\ AckFrame(t, FALSE).id = t
      /\ AckFrame(t, TRUE) \in BackFrame /\ AckFrame(t, TRUE).id = t
  BY <1>2, FrameFacts, ZenonT(60)
<1>4. /\ \A u \in Transfer : u # t => got'[u] = got[u]
      /\ \/ got[t] # "receiving" /\ got' = got /\ back' = back
         \/ got[t] = "receiving" /\ got'[t] = "raised" /\ back' = back
         \/ got[t] = "receiving" /\ got'[t] = "verified" /\ Complete(t) /\ Reply(On[t], AckFrame(t, TRUE))
         \/ got[t] = "receiving" /\ got'[t] = "mismatch" /\ Reply(On[t], AckFrame(t, FALSE))
  <2>1. CASE Verified(t)
    <3>1. AckFrame(t, Verified(t)) = AckFrame(t, TRUE) /\ Complete(t)
      BY <2>1, Zenon DEF Verified, AckFrame
    <3> QED
      BY <1>1, <1>2, <2>1, <3>1, ZenonT(60) DEF StateTypes
  <2>2. CASE ~Verified(t)
    <3>1. AckFrame(t, Verified(t)) = AckFrame(t, FALSE)
      <4>1. Verified(t) = FALSE
        BY <2>2 DEF Verified
      <4> QED
        BY <4>1, Zenon
    <3> QED
      BY <1>1, <1>2, <2>2, <3>1, ZenonT(60) DEF StateTypes
  <2> QED
    BY <2>1, <2>2, Zenon
<1>5. /\ \A u \in Transfer : u # t => DataSame(u)
      /\ OneOffer(t) => OneOffer(t)'
      /\ OfferOut(t)' <=> OfferOut(t)
  BY <1>t, <1>1, <1>2, TakesData, ZenonT(60)
<1>6. \A u \in Transfer : u # t => BackSame(u)
  <2>1. CASE Reply(On[t], AckFrame(t, FALSE)) \/ Reply(On[t], AckFrame(t, TRUE))
    BY <1>2, <1>3, <2>1, SendsBack, Zenon
  <2>2. CASE back' = back
    BY <2>2, BackStays
  <2> QED
    BY <1>4, <2>1, <2>2, Zenon
<1>7. /\ AcceptOut(t)' <=> AcceptOut(t)
      /\ RejectOut(t)' <=> RejectOut(t)
      /\ OneAccept(t) => OneAccept(t)'
      /\ GoodAckOut(t)' => GoodAckOut(t) \/ (got'[t] = "verified" /\ Complete(t))
  <2>1. CASE back' = back
    <3>1. BackSame(t)
      BY <1>2, <2>1, BackStays, Zenon
    <3> QED
      BY <3>1 DEF BackSame
  <2>2. CASE Reply(On[t], AckFrame(t, FALSE))
    <3>1. BackSame(t)
      BY <1>2, <1>3, <2>2, SendsBack, Zenon
    <3> QED
      BY <3>1 DEF BackSame
  <2>3. CASE got'[t] = "verified" /\ Complete(t) /\ Reply(On[t], AckFrame(t, TRUE))
    BY <1>2, <1>3, <2>3, SendsBack, Zenon
  <2> QED
    BY <1>4, <2>1, <2>2, <2>3, Zenon
<1>8. ASSUME NEW u \in Transfer, u # t PROVE TransferInv(u)'
  <2>1. SenderQuiet(u) /\ ReceiverQuiet(u) /\ up'[On[u]] = up[On[u]]
    BY <1>1, <1>4, <1>8, Zenon DEF SenderQuiet, ReceiverQuiet
  <2> QED
    BY <1>5, <1>6, <1>8, <2>1, QuietStep, Zenon DEF TransfersInv
<1>9. TransferInv(t)'
  <2>1. TransferInv(t)
    BY <1>2 DEF TransfersInv
  <2>2. sent'[t] = sent[t] /\ ack'[t] = ack[t] /\ up'[On[t]] = up[On[t]] /\ (Complete(t)' <=> Complete(t))
    BY <1>1, Zenon DEF Complete
  <2>3. CASE got[t] # "receiving"
    <3>1. got'[t] = got[t]
      BY <1>4, <2>3, Zenon
    <3>2. (Settled(t)' <=> Settled(t)) /\ (GoodAckOut(t)' => GoodAckOut(t) \/ Settled(t)')
      BY <1>7, <2>2, <3>1, Zenon DEF Settled
    <3> QED
      BY <1>5, <1>7, <2>1, <2>2, <2>3, <3>1, <3>2, Zenon DEF TransferInv
  <2>4. CASE got[t] = "receiving"
    <3>1. got'[t] \in {"raised", "verified", "mismatch"} /\ (got'[t] = "verified" => Complete(t))
      BY <1>4, <2>4, Zenon
    <3>2. ~Settled(t) /\ (got'[t] = "verified" => Settled(t)') /\ (GoodAckOut(t)' => GoodAckOut(t) \/ Settled(t)')
      BY <1>7, <2>2, <2>4, <3>1, Zenon DEF Settled
    <3> QED
      BY <1>5, <1>7, <2>1, <2>2, <2>4, <3>1, <3>2, Zenon DEF TransferInv, Unaccepted
  <2> QED
    BY <2>3, <2>4
<1> QED
  BY <1>8, <1>9 DEF TransfersInv

\* The frames go with the connection.
LEMMA BreakStep ==
    ASSUME StateTypes, Wires, TransfersInv, NEW l \in Link, Break(l)
    PROVE  TransfersInv'
<1> USE DEF senderVars, receiverVars
<1>1. /\ UNCHANGED <<sent, ack, early, edit, got, written>>
      /\ up' = [up EXCEPT ![l] = FALSE]
      /\ data' = [data EXCEPT ![l] = <<>>] /\ back' = [back EXCEPT ![l] = <<>>]
  BY Zenon DEF Break
<1>2. ASSUME NEW u \in Transfer, On[u] # l PROVE TransferInv(u)'
  <2>1. On[u] \in Link
    BY TransferAssumption
  <2>2. up'[On[u]] = up[On[u]] /\ data'[On[u]] = data[On[u]] /\ back'[On[u]] = back[On[u]]
    BY <1>1, <1>2, <2>1, Zenon DEF Wires
  <2>3. SenderQuiet(u) /\ ReceiverQuiet(u)
    BY <1>1, Zenon DEF SenderQuiet, ReceiverQuiet
  <2> QED
    BY <2>2, <2>3, DataStays, BackStays, QuietStep, Zenon DEF TransfersInv
<1>3. ASSUME NEW u \in Transfer, On[u] = l PROVE TransferInv(u)'
  <2>1. data'[On[u]] = <<>> /\ back'[On[u]] = <<>> /\ ~up'[On[u]]
    BY <1>1, <1>3, Zenon DEF Wires
  <2>2. ~OfferOut(u)' /\ ~AcceptOut(u)' /\ ~RejectOut(u)' /\ ~GoodAckOut(u)' /\ OneOffer(u)' /\ OneAccept(u)'
    BY <2>1, EmptyWire, Zenon DEF OfferOut, AcceptOut, RejectOut, GoodAckOut, OneOffer, OneAccept
  <2>3. (Settled(u)' <=> Settled(u)) /\ sent'[u] = sent[u] /\ got'[u] = got[u] /\ ack'[u] = ack[u]
    BY <1>1, Zenon DEF Settled, Complete
  <2>4. TransferInv(u)
    BY DEF TransfersInv
  <2> QED
    BY <2>1, <2>2, <2>3, <2>4, Zenon DEF TransferInv
<1> QED
  BY <1>2, <1>3, Zenon DEF TransfersInv

LEMMA TransfersStep ==
    ASSUME StateTypes, Wires, TransfersInv, [Next]_vars
    PROVE  TransfersInv'
<1>1. CASE UNCHANGED vars \/ \E l \in Link : HandlerReturns(l)
  <2>1. \A t \in Transfer : SenderQuiet(t) /\ ReceiverQuiet(t) /\ up'[On[t]] = up[On[t]] /\ DataSame(t) /\ BackSame(t)
    BY <1>1, DataStays, BackStays, Zenon
       DEF vars, senderVars, receiverVars, wires, HandlerReturns, SenderQuiet, ReceiverQuiet
  <2> QED
    BY <2>1, QuietStep, Zenon DEF TransfersInv
<1>2. CASE Next
  <2>1. ASSUME NEW t \in Transfer, OfferFile(t) \/ OfferSent(t) \/ EditFile(t) \/ SendTask(t) PROVE TransfersInv'
    BY <2>1, OfferFileStep, SenderStep, SendDataStep, Zenon DEF SendTask
  <2>2. ASSUME NEW t \in Transfer, UserAnswers(t) \/ FinishDone(t) \/ HandlerRaises(t) PROVE TransfersInv'
    BY <2>2, UserStep, FinishStep, Zenon
  <2>3. ASSUME NEW l \in Link, SenderReads(l) \/ ReceiverReads(l) \/ Break(l) PROVE TransfersInv'
    BY <2>3, SenderReadsStep, HandleOfferStep, HandleChunkStep, HandleDoneStep, BreakStep, Zenon DEF ReceiverReads
  <2> QED
    BY <1>1, <1>2, <2>1, <2>2, <2>3, Zenon DEF Next
<1> QED
  BY <1>1, <1>2

-----------------------------------------------------------------------------
(* What the steps do to the downloads directory.                           *)

\* Unless another accepted transfer resolved its path, a transfer has its
\* ".part" while it is under way and its file when it is done.
Stored ==
    \A t \in Transfer : ~Shares(t) =>
        /\ got[t] \in Active => part[dest[t]] = t
        /\ got[t] = "done" => final[dest[t]] = t

Becomes(t, g) == got' = [got EXCEPT ![t] = g]

Offered(t) ==
    /\ got[t] = "none" /\ UNCHANGED <<part, final>>
    /\ \E g \in {"asked", "rejected"}, k \in Path : Becomes(t, g) /\ dest' = [dest EXCEPT ![t] = k]
Declined(t) ==
    got[t] = "asked" /\ Becomes(t, "rejected") /\ UNCHANGED <<dest, part, final>>
Opened(t) ==
    got[t] = "asked" /\ Becomes(t, "receiving") /\ part' = [part EXCEPT ![dest[t]] = t] /\ UNCHANGED <<dest, final>>
\* The connection is lost and the handler of t raises before it cleans up.
Lost(t) ==
    /\ got[t] \in {"verified", "mismatch"} /\ ~up[On[t]]
    /\ Becomes(t, "raised") /\ UNCHANGED <<dest, part, final>>
\* The handler of t ends and leaves no ".part"; what the path itself names
\* goes, stays or is the ".part" it had.
Ended(t) ==
    /\ got[t] \in Active /\ UNCHANGED dest
    /\ \E g \in {"failed", "raised", "done"} :
         /\ Becomes(t, g)
         /\ g = "done" => part[dest[t]] # NoFile /\ final' = [final EXCEPT ![dest[t]] = part[dest[t]]]
         /\ g # "done" => final' = final \/ final' = [final EXCEPT ![dest[t]] = NoFile]
    /\ \/ part' = [part EXCEPT ![dest[t]] = NoFile]
       \/ part' = part /\ part[dest[t]] = NoFile
Hashed(t) ==
    /\ got[t] = "receiving" /\ UNCHANGED <<dest, part, final>>
    /\ \E g \in {"verified", "mismatch"} : Becomes(t, g)

LEMMA DirectorySteps ==
    ASSUME StateTypes, Wires, TransfersInv, Owned, [Next]_vars
    PROVE  \/ UNCHANGED <<got, dest, part, final>>
           \/ \E t \in Transfer : Offered(t) \/ Declined(t) \/ Opened(t) \/ Ended(t) \/ Hashed(t) \/ Lost(t)
<1> DEFINE Goal == \/ UNCHANGED <<got, dest, part, final>>
                   \/ \E t \in Transfer : Offered(t) \/ Declined(t) \/ Opened(t) \/ Ended(t) \/ Hashed(t) \/ Lost(t)
<1>1. ASSUME NEW t \in Transfer, UserAnswers(t) PROVE Goal
  BY <1>1, Zenon DEF UserAnswers, Accept, Decline, Opened, Declined, Becomes
<1>2. ASSUME NEW t \in Transfer, FinishDone(t) PROVE Goal
  <2>1. UNCHANGED dest
    BY <1>2, Zenon DEF FinishDone
  <2>2. got[t] \in {"mismatch", "verified"}
    BY <1>2, Zenon DEF FinishDone
  <2>3. \/ Becomes(t, "failed") /\ part' = [part EXCEPT ![dest[t]] = NoFile] /\ final' = final
        \/ Becomes(t, "raised") /\ part' = part /\ part[dest[t]] = NoFile /\ final' = final
        \/ /\ Becomes(t, "done") /\ part[dest[t]] # NoFile
           /\ final' = [final EXCEPT ![dest[t]] = part[dest[t]]]
           /\ part' = [part EXCEPT ![dest[t]] = NoFile]
    BY <1>2, Zenon DEF FinishDone, Becomes
  <2>4. Ended(t)
    BY <2>1, <2>2, <2>3, Zenon DEF Ended, Active
  <2> QED
    BY <2>4
<1>3. ASSUME NEW l \in Link, HandleOffer(l) PROVE Goal
  <2>t. PICK t : t = Head(data[l]).id
    OBVIOUS
  <2>1. t \in Transfer /\ ReceiverTakes(l, "file_offer")
    BY <1>3, <2>t, NextData, Zenon DEF HandleOffer
  <2>2. got[t] = "none"
    <3>1. OfferOut(t)
      BY <2>t, <2>1, TakesData, Zenon
    <3> QED
      BY <2>1, <3>1, Zenon DEF TransfersInv, TransferInv
  <2>3. /\ UNCHANGED <<part, final>>
        /\ \/ Becomes(t, "rejected") /\ dest' = dest
           \/ Becomes(t, "asked") /\ dest' = [dest EXCEPT ![t] = ResolvedPath]
    BY <1>3, <2>t, Zenon DEF HandleOffer, Becomes
  <2>4. ResolvedPath \in Path
    BY FreePath, Zenon
  <2>5. dest = [dest EXCEPT ![t] = dest[t]] /\ dest[t] \in Path
    BY <2>1, Zenon DEF StateTypes
  <2>6. Offered(t)
    BY <2>2, <2>3, <2>4, <2>5, Zenon DEF Offered
  <2> QED
    BY <2>1, <2>6, Zenon
<1>4. ASSUME NEW l \in Link, HandleChunk(l) PROVE Goal
  <2>t. PICK t : t = Head(data[l]).id
    OBVIOUS
  <2>1. t \in Transfer
    BY <1>4, <2>t, NextData, Zenon DEF HandleChunk
  <2>2. \/ UNCHANGED <<got, dest, part, final>>
        \/ /\ got[t] = "receiving" /\ Becomes(t, "failed") /\ UNCHANGED dest
           /\ part' = [part EXCEPT ![dest[t]] = NoFile]
           /\ final' = [final EXCEPT ![dest[t]] = NoFile]
    BY <1>4, <2>t, Zenon DEF HandleChunk, AbortIncoming, Becomes
  <2>3. UNCHANGED <<got, dest, part, final>> \/ Ended(t)
    BY <2>2, Zenon DEF Ended, Active
  <2> QED
    BY <2>1, <2>3, Zenon
<1>5. ASSUME NEW l \in Link, HandleDone(l) PROVE Goal
  <2>t. PICK t : t = Head(data[l]).id
    OBVIOUS
  <2>1. t \in Transfer
    BY <1>5, <2>t, NextData, Zenon DEF HandleDone
  <2>2. /\ UNCHANGED <<dest, part, final>>
        /\ \/ got' = got
           \/ got[t] = "receiving" /\ part[dest[t]] = NoFile /\ Becomes(t, "raised")
           \/ got[t] = "receiving" /\ Becomes(t, IF Verified(t) THEN "verified" ELSE "mismatch")
    BY <1>5, <2>t, Zenon DEF HandleDone, Becomes
  <2>3. (IF Verified(t) THEN "verified" ELSE "mismatch") \in {"verified", "mismatch"}
    OBVIOUS
  <2>4. UNCHANGED <<got, dest, part, final>> \/ Ended(t) \/ Hashed(t)
    <3>1. CASE got' = got
      BY <2>2, <3>1, Zenon
    <3>2. CASE got[t] = "receiving" /\ part[dest[t]] = NoFile /\ Becomes(t, "raised")
      BY <2>2, <3>2, Zenon DEF Ended, Active
    <3>3. CASE got[t] = "receiving" /\ Becomes(t, IF Verified(t) THEN "verified" ELSE "mismatch")
      BY <2>2, <2>3, <3>3, Zenon DEF Hashed
    <3> QED
      BY <2>2, <3>1, <3>2, <3>3, Zenon
  <2> QED
    BY <2>1, <2>4
<1>9. ASSUME NEW t \in Transfer, HandlerRaises(t) PROVE Goal
  BY <1>9, Zenon DEF HandlerRaises, Lost, Becomes
<1>6. \/ UNCHANGED <<got, dest, part, final>>
      \/ \E t \in Transfer : UserAnswers(t) \/ FinishDone(t) \/ HandlerRaises(t)
      \/ \E l \in Link : HandleOffer(l) \/ HandleChunk(l) \/ HandleDone(l)
  BY ZenonT(60) DEF Next, vars, senderVars, receiverVars, wires, OfferFile, OfferSent, EditFile, SendTask, SendChunk,
               SendFails, SendDone, DoneSent, AckWaitEnds, SenderReads, ReceiverReads, HandlerReturns, Break
<1> HIDE DEF Goal
<1>7. ASSUME UNCHANGED <<got, dest, part, final>> PROVE Goal
  BY <1>7 DEF Goal
<1>8. Goal
  BY <1>1, <1>2, <1>3, <1>4, <1>5, <1>6, <1>7, <1>9, Zenon
<1> QED
  BY <1>8, Zenon DEF Goal

LEMMA OwnedStep ==
    ASSUME StateTypes, Wires, TransfersInv, Owned, [Next]_vars
    PROVE  Owned'
<1> USE DEF Becomes, Active, Keeping, Unaccepted
<1>0. NoFile \notin Transfer
  BY TransferAssumption
<1>f. \A k \in Path : (part[k] \in Transfer \/ part[k] = NoFile) /\ (final[k] \in Transfer \/ final[k] = NoFile)
  BY Zenon DEF StateTypes
<1>1. CASE UNCHANGED <<got, dest, part, final>>
  BY <1>1, Zenon DEF Owned
<1>2. ASSUME NEW t \in Transfer, Offered(t) PROVE Owned'
  <2>1. UNCHANGED <<part, final>> /\ \A u \in Transfer : u # t => got'[u] = got[u] /\ dest'[u] = dest[u]
    BY <1>2, ZenonT(60) DEF Offered, StateTypes
  <2>2. \A k \in Path : part[k] # t /\ final[k] # t
    BY <1>0, <1>2 DEF Offered, Owned
  <2> QED
    BY <1>f, <2>1, <2>2, ZenonT(60) DEF Owned
<1>3. ASSUME NEW t \in Transfer, Declined(t) PROVE Owned'
  <2>1. UNCHANGED <<dest, part, final>> /\ \A u \in Transfer : u # t => got'[u] = got[u]
    BY <1>3, Zenon DEF Declined, StateTypes
  <2>2. \A k \in Path : part[k] # t /\ final[k] # t
    BY <1>0, <1>3 DEF Declined, Owned
  <2> QED
    BY <1>f, <2>1, <2>2, ZenonT(60) DEF Owned
<1>4. ASSUME NEW t \in Transfer, Opened(t) PROVE Owned'
  <2>1. /\ UNCHANGED <<dest, final>> /\ got'[t] = "receiving" /\ \A u \in Transfer : u # t => got'[u] = got[u]
        /\ dest[t] \in Path /\ part'[dest[t]] = t /\ \A k \in Path : k # dest[t] => part'[k] = part[k]
    BY <1>4, ZenonT(60) DEF Opened, StateTypes
  <2>2. \A k \in Path : part[k] # t /\ final[k] # t
    BY <1>0, <1>4 DEF Opened, Owned
  <2>3. ASSUME NEW k \in Path, part'[k] # NoFile PROVE dest'[part'[k]] = k /\ got'[part'[k]] \in Keeping
    <3>1. CASE k = dest[t]
      BY <2>1, <3>1, Zenon
    <3>2. CASE k # dest[t]
      <4>1. part'[k] = part[k] /\ part[k] # NoFile
        BY <2>1, <2>3, <3>2, Zenon
      <4>2. part[k] \in Transfer /\ part[k] # t /\ dest[part[k]] = k /\ got[part[k]] \in Keeping
        BY <1>f, <2>2, <4>1, Zenon DEF Owned
      <4> QED
        BY <2>1, <4>1, <4>2, Zenon
    <3> QED
      BY <3>1, <3>2, Zenon
  <2>4. ASSUME NEW k \in Path, final'[k] # NoFile PROVE dest'[final'[k]] = k /\ got'[final'[k]] \notin Unaccepted
    <3>1. final[k] \in Transfer /\ final[k] # t /\ dest[final[k]] = k /\ got[final[k]] \notin Unaccepted
      BY <1>f, <2>1, <2>2, <2>4, Zenon DEF Owned
    <3> QED
      BY <2>1, <3>1, Zenon
  <2> QED
    BY <2>3, <2>4, Zenon DEF Owned
<1>5. ASSUME NEW t \in Transfer, Ended(t) PROVE Owned'
  <2>1. /\ UNCHANGED dest /\ got[t] \in Active /\ got'[t] \notin Unaccepted /\ \A u \in Transfer : u # t => got'[u] = got[u]
        /\ dest[t] \in Path /\ part'[dest[t]] = NoFile /\ \A k \in Path : k # dest[t] => part'[k] = part[k]
    BY <1>5, ZenonT(60) DEF Ended, StateTypes
  <2>2. /\ \A k \in Path : k # dest[t] => final'[k] = final[k]
        /\ final'[dest[t]] \in {final[dest[t]], NoFile, part[dest[t]]}
    BY <1>5, <2>1 DEF Ended, StateTypes
  <2>3. ASSUME NEW k \in Path, part'[k] # NoFile PROVE dest'[part'[k]] = k /\ got'[part'[k]] \in Keeping
    <3>1. k # dest[t] /\ part'[k] = part[k] /\ part[k] # NoFile
      BY <2>1, <2>3, Zenon
    <3>2. part[k] \in Transfer /\ dest[part[k]] = k /\ got[part[k]] \in Keeping
      BY <1>f, <3>1, Zenon DEF Owned
    <3> QED
      BY <2>1, <3>1, <3>2, Zenon
  <2>4. ASSUME NEW k \in Path, final'[k] # NoFile PROVE dest'[final'[k]] = k /\ got'[final'[k]] \notin Unaccepted
    <3>1. final'[k] = final[k] \/ final'[k] = part[k]
      BY <2>1, <2>2, <2>4, Zenon
    <3>2. final'[k] \in Transfer /\ dest[final'[k]] = k /\ got[final'[k]] \notin Unaccepted
      <4>1. CASE final'[k] = final[k]
        BY <1>f, <2>4, <4>1, Zenon DEF Owned
      <4>2. CASE final'[k] = part[k]
        <5>1. part[k] \in Transfer /\ dest[part[k]] = k /\ got[part[k]] \in Keeping
          BY <1>f, <2>4, <4>2, Zenon DEF Owned
        <5> QED
          BY <4>2, <5>1, Zenon
      <4> QED
        BY <3>1, <4>1, <4>2, Zenon
    <3> QED
      BY <2>1, <3>2, Zenon
  <2> QED
    BY <2>3, <2>4 DEF Owned
<1>6. ASSUME NEW t \in Transfer, Hashed(t) \/ Lost(t) PROVE Owned'
  <2>1. UNCHANGED <<dest, part, final>> /\ got'[t] \in {"verified", "mismatch", "raised"} /\ \A u \in Transfer : u # t => got'[u] = got[u]
    BY <1>6, ZenonT(60) DEF Hashed, Lost, StateTypes
  <2>2. \A u \in Transfer : /\ got[u] \in Keeping => got'[u] \in Keeping
                            /\ got[u] \notin Unaccepted => got'[u] \notin Unaccepted
    BY <2>1, Zenon
  <2>3. ASSUME NEW k \in Path, part[k] # NoFile PROVE dest[part[k]] = k /\ got'[part[k]] \in Keeping
    <3>1. part[k] \in Transfer /\ dest[part[k]] = k /\ got[part[k]] \in Keeping
      BY <1>f, <2>3, Zenon DEF Owned
    <3> QED
      BY <2>2, <3>1, Zenon
  <2>4. ASSUME NEW k \in Path, final[k] # NoFile PROVE dest[final[k]] = k /\ got'[final[k]] \notin Unaccepted
    <3>1. final[k] \in Transfer /\ dest[final[k]] = k /\ got[final[k]] \notin Unaccepted
      BY <1>f, <2>4, Zenon DEF Owned
    <3> QED
      BY <2>2, <3>1, Zenon
  <2> QED
    BY <2>1, <2>3, <2>4, Zenon DEF Owned
<1> QED
  BY <1>1, <1>2, <1>3, <1>4, <1>5, <1>6, DirectorySteps, Zenon

LEMMA StoredStep ==
    ASSUME StateTypes, Wires, TransfersInv, Owned, Stored, [Next]_vars
    PROVE  Stored'
<1> DEFINE Kept(t) == (got[t] \in Active => part[dest[t]] = t) /\ (got[t] = "done" => final[dest[t]] = t)
<1> SUFFICES ASSUME NEW t \in Transfer, ~Shares(t)' PROVE Kept(t)'
  BY Zenon DEF Stored
<1> USE DEF Becomes, Active, Unaccepted
<1>0. \A u \in Transfer \ {t} : dest'[u] = dest'[t] => got'[u] \in Unaccepted
  BY Zenon DEF Shares
<1>1. CASE UNCHANGED <<got, dest, part, final>>
  BY <1>1, Zenon DEF Stored, Shares
<1>2. ASSUME NEW u \in Transfer, u # t, Offered(u) \/ Declined(u) \/ Opened(u) \/ Ended(u) \/ Hashed(u) \/ Lost(u) PROVE Kept(t)'
  <2>1. /\ got'[t] = got[t] /\ dest'[t] = dest[t] /\ dest[t] \in Path /\ dest[u] \in Path
        /\ \A v \in Transfer : v # u => got'[v] = got[v] /\ dest'[v] = dest[v]
    <3>1. /\ \A v \in Transfer : v # u => got'[v] = got[v]
          /\ \A v \in Transfer : v # u => dest'[v] = dest[v]
      BY <1>2, ZenonT(60) DEF Offered, Declined, Opened, Ended, Hashed, Lost, StateTypes
    <3>2. dest[t] \in Path /\ dest[u] \in Path
      BY Zenon DEF StateTypes
    <3> QED
      BY <1>2, <3>1, <3>2, Zenon
  <2>2. got[u] \notin Unaccepted => got'[u] \notin Unaccepted /\ dest'[u] = dest[u]
    BY <1>2, ZenonT(60) DEF Offered, Declined, Opened, Ended, Hashed, Lost, StateTypes
  <2>3. ~Shares(t)
    BY <1>0, <2>1, <2>2, ZenonT(60) DEF Shares
  <2>4. Opened(u) \/ Ended(u) => dest[u] # dest[t]
    <3>1. Opened(u) \/ Ended(u) => got'[u] \notin Unaccepted /\ dest'[u] = dest[u]
      BY ZenonT(60) DEF Opened, Ended, StateTypes
    <3> QED
      BY <1>0, <1>2, <2>1, <3>1, Zenon
  <2>5. part'[dest[t]] = part[dest[t]] /\ final'[dest[t]] = final[dest[t]]
    BY <1>2, <2>1, <2>4, ZenonT(60) DEF Offered, Declined, Opened, Ended, Hashed, Lost, StateTypes
  <2> QED
    BY <2>1, <2>3, <2>5, Zenon DEF Stored
<1>3. ASSUME Offered(t) \/ Declined(t) PROVE Kept(t)'
  <2>1. got'[t] \in {"asked", "rejected"}
    BY <1>3, Zenon DEF Offered, Declined, StateTypes
  <2> QED
    BY <2>1, Zenon
<1>4. ASSUME Opened(t) PROVE Kept(t)'
  BY <1>4, Zenon DEF Opened, StateTypes
<1>7. ASSUME Lost(t) PROVE Kept(t)'
  BY <1>7, Zenon DEF Lost, StateTypes
<1>5. ASSUME Ended(t) \/ Hashed(t) PROVE Kept(t)'
  <2>1. dest' = dest /\ dest[t] \in Path /\ got[t] \in Active /\ \A v \in Transfer : v # t => got'[v] = got[v]
    BY <1>5, ZenonT(60) DEF Ended, Hashed, StateTypes
  <2>2. ~Shares(t)
    BY <1>0, <2>1, Zenon DEF Shares
  <2>3. part[dest[t]] = t
    BY <2>1, <2>2, Zenon DEF Stored
  <2>4. CASE Ended(t)
    <3>1. PICK g \in {"failed", "raised", "done"} : got'[t] = g /\ (g = "done" => final'[dest[t]] = part[dest[t]])
      BY <2>1, <2>4 DEF Ended, StateTypes
    <3> QED
      BY <2>1, <2>3, <3>1, Zenon
  <2>5. CASE Hashed(t)
    <3>1. got'[t] \in {"verified", "mismatch"} /\ part' = part
      BY <2>5, Zenon DEF Hashed, StateTypes
    <3> QED
      BY <2>1, <2>3, <3>1, Zenon
  <2> QED
    BY <1>5, <2>4, <2>5, Zenon
<1> HIDE DEF Kept
<1>6. ASSUME NEW u \in Transfer, Offered(u) \/ Declined(u) \/ Opened(u) \/ Ended(u) \/ Hashed(u) \/ Lost(u) PROVE Kept(t)'
  BY <1>2, <1>3, <1>4, <1>5, <1>6, <1>7, Zenon
<1> QED
  BY <1>1, <1>6, DirectorySteps, Zenon

\* A connection that is lost is not opened again.
LEMMA UpStays == ASSUME Wires, [Next]_vars, NEW l \in Link, up'[l] PROVE up[l]
<1>1. up' = up \/ \E k \in Link : up' = [up EXCEPT ![k] = FALSE]
  BY ZenonT(60) DEF Next, vars, senderVars, receiverVars, wires, OfferFile, OfferSent, EditFile, SendTask, SendChunk,
               SendFails, SendDone, DoneSent, AckWaitEnds, SenderReads, ReceiverReads, UserAnswers, Accept, Decline,
               FinishDone, HandlerRaises, HandlerReturns, HandleOffer, HandleChunk, HandleDone, Break
<1> QED
  BY <1>1, Zenon DEF Wires

\* A handler that raised left a ".part" only if its connection was lost.
LEMMA LeftBehindStep ==
    ASSUME StateTypes, Wires, TransfersInv, Owned, LeftBehind, [Next]_vars
    PROVE  LeftBehind'
<1> SUFFICES ASSUME NEW k \in Path, part'[k] # NoFile, got'[part'[k]] = "raised" PROVE ~up'[On[part'[k]]]
  BY Zenon DEF LeftBehind
<1> USE DEF Becomes, Active, Unaccepted
<1>f. part[k] \in Transfer \/ part[k] = NoFile
  BY Zenon DEF StateTypes
<1>1. ASSUME part'[k] = part[k], got'[part[k]] = got[part[k]] PROVE ~up'[On[part'[k]]]
  <2>1. part[k] \in Transfer /\ ~up[On[part[k]]]
    BY <1>f, <1>1, Zenon DEF LeftBehind
  <2> QED
    BY <1>1, <2>1, UpStays, TransferAssumption, Zenon
<1>2. CASE UNCHANGED <<got, dest, part, final>>
  BY <1>1, <1>2, Zenon
<1>3. ASSUME NEW t \in Transfer, Offered(t) \/ Declined(t) \/ Opened(t) \/ Hashed(t) PROVE ~up'[On[part'[k]]]
  <2>1. got'[t] # "raised" /\ \A u \in Transfer : u # t => got'[u] = got[u]
    BY <1>3, ZenonT(60) DEF Offered, Declined, Opened, Hashed, StateTypes
  <2>2. part'[k] # t /\ part'[k] = part[k]
    <3>1. part'[k] # t
      BY <2>1, Zenon
    <3>2. dest[t] \in Path /\ (part' = part \/ part' = [part EXCEPT ![dest[t]] = t])
      BY <1>3, Zenon DEF Offered, Declined, Opened, Hashed, StateTypes
    <3> QED
      BY <3>1, <3>2, Zenon DEF StateTypes
  <2>3. part[k] \in Transfer
    BY <1>f, <2>2, Zenon
  <2> QED
    BY <1>1, <2>1, <2>2, <2>3, Zenon
<1>4. ASSUME NEW t \in Transfer, Ended(t) PROVE ~up'[On[part'[k]]]
  <2>1. /\ \A u \in Transfer : u # t => got'[u] = got[u]
        /\ dest[t] \in Path /\ part'[dest[t]] = NoFile /\ (k # dest[t] => part'[k] = part[k])
    BY <1>4, ZenonT(60) DEF Ended, StateTypes
  <2>2. k # dest[t] /\ part'[k] = part[k] /\ part[k] \in Transfer
    BY <1>f, <2>1, Zenon
  <2>3. part[k] # t
    BY <2>2, Zenon DEF Owned
  <2> QED
    BY <1>1, <2>1, <2>2, <2>3, Zenon
<1>5. ASSUME NEW t \in Transfer, Lost(t) PROVE ~up'[On[part'[k]]]
  <2>1. part'[k] = part[k] /\ part[k] \in Transfer /\ ~up[On[t]] /\ \A u \in Transfer : u # t => got'[u] = got[u]
    BY <1>f, <1>5, Zenon DEF Lost, StateTypes
  <2>2. CASE part[k] = t
    BY <2>1, <2>2, UpStays, TransferAssumption, Zenon
  <2>3. CASE part[k] # t
    BY <1>1, <2>1, <2>3, Zenon
  <2> QED
    BY <2>2, <2>3, Zenon
<1> QED
  BY <1>2, <1>3, <1>4, <1>5, DirectorySteps, Zenon

-----------------------------------------------------------------------------
(* The theorems.                                                           *)

Inv == StateTypes /\ Wires /\ TransfersInv /\ Owned /\ LeftBehind /\ Stored

LEMMA InvInit == Init => Inv
<1> SUFFICES ASSUME Init PROVE Inv
  OBVIOUS
<1>1. 0 \in Path
  BY TransferAssumption, FS_CardinalityType DEF Path
<1>2. StateTypes
  <2>1. written \in [Transfer -> Seq(BOOLEAN)] /\ \A t \in Transfer : Len(written[t]) <= Size[t]
    BY TransferAssumption DEF Init
  <2> QED
    BY <1>1, <2>1, Zenon DEF Init, StateTypes
<1>3. \A l \in Link : data[l] = <<>> /\ back[l] = <<>> /\ up[l]
  BY Zenon DEF Init
<1>4. Wires
  <2>1. data \in [Link -> Seq(DataFrame)] /\ back \in [Link -> Seq(BackFrame)] /\ up \in [Link -> BOOLEAN]
    BY DEF Init
  <2> QED
    BY <1>3, <2>1, EmptyWire, Zenon DEF Wires, Carries
<1>5. TransfersInv
  <2> SUFFICES ASSUME NEW t \in Transfer PROVE TransferInv(t)
    BY DEF TransfersInv
  <2>1. data[On[t]] = <<>> /\ back[On[t]] = <<>>
    BY <1>3, TransferAssumption, Zenon
  <2>2. ~OfferOut(t) /\ ~AcceptOut(t) /\ ~RejectOut(t) /\ ~GoodAckOut(t) /\ OneOffer(t) /\ OneAccept(t)
    BY <2>1, EmptyWire, Zenon DEF OfferOut, AcceptOut, RejectOut, GoodAckOut, OneOffer, OneAccept
  <2>3. sent[t] = "new" /\ got[t] = "none" /\ ack[t] = "none"
    BY Zenon DEF Init
  <2> QED
    BY <2>2, <2>3, Zenon DEF TransferInv
<1>6. Owned /\ LeftBehind /\ Stored
  BY Zenon DEF Init, Owned, LeftBehind, Stored, Active
<1> QED
  BY <1>2, <1>4, <1>5, <1>6 DEF Inv

LEMMA InvStep == Inv /\ [Next]_vars => Inv'
<1> SUFFICES ASSUME Inv, [Next]_vars PROVE Inv'
  OBVIOUS
<1>1. StateTypes /\ Wires /\ TransfersInv /\ Owned /\ LeftBehind /\ Stored
  BY DEF Inv
<1>2. next \in [Transfer -> Nat]
  BY <1>1, Zenon DEF StateTypes
<1>3. StateTypes' /\ Wires'
  BY <1>1, <1>2, StateTypesStep, WiresStep, Zenon
<1>4. TransfersInv' /\ Owned' /\ LeftBehind' /\ Stored'
  BY <1>1, TransfersStep, OwnedStep, LeftBehindStep, StoredStep
<1> QED
  BY <1>3, <1>4, Zenon DEF Inv

LEMMA InvHolds == Spec => []Inv
BY InvInit, InvStep, PTL DEF Spec

\* Every variable keeps its type, whatever the sizes and the number of
\* transfers and connections: no transfer's file grows past the offered size
\* (_handle_chunk), and resolve_safe_dest_path always finds a free counter.
THEOREM TypeCorrect == Spec => []TypeOK
<1>1. Inv => TypeOK
  <2> SUFFICES ASSUME Inv PROVE TypeOK
    OBVIOUS
  <2>1. StateTypes /\ data \in [Link -> Seq(DataFrame)] /\ back \in [Link -> Seq(BackFrame)] /\ up \in [Link -> BOOLEAN]
    BY Zenon DEF Inv, Wires
  <2> QED
    BY <2>1, Zenon DEF StateTypes, TypeOK
<1> QED
  BY <1>1, InvHolds, PTL

\* The sender reports success only when the receiver's copy is complete and
\* as it was offered (_handle_complete_ack, _handle_done): a good
\* acknowledgement is sent for a complete copy only, and a copy that is
\* acknowledged is never written again.
THEOREM SuccessIsReal == Spec => []SuccessIsVerified
<1>1. Inv => SuccessIsVerified
  BY Zenon DEF Inv, TransfersInv, TransferInv, Settled, SuccessIsVerified
<1> QED
  BY <1>1, InvHolds, PTL

\* A transfer that the receiver reports done is complete and at its path,
\* unless another accepted transfer had resolved the same path (_handle_offer
\* resolves it before it asks the user, _handle_done replaces what is there).
THEOREM DoneFilesStay == Spec => []DoneIsStored
<1>1. Inv => DoneIsStored
  <2> SUFFICES ASSUME Inv, NEW t \in Transfer, got[t] = "done", ~Shares(t) PROVE final[dest[t]] = t /\ Complete(t)
    BY Zenon DEF DoneIsStored
  <2>1. final[dest[t]] = t
    BY Zenon DEF Inv, Stored
  <2>2. TransferInv(t)
    BY Zenon DEF Inv, TransfersInv
  <2>3. Complete(t)
    BY <2>2, Zenon DEF TransferInv, Settled
  <2> QED
    BY <2>1, <2>3, Zenon
<1> QED
  BY <1>1, InvHolds, PTL

\* A ".part" file belongs to a transfer that is still received or verified;
\* rejected, aborted, corrupt and finished transfers leave none behind
\* (_abort_incoming, _handle_done).  A handler that raised leaves one only
\* where the connection was lost under its last send: sha256_file and the
\* final move raise after the ".part" is gone.
THEOREM PartsAreActive == Spec => []PartIsActive
<1>1. Inv => PartIsActive
  BY Zenon DEF Inv, Owned, LeftBehind, Active, Keeping, PartIsActive
<1> QED
  BY <1>1, InvHolds, PTL

\* A receiver waits in vain on an open connection only after an accept that
\* overtook the registration in offer_file, or for a file that is gone
\* (_handle_accept, _send_chunks).
THEOREM StallsHaveCauses == Spec => []StalledHasCause
<1>1. Inv => StalledHasCause
  <2> SUFFICES ASSUME Inv, NEW t \in Transfer, got[t] = "receiving", up[On[t]]
               PROVE  \/ sent[t] = "sending"
                      \/ \E i \in DOMAIN back[On[t]] : back[On[t]][i] = [type |-> "file_accept", id |-> t]
                      \/ \E i \in DOMAIN data[On[t]] : data[On[t]][i].id = t
                      \/ t \in early
                      \/ edit[t] = "gone"
    BY Zenon DEF StalledHasCause
  <2>1. Pending(t)
    BY Zenon DEF Inv, TransfersInv, TransferInv
  <2>2. /\ data[On[t]] \in Seq(DataFrame) /\ back[On[t]] \in Seq(BackFrame)
    BY TransferAssumption, Zenon DEF Inv, Wires
  <2>3. DOMAIN data[On[t]] = 1..Len(data[On[t]]) /\ DOMAIN back[On[t]] = 1..Len(back[On[t]])
    BY <2>2
  <2>4. AcceptOut(t) => \E i \in DOMAIN back[On[t]] : back[On[t]][i] = [type |-> "file_accept", id |-> t]
    BY <2>3, Zenon DEF AcceptOut, AcceptFrame, Frames
  <2>5. DoneOut(t) => \E i \in DOMAIN data[On[t]] : data[On[t]][i].id = t
    <3>1. DoneFrame(t).id = t
      BY FrameFacts, Zenon
    <3> QED
      BY <2>3, <3>1, Zenon DEF DoneOut, Frames
  <2> QED
    BY <2>1, <2>4, <2>5, Zenon DEF Pending
<1> QED
  BY <1>1, InvHolds, PTL

-----------------------------------------------------------------------------
(* What ends by itself.  The prover does not look into ENABLED: that an    *)
(* action has a step under its guard is a hypothesis.                      *)

CanSend(t) == ENABLED <<SendTask(t)>>_vars

\* A sending task without a connection does not wait in drain, nor does the
\* wait for file_complete_ack depend on anybody.
OnItsOwn(t) == sent[t] = "awaiting_ack" \/ (sent[t] \in {"sending", "finishing"} /\ ~up[On[t]])
SendTaskRuns == \A t \in Transfer : OnItsOwn(t) => CanSend(t)

Uploading == {"sending", "finishing", "awaiting_ack"}

\* What was accepted stays accepted; an upload under way was accepted.
Started == \A t \in Transfer : sent[t] \in Uploading => got[t] \notin Unaccepted

\* What a step does to the sender's side of a transfer that is under way.
LEMMA SentStep ==
    ASSUME Inv, Started, [Next]_vars, NEW t \in Transfer
    PROVE  /\ sent[t] \in Uploading => sent'[t] = sent[t] \/ SendTask(t)
           /\ sent'[t] \in Uploading => sent[t] \in Uploading \/ got[t] \notin Unaccepted
<1> USE DEF Uploading
<1> DEFINE Goal == /\ sent[t] \in Uploading => sent'[t] = sent[t] \/ SendTask(t)
                   /\ sent'[t] \in Uploading => sent[t] \in Uploading \/ got[t] \notin Unaccepted
<1> SUFFICES Goal
  BY Zenon
<1>0. StateTypes /\ Wires /\ TransferInv(t)
  BY DEF Inv, TransfersInv
<1>1. CASE sent' = sent
  BY <1>1, Zenon
<1>2. ASSUME NEW u \in Transfer, OfferFile(u) \/ OfferSent(u) \/ EditFile(u) \/ SendTask(u) PROVE Goal
  <2>1. CASE u = t
    BY <1>0, <1>2, <2>1, ZenonT(60)
       DEF OfferFile, OfferSent, EditFile, SendTask, SendChunk, SendFails, SendDone, DoneSent, AckWaitEnds, StateTypes
  <2>2. CASE u # t
    <3>1. sent'[t] = sent[t]
      BY <1>0, <1>2, <2>2, ZenonT(60)
         DEF OfferFile, OfferSent, EditFile, SendTask, SendChunk, SendFails, SendDone, DoneSent, AckWaitEnds, StateTypes
    <3> QED
      BY <3>1, Zenon
  <2> QED
    BY <2>1, <2>2, Zenon
<1>3. ASSUME NEW l \in Link, SenderReads(l) PROVE Goal
  <2> DEFINE g == Head(back[l])
  <2>1. back[l] # <<>> /\ back' = [back EXCEPT ![l] = Tail(back[l])]
    BY <1>3, Zenon DEF SenderReads
  <2>2. /\ g \in BackFrame /\ g.id \in Transfer
        /\ t = g.id /\ g.type = "file_accept" => AcceptOut(t)
        /\ t = g.id /\ g.type = "file_reject" => RejectOut(t)
    BY <1>0, <2>1, TakesBack, ZenonT(60)
  <2>3. IF g.id \notin Outgoing THEN sent' = sent
        ELSE sent' = [sent EXCEPT ![g.id] = CASE g.type = "file_accept" -> "sending"
                                              [] g.type = "file_reject" -> "rejected"
                                              [] OTHER -> sent[g.id]]
    BY <1>3, Zenon DEF SenderReads
  <2> HIDE DEF g
  <2>4. CASE sent'[t] = sent[t]
    BY <2>4, Zenon
  <2>5. CASE sent'[t] # sent[t]
    <3>1. t = g.id /\ t \in Outgoing
      BY <1>0, <2>2, <2>3, <2>5 DEF StateTypes
    <3>2. sent'[t] = CASE g.type = "file_accept" -> "sending"
                       [] g.type = "file_reject" -> "rejected"
                       [] OTHER -> sent[t]
      BY <1>0, <2>3, <3>1 DEF StateTypes
    <3>3. CASE g.type = "file_accept"
      <4>1. got[t] \notin Unaccepted /\ sent[t] \in {"offering", "offered"}
        BY <1>0, <2>2, <3>1, <3>3, Zenon DEF TransferInv
      <4> QED
        BY <4>1, Zenon
    <3>4. CASE g.type = "file_reject"
      <4>1. got[t] \in Unaccepted
        BY <1>0, <2>2, <3>1, <3>4, Zenon DEF TransferInv, Unaccepted
      <4>2. sent'[t] = "rejected"
        BY <3>2, <3>4
      <4> QED
        BY <4>1, <4>2, Zenon DEF Started
    <3>5. CASE g.type \notin {"file_accept", "file_reject"}
      BY <2>5, <3>2, <3>5
    <3> QED
      BY <3>3, <3>4, <3>5, Zenon
  <2> QED
    BY <2>4, <2>5, Zenon
<1>4. \/ sent' = sent
      \/ \E u \in Transfer : OfferFile(u) \/ OfferSent(u) \/ EditFile(u) \/ SendTask(u)
      \/ \E l \in Link : SenderReads(l)
  BY Zenon DEF Next, vars, senderVars, UserAnswers, Accept, Decline, FinishDone, HandlerRaises, HandlerReturns,
               ReceiverReads, HandleOffer, HandleChunk, HandleDone, Break
<1> QED
  BY <1>1, <1>2, <1>3, <1>4, Zenon

LEMMA StartedHolds == Spec => [](Inv /\ Started)
<1>1. Init => Started
  BY Zenon DEF Init, Started, Uploading
<1>2. Inv /\ Started /\ [Next]_vars => Started'
  <2> SUFFICES ASSUME Inv, Started, [Next]_vars, NEW t \in Transfer, sent'[t] \in Uploading
               PROVE  got'[t] \notin Unaccepted
    BY Zenon DEF Started
  <2>1. got[t] \notin Unaccepted
    BY SentStep, Zenon DEF Started
  <2>2. CASE got' = got
    BY <2>1, <2>2, Zenon
  <2>3. ASSUME NEW u \in Transfer, Offered(u) \/ Declined(u) \/ Opened(u) \/ Ended(u) \/ Hashed(u) \/ Lost(u)
        PROVE  got'[t] \notin Unaccepted
    <3>1. StateTypes
      BY DEF Inv
    <3>2. got[u] \in {"none", "asked"} => u # t
      BY <2>1, Zenon DEF Unaccepted
    <3> QED
      BY <2>1, <2>3, <3>1, <3>2, ZenonT(60)
         DEF Offered, Declined, Opened, Ended, Hashed, Lost, Becomes, StateTypes, Unaccepted
  <2> QED
    BY <2>2, <2>3, DirectorySteps, Zenon DEF Inv
<1> QED
  BY <1>1, <1>2, InvHolds, PTL DEF Spec

\* The wait for file_complete_ack ends, and an upload whose connection is lost
\* ends too, in a report, whether it was in the drain of a chunk or of
\* file_done: a send returns False or raises, or everything was sent and the
\* answer's timeout passes (_send_chunks, COMPLETE_ACK_TIMEOUT).
THEOREM LostUploadEnds ==
    FairSpec /\ []SendTaskRuns
        => \A t \in Transfer : OnItsOwn(t) ~> (sent[t] \in {"done", "failed"})
<1> SUFFICES ASSUME NEW t \in Transfer
             PROVE  FairSpec /\ []SendTaskRuns => (OnItsOwn(t) ~> (sent[t] \in {"done", "failed"}))
  OBVIOUS
<1> DEFINE S == sent[t] = "sending" /\ ~up[On[t]]
           N == sent[t] = "finishing" /\ ~up[On[t]]
           A == sent[t] = "awaiting_ack"
           Q == sent[t] \in {"done", "failed"}
<1>1. Inv /\ [Next]_vars /\ ~up[On[t]] => ~up'[On[t]]
  BY TransferAssumption, UpStays, Zenon DEF Inv
<1>2. Inv /\ S /\ SendTask(t) => N' \/ Q'
  <2> SUFFICES ASSUME Inv, S, SendTask(t) PROVE N' \/ Q'
    BY Zenon
  <2>1. SendFails(t) \/ SendDone(t)
    BY Zenon DEF SendTask, SendChunk, DoneSent, AckWaitEnds
  <2>2. up' = up /\ sent'[t] \in {"failed", "finishing"}
    BY <2>1, Zenon DEF Inv, StateTypes, SendFails, SendDone, wires
  <2> QED
    BY <2>2, Zenon
<1>3. Inv /\ N /\ SendTask(t) => A' \/ Q'
  <2> SUFFICES ASSUME Inv, N, SendTask(t) PROVE A' \/ Q'
    BY Zenon
  <2>1. SendFails(t) \/ DoneSent(t)
    BY Zenon DEF SendTask, SendChunk, SendDone, AckWaitEnds
  <2> QED
    BY <2>1, Zenon DEF Inv, StateTypes, SendFails, DoneSent
<1>4. Inv /\ A /\ SendTask(t) => Q'
  <2> SUFFICES ASSUME Inv, A, SendTask(t) PROVE Q'
    BY Zenon
  <2>1. AckWaitEnds(t)
    BY Zenon DEF SendTask, SendChunk, SendFails, SendDone, DoneSent
  <2> QED
    BY <2>1, Zenon DEF Inv, StateTypes, AckWaitEnds
<1>5. Inv /\ Started /\ S /\ [Next]_vars => S' \/ N' \/ Q'
  BY <1>1, <1>2, SentStep, Zenon DEF Uploading
<1>6. Inv /\ Started /\ N /\ [Next]_vars => N' \/ A' \/ Q'
  BY <1>1, <1>3, SentStep, Zenon DEF Uploading
<1>7. Inv /\ Started /\ A /\ [Next]_vars => A' \/ Q'
  BY <1>4, SentStep, Zenon DEF Uploading
<1>8. (OnItsOwn(t) <=> S \/ N \/ A) /\ (SendTaskRuns => (S \/ N \/ A => CanSend(t)))
  BY Zenon DEF SendTaskRuns, OnItsOwn
<1>9. Fairness => TaskFairness(t)
  BY DEF Fairness
<1>10. TaskFairness(t) => WF_vars(SendTask(t))
  BY PTL DEF TaskFairness
<1> QED
  BY <1>2, <1>3, <1>4, <1>5, <1>6, <1>7, <1>8, <1>9, <1>10, StartedHolds, PTL DEF FairSpec, Spec, CanSend

-----------------------------------------------------------------------------
(* A handler that holds the read loop of its connection.                   *)

\* A handler waits for the user (asked) or in the drain of file_complete_ack.
Held == {"asked", "verified", "mismatch"}
HeldInv == \A t \in Transfer : got[t] \in Held => busy[On[t]] = t

\* What a step does to the handlers.
Idles == UNCHANGED <<got, busy>>
Handles(t) ==
    /\ busy[On[t]] = NoTransfer
    /\ \E g : Becomes(t, g) /\ (busy' = [busy EXCEPT ![On[t]] = t] \/ (g \notin Held /\ busy' = busy))
Answered(t) == got[t] = "asked" /\ busy' = busy /\ \E g \in {"receiving", "rejected"} : Becomes(t, g)
Releases(t) ==
    /\ got[t] \in Held /\ busy' = [busy EXCEPT ![On[t]] = NoTransfer]
    /\ \E g \in {"failed", "raised", "done"} : Becomes(t, g)
Returns(l) ==
    /\ got' = got /\ busy' = [busy EXCEPT ![l] = NoTransfer]
    /\ got[busy[l]] \in {"receiving", "rejected", "failed"}

LEMMA HoldSteps ==
    ASSUME Inv, [Next]_vars
    PROVE  \/ Idles
           \/ \E t \in Transfer : Handles(t) \/ Answered(t) \/ Releases(t)
           \/ \E l \in Link : Returns(l)
<1> DEFINE Goal == \/ Idles
                   \/ \E t \in Transfer : Handles(t) \/ Answered(t) \/ Releases(t)
                   \/ \E l \in Link : Returns(l)
<1>0. StateTypes /\ Wires
  BY DEF Inv
<1>1. ASSUME NEW t \in Transfer, UserAnswers(t) PROVE Goal
  <2>1. Answered(t)
    BY <1>1, Zenon DEF UserAnswers, Accept, Decline, Becomes, Answered
  <2> QED
    BY <2>1, Zenon
<1>2. ASSUME NEW t \in Transfer, FinishDone(t) \/ HandlerRaises(t) PROVE Goal
  <2>1. Releases(t)
    BY <1>2, Zenon DEF FinishDone, HandlerRaises, Becomes, Releases, Held
  <2> QED
    BY <2>1, Zenon
<1>3. ASSUME NEW l \in Link, HandleOffer(l) \/ HandleChunk(l) \/ HandleDone(l) PROVE Goal
  <2>t. PICK t : t = Head(data[l]).id
    OBVIOUS
  <2>1. t \in Transfer /\ On[t] = l /\ busy[l] = NoTransfer
    BY <1>3, <1>0, <2>t, NextData, Zenon DEF HandleOffer, HandleChunk, HandleDone, ReceiverTakes
  <2>2. CASE HandleOffer(l)
    <3>1. busy' = [busy EXCEPT ![l] = t] /\ \E g : Becomes(t, g)
      BY <2>t, <2>2, Zenon DEF HandleOffer, Becomes
    <3> QED
      BY <2>1, <3>1, Zenon DEF Handles
  <2>3. CASE HandleChunk(l)
    <3>1. UNCHANGED <<got, busy>> \/ (busy' = [busy EXCEPT ![On[t]] = t] /\ Becomes(t, "failed"))
      BY <2>t, <2>3, Zenon DEF HandleChunk, AbortIncoming, Becomes
    <3> QED
      BY <2>1, <3>1, Zenon DEF Handles, Idles
  <2>4. CASE HandleDone(l)
    <3>1. \/ UNCHANGED <<got, busy>>
          \/ busy' = busy /\ Becomes(t, "raised")
          \/ busy' = [busy EXCEPT ![l] = t] /\ \E g : Becomes(t, g)
      BY <2>t, <2>4, Zenon DEF HandleDone, Becomes
    <3>2. "raised" \notin Held
      BY DEF Held
    <3> QED
      BY <2>1, <3>1, <3>2, Zenon DEF Handles, Idles
  <2> QED
    BY <1>3, <2>2, <2>3, <2>4, Zenon
<1>4. ASSUME NEW l \in Link, HandlerReturns(l) PROVE Goal
  BY <1>4, Zenon DEF HandlerReturns, Returns
<1>5. \/ UNCHANGED <<got, busy>>
      \/ \E t \in Transfer : UserAnswers(t) \/ FinishDone(t) \/ HandlerRaises(t)
      \/ \E l \in Link : HandleOffer(l) \/ HandleChunk(l) \/ HandleDone(l) \/ HandlerReturns(l)
  BY ZenonT(60) DEF Next, vars, senderVars, receiverVars, wires, OfferFile, OfferSent, EditFile, SendTask, SendChunk,
               SendFails, SendDone, DoneSent, AckWaitEnds, SenderReads, ReceiverReads, Break
<1> HIDE DEF Goal
<1>6. ASSUME UNCHANGED <<got, busy>> PROVE Goal
  BY <1>6, Zenon DEF Idles, Goal
<1>7. Goal
  BY <1>1, <1>2, <1>3, <1>4, <1>5, <1>6, Zenon
<1> QED
  BY <1>7, Zenon DEF Goal

LEMMA HeldStep ==
    ASSUME Inv, HeldInv, [Next]_vars
    PROVE  HeldInv'
<1> SUFFICES ASSUME NEW u \in Transfer, got'[u] \in Held PROVE busy'[On[u]] = u
  BY Zenon DEF HeldInv
<1>0. StateTypes /\ \A t \in Transfer : On[t] \in Link /\ t # NoTransfer
  BY TransferAssumption, Zenon DEF Inv
<1>1. CASE Idles
  BY <1>1, Zenon DEF Idles, HeldInv
<1>2. ASSUME NEW t \in Transfer, Handles(t) PROVE busy'[On[u]] = u
  <2>1. PICK g : /\ Becomes(t, g) /\ busy[On[t]] = NoTransfer
                 /\ busy' = [busy EXCEPT ![On[t]] = t] \/ (g \notin Held /\ busy' = busy)
    BY <1>2, Zenon DEF Handles
  <2>2. CASE u = t
    BY <1>0, <2>1, <2>2, Zenon DEF Becomes, StateTypes
  <2>3. CASE u # t
    <3>1. busy[On[u]] = u
      BY <1>0, <2>1, <2>3, Zenon DEF Becomes, StateTypes, HeldInv
    <3>2. On[u] # On[t]
      BY <1>0, <2>1, <3>1, Zenon
    <3> QED
      BY <1>0, <2>1, <3>1, <3>2, Zenon DEF StateTypes
  <2> QED
    BY <2>2, <2>3, Zenon
<1>3. ASSUME NEW t \in Transfer, Releases(t) PROVE busy'[On[u]] = u
  <2>1. PICK g \in {"failed", "raised", "done"} : Becomes(t, g)
    BY <1>3, Zenon DEF Releases
  <2>2. u # t
    BY <1>0, <2>1, Zenon DEF Becomes, StateTypes, Held
  <2>3. busy[On[u]] = u /\ busy[On[t]] = t
    BY <1>0, <1>3, <2>1, <2>2, Zenon DEF Becomes, StateTypes, HeldInv, Releases
  <2> QED
    BY <1>0, <1>3, <2>2, <2>3, Zenon DEF StateTypes, Releases
<1>4. ASSUME NEW t \in Transfer, Answered(t) PROVE busy'[On[u]] = u
  <2>1. PICK g \in {"receiving", "rejected"} : Becomes(t, g)
    BY <1>4, Zenon DEF Answered
  <2>2. u # t
    BY <1>0, <2>1, Zenon DEF Becomes, StateTypes, Held
  <2> QED
    BY <1>0, <1>4, <2>1, <2>2, Zenon DEF Becomes, StateTypes, HeldInv, Answered
<1>5. ASSUME NEW l \in Link, Returns(l) PROVE busy'[On[u]] = u
  <2>1. busy[On[u]] = u /\ got[busy[l]] \notin Held /\ got[u] \in Held
    BY <1>5, Zenon DEF Returns, HeldInv, Held
  <2>2. On[u] # l
    BY <2>1, Zenon
  <2> QED
    BY <1>0, <1>5, <2>1, <2>2, Zenon DEF Returns, StateTypes
<1> QED
  BY <1>1, <1>2, <1>3, <1>4, <1>5, HoldSteps, Zenon

\* While one offer waits for its user, or one verification for the drain of its
\* answer, no other frame of the same connection reaches a handler, and no
\* other transfer on it is at such a point (_handle_offer and _handle_done are
\* awaited by the read loop).
THEOREM HeldLoopWaits ==
    Spec => /\ []HeldInv
            /\ [][\A t \in Transfer : got[t] \in Held => ~ReceiverReads(On[t])]_vars
<1>1. Init => HeldInv
  BY Zenon DEF Init, HeldInv, Held
<1>2. Inv /\ HeldInv /\ [Next]_vars => HeldInv'
  BY HeldStep
<1>3. HeldInv => \A t \in Transfer : got[t] \in Held => ~ReceiverReads(On[t])
  BY TransferAssumption, ZenonT(60)
     DEF HeldInv, ReceiverReads, HandleOffer, HandleChunk, HandleDone, ReceiverTakes
<1> QED
  BY <1>1, <1>2, <1>3, InvHolds, PTL DEF Spec
===============================================================================
