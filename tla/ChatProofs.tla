----------------------------- MODULE ChatProofs ------------------------------
(***************************************************************************)
(* Proofs about Chat, for any messages, water marks, network capacity and  *)
(* kinds of loss.  The argument goes through _pending: a message is put    *)
(* there once, before its send, and whoever reports on it takes it out     *)
(* first, with the one exception of a send that fails late.  What          *)
(* "delivered" means to the other user goes through the acknowledgement:   *)
(* its writer shows the message next, unless its transport fails.          *)
(***************************************************************************)
EXTENDS Chat, SequenceTheorems, FiniteSetTheorems, TLAPS

Reports == {<<>>, <<"delivered">>, <<"failed">>, <<"delivered", "failed">>}
Outcomes == {"wait", "ok", "reset", "oserror", "refused"}

(* The type of the variables the argument is about; buffers are left to    *)
(* FrameInv.                                                               *)
StatusTypes ==
    /\ call \in [Msg -> {"idle", "sending", "returned", "raised"}]
    /\ drain \in [Msg \cup Node -> {"none", "wait", "ok", "reset", "oserror"}]
    /\ pending \subseteq Msg
    /\ timer \in [Msg -> {"none", "armed", "over"}]
    /\ notified \in [Msg -> Reports]
    /\ lost \in [Node -> {"no", "clean", "reset", "oserror"}]

(* One message: while its call is suspended the drain belongs to the call   *)
(* and no watcher runs; while it is tracked nothing was reported of it.    *)
Consistent(m) ==
    /\ call[m] = "idle" => notified[m] = <<>> /\ m \notin pending
    /\ call[m] = "sending" <=> drain[m] # "none"
    /\ call[m] = "sending" => notified[m] \in {<<>>, <<"delivered">>}
    /\ timer[m] = "armed" => call[m] = "returned"
    /\ m \in pending => notified[m] = <<>>
    /\ m \in pending => call[m] = "sending" \/ timer[m] = "armed" \/ call[m] = "raised"

StatusInv == StatusTypes /\ \A m \in Msg : Consistent(m)

-----------------------------------------------------------------------------
\* The sequences of reports, spelled out.
LEMMA AppendSecond == \A x, y : Append(<<x>>, y) = <<x, y>>
<1> TAKE x, y
<1> DEFINE S == {x, y}
<1>1. <<x>> \in Seq(S) /\ Len(<<x>>) = 1 /\ <<x>>[1] = x
  OBVIOUS
<1>2. <<x, y>> \in Seq(S) /\ Len(<<x, y>>) = 2 /\ <<x, y>>[1] = x /\ <<x, y>>[2] = y
  OBVIOUS
<1>3. y \in S
  OBVIOUS
<1> HIDE DEF S
<1>4. LET s == Append(<<x>>, y) IN s \in Seq(S) /\ Len(s) = 2 /\ s[1] = x /\ s[2] = y
  BY <1>1, <1>3, AppendProperties
<1>5. \A i \in 1..2 : Append(<<x>>, y)[i] = <<x, y>>[i]
  BY <1>2, <1>4
<1> QED
  BY <1>2, <1>4, <1>5, SeqEqual, Zenon

LEMMA Appended ==
    /\ Append(<<>>, "failed") = <<"failed">> /\ Append(<<>>, "delivered") = <<"delivered">>
    /\ Append(<<"delivered">>, "failed") = <<"delivered", "failed">>
    /\ <<"failed">> # <<>> /\ <<"delivered">> # <<>> /\ <<"delivered", "failed">> # <<>>
    /\ <<"failed">> # <<"delivered">>
BY AppendSecond

LEMMA PeerIsNode == \A n \in Node : Peer(n) \in Node
<1> SUFFICES ASSUME NEW n \in Node PROVE \E p \in Node : p # n
  BY DEF Peer
<1>1. SUFFICES ASSUME Node = {n} PROVE FALSE
  OBVIOUS
<1>2. Cardinality(Node) = 1
  BY <1>1, FS_Singleton, Zenon
<1> QED
  BY <1>2, NodeAssumption

LEMMA OutcomeTypes ==
    ASSUME lost \in [Node -> {"no", "clean", "reset", "oserror"}], NEW n \in Node, NEW f
    PROVE  SendOutcomes(n, f) \subseteq Outcomes
BY DEF SendOutcomes, Outcomes

-----------------------------------------------------------------------------
\* send_chat after manager.send: whatever the outcome, a message that is still
\* tracked has a watcher, is suspended, or was left by an exception.
LEMMA AfterSendKeeps ==
    ASSUME StatusInv, NEW m \in Msg, NEW outcome \in Outcomes, NEW tracked,
           tracked \in {pending, pending \cup {m}},
           call[m] = "idle" \/ (call[m] = "sending" /\ tracked = pending),
           AfterSend(m, outcome, tracked), lost' = lost
    PROVE  StatusInv'
<1> DEFINE failed == Append(notified[m], "failed")
<1>1. m \in tracked => notified[m] = <<>>
  BY DEF StatusInv, Consistent
<1>2. notified[m] \in {<<>>, <<"delivered">>}
  BY DEF StatusInv, Consistent
<1>3. failed \in Reports
  BY <1>2, Appended, Zenon DEF Reports
<1>4. notified' = IF outcome \in {"refused", "reset"} THEN [notified EXCEPT ![m] = failed] ELSE notified
  BY DEF AfterSend, Notify
<1> HIDE DEF failed
<1> USE MsgAssumption, NodeAssumption DEF StatusInv, StatusTypes, AfterSend, Outcomes
<1>5. StatusTypes'
  <2>1. notified' \in [Msg -> Reports]
    BY <1>3, <1>4
  <2> QED
    BY <2>1, ZenonT(60)
<1>6. Consistent(m)'
  <2>1. call'[m] # "idle" /\ (m \in pending' => outcome \notin {"refused", "reset"})
    OBVIOUS
  <2>2. call'[m] = "sending" <=> drain'[m] # "none"
    OBVIOUS
  <2>3. outcome \notin {"refused", "reset"} => notified'[m] = notified[m]
    BY <1>4
  <2>4. call'[m] = "sending" => notified'[m] \in {<<>>, <<"delivered">>}
    BY <1>2, <2>3
  <2>5. timer'[m] = "armed" => call'[m] = "returned"
    BY DEF Consistent
  <2>6. m \in pending' => notified'[m] = <<>>
    BY <1>1, <2>1, <2>3
  <2>7. m \in pending' => call'[m] = "sending" \/ timer'[m] = "armed" \/ call'[m] = "raised"
    BY <2>1
  <2> QED
    BY <2>1, <2>2, <2>4, <2>5, <2>6, <2>7 DEF Consistent
<1>7. ASSUME NEW k \in Msg \ {m} PROVE Consistent(k)'
  <2>1. notified'[k] = notified[k]
    BY <1>4
  <2> QED
    BY <1>7, <2>1 DEF Consistent
<1> QED
  BY <1>5, <1>6, <1>7

\* Steps that report nothing and at most wake a suspended call.
LEMMA QuietKeeps ==
    ASSUME StatusInv, UNCHANGED <<call, pending, timer, notified>>,
           drain' \in [Msg \cup Node -> {"none", "wait", "ok", "reset", "oserror"}],
           \A m \in Msg : drain'[m] = "none" <=> drain[m] = "none",
           lost' \in [Node -> {"no", "clean", "reset", "oserror"}]
    PROVE  StatusInv'
BY DEF StatusInv, StatusTypes, Consistent

LEMMA AnswerKeeps ==
    ASSUME StatusInv, NEW n \in Node, NEW f, NEW m, Answer(n, f, m),
           UNCHANGED <<call, pending, timer, notified, lost>>
    PROVE  StatusInv'
<1>1. drain' \in [Msg \cup Node -> {"none", "wait", "ok", "reset", "oserror"}]
  BY DEF Answer, StatusInv, StatusTypes
<1>2. \A k \in Msg : drain'[k] = drain[k]
  BY NodeAssumption DEF Answer, StatusInv, StatusTypes
<1>3. lost' \in [Node -> {"no", "clean", "reset", "oserror"}]
  BY DEF StatusInv, StatusTypes
<1> QED
  BY <1>1, <1>2, <1>3, QuietKeeps

LEMMA WakeKeeps ==
    ASSUME StatusInv, NEW n \in Node, NEW outcome \in {"ok", "reset", "oserror"}, Wake(n, outcome),
           UNCHANGED <<call, pending, timer, notified>>,
           lost' \in [Node -> {"no", "clean", "reset", "oserror"}]
    PROVE  StatusInv'
<1>1. drain' \in [Msg \cup Node -> {"none", "wait", "ok", "reset", "oserror"}]
  BY DEF Wake, StatusInv, StatusTypes
<1>2. \A k \in Msg : drain'[k] = "none" <=> drain[k] = "none"
  BY DEF Wake, StatusInv, StatusTypes
<1> QED
  BY <1>1, <1>2, QuietKeeps

\* A report that goes through _pending: the message leaves it, and with it the
\* last obligation to report.
LEMMA ReportKeeps ==
    ASSUME StatusInv, NEW m \in pending, NEW status \in {"delivered", "failed"},
           pending' = pending \ {m}, Notify(m, status),
           timer' = [timer EXCEPT ![m] = timer'[m]], timer'[m] \in {timer[m], "over"},
           timer[m] # "armed" => status = "delivered",
           UNCHANGED <<call, drain, lost>>
    PROVE  StatusInv'
<1> m \in Msg
  BY DEF StatusInv, StatusTypes
<1>1. notified[m] = <<>> /\ call[m] # "idle"
  BY Appended DEF StatusInv, Consistent
<1>2. notified' = [notified EXCEPT ![m] = <<status>>] /\ <<status>> \in Reports
  BY <1>1, Appended DEF Notify, Reports
<1>3. call[m] = "sending" => <<status>> \in {<<>>, <<"delivered">>}
  BY DEF StatusInv, Consistent
<1> USE DEF StatusInv, StatusTypes
<1>4. StatusTypes'
  BY <1>2
<1>5. ASSUME NEW k \in Msg \ {m} PROVE Consistent(k)'
  <2>1. notified'[k] = notified[k] /\ timer'[k] = timer[k]
    BY <1>2
  <2> QED
    BY <1>5, <2>1 DEF Consistent
<1>6. Consistent(m)'
  <2>1. notified'[m] = <<status>> /\ m \notin pending'
    BY <1>2
  <2>2. call[m] = "sending" <=> drain[m] # "none"
    BY DEF Consistent
  <2>3. timer'[m] = "armed" => call[m] = "returned"
    BY DEF Consistent
  <2> QED
    BY <1>1, <1>3, <2>1, <2>2, <2>3 DEF Consistent
<1> QED
  BY <1>4, <1>5, <1>6

LEMMA StatusStep ==
    ASSUME StatusInv, [Next]_vars
    PROVE  StatusInv'
<1> USE DEF sending, reading, tcp
<1>1. ASSUME NEW m \in Msg, SendChat(m) PROVE StatusInv'
  <2>1. PICK outcome \in SendOutcomes(From[m], [type |-> "chat", id |-> m]) :
            AfterSend(m, outcome, pending \cup {m})
    BY <1>1 DEF SendChat
  <2>2. outcome \in Outcomes
    BY <2>1, OutcomeTypes, MsgAssumption DEF StatusInv, StatusTypes
  <2>3. call[m] = "idle" /\ lost' = lost
    BY <1>1, Zenon DEF SendChat
  <2> QED
    BY <2>1, <2>2, <2>3, AfterSendKeeps
<1>2. ASSUME NEW m \in Msg, SendOversize(m) PROVE StatusInv'
  <2>1. notified[m] = <<>> /\ m \notin pending /\ drain[m] = "none" /\ timer[m] # "armed"
    BY <1>2 DEF SendOversize, StatusInv, StatusTypes, Consistent
  <2>2. notified' = [notified EXCEPT ![m] = <<"failed">>] /\ <<"failed">> \in Reports
    BY <1>2, <2>1, Appended DEF SendOversize, Notify, Reports
  <2>3. StatusTypes'
    BY <1>2, <2>2 DEF SendOversize, StatusInv, StatusTypes
  <2>4. ASSUME NEW k \in Msg PROVE Consistent(k)'
    BY <1>2, <2>1, <2>2 DEF SendOversize, StatusInv, StatusTypes, Consistent
  <2> QED
    BY <2>3, <2>4 DEF StatusInv
<1>3. ASSUME NEW m \in Msg, ResumeSend(m) PROVE StatusInv'
  <2>1. drain[m] \in Outcomes /\ call[m] = "sending"
    BY <1>3 DEF ResumeSend, StatusInv, StatusTypes, Consistent, Outcomes
  <2> QED
    BY <1>3, <2>1, AfterSendKeeps DEF ResumeSend
<1>4. ASSUME NEW m \in Msg, TimeoutWatcher(m) PROVE StatusInv'
  <2>1. timer[m] = "armed" /\ timer' = [timer EXCEPT ![m] = "over"] /\ timer'[m] = "over"
    BY <1>4 DEF TimeoutWatcher, StatusInv, StatusTypes
  <2>2. CASE m \in pending
    <3>1. timer' = [timer EXCEPT ![m] = timer'[m]]
      BY <2>1, Zenon
    <3> QED
      BY <1>4, <2>1, <2>2, <3>1, ReportKeeps, Zenon DEF TimeoutWatcher
  <2>3. CASE m \notin pending
    BY <1>4, <2>1, <2>3 DEF TimeoutWatcher, StatusInv, StatusTypes, Consistent
  <2> QED
    BY <2>2, <2>3
<1>5. ASSUME NEW n \in Node, ReadLoop(n) PROVE StatusInv'
  <2>1. CASE ReceiveChat(n)
    BY <2>1, AnswerKeeps DEF ReceiveChat
  <2>2. CASE ReceiveAck(n)
    <3> DEFINE m == NextFrame(n).id
    <3>1. HandleAck(m) /\ UNCHANGED <<call, drain, lost>>
      BY <2>2 DEF ReceiveAck
    <3> HIDE DEF m
    <3>2. CASE m \in pending
      <4>1. m \in Msg
        BY <3>2 DEF StatusInv, StatusTypes
      <4>2. timer' = [timer EXCEPT ![m] = timer'[m]] /\ timer'[m] \in {timer[m], "over"}
        BY <3>1, <3>2, <4>1 DEF HandleAck, StatusInv, StatusTypes
      <4> QED
        BY <3>1, <3>2, <4>2, ReportKeeps DEF HandleAck
    <3>3. CASE m \notin pending
      BY <3>1, <3>3, ZenonT(60) DEF HandleAck, StatusInv, StatusTypes, Consistent
    <3> QED
      BY <3>2, <3>3
  <2>3. CASE ReceiveOffer(n) \/ ReceiveOther(n) \/ ExitLoop(n)
    BY <2>3, ZenonT(60) DEF ReceiveOffer, ReceiveOther, ExitLoop, StatusInv, StatusTypes, Consistent
  <2>4. CASE ResumeLoop(n)
    <3>1. drain' \in [Msg \cup Node -> {"none", "wait", "ok", "reset", "oserror"}]
      BY <2>4 DEF ResumeLoop, StatusInv, StatusTypes
    <3>2. \A k \in Msg : drain'[k] = drain[k]
      BY <2>4, NodeAssumption DEF ResumeLoop, StatusInv, StatusTypes
    <3> QED
      BY <2>4, <3>1, <3>2, QuietKeeps DEF ResumeLoop, StatusInv, StatusTypes
  <2> QED
    BY <1>5, <2>1, <2>2, <2>3, <2>4 DEF ReadLoop
<1>6. ASSUME NEW n \in Node, UserAnswers(n) PROVE StatusInv'
  BY <1>6, AnswerKeeps DEF UserAnswers
<1>7. ASSUME NEW n \in Node, Flush(n) PROVE StatusInv'
  <2>1. CASE Wake(n, "ok")
    BY <1>7, <2>1, WakeKeeps, Zenon DEF Flush, StatusInv, StatusTypes
  <2>2. CASE UNCHANGED drain
    BY <1>7, <2>2, Zenon DEF Flush, StatusInv, StatusTypes, Consistent
  <2> QED
    BY <1>7, <2>1, <2>2 DEF Flush
<1>8. ASSUME NEW n \in Node, WriteOther(n) PROVE StatusInv'
  BY <1>8, Zenon DEF WriteOther, StatusInv, StatusTypes, Consistent
<1>9. ASSUME NEW n \in Node, ConnectionLost(n) PROVE StatusInv'
  <2>1. PICK how \in LossKind : /\ lost' = [lost EXCEPT ![n] = how]
                                /\ \E outcome \in IF how = "clean" THEN {"ok", "reset"} ELSE {how} : Wake(n, outcome)
    BY <1>9, Zenon DEF ConnectionLost
  <2>2. how \in {"clean", "reset", "oserror"}
    BY KindAssumption
  <2>3. lost' \in [Node -> {"no", "clean", "reset", "oserror"}]
    BY <2>1, <2>2 DEF StatusInv, StatusTypes
  <2>4. PICK outcome \in {"ok", "reset", "oserror"} : Wake(n, outcome)
    BY <2>1, <2>2
  <2> QED
    BY <1>9, <2>3, <2>4, WakeKeeps DEF ConnectionLost
<1>10. CASE Break \/ UNCHANGED vars
  BY <1>10, ZenonT(60) DEF Break, vars, StatusInv, StatusTypes, Consistent
<1> QED
  BY <1>1, <1>2, <1>3, <1>4, <1>5, <1>6, <1>7, <1>8, <1>9, <1>10 DEF Next

LEMMA StatusInit == Init => StatusInv
BY DEF Init, StatusInv, StatusTypes, Consistent, Reports

LEMMA StatusHolds == Spec => []StatusInv
BY StatusInit, StatusStep, PTL DEF Spec

\* A message in _pending is never forgotten but by an exception that leaves
\* send_chat, for any traffic, loss and timing (chat.py, send_chat).
THEOREM PendingIsOwned == Spec => []PendingHasOwner
<1>1. StatusInv => PendingHasOwner
  BY DEF StatusInv, StatusTypes, Consistent, PendingHasOwner
<1> QED
  BY <1>1, StatusHolds, PTL

\* No user is told "delivered" after "failed", or the same thing twice, for any
\* traffic, loss and timing (chat.py, _handle_ack, _timeout_watcher, send_chat).
THEOREM FailedStaysFinal == Spec => []FailedIsFinal
<1>1. StatusInv => FailedIsFinal
  BY DEF StatusInv, StatusTypes, Reports, FailedIsFinal
<1> QED
  BY <1>1, StatusHolds, PTL

-----------------------------------------------------------------------------
(* Frames on their way: a chat frame is one that was sent, an              *)
(* acknowledgement is for a message the peer has taken.                    *)
Genuine ==
    {f \in Frame : /\ f.type = "chat" => call[f.id] # "idle"
                   /\ f.type = "chat_ack" => f.id \in taken}

FrameInv ==
    /\ taken \subseteq Msg
    /\ buf \in [Node -> Seq(Genuine)]
    /\ net \in [Node -> Seq(Genuine)]

LEMMA FrameFields ==
    /\ \A f \in Frame : f.type \in {"chat", "chat_ack"} => f.id \in Msg
    /\ \A m \in Msg : [type |-> "chat", id |-> m] \in Frame /\ [type |-> "chat_ack", id |-> m] \in Frame
    /\ \A t \in {"file_offer", "file_accept", "file_data"} : [type |-> t] \in Frame
BY DEF Frame

\* A genuine frame stays genuine: calls do not go back and nothing is untaken.
LEMMA GenuineGrows ==
    ASSUME taken \subseteq taken', \A m \in Msg : call[m] # "idle" => call'[m] # "idle"
    PROVE  Genuine \subseteq Genuine'
BY FrameFields, Zenon DEF Genuine

LEMMA SequencesGrow ==
    ASSUME FrameInv, Genuine \subseteq Genuine'
    PROVE  buf \in [Node -> Seq(Genuine')] /\ net \in [Node -> Seq(Genuine')]
BY SeqMonotonic DEF FrameInv

\* What a step may do to the frames: nothing, write one, flush, read or drop.
LEMMA WriteKeeps ==
    ASSUME FrameInv, Genuine \subseteq Genuine', NEW n \in Node, NEW f \in Genuine', Write(n, f)
    PROVE  buf' \in [Node -> Seq(Genuine')]
<1>1. buf \in [Node -> Seq(Genuine')]
  BY SequencesGrow
<1>2. Append(buf[n], f) \in Seq(Genuine')
  BY <1>1, AppendProperties
<1> QED
  BY <1>1, <1>2 DEF Write

LEMMA TakeKeeps ==
    ASSUME FrameInv, Genuine \subseteq Genuine', NEW n \in Node, Take(n)
    PROVE  net' \in [Node -> Seq(Genuine')] /\ NextFrame(n) \in Genuine
<1>1. Peer(n) \in Node /\ net[Peer(n)] \in Seq(Genuine) /\ net[Peer(n)] # <<>>
  BY PeerIsNode DEF Take, FrameInv
<1>2. NextFrame(n) \in Genuine
  BY <1>1, HeadTailProperties DEF NextFrame
<1>3. Tail(net[Peer(n)]) \in Seq(Genuine')
  BY <1>1, SequencesGrow, HeadTailProperties
<1> QED
  BY <1>2, <1>3, SequencesGrow, Zenon DEF Take

LEMMA StepsMoveOn ==
    ASSUME StatusInv, [Next]_vars
    PROVE  Genuine \subseteq Genuine'
<1> USE DEF sending, reading, tcp
<1>1. \A m \in Msg : call[m] # "idle" => call'[m] # "idle"
  <2> USE DEF StatusInv, StatusTypes
  <2>1. ASSUME NEW k \in Msg, SendChat(k) \/ SendOversize(k) \/ ResumeSend(k)
        PROVE  \A m \in Msg : call[m] # "idle" => call'[m] # "idle"
    BY <2>1, ZenonT(60) DEF SendChat, SendOversize, ResumeSend, AfterSend
  <2>2. ASSUME ~ \E k \in Msg : SendChat(k) \/ SendOversize(k) \/ ResumeSend(k)
        PROVE  call' = call
    BY <2>2, ZenonT(60) DEF Next, TimeoutWatcher, ReadLoop, ReceiveChat, ReceiveAck, ReceiveOffer, ReceiveOther, ResumeLoop,
          ExitLoop, UserAnswers, Flush, WriteOther, ConnectionLost, Break, vars
  <2> QED
    BY <2>1, <2>2
<1>2. taken \subseteq taken'
  BY ZenonT(60) DEF Next, SendChat, SendOversize, ResumeSend, TimeoutWatcher, ReadLoop, ReceiveChat, ReceiveAck, ReceiveOffer,
        ReceiveOther, ResumeLoop, ExitLoop, UserAnswers, Flush, WriteOther, ConnectionLost, Break, vars
<1> QED
  BY <1>1, <1>2, GenuineGrows

LEMMA FrameStep ==
    ASSUME StatusInv, FrameInv, [Next]_vars
    PROVE  FrameInv'
<1> USE DEF sending, reading, tcp
<1>0. /\ Genuine \subseteq Genuine'
      /\ buf \in [Node -> Seq(Genuine')] /\ net \in [Node -> Seq(Genuine')]
      /\ taken \subseteq Msg
  BY StepsMoveOn, SequencesGrow DEF FrameInv
<1>1. ASSUME NEW m \in Msg, SendChat(m) PROVE FrameInv'
  <2>1. [type |-> "chat", id |-> m] \in Genuine'
    BY <1>1, FrameFields, ZenonT(60) DEF SendChat, AfterSend, Genuine, StatusInv, StatusTypes
  <2>2. Write(From[m], [type |-> "chat", id |-> m]) /\ From[m] \in Node
    BY <1>1, MsgAssumption, Zenon DEF SendChat
  <2>3. buf' \in [Node -> Seq(Genuine')]
    BY <1>0, <2>1, <2>2, WriteKeeps
  <2> QED
    BY <1>0, <1>1, <2>3, Zenon DEF SendChat, FrameInv
<1>2. ASSUME NEW m \in Msg, SendOversize(m) \/ ResumeSend(m) \/ TimeoutWatcher(m) PROVE FrameInv'
  BY <1>0, <1>2, Zenon DEF SendOversize, ResumeSend, TimeoutWatcher, FrameInv
<1>3. ASSUME NEW n \in Node, ReceiveChat(n) PROVE FrameInv'
  <2> DEFINE f == NextFrame(n)
  <2>1. net' \in [Node -> Seq(Genuine')] /\ f \in Genuine
    BY <1>0, <1>3, TakeKeeps, Zenon DEF ReceiveChat
  <2>2. f.type = "chat" /\ taken' = taken \cup {f.id} /\ Write(n, [type |-> "chat_ack", id |-> f.id])
    BY <1>3, Zenon DEF ReceiveChat, Answer
  <2> HIDE DEF f
  <2>3. f.id \in Msg
    BY <2>1, <2>2, FrameFields, Zenon DEF Genuine
  <2>4. [type |-> "chat_ack", id |-> f.id] \in Genuine'
    BY <2>2, <2>3, FrameFields, Zenon DEF Genuine
  <2>5. buf' \in [Node -> Seq(Genuine')]
    BY <1>0, <2>2, <2>4, WriteKeeps
  <2> QED
    BY <1>0, <2>1, <2>2, <2>3, <2>5 DEF FrameInv
<1>4. ASSUME NEW n \in Node, ReceiveAck(n) \/ ReceiveOffer(n) \/ ReceiveOther(n) PROVE FrameInv'
  BY <1>0, <1>4, TakeKeeps, Zenon DEF ReceiveAck, ReceiveOffer, ReceiveOther, FrameInv
<1>5. ASSUME NEW n \in Node, ResumeLoop(n) \/ ExitLoop(n) PROVE FrameInv'
  BY <1>0, <1>5, Zenon DEF ResumeLoop, ExitLoop, FrameInv
<1>6. ASSUME NEW n \in Node, UserAnswers(n) PROVE FrameInv'
  <2>1. [type |-> "file_accept"] \in Genuine'
    BY FrameFields DEF Genuine
  <2>2. Write(n, [type |-> "file_accept"])
    BY <1>6 DEF UserAnswers, Answer
  <2>3. buf' \in [Node -> Seq(Genuine')]
    BY <1>0, <2>1, <2>2, WriteKeeps
  <2> QED
    BY <1>0, <1>6, <2>3 DEF UserAnswers, FrameInv
<1>7. ASSUME NEW n \in Node, Flush(n) PROVE FrameInv'
  <2>1. buf[n] \in Seq(Genuine') /\ buf[n] # <<>> /\ net[n] \in Seq(Genuine')
    BY <1>0, <1>7 DEF Flush
  <2>2. Head(buf[n]) \in Genuine' /\ Tail(buf[n]) \in Seq(Genuine')
    BY <2>1, HeadTailProperties
  <2>3. Append(net[n], Head(buf[n])) \in Seq(Genuine')
    BY <2>1, <2>2, AppendProperties
  <2> QED
    BY <1>0, <1>7, <2>2, <2>3, Zenon DEF Flush, FrameInv
<1>8. ASSUME NEW n \in Node, WriteOther(n) PROVE FrameInv'
  <2>1. PICK t \in OtherKind : Write(n, [type |-> t])
    BY <1>8 DEF WriteOther
  <2>2. [type |-> t] \in Genuine'
    BY KindAssumption, FrameFields, Zenon DEF Genuine
  <2>3. buf' \in [Node -> Seq(Genuine')]
    BY <1>0, <2>1, <2>2, WriteKeeps
  <2> QED
    BY <1>0, <1>8, <2>3 DEF WriteOther, FrameInv
<1>9. ASSUME NEW n \in Node, ConnectionLost(n) PROVE FrameInv'
  <2>1. buf' \in [Node -> Seq(Genuine')]
    BY <1>0, <1>9, EmptySeq DEF ConnectionLost
  <2> QED
    BY <1>0, <1>9, <2>1 DEF ConnectionLost, FrameInv
<1>10. CASE Break \/ UNCHANGED vars
  BY <1>0, <1>10 DEF Break, vars, FrameInv
<1> QED
  BY <1>1, <1>2, <1>3, <1>4, <1>5, <1>6, <1>7, <1>8, <1>9, <1>10, Zenon DEF Next, ReadLoop

LEMMA FrameInit == Init => FrameInv
BY EmptySeq DEF Init, FrameInv

-----------------------------------------------------------------------------
(* The refinement: what the user is told of a message, from what was       *)
(* reported and where its call is.                                         *)
LEMMA LastReport ==
    /\ <<"delivered">>[Len(<<"delivered">>)] = "delivered"
    /\ <<"failed">>[Len(<<"failed">>)] = "failed"
    /\ <<"delivered", "failed">>[Len(<<"delivered", "failed">>)] = "failed"
OBVIOUS

LEMMA Told ==
    ASSUME NEW m \in Msg
    PROVE  /\ notified[m] = <<>> => UserStatus[m] = IF call[m] = "idle" THEN "new" ELSE "sent"
           /\ notified[m] = <<"delivered">> => UserStatus[m] = "delivered"
           /\ notified[m] = <<"failed">> => UserStatus[m] = "failed"
           /\ notified[m] = <<"delivered", "failed">> => UserStatus[m] = "failed"
BY Appended, LastReport, Zenon DEF UserStatus

LEMMA ToldNext ==
    ASSUME NEW m \in Msg
    PROVE  /\ notified'[m] = <<>> => UserStatus'[m] = IF call'[m] = "idle" THEN "new" ELSE "sent"
           /\ notified'[m] = <<"delivered">> => UserStatus'[m] = "delivered"
           /\ notified'[m] = <<"failed">> => UserStatus'[m] = "failed"
           /\ notified'[m] = <<"delivered", "failed">> => UserStatus'[m] = "failed"
BY Appended, LastReport, Zenon DEF UserStatus

\* Where only m was reported on, or its call moved, only its status changes.
LEMMA OthersAsBefore ==
    ASSUME NEW m \in Msg, \A k \in Msg \ {m} : call'[k] = call[k] /\ notified'[k] = notified[k]
    PROVE  UserStatus' = [UserStatus EXCEPT ![m] = UserStatus'[m]]
BY ZenonT(60) DEF UserStatus

\* A call that was made and moves on without a report changes no status.
LEMMA SilentStutters ==
    ASSUME notified' = notified, \A k \in Msg : call'[k] = "idle" <=> call[k] = "idle"
    PROVE  UserStatus' = UserStatus
BY DEF UserStatus

\* A send that ends: submitted, given up, retracted, or nothing new.
LEMMA AfterSendRefines ==
    ASSUME StatusInv, NEW m \in Msg, NEW outcome \in Outcomes, NEW tracked,
           call[m] = "idle" \/ call[m] = "sending",
           AfterSend(m, outcome, tracked), taken' = taken
    PROVE  D!Next \/ UserStatus' = UserStatus
<1> USE DEF StatusInv, StatusTypes
<1>1. /\ call'[m] # "idle"
      /\ \A k \in Msg \ {m} : call'[k] = call[k] /\ notified'[k] = notified[k]
  BY DEF AfterSend, Notify
<1>2. UserStatus' = [UserStatus EXCEPT ![m] = UserStatus'[m]]
  BY <1>1, OthersAsBefore, Zenon
<1>3. CASE call[m] = "idle"
  <2>1. notified[m] = <<>> /\ UserStatus[m] = "new"
    BY <1>3, Told DEF Consistent
  <2>2. notified'[m] \in {<<>>, <<"failed">>}
    BY <2>1, Appended, ZenonT(60) DEF AfterSend, Notify
  <2>3. UserStatus'[m] \in {"sent", "failed"}
    BY <1>1, <2>2, ToldNext, Zenon
  <2>4. D!Submit(m)
    BY <1>2, <2>1, <2>3 DEF D!Submit
  <2> QED
    BY <2>4 DEF D!Next
<1>4. CASE call[m] = "sending" /\ outcome \in {"refused", "reset"}
  <2>1. notified[m] \in {<<>>, <<"delivered">>} /\ notified'[m] = Append(notified[m], "failed")
    BY <1>4 DEF Consistent, AfterSend, Notify
  <2>2. notified'[m] \in {<<"failed">>, <<"delivered", "failed">>}
    BY <2>1, Appended, Zenon
  <2>3. UserStatus[m] \in {"sent", "delivered"} /\ UserStatus'[m] = "failed"
    BY <1>4, <2>1, <2>2, Told, ToldNext, Zenon
  <2>4. D!GiveUp(m) \/ D!Retract(m)
    BY <1>2, <2>3 DEF D!GiveUp, D!Retract
  <2> QED
    BY <2>4 DEF D!Next
<1>5. CASE call[m] = "sending" /\ outcome \notin {"refused", "reset"}
  <2>1. notified' = notified
    BY <1>5 DEF AfterSend
  <2> QED
    BY <1>1, <1>5, <2>1, SilentStutters
<1> QED
  BY <1>3, <1>4, <1>5

\* A report that goes through _pending is the one of a message that was sent.
LEMMA ReportRefines ==
    ASSUME StatusInv, NEW m \in pending, NEW status \in {"delivered", "failed"}, Notify(m, status),
           call' = call, taken' = taken, status = "delivered" => m \in taken
    PROVE  D!Next
<1> m \in Msg
  BY DEF StatusInv, StatusTypes
<1>1. notified[m] = <<>> /\ call[m] # "idle"
  BY Zenon DEF StatusInv, Consistent
<1>2. notified'[m] = <<status>> /\ \A k \in Msg \ {m} : notified'[k] = notified[k]
  BY <1>1, Appended DEF Notify, StatusInv, StatusTypes
<1>3. UserStatus[m] = "sent" /\ UserStatus'[m] = status
  BY <1>1, <1>2, Told, ToldNext
<1>4. UserStatus' = [UserStatus EXCEPT ![m] = status]
  BY <1>2, <1>3, OthersAsBefore, Zenon
<1>5. D!Confirm(m) \/ D!GiveUp(m)
  BY <1>3, <1>4, Zenon DEF D!Confirm, D!GiveUp
<1> QED
  BY <1>5 DEF D!Next

LEMMA DeliveryStep ==
    ASSUME StatusInv, FrameInv, [Next]_vars
    PROVE  D!Next \/ UNCHANGED D!vars
<1> USE DEF sending, reading, tcp, D!vars
<1>1. ASSUME NEW m \in Msg, SendChat(m) PROVE D!Next \/ UNCHANGED D!vars
  <2>1. PICK outcome \in SendOutcomes(From[m], [type |-> "chat", id |-> m]) :
            AfterSend(m, outcome, pending \cup {m})
    BY <1>1, Zenon DEF SendChat
  <2>2. outcome \in Outcomes
    BY <2>1, OutcomeTypes, MsgAssumption DEF StatusInv, StatusTypes
  <2>3. call[m] = "idle" /\ taken' = taken
    BY <1>1, Zenon DEF SendChat
  <2> QED
    BY <2>1, <2>2, <2>3, AfterSendRefines, Zenon
<1>2. ASSUME NEW m \in Msg, SendOversize(m) PROVE D!Next
  <2>1. notified[m] = <<>> /\ call[m] = "idle"
    BY <1>2, Zenon DEF SendOversize, StatusInv, Consistent
  <2>2. /\ notified'[m] = <<"failed">>
        /\ \A k \in Msg \ {m} : call'[k] = call[k] /\ notified'[k] = notified[k]
    BY <1>2, <2>1, Appended, Zenon DEF SendOversize, Notify, StatusInv, StatusTypes
  <2>3. UserStatus[m] = "new" /\ UserStatus'[m] = "failed" /\ taken' = taken
    BY <1>2, <2>1, <2>2, Told, ToldNext, Zenon DEF SendOversize
  <2>4. D!Submit(m)
    BY <2>2, <2>3, OthersAsBefore, Zenon DEF D!Submit
  <2> QED
    BY <2>4 DEF D!Next
<1>3. ASSUME NEW m \in Msg, ResumeSend(m) PROVE D!Next \/ UNCHANGED D!vars
  <2>1. drain[m] \in Outcomes /\ call[m] = "sending"
    BY <1>3, Zenon DEF ResumeSend, StatusInv, StatusTypes, Consistent, Outcomes
  <2>2. AfterSend(m, drain[m], pending) /\ taken' = taken
    BY <1>3, Zenon DEF ResumeSend
  <2> QED
    BY <2>1, <2>2, AfterSendRefines, Zenon
<1>4. ASSUME NEW m \in Msg, TimeoutWatcher(m) PROVE D!Next \/ UNCHANGED D!vars
  <2>1. CASE m \in pending
    BY <1>4, <2>1, ReportRefines DEF TimeoutWatcher
  <2>2. CASE m \notin pending
    BY <1>4, <2>2, SilentStutters DEF TimeoutWatcher
  <2> QED
    BY <2>1, <2>2
<1>5. ASSUME NEW n \in Node, ReceiveChat(n) PROVE D!Next \/ UNCHANGED D!vars
  <2> DEFINE m == NextFrame(n).id
  <2>1. NextFrame(n) \in Genuine
    BY <1>5, StepsMoveOn, TakeKeeps, Zenon DEF ReceiveChat
  <2>2. m \in Msg /\ call[m] # "idle"
    BY <1>5, <2>1, FrameFields, Zenon DEF ReceiveChat, Genuine
  <2>3. taken' = taken \cup {m} /\ call' = call /\ notified' = notified
    BY <1>5 DEF ReceiveChat
  <2> HIDE DEF m
  <2>4. UserStatus' = UserStatus
    BY <2>3, SilentStutters
  <2>5. UserStatus[m] # "new"
    BY <2>2, Told DEF StatusInv, StatusTypes, Reports
  <2>6. D!Receive(m) \/ taken' = taken
    BY <2>3, <2>4, <2>5 DEF D!Receive
  <2> QED
    BY <2>2, <2>4, <2>6 DEF D!Next
<1>6. ASSUME NEW n \in Node, ReceiveAck(n) PROVE D!Next \/ UNCHANGED D!vars
  <2> DEFINE m == NextFrame(n).id
  <2>1. NextFrame(n) \in Genuine
    BY <1>6, StepsMoveOn, TakeKeeps DEF ReceiveAck
  <2>2. m \in taken
    BY <1>6, <2>1, Zenon DEF ReceiveAck, Genuine
  <2>3. HandleAck(m) /\ call' = call /\ taken' = taken
    BY <1>6 DEF ReceiveAck
  <2> HIDE DEF m
  <2>4. CASE m \in pending
    BY <2>2, <2>3, <2>4, ReportRefines DEF HandleAck
  <2>5. CASE m \notin pending
    BY <2>3, <2>5, SilentStutters DEF HandleAck
  <2> QED
    BY <2>4, <2>5
<1>7. CASE \/ \E n \in Node : \/ ReceiveOffer(n) \/ ReceiveOther(n) \/ ResumeLoop(n) \/ ExitLoop(n)
                              \/ UserAnswers(n) \/ Flush(n) \/ WriteOther(n) \/ ConnectionLost(n)
           \/ Break
           \/ UNCHANGED vars
  <2>1. call' = call /\ notified' = notified /\ taken' = taken
    BY <1>7, ZenonT(60) DEF ReceiveOffer, ReceiveOther, ResumeLoop, ExitLoop, UserAnswers, Flush, WriteOther, ConnectionLost,
          Break, vars
  <2> QED
    BY <2>1, SilentStutters
<1> QED
  BY <1>1, <1>2, <1>3, <1>4, <1>5, <1>6, <1>7 DEF Next, ReadLoop

LEMMA DeliveryInit == Init => D!Init
BY DEF Init, D!Init, UserStatus

\* The chat session implements the delivery machine of Delivery.tla: whatever
\* the network does, a message is reported delivered only after the peer took
\* it off the wire, and nothing is reported of a message twice but the one
\* retraction (chat.py as a whole).
THEOREM ChatRefinesDelivery == Spec => ImplementsDelivery
<1>1. StatusInv /\ FrameInv /\ [Next]_vars => FrameInv'
  BY FrameStep
<1>2. StatusInv /\ FrameInv /\ [Next]_vars => [D!Next]_(D!vars)
  BY DeliveryStep
<1> QED
  BY <1>1, <1>2, StatusHolds, FrameInit, DeliveryInit, PTL DEF Spec, ImplementsDelivery, D!Spec

-----------------------------------------------------------------------------
(* Type correctness.                                                       *)

LoopTypes ==
    /\ shown \subseteq Msg
    /\ loop \in [Node -> {"read", "sending", "hold", "closed"}]
    /\ reply \in [Node -> Msg \cup {NoMsg}]
    /\ connected \in [Node -> BOOLEAN]
    /\ paused \in [Node -> BOOLEAN]
    /\ lost \in [Node -> {"no"} \cup LossKind]
    /\ link \in {"up", "down"}
    /\ other \in [Node -> 0..MaxOther]

\* What a send does to the state of its node.
LEMMA AnswerTypes ==
    ASSUME LoopTypes, NEW n \in Node, NEW f, NEW m \in Msg \cup {NoMsg}, Answer(n, f, m)
    PROVE  /\ shown' \subseteq Msg
           /\ loop' \in [Node -> {"read", "sending", "hold", "closed"}]
           /\ reply' \in [Node -> Msg \cup {NoMsg}]
           /\ connected' \in [Node -> BOOLEAN]
           /\ paused' \in [Node -> BOOLEAN]
<1>1. shown' \subseteq Msg
  BY Zenon DEF Answer, LoopTypes
<1>2. loop' \in [Node -> {"read", "sending", "hold", "closed"}]
  BY Zenon DEF Answer, LoopTypes
<1>6. reply' \in [Node -> Msg \cup {NoMsg}]
  BY ZenonT(60) DEF Answer, LoopTypes
<1>3. connected' \in [Node -> BOOLEAN]
  BY ZenonT(60) DEF Answer, ForgetIfReset, LoopTypes
<1>4. PausedAfter(n, f) \in BOOLEAN
  BY DEF PausedAfter, LoopTypes
<1>5. paused' \in [Node -> BOOLEAN]
  BY <1>4, ZenonT(60) DEF Answer, Write, LoopTypes
<1> QED
  BY <1>1, <1>2, <1>3, <1>5, <1>6, Zenon

LEMMA LoopTypesStep ==
    ASSUME StatusInv, FrameInv, LoopTypes, [Next]_vars
    PROVE  LoopTypes'
<1> USE DEF sending, reading, tcp
<1>1. ASSUME NEW m \in Msg, SendChat(m) PROVE LoopTypes'
  <2>1. /\ From[m] \in Node /\ Write(From[m], [type |-> "chat", id |-> m])
        /\ \E outcome : ForgetIfReset(From[m], outcome)
        /\ UNCHANGED <<reading, net, lost, link, other>>
    BY <1>1, MsgAssumption, Zenon DEF SendChat
  <2>2. connected' \in [Node -> BOOLEAN]
    BY <2>1, Zenon DEF ForgetIfReset, LoopTypes
  <2>3. PausedAfter(From[m], [type |-> "chat", id |-> m]) \in BOOLEAN
    BY <2>1, Zenon DEF PausedAfter, LoopTypes
  <2>4. paused' \in [Node -> BOOLEAN]
    BY <2>1, <2>3, Zenon DEF Write, LoopTypes
  <2> QED
    BY <2>1, <2>2, <2>4, Zenon DEF LoopTypes
<1>2. ASSUME NEW m \in Msg, SendOversize(m) \/ TimeoutWatcher(m) PROVE LoopTypes'
  BY <1>2, Zenon DEF SendOversize, TimeoutWatcher, LoopTypes
<1>3. ASSUME NEW m \in Msg, ResumeSend(m) PROVE LoopTypes'
  <2>1. connected' \in [Node -> BOOLEAN]
    BY <1>3, Zenon DEF ResumeSend, ForgetIfReset, LoopTypes
  <2> QED
    BY <1>3, <2>1, Zenon DEF ResumeSend, LoopTypes
<1>4. ASSUME NEW n \in Node, ReceiveChat(n) PROVE LoopTypes'
  <2>1. NextFrame(n).id \in Msg
    <3>1. NextFrame(n) \in Genuine
      BY <1>4, StepsMoveOn, TakeKeeps, Zenon DEF ReceiveChat
    <3> QED
      BY <1>4, <3>1, FrameFields, Zenon DEF ReceiveChat, Genuine
  <2>2. Answer(n, [type |-> "chat_ack", id |-> NextFrame(n).id], NextFrame(n).id)
    BY <1>4, Zenon DEF ReceiveChat
  <2>3. /\ shown' \subseteq Msg
        /\ loop' \in [Node -> {"read", "sending", "hold", "closed"}]
        /\ reply' \in [Node -> Msg \cup {NoMsg}]
        /\ connected' \in [Node -> BOOLEAN]
        /\ paused' \in [Node -> BOOLEAN]
    BY <2>1, <2>2, AnswerTypes, Zenon
  <2> QED
    BY <1>4, <2>3, Zenon DEF ReceiveChat, LoopTypes
<1>5. ASSUME NEW n \in Node, ReceiveAck(n) \/ ReceiveOffer(n) \/ ReceiveOther(n) PROVE LoopTypes'
  <2>1. loop' \in [Node -> {"read", "sending", "hold", "closed"}]
    BY <1>5, Zenon DEF ReceiveAck, ReceiveOffer, ReceiveOther, LoopTypes
  <2> QED
    BY <1>5, <2>1, Zenon DEF ReceiveAck, ReceiveOffer, ReceiveOther, LoopTypes
<1>6. ASSUME NEW n \in Node, ResumeLoop(n) PROVE LoopTypes'
  <2>1. connected' \in [Node -> BOOLEAN]
    BY <1>6, Zenon DEF ResumeLoop, ForgetIfReset, LoopTypes
  <2>2. shown' \subseteq Msg
    BY <1>6, Zenon DEF ResumeLoop, LoopTypes
  <2>3. loop' \in [Node -> {"read", "sending", "hold", "closed"}] /\ reply' \in [Node -> Msg \cup {NoMsg}]
    BY <1>6, Zenon DEF ResumeLoop, LoopTypes
  <2> QED
    BY <1>6, <2>1, <2>2, <2>3, Zenon DEF ResumeLoop, LoopTypes
<1>7. ASSUME NEW n \in Node, ExitLoop(n) PROVE LoopTypes'
  BY <1>7, Zenon DEF ExitLoop, LoopTypes
<1>8. ASSUME NEW n \in Node, UserAnswers(n) PROVE LoopTypes'
  <2>1. Answer(n, [type |-> "file_accept"], NoMsg)
    BY <1>8, Zenon DEF UserAnswers
  <2>2. /\ shown' \subseteq Msg
        /\ loop' \in [Node -> {"read", "sending", "hold", "closed"}]
        /\ reply' \in [Node -> Msg \cup {NoMsg}]
        /\ connected' \in [Node -> BOOLEAN]
        /\ paused' \in [Node -> BOOLEAN]
    BY <2>1, AnswerTypes, Zenon
  <2> QED
    BY <1>8, <2>2, Zenon DEF UserAnswers, LoopTypes
<1>9. ASSUME NEW n \in Node, Flush(n) PROVE LoopTypes'
  <2>1. paused' \in [Node -> BOOLEAN]
    BY <1>9, Zenon DEF Flush, LoopTypes
  <2> QED
    BY <1>9, <2>1, Zenon DEF Flush, LoopTypes
<1>10. ASSUME NEW n \in Node, WriteOther(n) PROVE LoopTypes'
  <2>1. other[n] \in 0..MaxOther /\ other[n] + 1 \in 0..MaxOther
    BY <1>10, BoundAssumption DEF WriteOther, LoopTypes
  <2>2. other' \in [Node -> 0..MaxOther]
    BY <1>10, <2>1, Zenon DEF WriteOther, LoopTypes
  <2>3. \A f : PausedAfter(n, f) \in BOOLEAN
    BY DEF PausedAfter, LoopTypes
  <2>4. paused' \in [Node -> BOOLEAN]
    BY <1>10, <2>3, ZenonT(60) DEF WriteOther, Write, LoopTypes
  <2> QED
    BY <1>10, <2>2, <2>4, Zenon DEF WriteOther, LoopTypes
<1>11. ASSUME NEW n \in Node, ConnectionLost(n) PROVE LoopTypes'
  <2>1. PICK how \in LossKind : lost' = [lost EXCEPT ![n] = how]
    BY <1>11, Zenon DEF ConnectionLost
  <2> QED
    BY <1>11, <2>1, Zenon DEF ConnectionLost, LoopTypes
<1>12. CASE Break \/ UNCHANGED vars
  BY <1>12, Zenon DEF Break, vars, LoopTypes
<1> QED
  BY <1>1, <1>2, <1>3, <1>4, <1>5, <1>6, <1>7, <1>8, <1>9, <1>10, <1>11, <1>12, Zenon DEF Next, ReadLoop

LEMMA LoopTypesInit == Init => LoopTypes
BY BoundAssumption DEF Init, LoopTypes

LEMMA ChatHolds == Spec => [](StatusInv /\ FrameInv /\ LoopTypes)
<1>1. StatusInv /\ FrameInv /\ LoopTypes /\ [Next]_vars => FrameInv' /\ LoopTypes'
  BY FrameStep, LoopTypesStep
<1> QED
  BY <1>1, StatusHolds, FrameInit, LoopTypesInit, PTL DEF Spec

\* Type correctness: every variable keeps its type; in particular only chat
\* messages are shown, and only whole frames of the protocol are on the wire
\* (ChatSession, ConnectionManager.send).
THEOREM TypeCorrect == Spec => []TypeOK
<1>1. StatusInv /\ FrameInv /\ LoopTypes => TypeOK
  <2> SUFFICES ASSUME StatusInv, FrameInv, LoopTypes PROVE TypeOK
    OBVIOUS
  <2>1. Genuine \subseteq Frame
    BY Zenon DEF Genuine
  <2>2. buf \in [Node -> Seq(Frame)] /\ net \in [Node -> Seq(Frame)]
    BY <2>1, SeqMonotonic DEF FrameInv
  <2>3. Reports \subseteq Seq({"delivered", "failed"})
    BY DEF Reports
  <2>4. notified \in [Msg -> Seq({"delivered", "failed"})]
    BY <2>3 DEF StatusInv, StatusTypes
  <2> QED
    BY <2>2, <2>4, Zenon DEF StatusInv, StatusTypes, FrameInv, LoopTypes, TypeOK
<1> QED
  BY <1>1, ChatHolds, PTL

-----------------------------------------------------------------------------
(* What "delivered" promises.  An acknowledgement is written by the handler *)
(* that shows its message afterwards; from then on the message is shown,    *)
(* is about to be, or its receiver's transport failed with an error.        *)
Handled(m) ==
    \/ m \in shown
    \/ loop[Peer(From[m])] = "sending" /\ reply[Peer(From[m])] = m
    \/ lost[Peer(From[m])] = "oserror"

\* The frames n may have written: its own messages, acknowledgements of
\* messages that are handled.
Carried(n) ==
    {f \in Frame : /\ f.type = "chat" => From[f.id] = n
                   /\ f.type = "chat_ack" => Handled(f.id)}

Praised == {<<"delivered">>, <<"delivered", "failed">>}

ShownInv ==
    /\ \A n \in Node : buf[n] \in Seq(Carried(n)) /\ net[n] \in Seq(Carried(n))
    /\ \A n \in Node : drain[n] = "oserror" => lost[n] = "oserror"
    /\ \A m \in Msg : notified[m] \in Praised => Handled(m)

LEMMA PeerOfPeer == \A n \in Node : Peer(Peer(n)) = n
<1> SUFFICES ASSUME NEW n \in Node, Peer(Peer(n)) # n PROVE FALSE
  OBVIOUS
<1> DEFINE p == Peer(n)
           q == Peer(p)
<1>1. p \in Node /\ q \in Node /\ p # n /\ q # p /\ q # n
  <2>1. \A k \in Node : \E j \in Node : j # k
    <3> SUFFICES ASSUME NEW k \in Node, \A j \in Node : j = k PROVE FALSE
      OBVIOUS
    <3>1. Node = {k}
      OBVIOUS
    <3> QED
      BY <3>1, FS_Singleton, NodeAssumption
  <2> QED
    BY <2>1 DEF Peer
<1> HIDE DEF p, q
<1>2. IsFiniteSet({n}) /\ Cardinality({n}) = 1
  BY FS_Singleton, Zenon
<1>3. IsFiniteSet({n} \cup {p}) /\ Cardinality({n} \cup {p}) = 2
  BY <1>1, <1>2, FS_AddElement
<1>4. Cardinality(({n} \cup {p}) \cup {q}) = 3
  BY <1>1, <1>3, FS_AddElement, SMTT(30)
<1>5. ({n} \cup {p}) \cup {q} \subseteq Node
  BY <1>1
<1> QED
  BY <1>4, <1>5, FS_Subset, NodeAssumption

\* Nothing is unshown, a failed transport stays failed, and a read loop leaves
\* the send of an acknowledgement only by showing its message or by the error.
LEMMA HandledStays ==
    ASSUME StatusInv, LoopTypes, ShownInv, [Next]_vars, NEW m \in Msg, Handled(m)
    PROVE  Handled(m)'
<1> USE DEF sending, reading, tcp
<1> DEFINE p == Peer(From[m])
<1>0. p \in Node
  BY MsgAssumption, PeerIsNode
<1> HIDE DEF p
<1>1. shown \subseteq shown'
  BY ZenonT(60) DEF Next, SendChat, SendOversize, ResumeSend, TimeoutWatcher, ReadLoop, ReceiveChat, ReceiveAck, ReceiveOffer,
        ReceiveOther, ResumeLoop, ExitLoop, UserAnswers, Answer, Flush, WriteOther, ConnectionLost, Break, vars
<1>2. lost[p] = "oserror" => lost'[p] = "oserror"
  <2>1. ASSUME NEW n \in Node, ConnectionLost(n), lost[p] = "oserror" PROVE lost'[p] = "oserror"
    BY <1>0, <2>1, Zenon DEF ConnectionLost, LoopTypes
  <2>2. (\E n \in Node : ConnectionLost(n)) \/ lost' = lost
    BY ZenonT(60) DEF Next, SendChat, SendOversize, ResumeSend, TimeoutWatcher, ReadLoop, ReceiveChat, ReceiveAck, ReceiveOffer,
          ReceiveOther, ResumeLoop, ExitLoop, UserAnswers, Flush, WriteOther, Break, vars
  <2> QED
    BY <2>1, <2>2
<1>3. ASSUME loop[p] = "sending", reply[p] = m
      PROVE  Handled(m)'
  <2>1. CASE ResumeLoop(p)
    <3>1. CASE drain[p] = "oserror"
      BY <1>0, <1>2, <3>1, Zenon DEF ShownInv, Handled, p
    <3>2. CASE drain[p] # "oserror"
      BY <1>3, <2>1, <3>2, MsgAssumption, Zenon DEF ResumeLoop, Handled
    <3> QED
      BY <3>1, <3>2
  <2>2. CASE ~ ResumeLoop(p)
    <3>1. ASSUME NEW n \in Node, loop[n] # "sending" \/ n # p, \E f, k : Answer(n, f, k)
          PROVE  loop'[p] = loop[p] /\ reply'[p] = reply[p]
      <4>1. n # p
        BY <1>3, <3>1, Zenon
      <4> QED
        BY <1>0, <3>1, <4>1, Zenon DEF Answer, LoopTypes
    <3>2. ASSUME NEW n \in Node, ReadLoop(n) PROVE loop'[p] = loop[p] /\ reply'[p] = reply[p]
      <4>1. CASE ReceiveChat(n)
        BY <3>1, <4>1, <1>3, Zenon DEF ReceiveChat, Take
      <4>2. CASE ReceiveAck(n) \/ ReceiveOffer(n) \/ ReceiveOther(n) \/ ExitLoop(n)
        BY <1>0, <4>2, <1>3, Zenon DEF ReceiveAck, ReceiveOffer, ReceiveOther, ExitLoop, Take, LoopTypes
      <4>3. CASE ResumeLoop(n)
        BY <1>0, <2>2, <4>3, Zenon DEF ResumeLoop, LoopTypes
      <4> QED
        BY <3>2, <4>1, <4>2, <4>3, Zenon DEF ReadLoop
    <3>3. ASSUME NEW n \in Node, UserAnswers(n) PROVE loop'[p] = loop[p] /\ reply'[p] = reply[p]
      BY <3>1, <3>3, <1>3, Zenon DEF UserAnswers
    <3>4. \/ \E n \in Node : ReadLoop(n) \/ UserAnswers(n)
          \/ loop' = loop /\ reply' = reply
      BY Zenon DEF Next, SendChat, SendOversize, ResumeSend, TimeoutWatcher, Flush, WriteOther, ConnectionLost, Break, vars
    <3> QED
      BY <1>3, <3>2, <3>3, <3>4, Zenon DEF Handled, p
  <2> QED
    BY <2>1, <2>2
<1> QED
  BY <1>1, <1>2, <1>3, Zenon DEF Handled, p

LEMMA CarriedStays ==
    ASSUME StatusInv, LoopTypes, ShownInv, [Next]_vars, NEW n \in Node
    PROVE  /\ \A f \in Carried(n) : f \in Carried(n)'
           /\ buf[n] \in Seq(Carried(n)') /\ net[n] \in Seq(Carried(n)')
<1>1. Carried(n) \subseteq Carried(n)'
  <2> SUFFICES ASSUME NEW f \in Carried(n) PROVE f \in Carried(n)'
    OBVIOUS
  <2>1. CASE f.type = "chat_ack"
    <3>1. f \in Frame /\ f.id \in Msg /\ Handled(f.id)
      BY <2>1, FrameFields, Zenon DEF Carried
    <3>2. Handled(f.id)'
      BY <3>1, HandledStays
    <3> QED
      BY <2>1, <3>1, <3>2, Zenon DEF Carried
  <2>2. CASE f.type # "chat_ack"
    BY <2>2, Zenon DEF Carried
  <2> QED
    BY <2>1, <2>2
<1>2. Seq(Carried(n)) \subseteq Seq(Carried(n)')
  BY <1>1, SeqMonotonic
<1> QED
  BY <1>1, <1>2, Zenon DEF ShownInv

\* Writing one frame, and reading one.
LEMMA WriteCarries ==
    ASSUME FrameInv, \A k \in Node : buf[k] \in Seq(Carried(k)'),
           NEW n \in Node, NEW f, Writable(n) => f \in Carried(n)', Write(n, f)
    PROVE  \A k \in Node : buf'[k] \in Seq(Carried(k)')
<1> TAKE k \in Node
<1>1. CASE Writable(n) /\ k = n
  <2>1. Append(buf[n], f) \in Seq(Carried(n)')
    BY <1>1, AppendProperties, Zenon
  <2> QED
    BY <1>1, <2>1, Zenon DEF Write, FrameInv
<1>2. CASE ~ (Writable(n) /\ k = n)
  <2>1. buf'[k] = buf[k]
    BY <1>2 DEF Write, FrameInv
  <2> QED
    BY <2>1, Zenon
<1> QED
  BY <1>1, <1>2, Zenon

LEMMA TakeCarries ==
    ASSUME FrameInv, ShownInv, \A k \in Node : net[k] \in Seq(Carried(k)'), NEW n \in Node, Take(n)
    PROVE  /\ \A k \in Node : net'[k] \in Seq(Carried(k)')
           /\ NextFrame(n) \in Carried(Peer(n))
<1>1. /\ Peer(n) \in Node /\ net[Peer(n)] # <<>> /\ net[Peer(n)] \in Seq(Carried(Peer(n)))
      /\ net[Peer(n)] \in Seq(Carried(Peer(n))')
      /\ net' = [net EXCEPT ![Peer(n)] = Tail(net[Peer(n)])]
  BY PeerIsNode, Zenon DEF Take, ShownInv
<1>2. NextFrame(n) \in Carried(Peer(n))
  BY <1>1, HeadTailProperties, Zenon DEF NextFrame
<1>3. Tail(net[Peer(n)]) \in Seq(Carried(Peer(n))')
  BY <1>1, HeadTailProperties, Zenon
<1>4. ASSUME NEW k \in Node PROVE net'[k] \in Seq(Carried(k)')
  <2>1. CASE k = Peer(n)
    BY <1>1, <1>3, <2>1, Zenon DEF FrameInv
  <2>2. CASE k # Peer(n)
    <3>1. net'[k] = net[k]
      BY <1>1, <2>2, Zenon DEF FrameInv
    <3> QED
      BY <3>1, Zenon
  <2> QED
    BY <2>1, <2>2, Zenon
<1> QED
  BY <1>2, <1>4, Zenon

\* The step itself.  Acknowledgements enter the wire only in ReceiveChat, and
\* only while the transport is alive: the handler then waits or has shown.
LEMMA WireStep ==
    ASSUME StatusInv, FrameInv, LoopTypes, ShownInv, [Next]_vars
    PROVE  \A k \in Node : buf'[k] \in Seq(Carried(k)') /\ net'[k] \in Seq(Carried(k)')
<1> USE DEF sending, reading, tcp
<1> DEFINE Goal == \A k \in Node : buf'[k] \in Seq(Carried(k)') /\ net'[k] \in Seq(Carried(k)')
<1>0. /\ \A k \in Node : buf[k] \in Seq(Carried(k)')
      /\ \A k \in Node : net[k] \in Seq(Carried(k)')
  BY CarriedStays, Zenon
<1>1. ASSUME NEW m \in Msg, SendChat(m) PROVE Goal
  <2>1. [type |-> "chat", id |-> m] \in Carried(From[m])'
    BY FrameFields, Zenon DEF Carried
  <2>2. Write(From[m], [type |-> "chat", id |-> m]) /\ From[m] \in Node /\ net' = net
    BY <1>1, MsgAssumption, Zenon DEF SendChat
  <2>3. \A k \in Node : buf'[k] \in Seq(Carried(k)')
    BY <1>0, <2>1, <2>2, WriteCarries, Zenon
  <2> QED
    BY <1>0, <2>2, <2>3, Zenon
<1>2. ASSUME buf' = buf, net' = net PROVE Goal
  BY <1>0, <1>2, Zenon
<1>3. ASSUME NEW n \in Node, ReceiveChat(n) PROVE Goal
  <2>1. (\A k \in Node : net'[k] \in Seq(Carried(k)')) /\ NextFrame(n) \in Carried(Peer(n))
    BY <1>0, <1>3, TakeCarries, Zenon DEF ReceiveChat
  <2>2. PICK m \in Msg : /\ From[m] = Peer(n)
                         /\ Answer(n, [type |-> "chat_ack", id |-> m], m)
    BY <1>3, <2>1, FrameFields, Zenon DEF ReceiveChat, Carried
  <2> DEFINE a == [type |-> "chat_ack", id |-> m]
  <2>4. Peer(From[m]) = n
    BY <2>2, PeerOfPeer, Zenon
  <2>5. ASSUME Writable(n) PROVE a \in Carried(n)'
    <3>1. PICK o \in SendOutcomes(n, a) :
             /\ loop' = [loop EXCEPT ![n] = IF o = "wait" THEN "sending" ELSE "read"]
             /\ reply' = [reply EXCEPT ![n] = IF o = "wait" THEN m ELSE NoMsg]
             /\ shown' = IF o \in {"ok", "refused", "reset"} THEN shown \cup ({m} \ {NoMsg}) ELSE shown
      BY <2>2, Zenon DEF Answer
    <3>2. o \in {"wait", "ok"}
      BY <2>5, Zenon DEF SendOutcomes, Writable
    <3>3. Handled(m)'
      <4>1. CASE o = "wait"
        <5>1. loop'[n] = "sending" /\ reply'[n] = m
          BY <3>1, <4>1, Zenon DEF LoopTypes
        <5> QED
          BY <2>4, <5>1, Zenon DEF Handled
      <4>2. CASE o = "ok"
        BY <3>1, <4>2, MsgAssumption, Zenon DEF Handled
      <4> QED
        BY <3>2, <4>1, <4>2, Zenon
    <3>4. a \in Frame /\ a.type = "chat_ack" /\ a.id = m
      BY FrameFields, Zenon
    <3> HIDE DEF a
    <3> QED
      BY <3>3, <3>4, Zenon DEF Carried
  <2>6. Write(n, a)
    BY <2>2, Zenon DEF Answer
  <2> HIDE DEF a
  <2>7. \A k \in Node : buf'[k] \in Seq(Carried(k)')
    BY <1>0, <2>5, <2>6, WriteCarries, Zenon
  <2> QED
    BY <2>1, <2>7, Zenon
<1>4. ASSUME NEW n \in Node, ReceiveAck(n) \/ ReceiveOffer(n) \/ ReceiveOther(n) PROVE Goal
  <2>1. Take(n) /\ buf' = buf
    BY <1>4, Zenon DEF ReceiveAck, ReceiveOffer, ReceiveOther
  <2> QED
    BY <1>0, <2>1, TakeCarries, Zenon
<1>5. ASSUME NEW n \in Node, UserAnswers(n) PROVE Goal
  <2>1. [type |-> "file_accept"] \in Carried(n)'
    BY FrameFields, Zenon DEF Carried
  <2>2. Write(n, [type |-> "file_accept"]) /\ net' = net
    BY <1>5, Zenon DEF UserAnswers, Answer
  <2>3. \A k \in Node : buf'[k] \in Seq(Carried(k)')
    BY <1>0, <2>1, <2>2, WriteCarries, Zenon
  <2> QED
    BY <1>0, <2>2, <2>3, Zenon
<1>6. ASSUME NEW n \in Node, Flush(n) PROVE Goal
  <2>1. buf[n] \in Seq(Carried(n)') /\ buf[n] # <<>> /\ net[n] \in Seq(Carried(n)')
    BY <1>0, <1>6, Zenon DEF Flush
  <2>2. Head(buf[n]) \in Carried(n)' /\ Tail(buf[n]) \in Seq(Carried(n)')
    BY <2>1, HeadTailProperties, Zenon
  <2>3. Append(net[n], Head(buf[n])) \in Seq(Carried(n)')
    BY <2>1, <2>2, AppendProperties, Zenon
  <2>4. /\ buf' = [buf EXCEPT ![n] = Tail(buf[n])]
        /\ net' = [net EXCEPT ![n] = Append(net[n], Head(buf[n]))]
    BY <1>6, Zenon DEF Flush
  <2> TAKE k \in Node
  <2>5. CASE k = n
    BY <2>2, <2>3, <2>4, <2>5, Zenon DEF FrameInv
  <2>6. CASE k # n
    <3>1. buf'[k] = buf[k] /\ net'[k] = net[k]
      BY <2>4, <2>6, Zenon DEF FrameInv
    <3> QED
      BY <1>0, <3>1, Zenon
  <2> QED
    BY <2>5, <2>6, Zenon
<1>7. ASSUME NEW n \in Node, WriteOther(n) PROVE Goal
  <2>1. PICK t \in OtherKind : Write(n, [type |-> t])
    BY <1>7, Zenon DEF WriteOther
  <2>2. [type |-> t] \in Carried(n)'
    BY KindAssumption, FrameFields, Zenon DEF Carried
  <2>3. \A k \in Node : buf'[k] \in Seq(Carried(k)')
    BY <1>0, <2>1, <2>2, WriteCarries, Zenon
  <2>4. net' = net
    BY <1>7, Zenon DEF WriteOther
  <2> QED
    BY <1>0, <2>3, <2>4, Zenon
<1>8. ASSUME NEW n \in Node, ConnectionLost(n) PROVE Goal
  <2>1. net' = net /\ buf' = [buf EXCEPT ![n] = <<>>]
    BY <1>8, Zenon DEF ConnectionLost
  <2> TAKE k \in Node
  <2>2. CASE k = n
    <3>1. buf'[k] = <<>>
      BY <2>1, <2>2 DEF FrameInv
    <3> QED
      BY <1>0, <2>1, <3>1, EmptySeq, Zenon
  <2>3. CASE k # n
    <3>1. buf'[k] = buf[k]
      BY <2>1, <2>3 DEF FrameInv
    <3> QED
      BY <1>0, <2>1, <3>1, Zenon
  <2> QED
    BY <2>2, <2>3
<1>9. \/ \E m \in Msg : SendChat(m)
      \/ \E n \in Node : ReceiveChat(n) \/ ReceiveAck(n) \/ ReceiveOffer(n) \/ ReceiveOther(n)
      \/ \E n \in Node : UserAnswers(n) \/ Flush(n) \/ WriteOther(n) \/ ConnectionLost(n)
      \/ buf' = buf /\ net' = net
  BY Zenon DEF Next, ReadLoop, SendOversize, ResumeSend, TimeoutWatcher, ResumeLoop, ExitLoop, Break, vars
<1> HIDE DEF Goal
<1>10. Goal
  BY <1>1, <1>2, <1>3, <1>4, <1>5, <1>6, <1>7, <1>8, <1>9, Zenon
<1> QED
  BY <1>10, Zenon DEF Goal

\* A drain of a read loop ends in the error only once the transport has.
LEMMA DrainStep ==
    ASSUME StatusInv, LoopTypes, ShownInv, [Next]_vars, NEW n \in Node
    PROVE  drain'[n] = "oserror" => lost'[n] = "oserror"
<1> USE DEF sending, reading, tcp
<1>1. ASSUME NEW m \in Msg, SendChat(m) \/ ResumeSend(m) PROVE drain'[n] = drain[n] /\ lost' = lost
  <2>1. m # n
    BY NodeAssumption
  <2> QED
    BY <1>1, <2>1, ZenonT(60) DEF SendChat, ResumeSend, AfterSend, StatusInv, StatusTypes
<1>2. ASSUME NEW k \in Node, NEW f, NEW m, Answer(k, f, m) PROVE drain'[n] \in {drain[n], "wait", "none"}
  <2>1. PICK o : drain' = [drain EXCEPT ![k] = IF o = "wait" THEN "wait" ELSE "none"]
    BY <1>2, Zenon DEF Answer
  <2> QED
    BY <2>1, Zenon DEF StatusInv, StatusTypes
<1>3. ASSUME NEW k \in Node, ReceiveChat(k) \/ UserAnswers(k)
      PROVE  drain'[n] \in {drain[n], "wait", "none"} /\ lost' = lost
  BY <1>2, <1>3, Zenon DEF ReceiveChat, UserAnswers
<1>4. ASSUME NEW k \in Node, ResumeLoop(k)
      PROVE  drain'[n] \in {drain[n], "wait", "none"} /\ lost' = lost
  BY <1>4, Zenon DEF ResumeLoop, StatusInv, StatusTypes
<1>5. ASSUME NEW k \in Node, NEW o, Wake(k, o)
      PROVE  drain'[n] = drain[n] \/ (drain'[n] = o /\ k = n)
  BY <1>5, Zenon DEF Wake, Owner
<1>6. ASSUME NEW k \in Node, Flush(k)
      PROVE  drain'[n] \in {drain[n], "ok"} /\ lost' = lost
  BY <1>5, <1>6, Zenon DEF Flush
<1>7. ASSUME NEW k \in Node, ConnectionLost(k)
      PROVE  drain'[n] = "oserror" => lost'[n] = "oserror"
  <2>0. PICK how \in LossKind :
          /\ lost' = [lost EXCEPT ![k] = how]
          /\ \E o \in IF how = "clean" THEN {"ok", "reset"} ELSE {how} : Wake(k, o)
    BY <1>7, Zenon DEF ConnectionLost
  <2>1. PICK o \in IF how = "clean" THEN {"ok", "reset"} ELSE {how} :
           lost' = [lost EXCEPT ![k] = how] /\ Wake(k, o)
    BY <2>0, Zenon
  <2>2. o = "oserror" => how = "oserror"
    BY <2>1, Zenon
  <2>3. lost[k] = "no"
    BY <1>7, Zenon DEF ConnectionLost
  <2>4. CASE k = n
    <3>1. lost'[n] = how
      BY <2>1, <2>4, Zenon DEF LoopTypes
    <3> QED
      BY <1>5, <2>1, <2>2, <2>3, <2>4, <3>1, Zenon DEF ShownInv
  <2>5. CASE k # n
    <3>1. lost'[n] = lost[n] /\ drain'[n] = drain[n]
      BY <1>5, <2>1, <2>5, Zenon DEF LoopTypes
    <3> QED
      BY <3>1, Zenon DEF ShownInv
  <2> QED
    BY <2>4, <2>5, Zenon
<1>8. \/ \E m \in Msg : SendChat(m) \/ ResumeSend(m)
      \/ \E k \in Node : ReceiveChat(k) \/ UserAnswers(k) \/ ResumeLoop(k) \/ Flush(k) \/ ConnectionLost(k)
      \/ drain' = drain /\ lost' = lost
  BY ZenonT(60) DEF Next, ReadLoop, SendOversize, TimeoutWatcher, ReceiveAck, ReceiveOffer, ReceiveOther, ExitLoop,
        WriteOther, Break, vars
<1>9. \/ drain'[n] \in {drain[n], "wait", "none", "ok"} /\ lost' = lost
      \/ drain'[n] = "oserror" => lost'[n] = "oserror"
  BY <1>1, <1>3, <1>4, <1>6, <1>7, <1>8, Zenon
<1> QED
  BY <1>9, Zenon DEF ShownInv

\* "delivered" is reported on an acknowledgement, and "failed" after it changes
\* nothing of that.
LEMMA PraiseStep ==
    ASSUME StatusInv, FrameInv, LoopTypes, ShownInv, [Next]_vars, NEW m \in Msg, notified'[m] \in Praised
    PROVE  Handled(m)'
<1> USE DEF sending, reading, tcp
<1>1. SUFFICES Handled(m)
  BY HandledStays, Zenon
<1>2. CASE notified[m] \in Praised
  BY <1>2, Zenon DEF ShownInv
<1>3. ASSUME NEW s \in Reports, Append(s, "failed") \in Praised PROVE s \in Praised
  <2>1. \A t \in Praised : t[1] = "delivered"
    BY DEF Praised
  <2>2. s # <<>>
    <3>1. <<"failed">>[1] # "delivered"
      OBVIOUS
    <3> QED
      BY <1>3, <2>1, <3>1, Appended, Zenon
  <2>3. s # <<"failed">>
    <3>1. <<"failed", "failed">>[1] # "delivered"
      OBVIOUS
    <3> QED
      BY <1>3, <2>1, <3>1, AppendSecond, Zenon
  <2> QED
    BY <2>2, <2>3, Zenon DEF Reports, Praised
<1>4. ASSUME NEW k \in Msg, Notify(k, "failed") PROVE notified[m] \in Praised
  <2>1. notified'[m] = notified[m] \/ notified'[m] = Append(notified[m], "failed")
    BY <1>4, Zenon DEF Notify, StatusInv, StatusTypes
  <2>2. notified[m] \in Reports
    BY Zenon DEF StatusInv, StatusTypes
  <2> QED
    BY <1>3, <2>1, <2>2, Zenon
<1>5. ASSUME NEW n \in Node, ReceiveAck(n) PROVE notified[m] \in Praised \/ Handled(m)
  <2>1. NextFrame(n) \in Carried(Peer(n)) /\ NextFrame(n).type = "chat_ack"
    BY <1>5, CarriedStays, TakeCarries, Zenon DEF ReceiveAck
  <2>2. Handled(NextFrame(n).id)
    BY <2>1, Zenon DEF Carried
  <2>3. CASE m = NextFrame(n).id
    BY <2>2, <2>3, Zenon
  <2>4. CASE m # NextFrame(n).id
    BY <1>5, <2>4, ZenonT(60) DEF ReceiveAck, HandleAck, Notify, StatusInv, StatusTypes
  <2> QED
    BY <2>3, <2>4, Zenon
<1>6. \/ \E k \in Msg : Notify(k, "failed")
      \/ \E n \in Node : ReceiveAck(n)
      \/ notified' = notified
  BY ZenonT(60) DEF Next, ReadLoop, SendChat, ResumeSend, AfterSend, SendOversize, TimeoutWatcher, ReceiveChat, ReceiveOffer,
        ReceiveOther, ResumeLoop, ExitLoop, UserAnswers, Flush, WriteOther, ConnectionLost, Break, vars
<1> QED
  BY <1>2, <1>4, <1>5, <1>6, Zenon

LEMMA ShownStep ==
    ASSUME StatusInv, FrameInv, LoopTypes, ShownInv, [Next]_vars
    PROVE  ShownInv'
<1>1. (\A n \in Node : buf[n] \in Seq(Carried(n)) /\ net[n] \in Seq(Carried(n)))'
  BY WireStep, Zenon
<1>2. (\A n \in Node : drain[n] = "oserror" => lost[n] = "oserror")'
  BY DrainStep, Zenon
<1>3. (\A m \in Msg : notified[m] \in Praised => Handled(m))'
  BY PraiseStep, Zenon DEF Praised
<1> QED
  BY <1>1, <1>2, <1>3, Zenon DEF ShownInv

LEMMA ShownInit == Init => ShownInv
<1> SUFFICES ASSUME Init PROVE ShownInv
  OBVIOUS
<1>1. \A n \in Node : buf[n] = <<>> /\ net[n] = <<>> /\ drain[n] = "none"
  BY Zenon DEF Init
<1>2. \A m \in Msg : notified[m] \notin Praised
  BY Appended, Zenon DEF Init, Praised
<1> QED
  BY <1>1, <1>2, EmptySeq, Zenon DEF ShownInv

\* DeliveredIsShown: "delivered" is reported only of a message that is shown,
\* that is about to be, or whose receiver's transport failed with an error
\* send() does not handle.
THEOREM DeliveryIsHonest == Spec => []DeliveredIsShown
<1>1. StatusInv /\ ShownInv => DeliveredIsShown
  <2> SUFFICES ASSUME StatusInv, ShownInv, NEW m \in Msg,
                      "delivered" \in {notified[m][i] : i \in 1..Len(notified[m])}
               PROVE  Handled(m)
    BY Zenon DEF DeliveredIsShown, Handled
  <2>1. notified[m] \in Reports
    BY Zenon DEF StatusInv, StatusTypes
  <2>2. notified[m] # <<>> /\ notified[m] # <<"failed">>
    OBVIOUS
  <2>3. notified[m] \in Praised
    BY <2>1, <2>2, Zenon DEF Reports, Praised
  <2> QED
    BY <2>3, Zenon DEF ShownInv
<1>2. StatusInv /\ FrameInv /\ LoopTypes /\ ShownInv /\ [Next]_vars => ShownInv'
  BY ShownStep
<1>3. Spec => []ShownInv
  BY <1>2, ShownInit, ChatHolds, PTL DEF Spec
<1> QED
  BY <1>1, <1>3, ChatHolds, PTL

-----------------------------------------------------------------------------
(* What a lost connection releases.  The prover does not look into         *)
(* ENABLED: that an action has a step under its guard is a hypothesis.     *)

CanResume(m) == ENABLED <<ResumeSend(m)>>_vars
CanTimeout(m) == ENABLED <<TimeoutWatcher(m)>>_vars
CanNotice(n) == ENABLED <<ConnectionLost(n)>>_vars

WatcherRuns == \A m \in Msg : timer[m] = "armed" => CanTimeout(m)
LossIsNoticed ==
    /\ \A m \in Msg : drain[m] \notin {"none", "wait"} => CanResume(m)
    /\ \A n \in Node : link = "down" /\ lost[n] = "no" => CanNotice(n)

\* Nobody is left waiting on a transport that noticed the loss.
WaitInv == \A m \in Msg : drain[m] = "wait" => lost[From[m]] = "no"

\* What a step does to the drain() that send_chat waits in.
LEMMA WaitStep ==
    ASSUME StatusInv, WaitInv, [Next]_vars, NEW m \in Msg
    PROVE  /\ drain'[m] = "wait" => lost'[From[m]] = "no"
           /\ drain'[m] = drain[m] \/ call[m] = "idle" \/ ResumeSend(m) \/ drain[m] = "wait"
           /\ drain[m] = "wait" => drain'[m] # "none"
           /\ ConnectionLost(From[m]) => drain'[m] # "wait"
<1> USE DEF sending, reading, tcp
<1> DEFINE Goal == /\ drain'[m] = "wait" => lost'[From[m]] = "no"
                   /\ drain'[m] = drain[m] \/ call[m] = "idle" \/ ResumeSend(m) \/ drain[m] = "wait"
                   /\ drain[m] = "wait" => drain'[m] # "none"
           Lost == ConnectionLost(From[m]) => drain'[m] # "wait"
<1>0. /\ StatusTypes /\ Consistent(m) /\ From[m] \in Node /\ m \notin Node
      /\ drain[m] = "wait" => lost[From[m]] = "no"
  BY MsgAssumption, NodeAssumption, Zenon DEF StatusInv, WaitInv
<1>1. ASSUME drain'[m] = drain[m], lost' = lost PROVE Goal
  BY <1>0, <1>1, Zenon
<1>2. ASSUME NEW k \in Msg, SendChat(k) \/ ResumeSend(k) PROVE Goal
  <2>0. lost' = lost
    BY <1>2, Zenon DEF SendChat, ResumeSend
  <2>1. CASE k # m
    <3>1. drain'[m] = drain[m]
      BY <1>0, <1>2, <2>1, Zenon DEF SendChat, ResumeSend, AfterSend, StatusTypes
    <3> QED
      BY <1>1, <2>0, <3>1, Zenon
  <2>2. CASE k = m /\ SendChat(m)
    <3>1. call[m] = "idle" /\ drain[m] = "none"
      BY <1>0, <2>2, Zenon DEF SendChat, Consistent, StatusTypes
    <3>2. PICK o \in SendOutcomes(From[m], [type |-> "chat", id |-> m]) :
             drain' = [drain EXCEPT ![m] = IF o = "wait" THEN "wait" ELSE "none"]
      BY <2>2, Zenon DEF SendChat, AfterSend
    <3>3. drain'[m] = "wait" => o = "wait"
      BY <1>0, <3>2, Zenon DEF StatusTypes
    <3>4. o = "wait" => lost[From[m]] = "no"
      BY <1>0, <3>2, Zenon DEF SendOutcomes, StatusTypes
    <3> QED
      BY <2>0, <3>1, <3>3, <3>4, Zenon
  <2>3. CASE k = m /\ ResumeSend(m)
    <3>1. drain[m] # "wait" /\ drain' = [drain EXCEPT ![m] = IF drain[m] = "wait" THEN "wait" ELSE "none"]
      BY <2>3, Zenon DEF ResumeSend, AfterSend
    <3>2. drain'[m] = "none"
      BY <1>0, <3>1, Zenon DEF StatusTypes
    <3> QED
      BY <2>3, <3>1, <3>2, Zenon
  <2> QED
    BY <1>2, <2>1, <2>2, <2>3, Zenon
<1>3. ASSUME NEW n \in Node, ReceiveChat(n) \/ UserAnswers(n) \/ ResumeLoop(n) PROVE Goal
  <2>1. lost' = lost /\ \E x : drain' = [drain EXCEPT ![n] = x]
    BY <1>3, Zenon DEF ReceiveChat, UserAnswers, ResumeLoop, Answer
  <2>2. drain'[m] = drain[m]
    BY <1>0, <2>1, Zenon DEF StatusTypes
  <2> QED
    BY <1>1, <2>1, <2>2, Zenon
<1>4. ASSUME NEW n \in Node, NEW o, Wake(n, o)
      PROVE  drain'[m] = IF drain[m] = "wait" /\ From[m] = n THEN o ELSE drain[m]
  <2>1. Owner(m) = From[m] /\ m \in Msg \cup Node
    BY <1>0, Zenon DEF Owner
  <2> QED
    BY <1>4, <2>1, Zenon DEF Wake
<1>5. ASSUME NEW n \in Node, Flush(n) PROVE Goal
  <2>1. lost' = lost /\ (drain' = drain \/ Wake(n, "ok"))
    BY <1>5, Zenon DEF Flush
  <2>2. drain'[m] = drain[m] \/ (drain[m] = "wait" /\ drain'[m] = "ok")
    BY <1>4, <2>1, Zenon
  <2> QED
    BY <1>0, <2>1, <2>2, Zenon
<1>6. ASSUME NEW n \in Node, ConnectionLost(n) PROVE Goal /\ (n = From[m] => drain'[m] # "wait")
  <2>1. PICK how \in LossKind : /\ lost' = [lost EXCEPT ![n] = how]
                                /\ \E o \in IF how = "clean" THEN {"ok", "reset"} ELSE {how} : Wake(n, o)
    BY <1>6, Zenon DEF ConnectionLost
  <2>2. how \in {"clean", "reset", "oserror"}
    BY KindAssumption, Zenon
  <2>3. PICK o \in {"ok", "reset", "oserror"} : Wake(n, o)
    BY <2>1, <2>2, Zenon
  <2>4. CASE n = From[m]
    <3>1. drain'[m] = (IF drain[m] = "wait" THEN o ELSE drain[m])
      BY <1>4, <2>3, <2>4, Zenon
    <3>2. o # "wait" /\ o # "none"
      BY <2>3, Zenon
    <3> QED
      BY <3>1, <3>2, Zenon
  <2>5. CASE n # From[m]
    <3>1. drain'[m] = drain[m] /\ lost'[From[m]] = lost[From[m]]
      BY <1>0, <1>4, <2>1, <2>3, <2>5, Zenon DEF StatusTypes
    <3> QED
      BY <1>0, <2>5, <3>1, Zenon
  <2> QED
    BY <2>4, <2>5, Zenon
<1>7. \/ \E k \in Msg : SendChat(k) \/ ResumeSend(k)
      \/ \E n \in Node : ReceiveChat(n) \/ UserAnswers(n) \/ ResumeLoop(n) \/ Flush(n) \/ ConnectionLost(n)
      \/ drain' = drain /\ lost' = lost
  BY Zenon DEF Next, ReadLoop, SendOversize, TimeoutWatcher, ReceiveAck, ReceiveOffer, ReceiveOther, ExitLoop,
        WriteOther, Break, vars
<1>8. Lost
  BY <1>0, <1>6, Zenon
<1> HIDE DEF Goal
<1>9. Goal
  BY <1>1, <1>2, <1>3, <1>5, <1>6, <1>7, Zenon
<1> QED
  BY <1>8, <1>9, Zenon DEF Goal

LEMMA WaitHolds == Spec => [](StatusInv /\ WaitInv)
<1>1. Init => WaitInv
  BY ZenonT(60) DEF Init, WaitInv
<1>2. StatusInv /\ WaitInv /\ [Next]_vars => WaitInv'
  BY WaitStep, Zenon DEF WaitInv
<1> QED
  BY <1>1, <1>2, StatusHolds, PTL DEF Spec

\* What a step does to a message that stays tracked.
LEMMA TrackedStep ==
    ASSUME StatusInv, WaitInv, [Next]_vars, NEW m \in Msg, m \in pending, m \in pending'
    PROVE  /\ (call'[m] = call[m] /\ timer'[m] = timer[m]) \/ ResumeSend(m)
           /\ timer[m] = "armed" => timer'[m] = "armed"
<1> USE DEF sending, reading, tcp
<1> DEFINE Kept == call'[m] = call[m] /\ timer'[m] = timer[m]
<1>0. StatusTypes /\ Consistent(m) /\ call[m] # "idle"
  BY Zenon DEF StatusInv, Consistent
<1>1. ASSUME NEW k \in Msg, SendChat(k) \/ SendOversize(k) PROVE Kept
  <2>1. k # m
    BY <1>0, <1>1, Zenon DEF SendChat, SendOversize
  <2> QED
    BY <1>0, <1>1, <2>1, ZenonT(60) DEF SendChat, SendOversize, AfterSend, StatusTypes
<1>2. ASSUME NEW k \in Msg, k # m, ResumeSend(k) PROVE Kept
  BY <1>0, <1>2, Zenon DEF ResumeSend, AfterSend, StatusTypes
<1>3. ASSUME NEW k \in Msg, TimeoutWatcher(k) PROVE Kept
  <2>1. k # m
    BY <1>3, Zenon DEF TimeoutWatcher
  <2> QED
    BY <1>0, <1>3, <2>1, Zenon DEF TimeoutWatcher, StatusTypes
<1>4. ASSUME NEW n \in Node, ReceiveAck(n) PROVE Kept
  <2>1. call' = call /\ HandleAck(NextFrame(n).id)
    BY <1>4, Zenon DEF ReceiveAck
  <2>2. timer' = timer \/ (NextFrame(n).id # m /\ \E x : timer' = [timer EXCEPT ![NextFrame(n).id] = x])
    BY <2>1, Zenon DEF HandleAck
  <2> QED
    BY <1>0, <2>1, <2>2, Zenon DEF StatusTypes
<1>5. \/ \E k \in Msg : SendChat(k) \/ SendOversize(k) \/ ResumeSend(k) \/ TimeoutWatcher(k)
      \/ \E n \in Node : ReceiveAck(n)
      \/ call' = call /\ timer' = timer
  BY ZenonT(60) DEF Next, ReadLoop, ReceiveChat, ReceiveOffer, ReceiveOther, ResumeLoop, ExitLoop, UserAnswers,
        Flush, WriteOther, ConnectionLost, Break, vars
<1>6. Kept \/ ResumeSend(m)
  BY <1>1, <1>2, <1>3, <1>4, <1>5, Zenon
<1>7. timer[m] = "armed" => ~ResumeSend(m)
  BY <1>0, Zenon DEF ResumeSend, Consistent, StatusTypes
<1> QED
  BY <1>6, <1>7, Zenon

\* The timeout of a message that was sent takes it out of _pending, unless the
\* acknowledgement has done so before (_timeout_watcher).
THEOREM TimedMessageEnds ==
    FairSpec /\ []WatcherRuns => \A m \in Msg : (timer[m] = "armed") ~> (m \notin pending)
<1> SUFFICES ASSUME NEW m \in Msg
             PROVE  FairSpec /\ []WatcherRuns => ((timer[m] = "armed") ~> (m \notin pending))
  OBVIOUS
<1> DEFINE P == timer[m] = "armed" /\ m \in pending
           Q == m \notin pending
<1>1. StatusInv /\ WaitInv /\ P /\ [Next]_vars => P' \/ Q'
  BY TrackedStep, Zenon
<1>2. StatusInv /\ P /\ <<TimeoutWatcher(m)>>_vars => Q'
  BY Zenon DEF TimeoutWatcher
<1>3. WatcherRuns => (P => CanTimeout(m))
  BY DEF WatcherRuns
<1>4. Fairness => MsgFairness(m)
  BY DEF Fairness
<1>5. MsgFairness(m) => WF_vars(TimeoutWatcher(m))
  BY PTL DEF MsgFairness
<1>6. timer[m] = "armed" => P \/ Q
  OBVIOUS
<1> QED
  BY <1>1, <1>2, <1>3, <1>4, <1>5, <1>6, WaitHolds, PTL DEF FairSpec, Spec, CanTimeout

\* Once the connection is gone every tracked message is reported, unless an
\* exception left its send_chat: whoever waits in drain() is woken, and who was
\* let go has a watcher.  TrackedIsResolved fails only while the connection
\* lasts, or by that exception.
THEOREM LossResolves ==
    FairSpec /\ []WatcherRuns /\ []LossIsNoticed
        => \A m \in Msg : (link = "down" /\ m \in pending) ~> (m \notin pending \/ call[m] = "raised")
<1> SUFFICES ASSUME NEW m \in Msg
             PROVE  FairSpec /\ []WatcherRuns /\ []LossIsNoticed
                        => ((link = "down" /\ m \in pending) ~> (m \notin pending \/ call[m] = "raised"))
  BY Zenon
<1> DEFINE n == From[m]
           W == link = "down" /\ m \in pending /\ drain[m] = "wait"
           O == m \in pending /\ drain[m] \notin {"none", "wait"}
           T == m \in pending /\ timer[m] = "armed"
           Q == m \notin pending \/ call[m] = "raised"
<1>0. n \in Node
  BY MsgAssumption
<1>1. StatusInv /\ link = "down" /\ m \in pending => W \/ O \/ T \/ Q
  BY Zenon DEF StatusInv, Consistent, StatusTypes
<1>2. StatusInv /\ WaitInv /\ T /\ [Next]_vars => T' \/ Q'
  BY TrackedStep, Zenon
<1>3. StatusInv /\ T /\ TimeoutWatcher(m) => Q'
  BY Zenon DEF TimeoutWatcher
<1>4. StatusInv /\ WaitInv /\ O /\ ResumeSend(m) => T' \/ Q'
  <2> SUFFICES ASSUME StatusInv, WaitInv, O, ResumeSend(m) PROVE T' \/ Q'
    BY Zenon
  <2>1. StatusTypes /\ drain[m] \in {"ok", "reset", "oserror"} /\ AfterSend(m, drain[m], pending)
    BY Zenon DEF StatusInv, StatusTypes, ResumeSend
  <2>2. CASE drain[m] = "ok"
    BY <2>1, <2>2, Zenon DEF AfterSend, StatusTypes
  <2>3. CASE drain[m] = "reset"
    BY <2>1, <2>3, Zenon DEF AfterSend
  <2>4. CASE drain[m] = "oserror"
    BY <2>1, <2>4, Zenon DEF AfterSend, StatusTypes
  <2> QED
    BY <2>1, <2>2, <2>3, <2>4, Zenon
<1>5. StatusInv /\ WaitInv /\ O /\ [Next]_vars => O' \/ T' \/ Q'
  <2> SUFFICES ASSUME StatusInv, WaitInv, O, [Next]_vars, ~ResumeSend(m), m \in pending' PROVE O'
    BY <1>4, Zenon
  <2>1. call[m] # "idle"
    BY Zenon DEF StatusInv, Consistent
  <2> QED
    BY <2>1, WaitStep, Zenon
<1>6. StatusInv /\ WaitInv /\ W /\ [Next]_vars => W' \/ O' \/ Q'
  <2> SUFFICES ASSUME StatusInv, WaitInv, W, [Next]_vars PROVE link' = "down" /\ drain'[m] # "none"
    BY Zenon
  <2>1. link' = link
    BY Zenon DEF Next, ReadLoop, SendChat, SendOversize, ResumeSend, TimeoutWatcher, ReceiveChat, ReceiveAck, ReceiveOffer,
        ReceiveOther, ResumeLoop, ExitLoop, UserAnswers, Flush, WriteOther, ConnectionLost, Break, vars, tcp
  <2> QED
    BY <2>1, WaitStep, Zenon
<1>7. StatusInv /\ WaitInv /\ W /\ <<ConnectionLost(n)>>_vars /\ [Next]_vars => O' \/ Q'
  BY WaitStep, Zenon
<1>8. WatcherRuns /\ LossIsNoticed /\ WaitInv => (T => CanTimeout(m)) /\ (O => CanResume(m)) /\ (W => CanNotice(n))
  BY <1>0, Zenon DEF WatcherRuns, LossIsNoticed, WaitInv
<1>9. Fairness => MsgFairness(m) /\ NodeFairness(n)
  BY <1>0 DEF Fairness
<1>10. /\ MsgFairness(m) => WF_vars(ResumeSend(m)) /\ WF_vars(TimeoutWatcher(m))
       /\ NodeFairness(n) => WF_vars(ConnectionLost(n))
  BY PTL DEF MsgFairness, NodeFairness
<1> HIDE DEF n
<1> QED
  BY <1>1, <1>2, <1>3, <1>4, <1>5, <1>6, <1>7, <1>8, <1>9, <1>10, WaitHolds, PTL
     DEF FairSpec, Spec, CanTimeout, CanResume, CanNotice
=============================================================================
