---------------------------- MODULE FileTransfer ----------------------------
(***************************************************************************)
(* FileTransferSession (file_transfer.py) with the helpers of core/transfer *)
(* it calls: any number of senders, one receiver and its downloads         *)
(* directory.  All transfers carry the same file name, the case in which   *)
(* their paths can meet; path k is that name with counter k.               *)
(*                                                                         *)
(* send() writes the frame at once and then waits in drain() while more    *)
(* than NetCap[l] frames are on their way; losing the connection ends the  *)
(* wait.  A handler of the receiver runs inside the read loop of its       *)
(* connection and keeps that loop while it waits for the user or in drain. *)
(* Other traffic of a connection (chat, transfers the other way) is not    *)
(* modelled: a read loop that one of its handlers holds is one that takes  *)
(* no step here, and no read loop is assumed to take any.                  *)
(*                                                                         *)
(* A file on disk is named by the transfer that opened it ("wb" after      *)
(* cleanup_part_file makes a new one); a name can go to another file while *)
(* the first is still being written, as on any POSIX system.  Transfers    *)
(* have pairwise different contents, so a checksum matches only the file   *)
(* of the transfer itself, written completely and as it was when offered.  *)
(***************************************************************************)
EXTENDS Naturals, Sequences, FiniteSets

CONSTANTS
    Transfer,
    Link,        \* connections into the receiver
    On,          \* On[t]: the connection t uses
    Size,        \* Size[t]: the offered size, in chunks
    TooLarge,    \* transfers above MAX_INCOMING_FILE_SIZE
    NoFile,
    NoTransfer,
    NetCap,      \* NetCap[l]: frames on their way beyond which drain() waits
    Editable     \* transfers whose file may be edited after it was offered

ASSUME TransferAssumption ==
    /\ On \in [Transfer -> Link] /\ Size \in [Transfer -> Nat]
    /\ TooLarge \subseteq Transfer /\ Editable \subseteq Transfer
    /\ NoFile \notin Transfer /\ NoTransfer \notin Transfer
    /\ IsFiniteSet(Transfer)
ASSUME CapAssumption == NetCap \in [Link -> Nat]

\* One counter more than there are transfers is never needed.
Path == 0..Cardinality(Transfer)

VARIABLES
    sent,        \* sent[t]: OutgoingTransfer.status, and what precedes it
    next,        \* next[t]: index of the next chunk read from the sender's file
    edit,        \* edit[t]: what happened to the sender's file since the offer
    ack,         \* ack[t]: _ack_event and _ack_success
    got,         \* got[t]: IncomingTransfer.status, and what surrounds it
    dest,        \* dest[t]: counter of dest_path, once it is resolved
    written,     \* written[t]: per chunk in t's file, whether it is as offered
    part,        \* part[k]: the file that path k + ".part" names
    final,       \* final[k]: the file that path k names
    busy,        \* busy[l]: the transfer l's read loop is held by
    data, back,  \* frames from and to the sender, per connection
    up,          \* up[l]: the connection is open
    early        \* history: transfers whose file_accept came before offer_file returned

senderVars == <<sent, next, edit, ack, early>>
receiverVars == <<got, dest, written, part, final, busy>>
wires == <<data, back, up>>
vars == <<senderVars, receiverVars, wires>>

DataFrame == [type : {"file_offer", "file_done"}, id : Transfer]
                \cup [type : {"file_data"}, id : Transfer, seq : Nat, good : BOOLEAN]
BackFrame == [type : {"file_accept", "file_reject"}, id : Transfer]
                \cup [type : {"file_complete_ack"}, id : Transfer, success : BOOLEAN]

TypeOK ==
    /\ sent \in [Transfer -> {"new", "offering", "offered", "sending", "finishing",
                              "awaiting_ack", "done", "failed", "rejected", "unsent"}]
    /\ next \in [Transfer -> Nat]
    /\ edit \in [Transfer -> {"none", "changed", "longer", "shorter", "gone"}]
    /\ ack \in [Transfer -> {"none", "good", "bad"}]
    /\ got \in [Transfer -> {"none", "asked", "receiving", "verified", "mismatch",
                             "done", "failed", "rejected", "raised"}]
    /\ dest \in [Transfer -> Path]
    /\ written \in [Transfer -> Seq(BOOLEAN)]
    /\ \A t \in Transfer : Len(written[t]) <= Size[t]
    /\ part \in [Path -> Transfer \cup {NoFile}]
    /\ final \in [Path -> Transfer \cup {NoFile}]
    /\ busy \in [Link -> Transfer \cup {NoTransfer}]
    /\ data \in [Link -> Seq(DataFrame)]
    /\ back \in [Link -> Seq(BackFrame)]
    /\ up \in [Link -> BOOLEAN]
    /\ early \subseteq Transfer

Init ==
    /\ sent = [t \in Transfer |-> "new"]
    /\ next = [t \in Transfer |-> 0]
    /\ edit = [t \in Transfer |-> "none"]
    /\ ack = [t \in Transfer |-> "none"]
    /\ got = [t \in Transfer |-> "none"]
    /\ dest = [t \in Transfer |-> 0]
    /\ written = [t \in Transfer |-> <<>>]
    /\ part = [k \in Path |-> NoFile]
    /\ final = [k \in Path |-> NoFile]
    /\ busy = [l \in Link |-> NoTransfer]
    /\ data = [l \in Link |-> <<>>]
    /\ back = [l \in Link |-> <<>>]
    /\ up = [l \in Link |-> TRUE]
    /\ early = {}

\* manager.send on an open connection writes at once; its drain ends when the
\* other end has read enough, or when the connection is lost.
Put(wire, l, f) == [wire EXCEPT ![l] = Append(@, f)]
Drained(wire, l) == up[l] => Len(wire[l]) <= NetCap[l]

\* What a sent answer adds to the wire; on a closed connection send returns False.
Reply(l, f) == back' = IF up[l] THEN Put(back, l, f) ELSE back

-----------------------------------------------------------------------------
(* The sender.                                                             *)

\* offer_file: the offer is written; the coroutine waits in drain.
OfferFile(t) ==
    /\ sent[t] = "new"
    /\ IF up[On[t]]
       THEN /\ sent' = [sent EXCEPT ![t] = "offering"]
            /\ data' = Put(data, On[t], [type |-> "file_offer", id |-> t])
       ELSE sent' = [sent EXCEPT ![t] = "unsent"] /\ UNCHANGED data
    /\ UNCHANGED <<next, edit, ack, early, receiverVars, back, up>>

\* offer_file returns from send; only now is the transfer in _outgoing.
OfferSent(t) ==
    /\ sent[t] = "offering" /\ Drained(data, On[t])
    /\ sent' = [sent EXCEPT ![t] = IF up[On[t]] THEN "offered" ELSE "unsent"]
    /\ UNCHANGED <<next, edit, ack, early, receiverVars, wires>>

\* The file is edited or removed while the transfer is under way.
EditFile(t) ==
    /\ t \in Editable
    /\ edit[t] = "none" /\ sent[t] \in {"offered", "sending"}
    /\ \E how \in {"changed", "longer", "shorter", "gone"} : edit' = [edit EXCEPT ![t] = how]
    /\ UNCHANGED <<sent, next, ack, early, receiverVars, wires>>

\* Transfers in _outgoing; an answer for any other is ignored.
Outgoing == {t \in Transfer : sent[t] \in {"offered", "sending", "finishing", "awaiting_ack"}}

\* _handle_accept finds no transfer, because offer_file has not returned.
EarlyAfter(f) == IF f.type = "file_accept" /\ sent[f.id] = "offering" THEN early \cup {f.id} ELSE early

\* Mutation: a failure report is taken for a success.
SenderReadsAnyAck(l) ==
    /\ up[l] /\ back[l] # <<>>
    /\ back' = [back EXCEPT ![l] = Tail(@)]
    /\ LET f == Head(back[l]) IN
       IF f.id \notin Outgoing THEN UNCHANGED <<sent, ack>>
       ELSE /\ sent' = [sent EXCEPT ![f.id] = CASE f.type = "file_accept" -> "sending"
                                                [] f.type = "file_reject" -> "rejected"
                                                [] OTHER -> @]
            /\ ack' = [ack EXCEPT ![f.id] = IF f.type = "file_complete_ack" THEN "good" ELSE @]
    /\ early' = EarlyAfter(Head(back[l]))
    /\ UNCHANGED <<next, edit, receiverVars, data, up>>

\* The sender's read loop: _handle_accept, _handle_reject, _handle_complete_ack.
SenderReads(l) ==
    /\ up[l] /\ back[l] # <<>>
    /\ back' = [back EXCEPT ![l] = Tail(@)]
    /\ LET f == Head(back[l]) IN
       IF f.id \notin Outgoing THEN UNCHANGED <<sent, ack>>
       ELSE /\ sent' = [sent EXCEPT ![f.id] = CASE f.type = "file_accept" -> "sending"
                                                [] f.type = "file_reject" -> "rejected"
                                                [] OTHER -> @]
            /\ ack' = [ack EXCEPT ![f.id] = IF f.type # "file_complete_ack" THEN @
                                            ELSE IF f.success THEN "good" ELSE "bad"]
    /\ early' = EarlyAfter(Head(back[l]))
    /\ UNCHANGED <<next, edit, receiverVars, data, up>>

\* read_chunks: the file as it is now.
ChunkCount(t) == CASE edit[t] = "longer"  -> Size[t] + 2
                   [] edit[t] = "shorter" -> Size[t] - 1
                   [] OTHER               -> Size[t]
Unreadable(t) == edit[t] = "gone" /\ next[t] = 0

\* send_binary of the chunk before, if there was one, has returned.
ChunkSent(t) == next[t] > 0 => Drained(data, On[t])

\* _send_chunks, one chunk.
SendChunk(t) ==
    /\ sent[t] = "sending" /\ ~Unreadable(t)
    /\ up[On[t]] /\ ChunkSent(t)
    /\ next[t] < ChunkCount(t)
    /\ data' = Put(data, On[t], [type |-> "file_data", id |-> t, seq |-> next[t],
                                 good |-> edit[t] # "changed" /\ next[t] < Size[t]])
    /\ next' = [next EXCEPT ![t] = @ + 1]
    /\ UNCHANGED <<sent, edit, ack, early, receiverVars, back, up>>

\* Mutation: the result of send_binary is not looked at.
SendFailsUnreadable(t) ==
    /\ sent[t] = "sending"
    /\ Unreadable(t)
    /\ sent' = [sent EXCEPT ![t] = "failed"]
    /\ UNCHANGED <<next, edit, ack, early, receiverVars, wires>>

\* _send_chunks: the file cannot be opened, or the connection is lost and
\* send_binary returns False or a send raises an OSError it does not catch.
SendFails(t) ==
    /\ \/ sent[t] = "sending" /\ Unreadable(t)
       \/ sent[t] \in {"sending", "finishing"} /\ ~up[On[t]]
    /\ sent' = [sent EXCEPT ![t] = "failed"]
    /\ UNCHANGED <<next, edit, ack, early, receiverVars, wires>>

\* Mutation: file_done is dropped when drain would have to wait.
SendDoneNow(t) ==
    /\ sent[t] = "sending" /\ ~Unreadable(t)
    /\ next[t] >= ChunkCount(t) /\ ChunkSent(t)
    /\ data' = IF up[On[t]] /\ Len(data[On[t]]) < NetCap[On[t]]
               THEN Put(data, On[t], [type |-> "file_done", id |-> t]) ELSE data
    /\ sent' = [sent EXCEPT ![t] = "finishing"]
    /\ UNCHANGED <<next, edit, ack, early, receiverVars, back, up>>

\* _send_chunks: file_done is written.
SendDone(t) ==
    /\ sent[t] = "sending" /\ ~Unreadable(t)
    /\ next[t] >= ChunkCount(t) /\ ChunkSent(t)
    /\ data' = IF up[On[t]] THEN Put(data, On[t], [type |-> "file_done", id |-> t]) ELSE data
    /\ sent' = [sent EXCEPT ![t] = "finishing"]
    /\ UNCHANGED <<next, edit, ack, early, receiverVars, back, up>>

\* _send_chunks: that send returns; whether it succeeded is not looked at.
DoneSent(t) ==
    /\ sent[t] = "finishing" /\ Drained(data, On[t])
    /\ sent' = [sent EXCEPT ![t] = "awaiting_ack"]
    /\ UNCHANGED <<next, edit, ack, early, receiverVars, wires>>

\* The wait for file_complete_ack ends: it came, or COMPLETE_ACK_TIMEOUT passed.
AckWaitEnds(t) ==
    /\ sent[t] = "awaiting_ack"
    /\ sent' = [sent EXCEPT ![t] = IF ack[t] = "good" THEN "done" ELSE "failed"]
    /\ UNCHANGED <<next, edit, ack, early, receiverVars, wires>>

-----------------------------------------------------------------------------
(* The receiver.                                                           *)

ReceiverTakes(l, type) ==
    /\ up[l] /\ busy[l] = NoTransfer /\ data[l] # <<>>
    /\ Head(data[l]).type = type
    /\ data' = [data EXCEPT ![l] = Tail(@)]

\* resolve_safe_dest_path: the first counter with neither a file nor a ".part".
ResolvedPath ==
    LET free == {k \in Path : final[k] = NoFile /\ part[k] = NoFile}
    IN  CHOOSE k \in free : \A j \in free : k <= j

\* _handle_offer up to the user's decision; size, then disk space, then path.
HandleOffer(l) ==
    /\ ReceiverTakes(l, "file_offer")
    /\ LET t == Head(data[l]).id IN
       \/ /\ got' = [got EXCEPT ![t] = "rejected"]   \* too large, or no disk space
          /\ Reply(l, [type |-> "file_reject", id |-> t])
          /\ UNCHANGED dest
       \/ /\ t \notin TooLarge
          /\ got' = [got EXCEPT ![t] = "asked"]
          /\ dest' = [dest EXCEPT ![t] = ResolvedPath]
          /\ UNCHANGED back
    /\ busy' = [busy EXCEPT ![l] = Head(data[l]).id]
    /\ UNCHANGED <<senderVars, written, part, final, up>>

\* The user declines.
Decline(t) ==
    /\ got[t] = "asked"
    /\ got' = [got EXCEPT ![t] = "rejected"]
    /\ Reply(On[t], [type |-> "file_reject", id |-> t])
    /\ UNCHANGED <<senderVars, dest, written, part, final, busy, data, up>>

\* The user accepts: remove what is at the ".part" path, open it, register, answer.
Accept(t) ==
    /\ got[t] = "asked"
    /\ got' = [got EXCEPT ![t] = "receiving"]
    /\ part' = [part EXCEPT ![dest[t]] = t]
    /\ Reply(On[t], [type |-> "file_accept", id |-> t])
    /\ UNCHANGED <<senderVars, dest, written, final, busy, data, up>>

\* Mutation: the ".part" file is left in place.
AbortIncomingKeepsPart(t) ==
    /\ got' = [got EXCEPT ![t] = "failed"]
    /\ final' = [final EXCEPT ![dest[t]] = NoFile]
    /\ Reply(On[t], [type |-> "file_complete_ack", id |-> t, success |-> FALSE])
    /\ busy' = [busy EXCEPT ![On[t]] = t]
    /\ UNCHANGED <<written, part>>

\* _abort_incoming removes both paths, whatever file they name by now; then it
\* answers.
AbortIncoming(t) ==
    /\ got' = [got EXCEPT ![t] = "failed"]
    /\ part' = [part EXCEPT ![dest[t]] = NoFile]
    /\ final' = [final EXCEPT ![dest[t]] = NoFile]
    /\ Reply(On[t], [type |-> "file_complete_ack", id |-> t, success |-> FALSE])
    /\ busy' = [busy EXCEPT ![On[t]] = t]
    /\ UNCHANGED written

\* Mutation: the declared size is not enforced.
HandleChunkUnbounded(l) ==
    /\ ReceiverTakes(l, "file_data")
    /\ LET f == Head(data[l]) IN
       IF got[f.id] # "receiving"
       THEN UNCHANGED <<got, written, part, final, busy, back>>
       ELSE /\ written' = [written EXCEPT ![f.id] = Append(@, f.good)]
            /\ UNCHANGED <<got, part, final, busy, back>>
    /\ UNCHANGED <<senderVars, dest, up>>

\* _handle_chunk: sequence and offset, then size, then the write.
HandleChunk(l) ==
    /\ ReceiverTakes(l, "file_data")
    /\ LET f == Head(data[l]) IN
       IF got[f.id] # "receiving"
       THEN UNCHANGED <<got, written, part, final, busy, back>>
       ELSE IF f.seq # Len(written[f.id]) \/ Len(written[f.id]) + 1 > Size[f.id]
       THEN AbortIncoming(f.id)
       ELSE /\ written' = [written EXCEPT ![f.id] = Append(@, f.good)]
            /\ UNCHANGED <<got, part, final, busy, back>>
    /\ UNCHANGED <<senderVars, dest, up>>

\* The file of t holds what was offered.
Complete(t) == Len(written[t]) = Size[t] /\ \A i \in 1..Len(written[t]) : written[t][i]

\* Mutation: only the number of bytes is compared.
VerifiedBySize(t) == Len(written[t]) = Size[t]

\* sha256_file of the ".part" path is the offered checksum and all bytes came.
Verified(t) == part[dest[t]] = t /\ Complete(t)

\* _handle_done up to the send of file_complete_ack.  sha256_file raises if the
\* ".part" is gone: the handler ends there and the event bus logs it.
HandleDone(l) ==
    /\ ReceiverTakes(l, "file_done")
    /\ LET t == Head(data[l]).id IN
       IF got[t] # "receiving"
       THEN UNCHANGED <<got, busy, back>>
       ELSE IF part[dest[t]] = NoFile
       THEN got' = [got EXCEPT ![t] = "raised"] /\ UNCHANGED <<busy, back>>
       ELSE /\ got' = [got EXCEPT ![t] = IF Verified(t) THEN "verified" ELSE "mismatch"]
            /\ busy' = [busy EXCEPT ![l] = t]
            /\ Reply(l, [type |-> "file_complete_ack", id |-> t, success |-> Verified(t)])
    /\ UNCHANGED <<senderVars, dest, written, part, final, up>>

\* The drain of an answer ends (or raises); nothing follows it in the handler.
HandlerReturns(l) ==
    /\ busy[l] # NoTransfer /\ Drained(back, l)
    /\ got[busy[l]] \in {"receiving", "rejected", "failed"}
    /\ busy' = [busy EXCEPT ![l] = NoTransfer]
    /\ UNCHANGED <<senderVars, got, dest, written, part, final, wires>>

\* _handle_done: the send of file_complete_ack raises, an OSError other than the
\* two that send catches.  The transfer is in _incoming no more, its ".part" stays.
HandlerRaises(t) ==
    /\ got[t] \in {"verified", "mismatch"} /\ ~up[On[t]]
    /\ got' = [got EXCEPT ![t] = "raised"]
    /\ busy' = [busy EXCEPT ![On[t]] = NoTransfer]
    /\ UNCHANGED <<senderVars, dest, written, part, final, wires>>

\* _handle_done after that send: clean up, or move ".part" over the final path.
FinishDone(t) ==
    /\ Drained(back, On[t])
    /\ \/ /\ got[t] = "mismatch"
          /\ got' = [got EXCEPT ![t] = "failed"]
          /\ part' = [part EXCEPT ![dest[t]] = NoFile]
          /\ UNCHANGED final
       \/ /\ got[t] = "verified" /\ part[dest[t]] = NoFile
          /\ got' = [got EXCEPT ![t] = "raised"]
          /\ UNCHANGED <<part, final>>
       \/ /\ got[t] = "verified" /\ part[dest[t]] # NoFile
          /\ got' = [got EXCEPT ![t] = "done"]
          /\ final' = [final EXCEPT ![dest[t]] = part[dest[t]]]
          /\ part' = [part EXCEPT ![dest[t]] = NoFile]
    /\ busy' = [busy EXCEPT ![On[t]] = NoTransfer]
    /\ UNCHANGED <<senderVars, dest, written, wires>>

-----------------------------------------------------------------------------
\* The connection is lost with what is on it.  The receiver keeps its transfers.
Break(l) ==
    /\ up[l]
    /\ up' = [up EXCEPT ![l] = FALSE]
    /\ data' = [data EXCEPT ![l] = <<>>]
    /\ back' = [back EXCEPT ![l] = <<>>]
    /\ UNCHANGED <<senderVars, receiverVars>>

SendTask(t) == SendChunk(t) \/ SendFails(t) \/ SendDone(t) \/ DoneSent(t) \/ AckWaitEnds(t)
ReceiverReads(l) == HandleOffer(l) \/ HandleChunk(l) \/ HandleDone(l)
UserAnswers(t) == Accept(t) \/ Decline(t)

Next ==
    \/ \E t \in Transfer : OfferFile(t) \/ OfferSent(t) \/ EditFile(t) \/ SendTask(t)
    \/ \E t \in Transfer : UserAnswers(t) \/ FinishDone(t) \/ HandlerRaises(t)
    \/ \E l \in Link : SenderReads(l) \/ ReceiverReads(l) \/ HandlerReturns(l) \/ Break(l)

Spec == Init /\ [][Next]_vars

\* The event loop runs a sending task that can run; nothing else is assumed.
TaskFairness(t) == WF_vars(SendTask(t))
Fairness == \A t \in Transfer : TaskFairness(t)

FairSpec == Spec /\ Fairness

-----------------------------------------------------------------------------
(* Properties.                                                             *)

\* The sender reports success only when the receiver's copy is complete and
\* as it was offered, whatever happened to the sender's file, to the
\* connection or to the receiver's paths meanwhile (_handle_complete_ack,
\* _handle_done).
SuccessIsVerified ==
    \A t \in Transfer : sent[t] = "done" => Complete(t)

\* Transfers that resolved the same path.
Shares(t) ==
    \E u \in Transfer \ {t} : /\ dest[u] = dest[t]
                              /\ got[u] \notin {"none", "asked", "rejected"}

\* A transfer that the receiver reports done is at the path it reports,
\* complete and as offered, unless another accepted transfer had resolved the
\* same path (_handle_offer resolves it before it asks the user).
DoneIsStored ==
    \A t \in Transfer : got[t] = "done" /\ ~Shares(t) => final[dest[t]] = t /\ Complete(t)

\* A ".part" file in the downloads directory belongs to a transfer that is
\* still received or verified: one that was rejected, aborted, found corrupt or
\* finished leaves none behind (_abort_incoming, _handle_done; CHANGELOG:
\* "Rejected offers and checksum mismatches leave no partial file").  The one
\* exception is a lost connection that makes the last send of _handle_done raise.
PartIsActive ==
    \A k \in Path : part[k] # NoFile =>
        \/ got[part[k]] \in {"receiving", "verified", "mismatch"}
        \/ got[part[k]] = "raised" /\ ~up[On[part[k]]]

\* A receiver waits for a transfer that will not go on, on an open connection,
\* only if the accept overtook the registration in offer_file, which then
\* ignores it, or the sender's file is gone: _send_chunks tells its own user
\* of the OSError and nobody else.  In every other case the accept, the sending
\* task or a frame of the transfer is still under way.
StalledHasCause ==
    \A t \in Transfer : got[t] = "receiving" /\ up[On[t]] =>
        \/ sent[t] = "sending"
        \/ \E i \in DOMAIN back[On[t]] : back[On[t]][i] = [type |-> "file_accept", id |-> t]
        \/ \E i \in DOMAIN data[On[t]] : data[On[t]][i].id = t
        \/ t \in early
        \/ edit[t] = "gone"

\* The receiver's read loop of l takes the frames that reach it, and no handler
\* keeps it for ever: not the user with an offer, nor a drain nobody empties.
KeepsReading(l) ==
    WF_vars(ReceiverReads(l)) /\ []<>(busy[l] = NoTransfer \/ ~up[l])

\* Every upload that started ends with a report, done or failed, whatever
\* happens to the file, to the connection or to the answers, provided that the
\* read loop at the other end keeps reading (_send_chunks).
SendingEnds ==
    \A t \in Transfer :
        KeepsReading(On[t]) => ((sent[t] = "sending") ~> (sent[t] \in {"done", "failed"}))

\* CHANGELOG: the ".part" scheme is "preventing incomplete or corrupted files
\* from being exposed to the user".
ExposedIsComplete == \A k \in Path : final[k] # NoFile => Complete(final[k])
=============================================================================
