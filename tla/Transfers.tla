------------------------------ MODULE Transfers ------------------------------
(***************************************************************************)
(* The transfer engine of core/transfer: FileTransferManager (manager.py), *)
(* FileReceiver (receiver.py, resume.py) and FileSender (sender.py,        *)
(* chunker.py).  Its operations are called here in the order their         *)
(* signatures and tests ask for: an offer is validated, the user answers,  *)
(* a receiver is created and prepared, chunks are written, the transfer is *)
(* finished or aborted.  Several transfers go on at once, all under the    *)
(* same name; a transfer that was cut off is taken up again at its path.   *)
(*                                                                         *)
(* A byte is the position it was read from and the version of the file it  *)
(* was read in.  A write reaches the file at once, but a crash may lose    *)
(* any number of the last bytes of a file that was open (buffered I/O).    *)
(***************************************************************************)
EXTENDS Naturals, Sequences, FiniteSets, FiniteSetsExt

CONSTANTS
    Transfer,
    Size,            \* size of the file, by transfer
    ChunkSize,
    MaxConcurrent,
    MaxTotal,        \* max_total_incoming
    Path,            \* 1, 2, ...: "name", "name (1)", ...
    None,
    MaxTries         \* bound: receivers created for one transfer

ASSUME SizeAssumption == ChunkSize \in Nat \ {0} /\ Size \in [Transfer -> Nat \ {0}]
ASSUME TriesAssumption == MaxTries \in Nat

VARIABLES
    part,            \* path -> contents of the ".part" file
    final,           \* path -> contents of the file itself
    status,          \* the receiver of a transfer, or its offer
    dest,            \* dest_path, as the caller knows it
    handle,          \* where the open file of the receiver is now
    appends,         \* it was opened "ab" and not "wb"
    got,             \* bytes_received
    index,           \* expected_chunk_index
    tries,
    sent,            \* status of the FileSender
    version,         \* of the file the sender reads; checksum is that of 0
    starts,          \* offsets the sender was asked to stream from
    reply,           \* file_complete_ack on its way
    ack,             \* _ack_event and _ack_success
    shared           \* history: transfers given a path another one had

files == <<part, final>>
receivers == <<status, dest, handle, appends, got, index, tries, shared>>
senders == <<sent, version, starts, ack>>
vars == <<files, receivers, senders, reply>>

Byte == [from : Transfer, pos : Nat, version : {0, 1}]
ASSUME NoneAssumption == None \notin Path /\ None \notin BOOLEAN /\ None \notin Seq(Byte)

Active == {t \in Transfer : status[t] \in {"receiving", "offered"}}
Open(p) == \E t \in Transfer : dest[t] = p /\ handle[t] = "part"

TypeOK ==
    /\ \A p \in Path : /\ part[p] = None \/ part[p] \in Seq(Byte)
                       /\ final[p] = None \/ final[p] \in Seq(Byte)
    /\ status \in [Transfer -> {"none", "validated", "offered", "receiving", "verifying",
                                "done", "failed", "dropped", "gone"}]
    /\ dest \in [Transfer -> Path \cup {None}]
    /\ handle \in [Transfer -> {"closed", "part", "final", "unlinked"}]
    /\ appends \in [Transfer -> BOOLEAN]
    /\ \A t \in Transfer : got[t] \in 0..Size[t] /\ index[t] \in 0..Size[t] /\ starts[t] \subseteq 0..Size[t]
    /\ tries \in [Transfer -> 0..MaxTries]
    /\ sent \in [Transfer -> {"offered", "sending", "awaiting_ack", "done", "failed"}]
    /\ version \in [Transfer -> {0, 1}]
    /\ reply \in [Transfer -> SUBSET BOOLEAN]
    /\ ack \in [Transfer -> BOOLEAN \cup {None}]
    /\ shared \subseteq Transfer

Init ==
    /\ part = [p \in Path |-> None] /\ final = [p \in Path |-> None]
    /\ status = [t \in Transfer |-> "none"] /\ dest = [t \in Transfer |-> None]
    /\ handle = [t \in Transfer |-> "closed"] /\ appends = [t \in Transfer |-> FALSE]
    /\ got = [t \in Transfer |-> 0] /\ index = [t \in Transfer |-> 0] /\ tries = [t \in Transfer |-> 0]
    /\ sent = [t \in Transfer |-> "offered"] /\ version = [t \in Transfer |-> 0]
    /\ starts = [t \in Transfer |-> {}]
    /\ reply = [t \in Transfer |-> {}] /\ ack = [t \in Transfer |-> None]
    /\ shared = {}

-----------------------------------------------------------------------------
(* FileTransferManager.                                                    *)

\* active_incoming_count, total_incoming_bytes_pending and the limits.
WithinLimits(t) ==
    /\ Cardinality(Active) < MaxConcurrent
    /\ MapThenSumSet(LAMBDA u : Size[u], Active) + Size[t] <= MaxTotal

\* resolve_safe_dest_path: the first name with neither file.
IsFree(p) == part[p] = None /\ final[p] = None
ResolveSafeDestPath(p) == IsFree(p) /\ \A q \in Path : IsFree(q) => p <= q

\* validate_offer: nothing is reserved.
ValidateOffer(t) ==
    /\ status[t] = "none"
    /\ WithinLimits(t)
    /\ status' = [status EXCEPT ![t] = "validated"]
    /\ \E p \in Path :
        /\ ResolveSafeDestPath(p)
        /\ dest' = [dest EXCEPT ![t] = p]
        /\ LET rivals == {u \in Transfer : dest[u] = p}
           IN  shared' = IF rivals = {} THEN shared ELSE shared \cup rivals \cup {t}
    /\ UNCHANGED <<files, handle, appends, got, index, tries, senders, reply>>

\* create_receiver: after the user accepted, or to take up a dropped transfer.
CreateReceiver(t) ==
    /\ status[t] \in {"validated", "dropped"}
    /\ tries[t] < MaxTries
    /\ tries' = [tries EXCEPT ![t] = @ + 1]
    /\ status' = [status EXCEPT ![t] = "offered"]
    /\ got' = [got EXCEPT ![t] = 0] /\ index' = [index EXCEPT ![t] = 0]
    /\ UNCHANGED <<files, dest, handle, appends, senders, reply, shared>>

\* remove_transfer; a transfer whose ".part" was kept may be taken up again.
RemoveTransfer(t) ==
    /\ status[t] \in {"validated", "verifying", "failed"}
    /\ status' = [status EXCEPT ![t] = IF @ = "failed" /\ dest[t] # None THEN "dropped" ELSE "gone"]
    /\ dest' = [dest EXCEPT ![t] = IF status[t] = "failed" THEN @ ELSE None]
    /\ UNCHANGED <<files, handle, appends, got, index, tries, senders, reply, shared>>

-----------------------------------------------------------------------------
(* FileReceiver.                                                           *)

\* Removing a file, or renaming another over it, leaves open handles on it.
Unlinked(where, p) == [u \in Transfer |-> IF dest[u] = p /\ handle[u] = where THEN "unlinked" ELSE handle[u]]

\* get_partial_bytes
Existing(t) == IF part[dest[t]] = None THEN 0 ELSE Len(part[dest[t]])

PrepareResume(t) ==
    /\ got' = [got EXCEPT ![t] = Existing(t)]
    /\ index' = [index EXCEPT ![t] = Existing(t) \div ChunkSize]
    /\ handle' = [handle EXCEPT ![t] = "part"]
    /\ appends' = [appends EXCEPT ![t] = TRUE]
    /\ starts' = [starts EXCEPT ![t] = @ \cup {Existing(t)}]
    /\ UNCHANGED part

PrepareFresh(t) ==
    /\ got' = [got EXCEPT ![t] = 0] /\ index' = [index EXCEPT ![t] = 0]
    /\ handle' = [Unlinked("part", dest[t]) EXCEPT ![t] = "part"]
    /\ appends' = [appends EXCEPT ![t] = FALSE]
    /\ part' = [part EXCEPT ![dest[t]] = <<>>]
    /\ starts' = [starts EXCEPT ![t] = @ \cup {0}]

\* Mutation: whatever is there is resumed.
PrepareWhatever(t, resume) ==
    /\ status[t] = "offered"
    /\ status' = [status EXCEPT ![t] = "receiving"]
    /\ IF resume /\ 0 < Existing(t) THEN PrepareResume(t) ELSE PrepareFresh(t)
    /\ UNCHANGED <<final, dest, tries, sent, version, ack, reply, shared>>

\* prepare(resume); the offset it returns reaches the sender.
Prepare(t, resume) ==
    /\ status[t] = "offered"
    /\ status' = [status EXCEPT ![t] = "receiving"]
    /\ IF resume /\ 0 < Existing(t) /\ Existing(t) < Size[t] THEN PrepareResume(t) ELSE PrepareFresh(t)
    /\ UNCHANGED <<final, dest, tries, sent, version, ack, reply, shared>>

\* read_chunks: the k-th chunk of a stream that began at start.
Chunk(t, start, k) ==
    LET offset == start + k * ChunkSize
    IN  [sequence |-> start \div ChunkSize + k, offset |-> offset, length |-> Min({ChunkSize, Size[t] - offset})]

Data(t, chunk, v) == [i \in 1..chunk.length |-> [from |-> t, pos |-> chunk.offset + i - 1, version |-> v]]

WriteAt(contents, pos, data) ==
    SubSeq(contents, 1, pos) \o data \o SubSeq(contents, pos + Len(data) + 1, Len(contents))

Write(t, data) ==
    LET Written(contents) == WriteAt(contents, IF appends[t] THEN Len(contents) ELSE got[t], data)
    IN  /\ part' = IF handle[t] = "part" THEN [part EXCEPT ![dest[t]] = Written(@)] ELSE part
        /\ final' = IF handle[t] = "final" THEN [final EXCEPT ![dest[t]] = Written(@)] ELSE final

\* Mutation: the offset is not compared.
InOrderBySequence(t, chunk) == chunk.sequence = index[t]

\* What write_chunk accepts; it raises ChunkValidationError for the rest.
InOrder(t, chunk) == chunk.sequence = index[t] /\ chunk.offset = got[t]

\* write_chunk, with a chunk of any stream the sender was asked for: those of a
\* stream that was cut off may still be arriving.
WriteChunk(t) ==
    /\ status[t] = "receiving"
    /\ \E start \in starts[t], k \in 0..Size[t], v \in 0..version[t] :
        LET chunk == Chunk(t, start, k)
        IN  /\ chunk.offset < Size[t]
            /\ InOrder(t, chunk)
            /\ got[t] + chunk.length <= Size[t]
            /\ Write(t, Data(t, chunk, v))
            /\ got' = [got EXCEPT ![t] = @ + chunk.length]
            /\ index' = [index EXCEPT ![t] = @ + 1]
    /\ UNCHANGED <<status, dest, handle, appends, tries, shared, senders, reply>>

Close(t, handles) == [handles EXCEPT ![t] = "closed"]

\* abort(cleanup): the ".part" file at the path is removed, whoever made it.
AbortWith(t, cleanup) ==
    /\ status' = [status EXCEPT ![t] = "failed"]
    /\ handle' = Close(t, IF cleanup THEN Unlinked("part", dest[t]) ELSE handle)
    /\ part' = IF cleanup THEN [part EXCEPT ![dest[t]] = None] ELSE part
    /\ dest' = IF cleanup THEN [dest EXCEPT ![t] = None] ELSE dest
    /\ UNCHANGED <<final, appends, got, index, tries, shared, senders>>

\* The caller gives up: the user cancelled, or the connection is gone.
Abort(t, cleanup) ==
    /\ status[t] \in {"offered", "receiving"}
    /\ AbortWith(t, cleanup)
    /\ UNCHANGED reply

Offered(t) == [i \in 1..Size[t] |-> [from |-> t, pos |-> i - 1, version |-> 0]]

\* Mutation: the size is compared and the checksum is not.
VerifiesSize(t) == got[t] = Size[t]

\* The SHA-256 of the ".part" file at the path is the offered one.
Verifies(t) == got[t] = Size[t] /\ part[dest[t]] = Offered(t)

\* finalize_part_file: handles on the ".part" file are now on the file itself,
\* and those on a file that was there are on none.
FinalizePartFile(p) ==
    /\ final' = [final EXCEPT ![p] = part[p]]
    /\ part' = [part EXCEPT ![p] = None]
Renamed(p) == [u \in Transfer |-> IF dest[u] = p /\ handle[u] = "part" THEN "final" ELSE Unlinked("final", p)[u]]

\* finish; its result is sent as file_complete_ack.
FinishVerified(t) ==
    /\ status[t] = "receiving" /\ part[dest[t]] # None
    /\ Verifies(t)
    /\ status' = [status EXCEPT ![t] = "done"]
    /\ handle' = Close(t, Renamed(dest[t]))
    /\ FinalizePartFile(dest[t])
    /\ reply' = [reply EXCEPT ![t] = @ \cup {TRUE}]
    /\ UNCHANGED <<dest, appends, got, index, tries, shared, senders>>

FinishRefused(t) ==
    /\ status[t] = "receiving"
    /\ got[t] # Size[t] \/ (part[dest[t]] # None /\ ~Verifies(t))
    /\ AbortWith(t, TRUE)
    /\ reply' = [reply EXCEPT ![t] = @ \cup {FALSE}]

\* sha256_file raises: another transfer has removed or renamed the file.
FinishRaises(t) ==
    /\ status[t] = "receiving"
    /\ got[t] = Size[t] /\ part[dest[t]] = None
    /\ status' = [status EXCEPT ![t] = "verifying"]
    /\ handle' = Close(t, handle)
    /\ UNCHANGED <<files, dest, appends, got, index, tries, shared, senders, reply>>

\* The process of the receiver ends, with any number of the last bytes unwritten.
Crash ==
    /\ \E t \in Transfer : status[t] \in {"validated", "offered", "receiving", "verifying", "failed"}
    /\ \E lost \in [Path -> UNION {0..Size[t] : t \in Transfer}] :
        /\ \A p \in Path : lost[p] > 0 => Open(p) /\ lost[p] <= Len(part[p])
        /\ part' = [p \in Path |-> IF Open(p) THEN SubSeq(part[p], 1, Len(part[p]) - lost[p]) ELSE part[p]]
    /\ handle' = [t \in Transfer |-> "closed"]
    /\ status' = [t \in Transfer |->
                    IF status[t] \in {"none", "done", "gone", "dropped"} THEN status[t]
                    ELSE IF status[t] = "validated" \/ dest[t] = None THEN "gone" ELSE "dropped"]
    /\ dest' = [t \in Transfer |-> IF status[t] = "validated" THEN None ELSE dest[t]]
    /\ UNCHANGED <<final, appends, got, index, tries, shared, senders, reply>>

-----------------------------------------------------------------------------
(* FileSender.                                                             *)

\* get_chunks; a failed transfer is streamed again by the same FileSender.
GetChunks(t) ==
    /\ sent[t] \in {"offered", "failed"} /\ starts[t] # {}
    /\ sent' = [sent EXCEPT ![t] = "sending"]
    /\ UNCHANGED <<files, receivers, version, starts, ack, reply>>

\* The file is edited after the FileSender took its checksum.
FileChanges(t) ==
    /\ version[t] = 0 /\ sent[t] = "sending"
    /\ version' = [version EXCEPT ![t] = 1]
    /\ UNCHANGED <<files, receivers, sent, starts, ack, reply>>

\* mark_ack, whenever the answer comes.
MarkAck(t) ==
    /\ \E success \in reply[t] :
        /\ ack' = [ack EXCEPT ![t] = success]
        /\ reply' = [reply EXCEPT ![t] = @ \ {success}]
    /\ UNCHANGED <<files, receivers, sent, version, starts>>

WaitForAck(t) ==
    /\ sent[t] = "sending"
    /\ sent' = [sent EXCEPT ![t] = "awaiting_ack"]
    /\ UNCHANGED <<files, receivers, version, starts, ack, reply>>

\* wait_for_ack returns, with the answer or after COMPLETE_ACK_TIMEOUT.
WaitReturns(t) ==
    /\ sent[t] = "awaiting_ack"
    /\ sent' = [sent EXCEPT ![t] = IF ack[t] = TRUE THEN "done" ELSE "failed"]
    /\ UNCHANGED <<files, receivers, version, starts, ack, reply>>

-----------------------------------------------------------------------------
Next ==
    \/ \E t \in Transfer :
        \/ ValidateOffer(t) \/ CreateReceiver(t) \/ RemoveTransfer(t)
        \/ \E b \in BOOLEAN : Prepare(t, b) \/ Abort(t, b)
        \/ WriteChunk(t) \/ FinishVerified(t) \/ FinishRefused(t) \/ FinishRaises(t)
        \/ GetChunks(t) \/ FileChanges(t) \/ MarkAck(t) \/ WaitForAck(t) \/ WaitReturns(t)
    \/ Crash

Spec == Init /\ [][Next]_vars

-----------------------------------------------------------------------------
\* What a receiver has counted is what is in its ".part" file, in the order of
\* the file: after crashes in the middle of a chunk, resumes, and streams that
\* overlap with the one resumed, the two checks of write_chunk still leave no
\* gap and no repetition, unless the path was handed to two transfers.
PartIsPrefix ==
    \A t \in Transfer : status[t] = "receiving" /\ t \notin shared =>
        LET contents == part[dest[t]]
        IN  /\ handle[t] = "part" /\ Len(contents) = got[t]
            /\ \A i \in 1..got[t] : contents[i].from = t /\ contents[i].pos = i - 1

\* A transfer that either side reports as done is on the receiver's disk as it
\* was offered, and stays there, unless its path was handed to two transfers:
\* validate_offer reserves nothing between the offer and prepare.
DoneIsDelivered ==
    \A t \in Transfer : (status[t] = "done" \/ sent[t] = "done") /\ t \notin shared =>
        status[t] = "done" /\ final[dest[t]] = Offered(t)
=============================================================================
