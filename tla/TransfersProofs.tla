--------------------------- MODULE TransfersProofs ---------------------------
(***************************************************************************)
(* Proofs about Transfers, for any transfers, sizes, chunk size and paths. *)
(* A path that one transfer has is touched by no other, so for a transfer  *)
(* that shares none the ".part" file holds its own bytes in order from the *)
(* validation of the offer on, through crashes and resumes; and a file     *)
(* that was verified stays.                                                *)
(***************************************************************************)
EXTENDS Transfers, SequenceTheorems, TLAPS

Types ==
    /\ part \in [Path -> Seq(Byte) \cup {None}]
    /\ final \in [Path -> Seq(Byte) \cup {None}]
    /\ status \in [Transfer -> {"none", "validated", "offered", "receiving", "verifying",
                                "done", "failed", "dropped", "gone"}]
    /\ dest \in [Transfer -> Path \cup {None}]
    /\ handle \in [Transfer -> {"closed", "part", "final", "unlinked"}]
    /\ appends \in [Transfer -> BOOLEAN]
    /\ got \in [Transfer -> Nat] /\ index \in [Transfer -> Nat] /\ starts \in [Transfer -> SUBSET Nat]
    /\ tries \in [Transfer -> 0..MaxTries]
    /\ sent \in [Transfer -> {"offered", "sending", "awaiting_ack", "done", "failed"}]
    /\ version \in [Transfer -> {0, 1}]
    /\ reply \in [Transfer -> SUBSET BOOLEAN]
    /\ ack \in [Transfer -> BOOLEAN \cup {None}]
    /\ shared \subseteq Transfer

\* What a receiver has counted.
CountInv == \A t \in Transfer : got[t] <= Size[t] /\ index[t] <= got[t] /\ starts[t] \subseteq 0..Size[t]

\* Only a transfer that is receiving has a file open, at the path it was given.
\* A handle that does not append writes inside the file.
HandleInv ==
    \A t \in Transfer :
        /\ status[t] \in {"validated", "offered", "receiving", "done", "dropped"} => dest[t] # None
        /\ status[t] # "receiving" => handle[t] = "closed"
        /\ handle[t] = "part" => /\ part[dest[t]] # None
                                 /\ ~appends[t] => got[t] <= Len(part[dest[t]])
        /\ handle[t] = "final" => /\ final[dest[t]] # None
                                  /\ ~appends[t] => got[t] <= Len(final[dest[t]])

SharedInv ==
    \A t, u \in Transfer : t # u /\ dest[t] = dest[u] /\ dest[t] # None => t \in shared /\ u \in shared

\* The bytes of t, in order and from the start.
Mine(contents, t) == \A i \in 1..Len(contents) : contents[i].from = t /\ contents[i].pos = i - 1

OwnInv ==
    \A t \in Transfer : t \notin shared /\ dest[t] # None =>
        /\ status[t] = "validated" => part[dest[t]] = None
        /\ part[dest[t]] = None \/ Mine(part[dest[t]], t)
        /\ status[t] = "receiving" => handle[t] = "part" /\ Len(part[dest[t]]) = got[t]
        /\ status[t] = "done" => final[dest[t]] = Offered(t)

AckInv ==
    \A t \in Transfer : TRUE \in reply[t] \/ ack[t] = TRUE \/ sent[t] = "done" => status[t] = "done"

Inv == Types /\ CountInv /\ HandleInv /\ SharedInv /\ OwnInv /\ AckInv

-----------------------------------------------------------------------------
(* Files and chunks.                                                       *)

\* Writing inside a file or at its end.
LEMMA WriteAtFacts ==
    ASSUME NEW S, NEW c \in Seq(S), NEW d \in Seq(S), NEW pos \in 0..Len(c)
    PROVE  /\ WriteAt(c, pos, d) \in Seq(S)
           /\ Len(WriteAt(c, pos, d)) >= Len(c) /\ Len(WriteAt(c, pos, d)) >= pos + Len(d)
           /\ pos = Len(c) => WriteAt(c, pos, d) = c \o d
<1> DEFINE before == SubSeq(c, 1, pos)
           after == SubSeq(c, pos + Len(d) + 1, Len(c))
<1>0. Len(c) \in Nat /\ Len(d) \in Nat /\ pos \in Nat /\ pos <= Len(c)
  OBVIOUS
<1>1. before \in Seq(S) /\ Len(before) = pos
  <2>1. \A i \in 1..pos : c[i] \in S
    BY <1>0, ElementOfSeq
  <2> QED
    BY <1>0, <2>1, SubSeqProperties
<1>2. after \in Seq(S) /\ Len(after) = IF pos + Len(d) + 1 <= Len(c) THEN Len(c) - (pos + Len(d)) ELSE 0
  <2>1. \A i \in (pos + Len(d) + 1)..Len(c) : c[i] \in S
    BY <1>0, ElementOfSeq
  <2>2. /\ after \in Seq(S)
        /\ Len(after) = IF pos + Len(d) + 1 <= Len(c) THEN Len(c) - (pos + Len(d) + 1) + 1 ELSE 0
    BY <1>0, <2>1, SubSeqProperties
  <2> QED
    BY <1>0, <2>2
<1>3. before \o d \in Seq(S) /\ Len(before \o d) = pos + Len(d)
  BY <1>1, ConcatProperties
<1>4. (before \o d) \o after \in Seq(S) /\ Len((before \o d) \o after) = pos + Len(d) + Len(after)
  BY <1>2, <1>3, ConcatProperties, ZenonT(60)
<1>5. WriteAt(c, pos, d) = (before \o d) \o after
  BY DEF WriteAt
<1>6. ASSUME pos = Len(c) PROVE before = c /\ after = <<>>
  <2>1. before = c
    BY <1>6, SubSeqFull
  <2>2. pos + Len(d) + 1 \in Int /\ Len(c) \in Int /\ Len(c) < pos + Len(d) + 1
    BY <1>0, <1>6
  <2> QED
    BY <2>1, <2>2, SubSeqEmpty
<1> HIDE DEF before, after
<1>7. pos = Len(c) => WriteAt(c, pos, d) = c \o d
  BY <1>3, <1>5, <1>6, ConcatEmptySeq
<1>8. WriteAt(c, pos, d) \in Seq(S) /\ Len(WriteAt(c, pos, d)) = pos + Len(d) + Len(after)
  BY <1>4, <1>5
<1>9. pos + Len(d) + Len(after) >= Len(c) /\ pos + Len(d) + Len(after) >= pos + Len(d)
  <2>1. CASE pos + Len(d) + 1 <= Len(c)
    BY <1>0, <1>2, <2>1
  <2>2. CASE ~(pos + Len(d) + 1 <= Len(c))
    BY <1>0, <1>2, <2>2
  <2> QED
    BY <2>1, <2>2
<1> QED
  BY <1>7, <1>8, <1>9, Zenon

\* read_chunks gives the bytes of the file from the offset on, at least one.
LEMMA ChunkFacts ==
    ASSUME NEW t \in Transfer, NEW start \in Nat, NEW k \in Nat, NEW v \in {0, 1},
           Chunk(t, start, k).offset < Size[t]
    PROVE  LET chunk == Chunk(t, start, k)
           IN  /\ chunk.offset \in Nat /\ chunk.length \in Nat \ {0}
               /\ Data(t, chunk, v) \in Seq(Byte) /\ Len(Data(t, chunk, v)) = chunk.length
               /\ \A i \in 1..chunk.length : /\ Data(t, chunk, v)[i].from = t
                                             /\ Data(t, chunk, v)[i].pos = chunk.offset + i - 1
<1> DEFINE chunk == Chunk(t, start, k)
           offset == start + k * ChunkSize
<1>1. ChunkSize \in Nat \ {0} /\ Size[t] \in Nat \ {0}
  BY SizeAssumption
<1>2. k * ChunkSize \in Nat
  BY <1>1
<1>3. offset \in Nat /\ chunk.offset = offset /\ chunk.length = Min({ChunkSize, Size[t] - offset})
  BY <1>2 DEF Chunk
<1> HIDE DEF offset
<1>4. Size[t] - offset \in Nat \ {0}
  BY <1>1, <1>3
<1>5. \A a, b \in Nat \ {0} : Min({a, b}) \in {a, b}
  BY DEF Min
<1>6. chunk.length \in Nat \ {0}
  BY <1>1, <1>3, <1>4, <1>5
<1> HIDE DEF chunk
<1>7. Data(t, chunk, v) = [i \in 1..chunk.length |-> [from |-> t, pos |-> chunk.offset + i - 1, version |-> v]]
  BY DEF Data
<1>8. \A i \in 1..chunk.length : [from |-> t, pos |-> chunk.offset + i - 1, version |-> v] \in Byte
  BY <1>3, <1>6 DEF Byte
<1>9. Data(t, chunk, v) \in Seq(Byte) /\ Len(Data(t, chunk, v)) = chunk.length
  BY <1>6, <1>7, <1>8, SMTT(30)
<1>10. \A i \in 1..chunk.length : Data(t, chunk, v)[i].from = t /\ Data(t, chunk, v)[i].pos = chunk.offset + i - 1
  BY <1>7
<1> QED
  BY <1>3, <1>6, <1>9, <1>10, Zenon DEF chunk

\* Where the open file of t is, and where in it t writes next.
Place(t) == IF handle[t] = "part" THEN part ELSE final
Position(t) == IF appends[t] THEN Len(Place(t)[dest[t]]) ELSE got[t]

\* write_chunk adds the next bytes of t, at the position its handle is at.
LEMMA WriteChunkFacts ==
    ASSUME Types, CountInv, NEW t \in Transfer, WriteChunk(t)
    PROVE  \E d \in Seq(Byte) :
              /\ Len(d) \in Nat \ {0} /\ got[t] + Len(d) <= Size[t]
              /\ \A i \in 1..Len(d) : d[i].from = t /\ d[i].pos = got[t] + i - 1
              /\ got' = [got EXCEPT ![t] = got[t] + Len(d)] /\ index' = [index EXCEPT ![t] = index[t] + 1]
              /\ part' = IF handle[t] = "part"
                         THEN [part EXCEPT ![dest[t]] = WriteAt(part[dest[t]], Position(t), d)] ELSE part
              /\ final' = IF handle[t] = "final"
                          THEN [final EXCEPT ![dest[t]] = WriteAt(final[dest[t]], Position(t), d)] ELSE final
<1>1. PICK start \in starts[t], k \in 0..Size[t], v \in 0..version[t] :
        LET chunk == Chunk(t, start, k)
        IN  /\ chunk.offset < Size[t]
            /\ InOrder(t, chunk)
            /\ got[t] + chunk.length <= Size[t]
            /\ Write(t, Data(t, chunk, v))
            /\ got' = [got EXCEPT ![t] = @ + chunk.length]
            /\ index' = [index EXCEPT ![t] = @ + 1]
  BY Zenon DEF WriteChunk
<1> DEFINE chunk == Chunk(t, start, k)
           d == Data(t, chunk, v)
<1>2. start \in Nat /\ k \in Nat /\ v \in {0, 1}
  <2>1. starts[t] \subseteq Nat /\ Size[t] \in Nat /\ version[t] \in {0, 1}
    BY SizeAssumption DEF Types
  <2> QED
    BY <2>1
<1>3. /\ chunk.length \in Nat \ {0} /\ d \in Seq(Byte) /\ Len(d) = chunk.length
      /\ \A i \in 1..chunk.length : d[i].from = t /\ d[i].pos = chunk.offset + i - 1
  BY <1>1, <1>2, ChunkFacts, SMTT(30)
<1>4. chunk.offset = got[t]
  BY <1>1 DEF InOrder
<1>5. /\ part' = IF handle[t] = "part"
                 THEN [part EXCEPT ![dest[t]] = WriteAt(part[dest[t]], Position(t), d)] ELSE part
      /\ final' = IF handle[t] = "final"
                  THEN [final EXCEPT ![dest[t]] = WriteAt(final[dest[t]], Position(t), d)] ELSE final
  BY <1>1, Zenon DEF Write, Position, Place
<1> HIDE DEF chunk, d
<1>6. /\ got' = [got EXCEPT ![t] = got[t] + Len(d)] /\ index' = [index EXCEPT ![t] = index[t] + 1]
      /\ got[t] + Len(d) <= Size[t]
  BY <1>1, <1>3 DEF chunk
<1>7. \A i \in 1..Len(d) : d[i].from = t /\ d[i].pos = got[t] + i - 1
  BY <1>3, <1>4
<1> QED
  BY <1>3, <1>5, <1>6, <1>7, Zenon

\* A crash leaves a beginning of what was in the file.
LEMMA CrashFacts ==
    ASSUME Types, HandleInv, Crash, NEW p \in Path
    PROVE  \/ part'[p] = part[p]
           \/ /\ part[p] \in Seq(Byte) /\ part'[p] \in Seq(Byte) /\ Len(part'[p]) <= Len(part[p])
              /\ \A i \in 1..Len(part'[p]) : part'[p][i] = part[p][i]
<1>1. PICK lost \in [Path -> UNION {0..Size[t] : t \in Transfer}] :
        /\ \A q \in Path : lost[q] > 0 => Open(q) /\ lost[q] <= Len(part[q])
        /\ part' = [q \in Path |-> IF Open(q) THEN SubSeq(part[q], 1, Len(part[q]) - lost[q]) ELSE part[q]]
  BY Zenon DEF Crash
<1>0. lost[p] \in Nat
  BY SizeAssumption
<1>2. CASE ~Open(p) \/ ~(lost[p] > 0)
  <2>1. CASE Open(p)
    <3>1. part[p] \in Seq(Byte)
      BY <2>1 DEF Open, HandleInv, Types
    <3>2. lost[p] = 0
      BY <1>0, <1>2, <2>1
    <3>3. part'[p] = SubSeq(part[p], 1, Len(part[p]))
      BY <1>1, <2>1, <3>1, <3>2
    <3> QED
      BY <3>1, <3>3, SubSeqFull
  <2>2. CASE ~Open(p)
    BY <1>1, <2>2
  <2> QED
    BY <2>1, <2>2
<1>3. CASE Open(p) /\ lost[p] > 0
  <2>1. part[p] \in Seq(Byte)
    BY <1>3 DEF Open, HandleInv, Types
  <2> DEFINE n == Len(part[p]) - lost[p]
  <2>2. n \in 0..Len(part[p]) /\ part'[p] = SubSeq(part[p], 1, n)
    BY <1>0, <1>1, <1>3, <2>1
  <2>3. \A i \in 1..n : part[p][i] \in Byte
    BY <2>1, <2>2, ElementOfSeq
  <2> HIDE DEF n
  <2>4. /\ SubSeq(part[p], 1, n) \in Seq(Byte) /\ Len(SubSeq(part[p], 1, n)) = n
        /\ \A i \in 1..n : SubSeq(part[p], 1, n)[i] = part[p][i]
    BY <2>1, <2>2, <2>3, SubSeqProperties
  <2> QED
    BY <2>1, <2>2, <2>4
<1> QED
  BY <1>2, <1>3

LEMMA PositionFacts ==
    ASSUME Types, HandleInv, NEW t \in Transfer, handle[t] \in {"part", "final"}
    PROVE  /\ dest[t] \in Path
           /\ Place(t)[dest[t]] \in Seq(Byte) /\ Position(t) \in 0..Len(Place(t)[dest[t]])
<1>1. dest[t] \in Path
  BY DEF Types, HandleInv
<1>2. Place(t)[dest[t]] \in Seq(Byte)
  BY <1>1 DEF Types, HandleInv, Place
<1>3. CASE appends[t]
  BY <1>1, <1>2, <1>3 DEF Position
<1>4. CASE ~appends[t]
  <2>1. got[t] \in Nat /\ got[t] <= Len(Place(t)[dest[t]])
    BY <1>4 DEF Types, HandleInv, Place
  <2> QED
    BY <1>1, <1>2, <1>4, <2>1 DEF Position
<1> QED
  BY <1>3, <1>4

-----------------------------------------------------------------------------
(* Each part of the invariant is preserved.                                *)

LEMMA TypesStep == Types /\ CountInv /\ HandleInv /\ [Next]_vars => Types'
<1> SUFFICES ASSUME Types, CountInv, HandleInv, [Next]_vars PROVE Types'
  OBVIOUS
<1> USE DEF files, receivers, senders
<1>1. CASE UNCHANGED vars
  BY <1>1 DEF Types, vars
<1>2. ASSUME NEW t \in Transfer, ValidateOffer(t) PROVE Types'
  BY <1>2, ZenonT(60) DEF Types, ValidateOffer
<1>3. ASSUME NEW t \in Transfer, CreateReceiver(t) PROVE Types'
  BY <1>3, TriesAssumption DEF Types, CreateReceiver
<1>4. ASSUME NEW t \in Transfer, RemoveTransfer(t) PROVE Types'
  BY <1>4, Zenon DEF Types, RemoveTransfer
<1>5. ASSUME NEW t \in Transfer, NEW resume \in BOOLEAN, Prepare(t, resume) PROVE Types'
  <2>1. dest[t] \in Path
    BY <1>5 DEF Prepare, HandleInv, Types
  <2>2. CASE PrepareFresh(t)
    <3>1. handle' \in [Transfer -> {"closed", "part", "final", "unlinked"}]
      BY <2>2 DEF PrepareFresh, Unlinked, Types
    <3>2. part' \in [Path -> Seq(Byte) \cup {None}]
      BY <2>1, <2>2, EmptySeq DEF PrepareFresh, Types
    <3> QED
      BY <1>5, <2>2, <3>1, <3>2 DEF Prepare, PrepareFresh, Types
  <2>3. CASE PrepareResume(t) /\ 0 < Existing(t)
    <3>1. Existing(t) \in Nat
      BY <2>1 DEF Existing, Types
    <3>2. Existing(t) \div ChunkSize \in Nat
      BY <3>1, SizeAssumption
    <3> QED
      BY <1>5, <2>3, <3>1, <3>2, Zenon DEF Prepare, PrepareResume, Types
  <2> QED
    BY <1>5, <2>2, <2>3 DEF Prepare
<1>6. ASSUME NEW t \in Transfer, NEW cleanup \in BOOLEAN, AbortWith(t, cleanup),
             UNCHANGED reply \/ reply' = [reply EXCEPT ![t] = @ \cup {FALSE}]
      PROVE  Types'
  <2>1. handle' \in [Transfer -> {"closed", "part", "final", "unlinked"}]
    BY <1>6, Zenon DEF AbortWith, Close, Unlinked, Types
  <2>2. part' \in [Path -> Seq(Byte) \cup {None}]
    BY <1>6, Zenon DEF AbortWith, Types
  <2>3. reply' \in [Transfer -> SUBSET BOOLEAN]
    <3>1. reply[t] \cup {FALSE} \subseteq BOOLEAN /\ reply \in [Transfer -> SUBSET BOOLEAN]
      BY Zenon DEF Types
    <3> QED
      BY <1>6, <3>1, Zenon
  <2> QED
    BY <1>6, <2>1, <2>2, <2>3, Zenon DEF AbortWith, Types
<1>7. ASSUME NEW t \in Transfer, WriteChunk(t) PROVE Types'
  <2>1. PICK d \in Seq(Byte) :
              /\ Len(d) \in Nat \ {0}
              /\ got' = [got EXCEPT ![t] = got[t] + Len(d)] /\ index' = [index EXCEPT ![t] = index[t] + 1]
              /\ part' = IF handle[t] = "part"
                         THEN [part EXCEPT ![dest[t]] = WriteAt(part[dest[t]], Position(t), d)] ELSE part
              /\ final' = IF handle[t] = "final"
                          THEN [final EXCEPT ![dest[t]] = WriteAt(final[dest[t]], Position(t), d)] ELSE final
    BY <1>7, WriteChunkFacts, Zenon
  <2>2. handle[t] = "part" => WriteAt(part[dest[t]], Position(t), d) \in Seq(Byte)
    BY PositionFacts, WriteAtFacts DEF Place
  <2>3. handle[t] = "final" => WriteAt(final[dest[t]], Position(t), d) \in Seq(Byte)
    BY PositionFacts, WriteAtFacts DEF Place
  <2>4. part' \in [Path -> Seq(Byte) \cup {None}] /\ final' \in [Path -> Seq(Byte) \cup {None}]
    BY <2>1, <2>2, <2>3, Zenon DEF Types
  <2>5. got' \in [Transfer -> Nat] /\ index' \in [Transfer -> Nat]
    BY <2>1, SMTT(30) DEF Types
  <2>6. UNCHANGED <<status, dest, handle, appends, tries, shared, senders, reply>>
    BY <1>7, Zenon DEF WriteChunk
  <2> QED
    BY <2>4, <2>5, <2>6, Zenon DEF senders, Types
<1>8. ASSUME NEW t \in Transfer, FinishVerified(t) PROVE Types'
  <2>1. handle' \in [Transfer -> {"closed", "part", "final", "unlinked"}]
    BY <1>8 DEF FinishVerified, Close, Renamed, Unlinked, Types
  <2>2. dest[t] \in Path
    BY <1>8 DEF FinishVerified, HandleInv, Types
  <2>3. part' \in [Path -> Seq(Byte) \cup {None}] /\ final' \in [Path -> Seq(Byte) \cup {None}]
    BY <1>8, <2>2 DEF FinishVerified, FinalizePartFile, Types
  <2> QED
    BY <1>8, <2>1, <2>3, Zenon DEF FinishVerified, Types
<1>9. ASSUME NEW t \in Transfer, FinishRaises(t) PROVE Types'
  BY <1>9 DEF FinishRaises, Close, Types
<1>10. CASE Crash
  <2>1. \A p \in Path : part'[p] \in Seq(Byte) \cup {None}
    BY <1>10, CrashFacts DEF Types
  <2>2. part' \in [Path -> Seq(Byte) \cup {None}]
    <3>1. part' = [p \in Path |-> part'[p]]
      BY <1>10 DEF Crash
    <3> QED
      BY <2>1, <3>1
  <2>3. status' \in [Transfer -> {"none", "validated", "offered", "receiving", "verifying",
                                  "done", "failed", "dropped", "gone"}]
    <3>1. \A t \in Transfer : status'[t] \in {status[t], "gone", "dropped"}
      BY <1>10 DEF Crash
    <3>2. status' = [t \in Transfer |-> status'[t]]
      BY <1>10 DEF Crash
    <3> QED
      BY <3>1, <3>2 DEF Types
  <2>4. dest' \in [Transfer -> Path \cup {None}]
    BY <1>10 DEF Crash, Types
  <2> QED
    BY <1>10, <2>2, <2>3, <2>4, ZenonT(60) DEF Crash, Types
<1>11. ASSUME NEW t \in Transfer, GetChunks(t) \/ FileChanges(t) \/ WaitForAck(t) \/ WaitReturns(t) PROVE Types'
  BY <1>11, ZenonT(60) DEF GetChunks, FileChanges, WaitForAck, WaitReturns, Types
<1>12. ASSUME NEW t \in Transfer, MarkAck(t) PROVE Types'
  BY <1>12 DEF MarkAck, Types
<1>13. ASSUME NEW t \in Transfer, NEW cleanup \in BOOLEAN, Abort(t, cleanup) PROVE Types'
  BY <1>6, <1>13 DEF Abort
<1>14. ASSUME NEW t \in Transfer, FinishRefused(t) PROVE Types'
  BY <1>6, <1>14, Zenon DEF FinishRefused
<1> QED
  BY <1>1, <1>2, <1>3, <1>4, <1>5, <1>7, <1>8, <1>9, <1>10, <1>11, <1>12, <1>13, <1>14 DEF Next

LEMMA CountStep == Types /\ CountInv /\ HandleInv /\ [Next]_vars => CountInv'
<1> SUFFICES ASSUME Types, CountInv, HandleInv, [Next]_vars PROVE CountInv'
  OBVIOUS
<1> USE DEF files, receivers, senders
<1>0. \A t \in Transfer : Size[t] \in Nat
  BY SizeAssumption
<1>1. CASE UNCHANGED <<got, index, starts>>
  BY <1>1 DEF CountInv
<1>2. ASSUME NEW t \in Transfer, CreateReceiver(t) PROVE CountInv'
  BY <1>0, <1>2 DEF CreateReceiver, CountInv, Types
<1>3. ASSUME NEW t \in Transfer, NEW resume \in BOOLEAN, Prepare(t, resume) PROVE CountInv'
  <2>1. CASE PrepareFresh(t)
    BY <1>0, <2>1 DEF PrepareFresh, CountInv, Types
  <2>2. CASE PrepareResume(t) /\ 0 < Existing(t) /\ Existing(t) < Size[t]
    <3>1. Existing(t) \in Nat
      BY <1>3 DEF Existing, Types, Prepare, HandleInv
    <3>2. Existing(t) \div ChunkSize \in Nat /\ Existing(t) \div ChunkSize <= Existing(t)
      <4>1. \A n \in Nat, c \in Nat \ {0} : n \div c \in Nat /\ n \div c <= n
        OBVIOUS
      <4> QED
        BY <3>1, <4>1, SizeAssumption
    <3> QED
      BY <1>0, <2>2, <3>1, <3>2, SMTT(30) DEF PrepareResume, CountInv, Types
  <2> QED
    BY <1>3, <2>1, <2>2 DEF Prepare
<1>4. ASSUME NEW t \in Transfer, WriteChunk(t) PROVE CountInv'
  <2>1. PICK d \in Seq(Byte) :
          /\ Len(d) \in Nat \ {0} /\ got[t] + Len(d) <= Size[t]
          /\ got' = [got EXCEPT ![t] = got[t] + Len(d)] /\ index' = [index EXCEPT ![t] = index[t] + 1]
    BY <1>4, WriteChunkFacts, Zenon
  <2>2. starts' = starts
    BY <1>4, Zenon DEF WriteChunk
  <2> QED
    BY <2>1, <2>2 DEF CountInv, Types
<1>5. \/ UNCHANGED <<got, index, starts>>
      \/ \E t \in Transfer : CreateReceiver(t) \/ WriteChunk(t)
      \/ \E t \in Transfer, resume \in BOOLEAN : Prepare(t, resume)
  BY ZenonT(60) DEF Next, vars, ValidateOffer, RemoveTransfer, Abort, AbortWith, FinishVerified, FinishRefused, FinishRaises,
         GetChunks, FileChanges, MarkAck, WaitForAck, WaitReturns, Crash
<1> QED
  BY <1>1, <1>2, <1>3, <1>4, <1>5

\* A path is given out by validate_offer alone; two transfers that have it are
\* marked then.
LEMMA SharedStep == Types /\ SharedInv /\ [Next]_vars => SharedInv'
<1> SUFFICES ASSUME Types, SharedInv, [Next]_vars PROVE SharedInv'
  OBVIOUS
<1> USE DEF files, receivers, senders
<1>1. ASSUME NEW t \in Transfer, ValidateOffer(t) PROVE SharedInv'
  <2>1. PICK p \in Path :
          /\ dest' = [dest EXCEPT ![t] = p]
          /\ LET rivals == {u \in Transfer : dest[u] = p}
             IN  shared' = IF rivals = {} THEN shared ELSE shared \cup rivals \cup {t}
    BY <1>1, Zenon DEF ValidateOffer
  <2>2. shared \subseteq shared' /\ \A u \in Transfer : dest[u] = p => u \in shared' /\ t \in shared'
    BY <2>1
  <2> QED
    BY <2>1, <2>2, Zenon DEF SharedInv, Types
<1>2. CASE shared' = shared /\ \A t \in Transfer : dest'[t] \in {dest[t], None}
  BY <1>2 DEF SharedInv
<1>3. CASE Crash
  BY <1>2, <1>3, Zenon DEF Crash
<1>4. ASSUME NEW t \in Transfer, RemoveTransfer(t) \/ \E cleanup \in BOOLEAN : AbortWith(t, cleanup) PROVE SharedInv'
  BY <1>2, <1>4 DEF RemoveTransfer, AbortWith, Types
<1>5. CASE UNCHANGED <<dest, shared>>
  BY <1>5 DEF SharedInv
<1>6. \/ \E t \in Transfer : ValidateOffer(t) \/ RemoveTransfer(t) \/ \E cleanup \in BOOLEAN : AbortWith(t, cleanup)
      \/ Crash
      \/ UNCHANGED <<dest, shared>>
  BY ZenonT(60) DEF Next, vars, CreateReceiver, Prepare, WriteChunk, Abort, FinishVerified,
         FinishRefused, FinishRaises, GetChunks, FileChanges, MarkAck, WaitForAck, WaitReturns
<1> QED
  BY <1>1, <1>3, <1>4, <1>5, <1>6

\* Nothing comes after done.
LEMMA DoneIsFinal ==
    ASSUME Types, [Next]_vars, NEW t \in Transfer, status[t] = "done"
    PROVE  status'[t] = "done" /\ dest'[t] = dest[t]
<1> USE DEF files, receivers, senders
<1>1. CASE Crash
  BY <1>1 DEF Crash
<1>2. CASE UNCHANGED <<status, dest>>
  BY <1>2
<1>3. ASSUME NEW u \in Transfer, NEW b \in BOOLEAN,
             \/ ValidateOffer(u) \/ CreateReceiver(u) \/ RemoveTransfer(u) \/ Prepare(u, b) \/ Abort(u, b)
             \/ FinishVerified(u) \/ FinishRefused(u) \/ FinishRaises(u)
      PROVE  u # t /\ status'[t] = status[t] /\ dest'[t] = dest[t]
  <2>1. u # t
    BY <1>3, Zenon DEF ValidateOffer, CreateReceiver, RemoveTransfer, Prepare, Abort, FinishVerified, FinishRefused,
                FinishRaises
  <2>2. CASE ValidateOffer(u) \/ CreateReceiver(u) \/ RemoveTransfer(u) \/ Prepare(u, b)
    BY <2>1, <2>2, ZenonT(60) DEF ValidateOffer, CreateReceiver, RemoveTransfer, Prepare, Types
  <2>3. CASE FinishVerified(u) \/ FinishRaises(u)
    BY <2>1, <2>3, Zenon DEF FinishVerified, FinishRaises, Types
  <2>4. CASE Abort(u, b) \/ FinishRefused(u)
    BY <2>1, <2>4, Zenon DEF Abort, FinishRefused, AbortWith, Types
  <2> QED
    BY <1>3, <2>1, <2>2, <2>3, <2>4, Zenon
<1> QED
  BY <1>1, <1>2, <1>3, ZenonT(60)
  DEF Next, vars, WriteChunk, GetChunks, FileChanges, MarkAck, WaitForAck, WaitReturns

LEMMA AckStep == Types /\ AckInv /\ [Next]_vars => AckInv'
<1> SUFFICES ASSUME Types, AckInv, [Next]_vars, NEW u \in Transfer,
                    TRUE \in reply'[u] \/ ack'[u] = TRUE \/ sent'[u] = "done"
             PROVE  status'[u] = "done"
  BY Zenon DEF AckInv
<1> USE DEF files, receivers, senders
<1>0. SUFFICES ASSUME ~FinishVerified(u)
               PROVE  TRUE \in reply[u] \/ ack[u] = TRUE \/ sent[u] = "done"
  BY DoneIsFinal, ZenonT(60) DEF AckInv, FinishVerified, Types
<1>1. CASE UNCHANGED <<reply, ack, sent>>
  BY <1>1, Zenon
<1>2. ASSUME NEW t \in Transfer, FinishVerified(t) PROVE TRUE \in reply[u] \/ ack[u] = TRUE \/ sent[u] = "done"
  <2>1. t # u
    BY <1>0, <1>2
  <2>2. reply' = [reply EXCEPT ![t] = @ \cup {TRUE}] /\ ack' = ack /\ sent' = sent
    BY <1>2 DEF FinishVerified
  <2>3. reply'[u] = reply[u]
    BY <2>1, <2>2, Zenon DEF Types
  <2> QED
    BY <2>2, <2>3, Zenon
<1>3. ASSUME NEW t \in Transfer, FinishRefused(t) PROVE TRUE \in reply[u] \/ ack[u] = TRUE \/ sent[u] = "done"
  <2>1. reply' = [reply EXCEPT ![t] = @ \cup {FALSE}] /\ ack' = ack /\ sent' = sent
    BY <1>3 DEF FinishRefused, AbortWith
  <2>2. reply'[u] = reply[u] \/ reply'[u] = reply[u] \cup {FALSE}
    BY <2>1, Zenon DEF Types
  <2>3. TRUE \in reply'[u] => TRUE \in reply[u]
    BY <2>2, Zenon
  <2> QED
    BY <2>1, <2>3, Zenon
<1>4. ASSUME NEW t \in Transfer, MarkAck(t) PROVE TRUE \in reply[u] \/ ack[u] = TRUE \/ sent[u] = "done"
  <2>1. PICK success \in reply[t] : /\ ack' = [ack EXCEPT ![t] = success]
                                    /\ reply' = [reply EXCEPT ![t] = @ \ {success}]
    BY <1>4, Zenon DEF MarkAck
  <2>2. sent' = sent
    BY <1>4, Zenon DEF MarkAck
  <2>3. ack'[u] = ack[u] \/ ack'[u] \in reply[u]
    BY <2>1 DEF Types
  <2>4. reply'[u] \subseteq reply[u]
    BY <2>1 DEF Types
  <2> QED
    BY <2>2, <2>3, <2>4, Zenon
<1>5. ASSUME NEW t \in Transfer, GetChunks(t) \/ WaitForAck(t) \/ WaitReturns(t)
      PROVE  TRUE \in reply[u] \/ ack[u] = TRUE \/ sent[u] = "done"
  <2>1. reply' = reply /\ ack' = ack /\ (sent'[u] = "done" => sent[u] = "done" \/ ack[u] = TRUE)
    BY <1>5, ZenonT(60) DEF GetChunks, WaitForAck, WaitReturns, Types
  <2> QED
    BY <2>1, Zenon
<1> QED
  BY <1>1, <1>2, <1>3, <1>4, <1>5, ZenonT(60)
  DEF Next, vars, ValidateOffer, CreateReceiver, RemoveTransfer, Prepare, WriteChunk, Abort, AbortWith, FinishRaises,
      FileChanges, Crash

-----------------------------------------------------------------------------
\* What HandleInv says of one transfer.
HandleOK(t) ==
    /\ status[t] \in {"validated", "offered", "receiving", "done", "dropped"} => dest[t] # None
    /\ status[t] # "receiving" => handle[t] = "closed"
    /\ handle[t] = "part" => /\ part[dest[t]] # None
                             /\ ~appends[t] => got[t] <= Len(part[dest[t]])
    /\ handle[t] = "final" => /\ final[dest[t]] # None
                              /\ ~appends[t] => got[t] <= Len(final[dest[t]])

LEMMA HandleStep == Types /\ CountInv /\ HandleInv /\ [Next]_vars => HandleInv'
<1> SUFFICES ASSUME Types, CountInv, HandleInv, [Next]_vars, NEW u \in Transfer PROVE HandleOK(u)'
  BY Zenon DEF HandleInv, HandleOK
<1> USE DEF files, receivers, senders
<1>0. HandleOK(u)
  BY Zenon DEF HandleInv, HandleOK
<1>1. CASE UNCHANGED <<files, status, dest, handle, appends, got>>
  BY <1>0, <1>1, Zenon DEF HandleOK
<1>2. ASSUME NEW t \in Transfer, ValidateOffer(t) PROVE HandleOK(u)'
  BY <1>0, <1>2, NoneAssumption, ZenonT(60) DEF ValidateOffer, HandleOK, Types
<1>3. ASSUME NEW t \in Transfer, CreateReceiver(t) PROVE HandleOK(u)'
  BY <1>0, <1>3, Zenon DEF CreateReceiver, HandleOK, Types
<1>4. ASSUME NEW t \in Transfer, RemoveTransfer(t) PROVE HandleOK(u)'
  BY <1>0, <1>4, Zenon DEF RemoveTransfer, HandleOK, Types
<1>5. ASSUME NEW t \in Transfer, NEW resume \in BOOLEAN, Prepare(t, resume) PROVE HandleOK(u)'
  <2>1. dest[t] \in Path /\ dest' = dest /\ final' = final /\ status' = [status EXCEPT ![t] = "receiving"]
    BY <1>5 DEF Prepare, HandleInv, Types
  <2>2. CASE PrepareFresh(t)
    <3>1. <<>> # None /\ Len(<<>>) = 0
      BY NoneAssumption, EmptySeq, Zenon
    <3>2. CASE u = t
      <4>1. handle'[u] = "part" /\ got'[u] = 0 /\ part'[dest[u]] = <<>>
        BY <2>1, <2>2, <3>2, Zenon DEF PrepareFresh, Unlinked, Types
      <4>2. status'[u] = "receiving" /\ dest[u] # None
        BY <2>1, <3>2, NoneAssumption DEF Types
      <4> QED
        BY <2>1, <3>1, <4>1, <4>2 DEF HandleOK
    <3>3. CASE u # t
      <4>1. handle'[u] = IF dest[u] = dest[t] /\ handle[u] = "part" THEN "unlinked" ELSE handle[u]
        BY <2>2, <3>3 DEF PrepareFresh, Unlinked, Types
      <4>2. got'[u] = got[u] /\ appends'[u] = appends[u] /\ status'[u] = status[u]
        BY <2>1, <2>2, <3>3 DEF PrepareFresh, Types
      <4>3. dest[u] # dest[t] => part'[dest[u]] = part[dest[u]]
        BY <2>1, <2>2, <3>3 DEF PrepareFresh, Types
      <4> QED
        BY <1>0, <2>1, <4>1, <4>2, <4>3 DEF HandleOK
    <3> QED
      BY <3>2, <3>3
  <2>3. CASE PrepareResume(t) /\ 0 < Existing(t)
    <3>1. CASE u = t
      <4>1. handle'[u] = "part" /\ appends'[u] = TRUE /\ part' = part /\ part[dest[u]] # None
        BY <2>3, <3>1 DEF PrepareResume, Existing, Types
      <4>2. status'[u] = "receiving" /\ dest[u] # None
        BY <2>1, <3>1, NoneAssumption DEF Types
      <4> QED
        BY <2>1, <4>1, <4>2, Zenon DEF HandleOK
    <3>2. CASE u # t
      BY <1>0, <2>1, <2>3, <3>2 DEF PrepareResume, HandleOK, Types
    <3> QED
      BY <3>1, <3>2
  <2> QED
    BY <1>5, <2>2, <2>3 DEF Prepare
<1>6. ASSUME NEW t \in Transfer, NEW cleanup \in BOOLEAN, AbortWith(t, cleanup), status[t] \in {"offered", "receiving"}
      PROVE  HandleOK(u)'
  <2>1. CASE u = t
    <3>1. handle'[u] = "closed" /\ status'[u] = "failed"
      BY <1>6, <2>1, Zenon DEF AbortWith, Close, Unlinked, Types
    <3> QED
      BY <3>1, Zenon DEF HandleOK
  <2>2. CASE u # t
    <3>1. /\ handle'[u] \in {handle[u], "unlinked"}
          /\ handle[u] = "part" /\ cleanup /\ dest[u] = dest[t] => handle'[u] = "unlinked"
          /\ handle[u] = "closed" => handle'[u] = "closed"
      BY <1>6, <2>2, Zenon DEF AbortWith, Close, Unlinked, Types
    <3>2. /\ got'[u] = got[u] /\ appends'[u] = appends[u] /\ status'[u] = status[u] /\ dest'[u] = dest[u]
          /\ final' = final
      BY <1>6, <2>2 DEF AbortWith, Types
    <3>3. ~(cleanup /\ dest[u] = dest[t]) => part'[dest[u]] = part[dest[u]]
      BY <1>6 DEF AbortWith, Types
    <3> QED
      BY <1>0, <3>1, <3>2, <3>3, Zenon DEF HandleOK, Types
  <2> QED
    BY <2>1, <2>2
<1>7. ASSUME NEW t \in Transfer, WriteChunk(t) PROVE HandleOK(u)'
  <2>1. PICK d \in Seq(Byte) :
              /\ Len(d) \in Nat \ {0}
              /\ got' = [got EXCEPT ![t] = got[t] + Len(d)]
              /\ part' = IF handle[t] = "part"
                         THEN [part EXCEPT ![dest[t]] = WriteAt(part[dest[t]], Position(t), d)] ELSE part
              /\ final' = IF handle[t] = "final"
                          THEN [final EXCEPT ![dest[t]] = WriteAt(final[dest[t]], Position(t), d)] ELSE final
    BY <1>7, WriteChunkFacts, Zenon
  <2>2. UNCHANGED <<status, dest, handle, appends>>
    BY <1>7, Zenon DEF WriteChunk
  <2> DEFINE w == WriteAt(Place(t)[dest[t]], Position(t), d)
             old == Place(t)[dest[t]]
  <2>3. ASSUME handle[t] \in {"part", "final"}
        PROVE  /\ dest[t] \in Path /\ w \in Seq(Byte) /\ w # None
               /\ old \in Seq(Byte) /\ Len(w) >= Len(old) /\ Len(w) >= Position(t) + Len(d)
    <3>1. dest[t] \in Path /\ old \in Seq(Byte) /\ Position(t) \in 0..Len(old)
      BY <2>3, PositionFacts, Zenon
    <3>2. w \in Seq(Byte) /\ Len(w) >= Len(old) /\ Len(w) >= Position(t) + Len(d)
      BY <3>1, WriteAtFacts, Zenon
    <3> QED
      BY <3>1, <3>2, NoneAssumption
  <2>4. /\ part' = IF handle[t] = "part" THEN [part EXCEPT ![dest[t]] = w] ELSE part
        /\ final' = IF handle[t] = "final" THEN [final EXCEPT ![dest[t]] = w] ELSE final
        /\ handle[t] = "part" => old = part[dest[t]]
        /\ handle[t] = "final" => old = final[dest[t]]
        /\ ~appends[t] => Position(t) = got[t]
    BY <2>1, Zenon DEF Place, Position
  <2> HIDE DEF w, old
  <2>5. CASE u = t
    BY <1>0, <2>1, <2>2, <2>3, <2>4, <2>5, Zenon DEF HandleOK, Types
  <2>6. CASE u # t
    <3>1. got'[u] = got[u] /\ got[u] \in Nat
      BY <2>1, <2>6 DEF Types
    <3>2. handle[u] = "part" => /\ part'[dest[u]] # None
                                /\ ~appends[u] => got[u] <= Len(part'[dest[u]])
      BY <1>0, <2>3, <2>4, <3>1, SMTT(30) DEF HandleOK, Types
    <3>3. handle[u] = "final" => /\ final'[dest[u]] # None
                                 /\ ~appends[u] => got[u] <= Len(final'[dest[u]])
      BY <1>0, <2>3, <2>4, <3>1, SMTT(30) DEF HandleOK, Types
    <3> QED
      BY <1>0, <2>2, <3>1, <3>2, <3>3, Zenon DEF HandleOK
  <2> QED
    BY <2>5, <2>6
<1>8. ASSUME NEW t \in Transfer, FinishVerified(t) PROVE HandleOK(u)'
  <2>1. /\ dest[t] \in Path /\ dest' = dest /\ got' = got /\ appends' = appends
        /\ status' = [status EXCEPT ![t] = "done"]
        /\ part[dest[t]] # None
        /\ final' = [final EXCEPT ![dest[t]] = part[dest[t]]] /\ part' = [part EXCEPT ![dest[t]] = None]
    BY <1>8 DEF FinishVerified, FinalizePartFile, HandleInv, Types
  <2>2. CASE u = t
    BY <1>0, <1>8, <2>1, <2>2, Zenon DEF FinishVerified, Close, Renamed, HandleOK, Types
  <2>3. CASE u # t
    <3>1. handle'[u] = IF dest[u] = dest[t] /\ handle[u] = "part" THEN "final"
                       ELSE IF dest[u] = dest[t] /\ handle[u] = "final" THEN "unlinked" ELSE handle[u]
      BY <1>8, <2>3, Zenon DEF FinishVerified, Close, Renamed, Unlinked, Types
    <3>2. CASE dest[u] = dest[t]
      BY <1>0, <2>1, <2>3, <3>1, <3>2, Zenon DEF HandleOK, Types
    <3>3. CASE dest[u] # dest[t]
      BY <1>0, <2>1, <2>3, <3>1, <3>3, ZenonT(60) DEF HandleOK, Types
    <3> QED
      BY <3>2, <3>3
  <2> QED
    BY <2>2, <2>3
<1>9. ASSUME NEW t \in Transfer, FinishRaises(t) PROVE HandleOK(u)'
  BY <1>0, <1>9, Zenon DEF FinishRaises, Close, HandleOK, Types
<1>10. CASE Crash
  BY <1>0, <1>10, Zenon DEF Crash, HandleOK
<1>11. ASSUME NEW t \in Transfer, NEW cleanup \in BOOLEAN, Abort(t, cleanup) PROVE HandleOK(u)'
  BY <1>6, <1>11 DEF Abort
<1>12. ASSUME NEW t \in Transfer, FinishRefused(t) PROVE HandleOK(u)'
  BY <1>6, <1>12, Zenon DEF FinishRefused
<1> QED
  BY <1>1, <1>2, <1>3, <1>4, <1>5, <1>7, <1>8, <1>9, <1>10, <1>11, <1>12, Zenon
  DEF Next, vars, GetChunks, FileChanges, MarkAck, WaitForAck, WaitReturns

-----------------------------------------------------------------------------
\* What OwnInv says of one transfer, and what keeps it true.
OwnOK(t) ==
    /\ status[t] = "validated" => part[dest[t]] = None
    /\ part[dest[t]] = None \/ Mine(part[dest[t]], t)
    /\ status[t] = "receiving" => handle[t] = "part" /\ Len(part[dest[t]]) = got[t]
    /\ status[t] = "done" => final[dest[t]] = Offered(t)

Same(u) ==
    /\ status'[u] = status[u] /\ dest'[u] = dest[u] /\ handle'[u] = handle[u] /\ got'[u] = got[u]
    /\ part'[dest[u]] = part[dest[u]] /\ final'[dest[u]] = final[dest[u]]

LEMMA SameKeeps == \A u \in Transfer : OwnOK(u) /\ Same(u) => OwnOK(u)'
BY DEF OwnOK, Same, Mine, Offered

\* A transfer that shares its path with none is not touched by the others.
LEMMA OthersKeep ==
    ASSUME Types, CountInv, HandleInv, SharedInv,
           NEW u \in Transfer, u \notin shared, dest[u] # None,
           NEW t \in Transfer, t # u, NEW b \in BOOLEAN,
           \/ ValidateOffer(t) \/ CreateReceiver(t) \/ RemoveTransfer(t) \/ Prepare(t, b)
           \/ AbortWith(t, b) /\ status[t] \in {"offered", "receiving"}
           \/ WriteChunk(t) \/ FinishVerified(t) \/ FinishRaises(t)
    PROVE  Same(u)
<1> USE DEF files, receivers, senders
<1>1. dest[t] # dest[u] /\ dest[u] \in Path
  BY DEF SharedInv, Types
<1>2. CASE ValidateOffer(t) \/ CreateReceiver(t) \/ RemoveTransfer(t)
  BY <1>2, ZenonT(60) DEF ValidateOffer, CreateReceiver, RemoveTransfer, Same, Types
<1>3. CASE Prepare(t, b)
  <2>1. status'[u] = status[u] /\ dest' = dest /\ final' = final
    BY <1>3, Zenon DEF Prepare, Types
  <2>2. CASE PrepareFresh(t)
    BY <1>1, <2>1, <2>2, Zenon DEF PrepareFresh, Unlinked, Same, Types
  <2>3. CASE PrepareResume(t)
    BY <1>1, <2>1, <2>3, Zenon DEF PrepareResume, Same, Types
  <2> QED
    BY <1>3, <2>2, <2>3, Zenon DEF Prepare
<1>4. CASE AbortWith(t, b)
  <2>1. status'[u] = status[u] /\ dest'[u] = dest[u] /\ final' = final /\ got' = got
    BY <1>4, Zenon DEF AbortWith, Types
  <2>2. part'[dest[u]] = part[dest[u]]
    BY <1>1, <1>4, Zenon DEF AbortWith, Types
  <2>3. handle'[u] = handle[u]
    BY <1>1, <1>4, Zenon DEF AbortWith, Close, Unlinked, Types
  <2> QED
    BY <2>1, <2>2, <2>3, Zenon DEF Same
<1>5. CASE WriteChunk(t)
  <2>1. PICK d \in Seq(Byte) :
              /\ got' = [got EXCEPT ![t] = got[t] + Len(d)]
              /\ part' = IF handle[t] = "part"
                         THEN [part EXCEPT ![dest[t]] = WriteAt(part[dest[t]], Position(t), d)] ELSE part
              /\ final' = IF handle[t] = "final"
                          THEN [final EXCEPT ![dest[t]] = WriteAt(final[dest[t]], Position(t), d)] ELSE final
    BY <1>5, WriteChunkFacts, Zenon
  <2>2. UNCHANGED <<status, dest, handle>>
    BY <1>5, Zenon DEF WriteChunk
  <2> QED
    BY <1>1, <2>1, <2>2, Zenon DEF Same, Types
<1>6. CASE FinishVerified(t)
  <2>1. handle'[u] = handle[u]
    BY <1>1, <1>6, Zenon DEF FinishVerified, Close, Renamed, Unlinked, Types
  <2> QED
    BY <1>1, <1>6, <2>1, Zenon DEF FinishVerified, FinalizePartFile, Same, Types
<1>7. CASE FinishRaises(t)
  BY <1>7, Zenon DEF FinishRaises, Close, Same, Types
<1> QED
  BY <1>2, <1>3, <1>4, <1>5, <1>6, <1>7, Zenon

LEMMA OwnStep == Types /\ CountInv /\ HandleInv /\ SharedInv /\ OwnInv /\ [Next]_vars => OwnInv'
<1> SUFFICES ASSUME Types, CountInv, HandleInv, SharedInv, OwnInv, [Next]_vars,
                    NEW u \in Transfer, u \notin shared', dest'[u] # None
             PROVE  OwnOK(u)'
  BY Zenon DEF OwnInv, OwnOK
<1> USE DEF files, receivers, senders
<1>1. CASE ValidateOffer(u)
  BY <1>1, Zenon DEF ValidateOffer, ResolveSafeDestPath, IsFree, OwnOK, Types
<1>2. CASE ~ValidateOffer(u)
  <2>1. shared \subseteq shared'
    BY ZenonT(60) DEF Next, vars, ValidateOffer, CreateReceiver, RemoveTransfer, Prepare, WriteChunk, Abort, AbortWith,
           FinishVerified, FinishRefused, FinishRaises, GetChunks, FileChanges, MarkAck, WaitForAck, WaitReturns, Crash
  <2>2. dest[u] = dest'[u]
    <3>1. CASE Crash
      BY <3>1, Zenon DEF Crash
    <3>2. ASSUME NEW t \in Transfer, ValidateOffer(t) \/ RemoveTransfer(t) \/ \E b \in BOOLEAN : AbortWith(t, b)
          PROVE  dest'[u] = dest[u]
      BY <1>2, <3>2, SMTT(30) DEF ValidateOffer, RemoveTransfer, AbortWith, Types
    <3> QED
      BY <3>1, <3>2, ZenonT(60)
      DEF Next, vars, CreateReceiver, Prepare, WriteChunk, Abort, FinishVerified,
          FinishRefused, FinishRaises, GetChunks, FileChanges, MarkAck, WaitForAck, WaitReturns
  <2>3. u \notin shared /\ dest[u] # None /\ dest[u] \in Path /\ OwnOK(u)
    BY <2>1, <2>2 DEF OwnInv, OwnOK, Types
  <2>4. CASE UNCHANGED <<files, status, dest, handle, got>>
    BY <2>3, <2>4, SameKeeps, Zenon DEF Same
  <2>5. ASSUME NEW t \in Transfer, t # u, NEW b \in BOOLEAN,
               \/ ValidateOffer(t) \/ CreateReceiver(t) \/ RemoveTransfer(t) \/ Prepare(t, b)
               \/ AbortWith(t, b) /\ status[t] \in {"offered", "receiving"}
               \/ WriteChunk(t) \/ FinishVerified(t) \/ FinishRaises(t)
        PROVE  OwnOK(u)'
    BY <2>3, <2>5, OthersKeep, SameKeeps, Zenon
  <2>6. CASE CreateReceiver(u) \/ RemoveTransfer(u)
    BY <2>2, <2>3, <2>6, ZenonT(60) DEF CreateReceiver, RemoveTransfer, OwnOK, Mine, Types
  <2>7. ASSUME NEW b \in BOOLEAN, Prepare(u, b) PROVE OwnOK(u)'
    <3>1. status'[u] = "receiving"
      BY <2>7, Zenon DEF Prepare, Types
    <3>2. CASE PrepareFresh(u)
      <4>1. part'[dest[u]] = <<>> /\ handle'[u] = "part" /\ got'[u] = 0
        BY <2>3, <3>2, Zenon DEF PrepareFresh, Unlinked, Types
      <4>2. Mine(<<>>, u) /\ Len(<<>>) = 0
        BY DEF Mine
      <4>3. dest'[u] = dest[u]
        BY <2>2
      <4>4. Mine(part'[dest'[u]], u) /\ Len(part'[dest'[u]]) = got'[u]
        BY <4>1, <4>2, <4>3, Zenon
      <4>5. status'[u] # "validated" /\ status'[u] # "done"
        BY <3>1
      <4> QED
        BY <4>1, <4>4, <4>5, Zenon DEF OwnOK, Mine
    <3>3. CASE PrepareResume(u) /\ 0 < Existing(u)
      <4>1. part' = part /\ handle'[u] = "part" /\ got'[u] = Len(part[dest[u]])
        BY <3>3 DEF PrepareResume, Existing, Types
      <4> QED
        BY <2>2, <2>3, <3>1, <4>1, Zenon DEF OwnOK, Mine
    <3> QED
      BY <2>7, <3>2, <3>3, Zenon DEF Prepare
  <2>8. ASSUME NEW b \in BOOLEAN, AbortWith(u, b) PROVE OwnOK(u)'
    <3>1. status'[u] = "failed" /\ part'[dest[u]] \in {part[dest[u]], None}
      BY <2>3, <2>8, ZenonT(60) DEF AbortWith, Types
    <3> QED
      BY <2>2, <2>3, <3>1, Zenon DEF OwnOK, Mine
  <2>9. CASE WriteChunk(u)
    <3>1. status[u] = "receiving" /\ UNCHANGED <<status, dest, handle, appends>>
      BY <2>9, Zenon DEF WriteChunk
    <3>2. handle[u] = "part" /\ Len(part[dest[u]]) = got[u] /\ part[dest[u]] # None /\ Mine(part[dest[u]], u)
      BY <2>3, <3>1, Zenon DEF OwnOK, HandleInv
    <3>3. PICK d \in Seq(Byte) :
                /\ Len(d) \in Nat \ {0}
                /\ \A i \in 1..Len(d) : d[i].from = u /\ d[i].pos = got[u] + i - 1
                /\ got' = [got EXCEPT ![u] = got[u] + Len(d)]
                /\ part' = IF handle[u] = "part"
                           THEN [part EXCEPT ![dest[u]] = WriteAt(part[dest[u]], Position(u), d)] ELSE part
      BY <2>9, WriteChunkFacts, Zenon
    <3> DEFINE old == part[dest[u]]
    <3>4. old \in Seq(Byte) /\ Position(u) = Len(old) /\ Position(u) \in 0..Len(old)
      BY <2>3, <3>2 DEF Position, Place, Types
    <3>5. WriteAt(old, Position(u), d) = old \o d
      BY <3>4, WriteAtFacts, Zenon
    <3>6. part'[dest[u]] = old \o d /\ got'[u] = got[u] + Len(d)
      BY <2>3, <3>2, <3>3, <3>5, Zenon DEF Types
    <3> HIDE DEF old
    <3>7. /\ Len(old \o d) = Len(old) + Len(d)
          /\ \A i \in 1..Len(old) + Len(d) : (old \o d)[i] = IF i <= Len(old) THEN old[i] ELSE d[i - Len(old)]
      BY <3>3, <3>4, ConcatProperties, ZenonT(60)
    <3>8. ASSUME NEW i \in 1..Len(old) + Len(d) PROVE (old \o d)[i].from = u /\ (old \o d)[i].pos = i - 1
      <4>1. Len(old) = got[u] /\ got[u] \in Nat /\ Mine(old, u)
        BY <3>2, Zenon DEF old, Types
      <4>2. CASE i <= Len(old)
        BY <3>7, <4>1, <4>2, SMTT(30) DEF Mine
      <4>3. CASE ~(i <= Len(old))
        <5>1. i - Len(old) \in 1..Len(d)
          BY <3>3, <4>1, <4>3
        <5>2. d[i - Len(old)].from = u /\ d[i - Len(old)].pos = got[u] + (i - Len(old)) - 1
          BY <3>3, <5>1, Zenon
        <5>3. (old \o d)[i] = d[i - Len(old)]
          BY <3>7, <4>3, Zenon
        <5>4. got[u] + (i - Len(old)) - 1 = i - 1
          BY <4>1, <3>3
        <5> QED
          BY <5>2, <5>3, <5>4
      <4> QED
        BY <4>2, <4>3, Zenon
    <3>9. Mine(old \o d, u) /\ Len(old \o d) = got[u] + Len(d)
      BY <3>2, <3>7, <3>8, Zenon DEF Mine, old
    <3>10. /\ status'[u] = "receiving" /\ dest'[u] = dest[u] /\ handle'[u] = "part"
           /\ Mine(part'[dest[u]], u) /\ Len(part'[dest[u]]) = got'[u]
      BY <3>1, <3>2, <3>6, <3>9, Zenon
    <3> QED
      BY <3>10, Zenon DEF OwnOK, Mine
  <2>10. CASE FinishVerified(u)
    <3>1. status'[u] = "done" /\ part'[dest[u]] = None /\ final'[dest[u]] = Offered(u)
      BY <2>3, <2>10, Zenon DEF FinishVerified, FinalizePartFile, Verifies, Types
    <3> QED
      BY <2>2, <3>1, Zenon DEF OwnOK, Offered
  <2>11. CASE FinishRaises(u)
    BY <2>2, <2>3, <2>11, Zenon DEF FinishRaises, OwnOK, Mine, Types
  <2>12. CASE Crash
    <3>1. status'[u] \notin {"validated", "receiving"} /\ (status'[u] = "done" => status[u] = "done") /\ final' = final
      BY <2>12, Zenon DEF Crash
    <3>2. part'[dest[u]] = None \/ Mine(part'[dest[u]], u)
      <4>1. CASE part'[dest[u]] = part[dest[u]]
        BY <2>3, <4>1, Zenon DEF OwnOK
      <4>2. CASE /\ part[dest[u]] \in Seq(Byte) /\ part'[dest[u]] \in Seq(Byte)
                 /\ Len(part'[dest[u]]) <= Len(part[dest[u]])
                 /\ \A i \in 1..Len(part'[dest[u]]) : part'[dest[u]][i] = part[dest[u]][i]
        <5>1. part[dest[u]] # None /\ Mine(part[dest[u]], u)
          BY <2>3, <4>2, NoneAssumption, Zenon DEF OwnOK
        <5>2. 1..Len(part'[dest[u]]) \subseteq 1..Len(part[dest[u]])
          BY <4>2
        <5> QED
          BY <4>2, <5>1, <5>2, Zenon DEF Mine
      <4> QED
        BY <2>3, <2>12, <4>1, <4>2, CrashFacts, Zenon
    <3> QED
      BY <2>2, <2>3, <3>1, <3>2, Zenon DEF OwnOK, Mine, Offered
  <2>13. \/ UNCHANGED <<files, status, dest, handle, got>>
         \/ Crash
         \/ \E t \in Transfer, b \in BOOLEAN :
               \/ ValidateOffer(t) \/ CreateReceiver(t) \/ RemoveTransfer(t) \/ Prepare(t, b)
               \/ AbortWith(t, b) /\ status[t] \in {"offered", "receiving"}
               \/ WriteChunk(t) \/ FinishVerified(t) \/ FinishRaises(t)
    BY ZenonT(60) DEF Next, vars, Abort, FinishRefused, GetChunks, FileChanges, MarkAck, WaitForAck, WaitReturns
  <2> QED
    BY <1>2, <2>4, <2>5, <2>6, <2>7, <2>8, <2>9, <2>10, <2>11, <2>12, <2>13, Zenon
<1> QED
  BY <1>1, <1>2

-----------------------------------------------------------------------------
(* The theorems.                                                           *)

LEMMA InitInv == Init => Inv
<1> SUFFICES ASSUME Init PROVE Inv
  OBVIOUS
<1> USE SizeAssumption, TriesAssumption DEF Init
<1>1. Types
  BY DEF Types
<1>2. CountInv /\ HandleInv /\ SharedInv
  BY DEF CountInv, HandleInv, SharedInv
<1>3. OwnInv
  BY DEF OwnInv
<1>4. AckInv
  BY NoneAssumption DEF AckInv
<1> QED
  BY <1>1, <1>2, <1>3, <1>4 DEF Inv

\* The inductive invariant.
THEOREM InvHolds == Spec => []Inv
<1>1. Inv /\ [Next]_vars => Inv'
  BY TypesStep, CountStep, HandleStep, SharedStep, OwnStep, AckStep, Zenon DEF Inv
<1> QED
  BY <1>1, InitInv, PTL DEF Spec

\* Every operation of the manager, the sender and the receiver keeps the types
\* of the state: what is counted never passes the size that was offered.
THEOREM TypeCorrect == Spec => []TypeOK
<1>1. Inv => TypeOK
  <2> SUFFICES ASSUME Inv PROVE TypeOK
    OBVIOUS
  <2>1. \A p \in Path : (part[p] = None \/ part[p] \in Seq(Byte)) /\ (final[p] = None \/ final[p] \in Seq(Byte))
    BY DEF Inv, Types
  <2>2. \A t \in Transfer : got[t] \in 0..Size[t] /\ index[t] \in 0..Size[t] /\ starts[t] \subseteq 0..Size[t]
    BY SizeAssumption DEF Inv, Types, CountInv
  <2> QED
    BY <2>1, <2>2, Zenon DEF Inv, Types, TypeOK
<1> QED
  BY <1>1, InvHolds, PTL

\* write_chunk and prepare keep the ".part" file of a transfer that shares its
\* path with none a prefix of what its sender sends, and as long as counted.
THEOREM PartPrefix == Spec => []PartIsPrefix
<1>1. Inv => PartIsPrefix
  <2> SUFFICES ASSUME Inv, NEW t \in Transfer, status[t] = "receiving", t \notin shared
               PROVE  /\ handle[t] = "part" /\ Len(part[dest[t]]) = got[t]
                      /\ \A i \in 1..got[t] : part[dest[t]][i].from = t /\ part[dest[t]][i].pos = i - 1
    BY Zenon DEF PartIsPrefix
  <2>1. dest[t] # None
    BY Zenon DEF Inv, HandleInv
  <2>2. handle[t] = "part" /\ Len(part[dest[t]]) = got[t] /\ (part[dest[t]] = None \/ Mine(part[dest[t]], t))
    BY <2>1, Zenon DEF Inv, OwnInv
  <2>3. part[dest[t]] # None
    BY <2>2, Zenon DEF Inv, HandleInv
  <2> QED
    BY <2>2, <2>3, Zenon DEF Mine
<1> QED
  BY <1>1, InvHolds, PTL

\* A file that finish verified, or whose acknowledgement reached the sender, is
\* on the receiver's disk as it was offered, unless its path is shared.
THEOREM DoneDelivered == Spec => []DoneIsDelivered
<1>1. Inv => DoneIsDelivered
  BY Zenon DEF Inv, HandleInv, OwnInv, AckInv, DoneIsDelivered
<1> QED
  BY <1>1, InvHolds, PTL
=============================================================================
