# TLA+ specification of peerc

peerc is a serverless LAN chat: peers find each other by UDP broadcast, open TCP
connections, chat with acknowledgements and send files. A newer stack under
`core/` adds identities, a vault, a trust store, an authenticated handshake,
encrypted sessions and resumable transfers. It all runs on one asyncio event loop
per process, so coroutines interleave only where they really suspend: `drain()`,
opening a connection, a sleep, a wait for the user. Files are written in several
steps, and the process can be killed between any two of them. These two facts are
where most of the hazards are.

## Parts and modules

| Part of the system | Source | Module | Proofs |
|---|---|---|---|
| chat messages, acks, timeouts | `chat.py`, `peer.py` | `Chat`, abstract: `Delivery` | `ChatProofs` |
| table of connections | `peer.py` | `Connections` | `ConnectionsProofs` |
| file transfers of the application | `file_transfer.py` | `FileTransfer` | `FileTransferProofs` |
| transfer manager, sender, receiver | `core/transfer` | `Transfers` | `TransfersProofs` |
| trust store, rotation certificates | `core/trust` | `TrustStore` | `TrustStoreProofs` |
| identity file and private key | `core/identity`, `discovery.py` | `Identity` | `DeviceProofs` |
| vault keyfile | `core/vault` | `Vault` | `DeviceProofs` |
| handshake, channel, session manager | `core/crypto`, `core/transport` | `SecureSession` | `SecureSessionProofs` |
| discovery, registry, active peer | `discovery.py`, `ui.py` | `Discovery` | `DiscoveryProofs` |

Each `MC*` module gives instances of one module; each `.cfg` is one run. Every
definition is mapped to the lines it stands for in `PROJECT.json`, which also lists
the hazards of the code and the properties that cover them.

How the modules are put together:

- `Device` composes `Identity` and `Vault` (both over `Files`): one process that is
  killed in the middle of either.
- `Chat` composes the chat session with the part of the connection manager it
  rests on (`send`, flow control, the read loop, file frames that share the
  connection) at both ends, and implements `Delivery`.
- `SecureSession` composes handshake, channel, transport and session manager of
  both nodes.
- The remaining interactions (a file transfer over the connection table, the
  handshake over the trust store) are abstracted inside each module.

## How the state corresponds to the code

- **Chat.** `pending` is `_pending`, `timer` the watcher tasks, `call` and `drain`
  say where each `send_chat` is. `buf`, `paused` and `net` are the transport's
  write buffer, its flow control and the wire. Handlers run inside `loop[n]`, the
  read loop, as in `_read_loop`; a file offer holds it until the user answers.
- **Connections.** `table` is `_connections`. `connect_to` and `send` are two
  actions each, before and after their await. A pop removes the key's entry
  whoever it belongs to, as `dict.pop` does. A read loop ends with its connection,
  after `close_all`, or on a malformed frame while the connection is up.
- **FileTransfer.** `part` and `final` say which file each name denotes, so a name
  can pass to another file while the first is still written. All transfers carry
  the same name, the case in which paths meet. `edit` is a change to the sender's
  file after it was hashed. A send is two steps: the write, at once, and the end of
  its `drain()`, which waits while more frames are under way than the connection
  holds (`NetCap`) and ends with the connection. `busy` is the handler that holds the
  receiver's read loop: one that waits for the user or in the drain of its answer.
  When the connection is lost under the answer of `_handle_done`, the handler goes on
  (`FinishDone`) or is left by an `OSError` that `send` does not catch
  (`HandlerRaises`).
- **Transfers.** `part` and `final` hold the bytes at each path; a byte is where it
  was read from. `handle` is where a receiver's open file is now: at the `.part`
  path, at the final path after another receiver's rename, or unlinked. `got` and
  `index` are `bytes_received` and `expected_chunk_index`; `starts` are the offsets
  a sender was asked to stream from, so that chunks of an earlier stream can still
  arrive. `Crash` ends the receiving process and keeps any prefix of a file that
  was open. Only tests call these classes; the order of the calls is theirs.
- **TrustStore.** Keys are the text compared: hex from the handshake, base64 from
  certificates. The rotation chain is defined by closed sets, without recursion.
- **Identity.** `keyring` and `pem` are the two places of `KeyStore`, `file` is
  `identity.json`. A key stands for its pair and its device_id. `call` is the
  create, rotate or rename that is writing and the step it has reached. A file that
  was opened for writing and not closed is `Torn`. `last`, `certs` and `cause` are
  history variables.
- **Vault.** `keyfile` and `tmp` are the two files of `save_vault_keyfile`, `held`
  the object a caller has changed and not saved, `saving` the save in progress.
  `secret`, `shown` and `accepted` are history: the data key in use, the code the
  user saw, the passphrases the user may expect to work.
- **SecureSession.** `sendSeq`/`recvSeq` are the channel's counters, `sessions` the
  manager's entry for the other node, `closing` the scheduled close tasks.
- **Discovery.** Time is discrete; `Tick` happens when nothing is due and nothing
  is in flight. `missed` is a history variable counting lost announcements.

## Runs

| Run | Expected | Shows |
|---|---|---|
| `chat` | pass | no tracked message is forgotten, delivered means shown, `Delivery` is implemented |
| `chat_blocked` | violation | a message suspended in `drain` has no timeout |
| `connections` | pass | overshoot bounded, entries served, owned and forgotten |
| `file_transfer` | pass | success means verified, stalls have a cause, uploads to a reading peer end |
| `file_exposed` | violation | two waiting offers share a path |
| `transfers` | pass | a resumed `.part` file is a prefix; done means delivered |
| `trust_store` | pass | origin of trust, revocation, pinned keys, chain order |
| `trust_rotated` | violation | a rotated device fails the handshake's check |
| `device` | pass | lockouts have a cause, the vault opens, the identity is stable |
| `secure_session` | pass | nonces, order, mutual sessions, replacement, half-open ends |
| `discovery` | pass | stale entries go, only silent peers do |
| `discovery_live` | pass | found both ways, traffic dies down |

### What the violations need

- `chat_blocked`: uploads in both directions fill both write buffers, several at
  once, since each upload writes one chunk before it waits.
- `file_exposed`: two offers of one name wait for the user together, and the send
  of `file_complete_ack` suspends in `drain`. It suspends only if that transport
  is paused, for instance by an upload on the same connection; the instance has a
  connection that holds nothing, on which every answer waits to be read.
- `trust_rotated`: a trusted device rotates and the certificate is recorded before
  the first handshake of the new device.

Three more disagreements are part of specifications that hold. `chat.py` line 5 gives
the life of a message as "sent" -> "delivered" | "failed", but lines 162-166 report
"failed" without looking at `_pending`: if the ack is handled while `send_chat` is
still suspended and the connection is then reset, "failed" follows "delivered".
`Delivery` has this step as `Retract`; without it `Chat` would not implement it.
`peer.py` line 23 gives `MAX_CONNECTIONS` as "simultaneous connections, incoming +
outgoing". `connect_to` checks it before it awaits the opening, so the table exceeds
it; `OvershootBounded` says that the excess is at most the number of calls that were
past the check, and the instance of `connections` reaches two entries at a limit of
one. `CHANGELOG.md` line 580 says that checksum mismatches leave no partial file; the
exception in `PartIsActive` is one that does.

### Exemptions in the properties that hold

They are where the code gives no guarantee, not cases that cannot happen.

- `PendingHasOwner`: a `send_chat` left by an exception. `send` handles only
  `ConnectionResetError` and `BrokenPipeError`; any other `OSError` leaves the
  message tracked with no watcher.
- `DeliveredIsShown`: a receiving transport that failed with such an `OSError`. The
  handler acknowledges before it shows the message, and the exception ends it in
  between.
- `OwnedUnlessReused`: connections whose key was used again.
- `PartIsActive`: a `_handle_done` whose last send raised, on a connection that was
  lost. A transfer whose connection was lost while it was received stays in
  `_incoming` with its `.part` file; the property counts it as received.
- `SendingEnds`: uploads to a peer whose read loop is held for ever, by a user who
  does not answer an offer or by a drain that nobody empties, as in `chat_blocked`.
  The hypothesis `KeepsReading` names it, per connection.
- `DoneIsStored`, `PartIsPrefix`, `DoneIsDelivered`: transfers that share a path
  with another. Neither `_handle_offer` nor `validate_offer` reserves the path.
- `SuccessIsVerified` says the receiver's copy was complete when verified, not that
  it is at its final path: the ack is sent before the rename.
- `StalledHasCause` names two reasons for a receiver to wait for ever on an open
  connection: the accept overtook the registration in `offer_file`, or the sender's
  file is gone and only the sender's user is told.
- `LockoutHasCause` names three mishaps: a write that was cut off, a keyring that
  refused a key while it held an older one, a deleted key.
- `VaultOpens` says that a code that was shown works. A crash after the rename in
  `create_vault` leaves a vault whose code nobody was shown.

## Bounds

- `chat`: one message each way and one file frame per node, over a write buffer and
  a wire of one large frame: a send suspends while another is acknowledged. The
  connection ends cleanly or with an `OSError`. After a clean end a waiting `drain()`
  returns or meets the reset, so the outcomes of a reset are among those checked;
  the proofs are for every kind of loss.
- `connections`: two connections and two dials at a limit of one reach the overshoot
  and the reuse of a key.
- `file_transfer`: two files of two chunks and one chunk over two connections meet
  in one path. One connection holds one frame, so that uploads wait for their
  chunks; the other holds none, so that every send on it, answers included, waits
  until it is read or the connection is lost.
- `transfers`: files of three bytes and one byte, chunks of two, two receivers per
  transfer: a crash in the middle of a chunk, a resume off the chunk grid, and a
  total limit that both offers just fit in.
- `trust_store`: four devices, two of them roots, allow a chain of three.
- `device`: three keys (two rotations), two data keys and codes, three passphrases,
  one of which is refused. Keys, data keys and codes are interchangeable, so the run
  uses symmetry; it has no liveness property.
- `secure_session`: two crossed connections and three sends give simultaneous opening
  and a gap in the sequence.
- `discovery`: intervals 2, 5 and 3 s in place of 3, 10 and 5 s: still two
  announcements fit in the timeout (three in the code) and the prune interval is not
  a multiple of the announce interval.

Deadlock is not checked: the applications may stop, and every bound on commands,
messages or keys ends a behaviour.

## Fairness

Weak fairness for coroutines and tasks that can run (the event loop schedules
them), for flushing the write buffer and noticing a loss (the kernel), and for
timers. Users owe nothing in `Chat`. In `FileTransfer` only the sending task is fair:
no user, read loop or handler is, since the rest of the traffic that could hold them
up is not in the module; `SendingEnds` has as a hypothesis that the other end keeps
reading. `EndedIsForgotten` assumes that handlers return, `HalfOpenEnds` that sessions
are read.
`Discovery` assumes strong fairness of the delivery of announcements and replies
per pair: a packet sent again and again eventually arrives. `Identity`, `Vault` and
`Transfers` are checked for safety only: their calls are the user's.

## Proofs

TLAPS proves the following for all constants that satisfy the assumptions of the
modules: any sets of messages, connections, transfers, devices or keys, any sizes,
buffer limits and numbers of crashes.

- `ChatProofs`: `TypeOK`, `PendingHasOwner`, `FailedIsFinal`, `DeliveredIsShown` and
  that `Chat` implements `Delivery`. The invariant ties each message's call, drain,
  watcher and `_pending` entry together: while it is tracked nothing was reported,
  and a watcher runs only after the call returned. For the refinement a second
  invariant follows the frames: an ack that is buffered or on the wire is for a
  message that the peer has taken. A third one says of such a message that its
  handler is about to show it, has shown it, or was ended by an error of its
  transport; `DeliveredIsShown` alone says nothing before the ack arrives, so it is
  not inductive.
- `ConnectionsProofs`: `TypeOK`, `TableIsServed`, `OwnedUnlessReused` and
  `OvershootBounded`. The inductive invariant adds that unused connections have no
  address and that read loops and suspended sends belong to connections that were
  made; without it a step could register or pop on behalf of a connection that does
  not exist yet. The overshoot counts entries and dials together, since each
  completed dial turns one into the other.
- `TrustStoreProofs`: `TypeOK`, `RevokedIsTerminal`, `KeyIsPinned`,
  `TrustHasOrigin`, `RevocationTaints` and `ChainIsOrdered`. Trust originates by
  induction: a carry forward adds the transition it uses. Revocation reaches the
  chain because the complement of a closed set is closed, so chains are symmetric.
  Chains are ordered because stamps grow along the owners' rotations and two devices
  of one chain are on one line of rotations, one way or the other.
- `DeviceProofs`: `TypeOK`, `LockoutHasCause`, `VaultOpens` and `IdentityIsStable`.
  Identity and vault have an invariant each, which says for every step of a write
  what the other places already hold; a step of one leaves the other alone, and only
  a crash moves both.
- `SecureSessionProofs`: `TypeOK`, `EstablishedIsMutual`, `NonceIsFresh`,
  `AcceptedIsPrefix`, `RefusedMeansUnwritten` and `ReplacedIsClosed`. The
  handshake's states only move forward, and `handshake_finish` is on the wire only
  after the initiator has its session; written sequence numbers increase and a frame
  on the wire was written, so a receiver that takes only the expected number takes a
  prefix. As long as every sealed frame was written, the frames on the wire are
  numbered without a gap from the number their receiver expects: a refusal needs a
  frame that was never written.
- `TransfersProofs`: `TypeOK`, `PartIsPrefix` and `DoneIsDelivered`. The invariant
  adds that only a receiving transfer has an open file, that a path two transfers
  have makes both shared, and that the `.part` file at an unshared path holds its
  transfer's own bytes in order, also between crash and resume. Without the last
  part a resume could start from anything.
- `FileTransferProofs`: `TypeOK`, `SuccessIsVerified`, `DoneIsStored`,
  `PartIsActive` and `StalledHasCause`. One invariant follows a transfer through its
  frames: an offer is on the wire once and only before the receiver knows the
  transfer, an accept once and only until the sender has read it, a good
  acknowledgement only for a complete copy that is not written any more. Another one
  says which transfer a path can name: only one that resolved it and was accepted, and
  a `.part` file one that is under way or whose handler raised. A handler that raised
  because the `.part` was gone has none; the other kind lost its connection, and lost
  connections do not come back (`LeftBehind`). `HeldLoopWaits` adds that the handler of
  an offer or of a verification is alone on its connection: no frame is handled, and
  no other transfer of that connection is at such a point, until it returns.
  That is also why `resolve_safe_dest_path` always finds a free counter: each one
  that is taken is the counter of a different transfer, and there are more counters
  than transfers.
- `DiscoveryProofs`: `TypeOK`, `StaleIsPruned` and `OfflineWasMissed`. The age of an
  entry is bounded by the time since its node's last round of pruning, and by the
  number of announcements missed since it was refreshed, with the time left until
  the next one. Identifiers of the entries that `/connect` makes are assumed to
  differ from those of nodes (`IdAssumption`), as the `peer-` prefix makes them.

All safety properties that the passing runs check are proved.

### Liveness

A module's `Fairness` is made of one named operator per coroutine, transfer, node or
pair, so that a proof can take the instance it is about. Given that instance, what a
step does and that it stays possible until it is taken, the temporal part is
propositional and is proved for every value of the constants. What the provers do not
look into is ENABLED. That a step is possible is therefore a hypothesis of each
theorem, by name: it says that a step's guard, as written in the code, is enough for
the step (`TimeoutRuns`: while a handshake waits its timeout can fire; `LoopRuns`: a
read loop can return from a handler, and can read or end on a connection that is
over). TLC found each of them true in every state of the instance that its module's run
uses; that is not a run of its own, since ENABLED follows from the guards.

- `HandshakesEnd`, `HalfOpenCloses` (`SecureSessionProofs`): a waiting handshake ends
  in a session or a failure, and `HalfOpenEnds`. The latter needs one more invariant:
  a responder that gave up has written nothing after `handshake_response`, which the
  initiator has read, so the initiator's next read finds the end of the connection.
- `DrainedIsForgotten`, `LeftoverIsRead`, `GoneStaysGone` (`ConnectionsProofs`): a
  connection that is over leaves the table once it is read to the end, each frame left
  on it is read, and it does not come back. These are the steps of
  `EndedIsForgotten`.
- `LostUploadEnds` (`FileTransferProofs`): an upload without its connection, in the
  drain of a chunk or of `file_done`, and the wait for the last acknowledgement come
  to an end. That is the part of `SendingEnds` that needs nobody at the other end.
- `TimedMessageEnds`, `LossResolves` (`ChatProofs`): an armed watcher takes its
  message out of `_pending`, and so does the loss of the connection, for the messages
  in `drain()` too, unless an exception left `send_chat`. `LossResolves` is
  the part of `TrackedIsResolved`, which `chat_blocked` violates, that does hold: a
  message stays tracked for ever only while its connection lasts, or by that
  exception.
- `AnnouncedIsMutual` (`DiscoveryProofs`): what `FoundBothWays` says of two nodes,
  given that the announce loop of the one that is heard wakes again and again. The
  invariant is that the announcer's entry is new while the reply to it is under way,
  from the first reply on that was sent since both run.

Only model-checked, besides the hypotheses on ENABLED: `SendingEnds` and
`EndedIsForgotten` as a whole, which need an induction over the chunks or frames that
are left; `TrafficSettles`, an induction over the packets under way; and, for
`FoundBothWays`, that an announce loop wakes again, an induction over the time left.
Leads-to chains of unbounded length are out of the prover's reach.

## Abstractions to keep in mind

- Cryptography is ideal, and messages between the two ends verify. A wrapped data
  key opens with the secret it was wrapped under and with no other.
- Certificate timestamps of one owner increase. A peer keeps its address.
- `FileTransfer`: the files go one way, and the chat and uploads of the receiver are
  not in the module. What they could do to it is hold a read loop or fill a buffer:
  no read loop and no handler is assumed to take a step, so every safety property
  covers it, and `SendingEnds` names it as its hypothesis.
- `TrustStore`: certificates are those that owners made; one that does not verify
  changes nothing, as `record_rotation` checks the signature first.
- `SecureSession`: the drain of a handshake message does not suspend, since nothing
  else is in the buffer then. The manager has one entry, for the one other node.
- `Transfers`: no sender is used again after it was answered; no caller does.
- `Discovery`: the dial of `/connect` does not suspend in sending its hello.
- `Identity` and `Vault` model a killed process, not a power loss: what was written
  stays written. One process uses the files.
- `Transfers`: a write reaches the file at once, except that a crash may lose any
  tail of it. Offers are validated against the limits on concurrency and total
  size, but nothing is claimed about how far offers validated together exceed them.

## Not modelled

- **mDNS discovery**: done by the external zeroconf library. The packets enter
  through the handler that is modelled.
- **Security events and logging**: no modelled decision reads them.
- **Cryptographic primitives, key derivation, PEM and recovery code encodings**:
  pure functions; their properties are not about states.
- **Byte layout and malformed input** (`core/protocol`, validation in every
  handler): pure functions, better served by unit tests. A malformed frame ends in
  the same refusals as the ones modelled.
- **`EventBus.post` and subscriptions**: the application subscribes nothing that
  changes modelled state to posted events; `publish` is in `Chat`.
- **The handshake's nonce cache**: fresh nonces never repeat, so it never refuses in
  this model. **Exhaustion of the 8-byte sequence number** is not reached.
- **Layout, clipboard and informational commands of the terminal UI.**
- **Free disk space** in `FileTransferManager`: a check against an external value
  that may be different a moment later.
