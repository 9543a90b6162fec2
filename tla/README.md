# A verification project for browsercore-quic

TLA+ modules that model the core of `@browsercore/quic` (a QUIC transport in
TypeScript), TLC configurations that check them on small instances, and theorems
about them that TLAPS checks for every value of the constants. Paths such as
`stream.ts:210` are below `src/src/`, tests below `src/tests/`.

Contents: [inventory](#1-the-system) · [plan](#2-plan) · [modules](#3-modules-and-code) ·
[runs](#4-runs) · [bounds](#5-bounds) · [fairness](#6-fairness) ·
[theorems](#7-what-is-proved) · [only checked](#8-what-is-only-model-checked) ·
[divergences](#9-where-code-and-documentation-disagree) · [not modelled](#10-what-is-not-modelled)

## 1. The system

One process, one thread. Concurrency is that of JavaScript: a function runs until
it returns or awaits, and between two awaits of one caller anything else can run:
other callers, the read loop, a handler of a received frame. The network loses, repeats and
reorders datagrams; the package neither acknowledges nor retransmits, so what
the peer sends again is the peer's decision.

| Component | State it keeps | Operations | Talks to |
| --- | --- | --- | --- |
| **Stream, receiving half** `stream/stream.ts` `ManagedStream` | reassembly buffer, `recvOffset`, `recvFinOffset`, `finDelivered`, read buffer, waiting readers, bytes received, advertised limit | `read`, `ingest`, `resetPeer`, `forceClose` | the manager calls `ingest`; readers are woken by resolving their promises |
| **Stream, sending half** (same class) | send queue, requested and sent FIN, bytes sent, the peer's limit | `write`, `close`, `commitSend`, `stopSending`, `setMaxStreamData` | only the manager's drain sends |
| **Stream manager** `createStreamManager` | map of streams in insertion order, next ids, accepted ids, accept waiters per type, connection windows of both directions, `closing`, `closed` | `open…`, `accept…`, `handle…` for every stream frame, `flushSends`, `close`, `abortAll` | emits frames through a callback of the connection |
| **Connection** `connection.ts` `QuicConnectionImpl` | `outboundFrames`, packet numbers and key phases, `handshakeResult`, pending path challenges, `closing`, `closed` | read loop, `dispatchDatagram`, `flush`, `close`, `handshake`, `sendPathChallenge`, `_teardown`, `_handleFatal` | the injected `DatagramTransport`; the stream manager |
| **Packets and protection** `packet/` | none | header forms, packet numbers, nonce, header protection, AEAD | called by `flush` and `dispatchDatagram` |
| **Handshake** `handshake/` | the adapter's pending read | `runQuicHandshake`, adapter `read`, `write` | the TLS library reads and writes a QUIC stream through the adapter |
| **Codecs** `frame/`, `transport-params.ts` | the frame reader's buffer | variable-length integers, frames, transport parameters | called per datagram |
| **Key derivation, errors, helpers** `crypto/`, `errors.ts`, `utils.ts` | none | HKDF labels, error classes, concatenation | |

Interactions that matter:

- *Inbound*: `recv()` → `dispatchDatagram` (unprotect, read frames) → one handler
  of the manager per frame → `ingest` → a waiting `read()`. Between two frames
  the loop awaits, so what a frame woke runs first. When the datagram is done, `drainSends` runs.
- *Outbound*: `write()` only queues. `drainSends` asks the manager's
  `flushSends`, which emits STREAM frames to `outboundFrames`; `flush()` packs,
  cuts, protects and sends them.
- *Closing* can come from the application (several calls at once), the peer, an undecodable
  datagram or the transport, and meets whatever the other parties have half done.

What is hard here, and what makes each component correct:

| Component | Hard behaviour | Correct means |
| --- | --- | --- |
| receiving half | overlap and reordering; a FIN before its data; readers coming and going between deliveries; credit that must not run dry | bytes in order and once, the end only behind the last byte and always reached, no reader left beside its data |
| sending half, manager | two windows and a budget shared by streams over several drains; limits arriving out of order; STOP_SENDING, RESET_STREAM and closes in between; accept calls racing streams | no limit exceeded, contiguous frames, FIN last, no accept call beside its stream, no stream handed out more often than it was created |
| connection | four ways to close, each in the middle of another | the transport is released once, nobody waits on an aborted connection, the loop ends with the connection |
| packets | masks over unknown-length headers; two ends that get keys at different moments, also in the middle of a datagram, and need not agree on ids and secrets; cutting at datagram size | nonces never repeat, headers and frames come out as they went in |
| handshake | concurrent runs; a drain driven by inbound datagrams only | no chunk of the server's flight is lost; every run ends |
| codecs | four widths of a number; an await at any byte of a frame; input cut anywhere | what is read is what was written, a cut is noticed and changes nothing |

`PROJECT.json` lists the hazards one by one, at the line where they bite.

## 2. Plan

In the order of importance. All but the seventh are written.

1. `StreamReceive`, with `ByteStream` as the abstract specification it implements: the central promise of the package.
2. `StreamManager`, with `SendStream` as the abstract specification of its sending half: the table, both windows, the drain, the FIN, closing.
3. `Connection`: closing, the read loop and everybody who waits, path validation.
4. `Packets`: flush, protection in both directions, dispatch.
5. `Handshake`: keys, the adapter, the drain.
6. `Varint`, `FrameCodec`, `TransportParameters`: numbers at the borders of
   their widths, the frame reader across chunk boundaries, the parameters of the peer.
7. A composition of two ends over a lossy channel, one end's drain feeding the
   other's `ingest`, is **not** written, because this code has no other end:
   every connection opens client-initiated streams, and `handleStream` ignores
   frames of client-initiated streams it did not open (`stream.ts:678`), so what
   one such end sends is dropped by another, or lands in a stream that happens to have the same id. The two halves meet in the
   abstract specifications instead: `SendStream` says that the frames sent
   continue each other and end once, which is what `StreamReceive` assumes of a peer.

Every safety invariant of the passing runs but `CreditOutstanding`, both refinements and every action property that states no progress
are proved (section 7); of `CreditOutstanding`, the part that does not depend on the sizes of the windows. What is left to do:

- properties for the hazards of `PROJECT.json` that have none yet (a receive limit counted from the other end's parameter, a window frame lost for good,
  a stream at the end of the map that the drain never reaches, several reads at the end of a stream, `read` after a reset, a local close beside waiting calls,
  a close whose frame cannot be sent, Finished sealed with keys of its own making). The code fails at each of them, so they need runs that expect a violation, in place of others;
- the safety part of what the liveness properties rest on: for `FinIsSent` that a requested FIN stays requested until it is sent or
  withdrawn, for `CloseSettles` that a `close()` that is under way always has a step of its own or of the transport's to wait for.

## 3. Modules and code

Data are abstracted to what the properties can tell apart, control is kept: an
action is a handler between two awaits, with its guards and early returns.
Operators marked *variant* in a comment are mistakes a maintainer could make in the definition beside
them; `PROJECT.json` pairs each with the property that notices.

### `StreamReceive` (with `MCStreamReceive`, `ByteStream`, `StreamReceiveProofs`)

The byte at offset *n* is the number *n*; a frame is offset, length and FIN bit. What
`read()` returns is collected in `got`, so order, loss and repetition show at once.

| Action | Code |
| --- | --- |
| `IngestStale`, `IngestContiguous`, `IngestAhead` | the three ways through `ingest` (`stream.ts:210`): all of it delivered before, continues the stream after its front is clipped, leaves a gap |
| `DrainOne`, `DrainDone` | the loop of `drainReassembly` (`:273`), one chunk per step |
| `SignalFin`, `NoFinYet` | the FIN check at the end of `ingest` (`:243`) and `signalFin` |
| `Replenish` | stream and connection credit at the end of `handleStream` (`:683`) |
| `ReadBuffered`, `ReadEnd`, `ReadWait` | `read` (`:138`) |
| `LocalFin`, `ResetPeer`, `ForceClose` | the sending half's FIN, RESET_STREAM, teardown |

One call of `handleStream` runs through `phase`; while it is not `"idle"` no other
action is enabled, so the split is for reading and proving and adds no interleaving. `ByteStream` is the
promise: `read()` hands out the next bytes, and the end once all are out. The constant `OverlapBuffered` says whether a
frame may arrive that overlaps bytes waiting in the reassembly buffer (section 9, first entry, is why it exists). `GivenWindow` is the stream limit that our own transport
parameters gave the peer, `StreamWindow` the peer's parameter, which the code counts as if it were
that limit and adds at every replenishment; the peer goes by `PeerLimit`.

### `StreamManager` (with `SendStream`, `StreamManagerProofs`)

A send queue is its length. `FlushBegin`, then `FlushSkip`, `FlushBlocked` or
`FlushSend` per stream of the map, then `FlushEnd` are one call of `flushSends`
(`:568`). The rest is one action per operation: `OpenStream`, `AcceptStream`,
`AcceptWait`, `HandleNewStream` and `HandleLastStream` (an incoming frame creates or completes a stream),
`HandleResetStream`, `HandleStopSending`, `HandleMaxStreamData`, `HandleMaxData`,
`UpdatePeerParameters`, `Write`, `CloseStream`, `Close`, `HandleConnectionClose`
with the `AbortAll` it leads to. `wireEnd`, `wireFins` and `handedOut` are
histories, and so is `resets`, which counts how often RESET_STREAM has taken a stream from the map: `handleResetStream` accepts any
number of them, and behind each a late STREAM frame can register the id anew. Such a stream is a new
object under an old id; `held` says whether the application has the current one.

`SendStream` is the promise of the sending half: what was written and not
withdrawn is sent once and in order, the FIN once and last. `KeepsPromise` maps
*written* to sent and queued bytes together, *sent* and *fins* to the two
histories of the wire, and *live* to the streams that neither a reset nor a close has cut off.

### `Connection` (with `MCConnection`, `ConnectionProofs`)

The read loop (`Receive`, one action per kind of frame, `EndDatagram`,
`ReceiveFails`), `close()` from its call over its flush to its return (`Close`, `CloseFrameSettles`,
`CloseFlushed` or `CloseFails`, `CloseReturns`), and application calls. `Teardown`
and `Abort` are `_teardown` (`connection.ts:926`) and the body that `onPeerClose`
and `_handleFatal` share. `SendPathChallenge` and `FrameResponse` are path validation. Streams and
calls that wait are counted.

### `Packets` (with `MCPackets`, `PacketsProofs`, `InductionProofs`)

A header byte is the set of its 1 bits, masking a symmetric difference; a packet
number has `PnBits` bits on the wire, for 32 in the code. The AEAD opens exactly for the
key, nonce and associated data it sealed with. `FlushPlain` and `FlushProtected` are
`flush()` (`:361`) without and with keys, `EarlierPhase` the long headers that a
peer still in its handshake sends.

The two ends both run this code and have settings of their own (`setup`, any of `Setups`): each end's `this.dcid.length`,
the `clientProtection` that the sender seals with (`:457`) and the `serverProtection` that the receiver opens with (`:624`). A short
header does not say how long its connection id is, so the receiver skips as many bytes as its own id has (`:603`, `:662`, `:744`);
read in the wrong place, the packet number, the sample and the payload are other bytes.

`dispatchDatagram` (`:572`) is three actions, because it awaits between frames: `DispatchDatagram` tests once for keys
(`:580`), removes the protection with `unprotectHeader` and `unprotectPayload` as the code calls them, one after the other, and finds the frames
(`Begin`); `HandleFrame` hands over one frame, and may throw; `EndDatagram` ends the loop or fails on what follows the last whole frame.
The next datagram waits until then (`readLoop`), but `InstallKeys` does not: the rest of an unsealed datagram is handled with the keys there.
`current` is the datagram under way, `overtaken` the number of the one during which the keys came.

`Bits` (what a packet number puts into the nonce) and the frames found in a payload (`FramesIn`) are recursive functions over
the natural numbers. `InductionProofs` holds what every proof about such a function needs: induction, that it exists, and what a
flattened sequence of byte strings is made of.

### `Handshake` (with `HandshakeProofs`)

`connectQuic`'s own run and later `handshake()` calls, each on its own stream:
`OpenStream`, then `Resume` whenever a chunk has reached the adapter's waiting read, and
`Install` of the keys. `EndDatagram` is the drain: the only moment at which what
TLS wrote leaves.

### `Varint`, `FrameCodec`, `TransportParameters` (together in `MCCodec`, with `ParametersProofs`, `CodecProofs`)

`Varint` is `frame/varint.ts` with the size of a byte as a parameter: `Quarter` is the number of values six bits
hold, 64 in the code. `FrameCodec` is `serializeFrame` as an operator, and the reader as a
state machine: one action per round of `fill` (`Fill`, `FillEnd`), per field that
`decodeFrame` awaits (`ReadType`, `ReadVarint`, `ReadBytes`), and per way the iteration begins, ends and fails.
`Fields` says which fields a frame type has, in their order on the wire, and `QuicFrames` is the type `QuicFrame`, the union of one
record type per kind of frame. `ParametersProofs` has the theorems about numbers and parameters, `CodecProofs` those about frames.
`TransportParameters` is encoding and decoding as operators, and `ReceivePeerParameters` as the one action that
changes the connection.

## 4. Runs

| Run | Question and answer |
| --- | --- |
| `StreamReceive_order` | With loss, repetition, reordering and re-segmentation (not over buffered bytes), resets and closes at any point: delivery in order, no lost wake-up, the end only behind the data, credit always outstanding, the FINs tracked, `ByteStream` implemented, and a reader that goes on reaches the end. All hold. |
| `StreamReceive_duplicate` | The same when a frame may overlap buffered bytes. **Violated**: bytes are delivered twice. |
| `StreamReceive_barefin` | Does every `read()` settle once all data and the FIN are there? **Violated**: an empty FIN frame behind delivered data is never signalled. |
| `StreamManager_send` | Two streams, one of each side, share a connection window and a budget smaller than what is queued; limits grow and arrive in any order; STOP_SENDING, RESET_STREAM and closes in between. Windows are kept, `SendStream` is implemented, and a drain that has budget left has left nothing sendable behind. |
| `StreamManager_accept` | Three incoming streams of both types against accept calls of both types, resets and closes. No call waits beside its stream; a stream is handed out once, and once more for each reset behind which a late frame made it a new one. |
| `StreamManager_fin` | A requested FIN is sent in the end, also by a stream with an empty queue, as long as windows open and datagrams arrive. |
| `Connection_lifecycle` | Two `close()` calls, the peer's close, path challenges, undecodable datagrams and transport failures in every order. One release; no `close()` sends after it; no call waits on an aborted connection; the loop ends with the connection and not before; every `close()` settles (one whose flush fails settles by rejecting). |
| `Packets_seal` | Frames that are too short, fit, or need two datagrams, keys at either end at any moment, between two frames of a datagram too, ends whose connection ids or secrets differ, any delivery order and repetition. No nonce repeats, headers are recovered if the ends go together, every byte is accounted for, nothing unsealed is handled under keys but the rest of the datagram they overtook, and a datagram is fatal only for a cause `FailureHasCause` names. |
| `Packets_open` | Does what was sealed open again, at an end that goes with the sender? **Violated** as soon as the mask touches the first byte. |
| `Handshake_talkative` | With a peer that sends something now and then, three concurrent runs end, without losing a chunk, and Finished leaves. |
| `Handshake_stall` | The same with a server that speaks only when spoken to. **Violated**: the ClientHello is never drained. |
| `Codec_bytes` | Every frame type, its bytes cut anywhere and handed to the reader in any chunks; transport parameters, known and unknown, cut anywhere. The frames read are the frames written, a cut is an error unless it falls between frames (`CutIsNoticed` leaves one kind of cut open, section 9), the reader always settles; parameters are those sent, a cut one is refused and leaves those of the earlier call. |

Deadlock checking is off in all of them because every modelled system may
stop: streams end, connections close, and bounded environments run out of frames. That nobody is stuck
*before* the end is stated by the liveness properties instead.

## 5. Bounds

- `StreamReceive`: a stream of 4 bytes in pieces of 1 to 3, with two segmentations of the same bytes, every
  frame up to twice, two readers; the peer was given 2 bytes of stream window where the code
  counts 4, and 2 of connection window. Overlap with delivered bytes, a gap of two chunks filled by one frame and
  an exhausted initial window all occur; more bytes only repeat them. The theorems remove the bounds.
- `StreamManager`: two or three stream ids, 1 to 3 bytes of window, a budget of 2, up to 2 bytes per
  stream: enough for a stream to be cut by each of the three limits, for a queue to need several drains and
  to grow between them. `_accept` uses no bytes and `_fin` one, because their questions
  are about calls and about progress. `MaxResets` RESET_STREAM frames, of one stream or of several, remove a stream (two, in `_fin` one): with two the same id comes
  back twice. The code has no such limit, and the theorems have none but the constant.
- `Connection`: two callers, two datagrams of up to three frames, one pending call of each kind, one path challenge. A
  third party can always come between the two awaits of `close()`. The theorems cover any number.
- `Packets`: three frames (1, 3 and 5 bytes against a payload of 4 and a minimum of 2),
  three packet numbers of one bit, so that the width on the wire does overflow; three masks
  that touch no covered bit, the length bits, and the one bit only short headers cover; two deliveries; four `Setups`: ends that go together,
  a sender that writes an empty connection id, and receivers with other secrets for the application or for the handshake phase.
- `Handshake`: `connectQuic` and two more runs, a flight of three chunks (two in `Handshake_stall`).

- `Codec`: bytes of 128 values (`Quarter` = 32), which leaves one byte for all frame types and lets TLC's integers
  reach the eight-byte width, with numbers on both sides of each border; each frame type, with and without its optional parts,
  followed by one of two others (`EachThenAnother`); chunks of 1 and 2 bytes, and all that is left
  (`MaxChunk`); tokens of 3 bytes for 16 and path data of 2 for 8 (`TokenLength`, `PathDataLength`);
  three sets of known parameters (`Options`) with three additions (`Unknown`), and two calls (`MaxCalls`). The theorems hold for every size of byte that has room for the frame types, every frame and every option.

`MaxCopies`, `MaxReaders`, `StreamIds`, `MaxBytes`, `MaxAccepts`, `MaxResets`, `MaxDatagrams`, `MaxPending`, `Challenges`, `Setups`, `MaxPackets`,
`MaxDeliveries`, `Packets`, `MaxChunk`, `Options`, `Unknown` and `MaxCalls` are bounds of the models and nothing the code has.
`MaxPayload` and `MinPayload` (`MAX_DATAGRAM_PAYLOAD`, and the sample's needs) are the code's, scaled, and so are the two lengths above.

## 6. Fairness

- *A handler that runs finishes* (weak fairness of `Continue`, `FlushStep`,
  `Dispatch`, `Run`, the steps of `close()`): JavaScript resumes what can run; there is no starvation between promise callbacks.
- *The transport settles* `send` and `close`, and a closed one rejects `recv`: the
  contract of `DatagramTransport` as the code relies on it. Sending may fail, if `SendFails`.
- *The peer retransmits* (`StreamReceive`: weak fairness of each frame's first arrival; no repeats are owed, and nothing says in which order).
- *The peer opens its windows and goes on sending datagrams* (`StreamManager_fin`: strong fairness of the limits and of `FlushBegin`): the drain
  runs only after a datagram, so without datagrams it would not run at all.
- *The application goes on reading* in `StreamReceive_order`; nothing is assumed of calls elsewhere.
- *The source answers* (`MCCodec`: weak fairness of the reader's steps): a chunk or the end comes in the end; the connection's own source has the datagram already.
- `Handshake`: `FairSpec` lets the server answer a ClientHello it has; `TalkativeSpec` adds
  that it also sends datagrams unasked. The difference between the two runs is exactly that assumption, and the code does nothing to make it true.

## 7. What is proved

Every theorem holds for all values of the constants that satisfy the modules'
named assumptions. These say what the types of the code say, and little more:

- sizes, counts and windows are naturals, the ones that divide or are halved are not 0, masks cover the bits the code masks;
- `StreamReceive`: frames are pieces of one stream, and one that is empty carries the FIN;
- `FrameCodec`: what is written is a sequence of `QuicFrames`, an ACK's `ackRangeCount` is the number of its ranges, a reset token
  and path data have their fixed length (`PacketsAssumption`; the code writes whatever count it is given), and frame types fit the one-byte
  form (`CodesAssumption`; 0x1e is the largest in the code, 63 the limit);
- `TransportParameters`: options name known parameters and give them numbers below 2^62 (`OptionsAssumption`); what a peer adds has ids the
  code does not know, or values without a number in them (`UnknownAssumption`). A known id with a number is not excluded by this: it is an option.

Theorems about the receiving half that say *likewise* are for streams where no frame overlaps buffered bytes (`~OverlapBuffered`).

| Theorem | Says |
| --- | --- |
| `TypeCorrect` of `StreamReceiveProofs`, `StreamManagerProofs`, `ConnectionProofs`, `PacketsProofs`, `HandshakeProofs`, and `ReaderTypeCorrect` | the type invariants |
| `DeliveryIsOrdered` | `InOrderDelivery`, if no frame overlaps buffered bytes |
| `EndIsComplete` | `EofIsComplete`, likewise |
| `NoReadIsForgotten` | `NoLostWakeup`, likewise |
| `ReceiveImplementsByteStream` | the refinement `KeepsPromise` of `StreamReceive`, likewise |
| `CreditIsRenewed` | likewise, for windows of all sizes: between handlers the peer has credit left on the connection, and on the stream once a MAX_STREAM_DATA has told it a limit beyond our own parameter |
| `StateIsTracked` | `StateTracksFins` |
| `SendsWithinWindows` | `WithinWindows` |
| `SendingImplementsSendStream` | the refinement `KeepsPromise` of `StreamManager` |
| `DrainsLeaveNothing` | `FlushDrains` |
| `AcceptsAreServed`, `StreamsAreAcceptedOnce` | `NoLostAccept`, `AcceptedOnce` |
| `TransportIsReleasedOnce`, `CloseNeverSendsLate` | `ReleasedOnce`, `ReleasedIsUnused` |
| `AbortIsFinal`, `LoopOutlivesConnection` | `AbortSettlesCalls`, `LoopEndsOnlyClosed` |
| `HeadersAreRecovered` | `HeaderRecovered` for every mask, phase, payload and connection id, between ends that go together |
| `NoncesAreUsedOnce` | `NonceOnce` |
| `BytesAreAccountedFor` | `BytesAccounted`, for all frames and sizes of a datagram |
| `HandlesOnlySealed`, `FailuresHaveACause` | `OnlySealedFrames`, `FailureHasCause`, for every pair of ends and every moment at which keys come |
| `NoChunkIsLost` | `ChunksAccounted` for any number of runs |
| `VarintRoundTrip` | `decodeVarint` reads back what `encodeVarint` wrote, for every size of byte and any buffer around it |
| `FramesSurvive`, `CutsAreNoticed` | `FramesAreThoseWritten`, `CutIsNoticed`: all frames, all cuts, all chunks |
| `ParametersSurvive`, `CutsAreRefused` | `ParametersAreThoseSent`, `CutIsRefused`: all options, all additions, all cuts |
| `RecursionExists` | a function defined by recursion along a descent of naturals exists |

The arguments:

- **Delivery.** That `got` and then the read buffer hold the bytes below `recvOffset` is not inductive. `OrderInv` adds
  that chunks in the reassembly buffer are sorted, disjoint and not below
  `recvOffset`, that a waiting reader has nothing buffered in front of it, and that everything ends by
  `FinalSize`. Then `DrainOne`, which delivers the head whole
  whenever it is not above `recvOffset`, can only meet a head that lies exactly at `recvOffset`. Disjointness is where
  `~OverlapBuffered` is used, and without it the theorem is false
  (`StreamReceive_duplicate`). The refinement adds one step fact, that reading
  only ever appends (`ReadsAdvance`), and that what was read is a prefix of the content. For the
  wake-ups, `Drained` adds that a chunk is deliverable only between two rounds of
  the drain: it stops at the lowest chunk, and all others lie behind that one.
- **Credit.** `dataReceived` counts a frame's whole length, so it is never below the bytes delivered and those in the buffer
  (`BytesCounted`; a buffered chunk counts for itself because chunks are disjoint, `OrderInv` again, and the proof walks along the sorted buffer instead of adding it up). On the
  connection, replenishing at half is then early enough. On the stream, nothing that has come lies beyond the limit the peer goes by (`InWindows`), and each replenishment
  raises that limit once it has exceeded what our parameter gave; if there is no need to replenish, less than half of what is counted has come. Whether a limit beyond our parameter is
  stated before the peer has used that up depends on the two windows. The code does not ensure it, TLC finds a stalled peer where it fails (section 9), and the
  theorem does not claim it; `CreditOutstanding`, which does, is checked for windows of 2 and 4.
- **Windows.** The type invariant and the definition of `Allow` as a minimum; limits
  never shrink (`HandleMaxStreamData` and `HandleMaxData` compare first).
- **Sending.** The promise is kept as long as a stream's object accounts for what the wire has
  seen (`SendInv`: `dataSent` is the end of what was sent, nothing is left behind a FIN, and
  a stream that is not in the map was never used). Creating an object would break it for an id that has
  already been used; `IdsInv` (our ids in the map are below the next one, whose type bits are its own) and
  the map's own test exclude that for streams that were not reset.
- **Draining.** While a drain runs, each stream it has passed has nothing left that both windows allow (`ServedBehind`); later streams only
  take from the connection window, which can only take away what one may send. A stream that is passed unserved was cut by its window, by the connection's, or by
  the budget, and the last ends the claim.
- **Accepting.** A stream can be handed out again only after it left the map, and it leaves the map by a reset, each of which is counted, or
  when the connection is over and no call waits (`Claimed`). A call waits only while every stream of its type is
  accepted, since it looks first and each stream that is registered takes a waiting call with it (`CallsWait`).
- **Closing.** An abort lasts because it leaves no stream to work with and `closing`
  refuses new ones while the rest of the datagram is still handled. That a `close()` never sends late
  follows from `ReleasedOnce`: one that still sends has found the connection not closed, hence the transport not released.
- **Headers.** Masking never changes the form bit (`FormIsKept`), and a receiver whose id is as long as the one it reads places the packet number
  where the sender did (`LayoutsAgree`), so with the same secrets it finds the same sample and mask, and
  masking twice is the identity (`XorTwice`).
- **Keys.** Before the keys are there nothing is handled under keys; afterwards whatever is begun is opened first, since `HasSecrets` holds of every phase a header can name.
  What remains is a datagram that was begun before: it is still `current` when the keys come, and `KeysInv` says that it is the one numbered `overtaken`.
- **Nonces.** The *k*-th nonce was made of packet number *k* - 1, also that of a fragment which was sealed and never sent (`NumbersInv`). Two numbers with the same bits are the same: the least two for
  which that fails would have the same last bit, and their halves would be smaller ones. A mask over the initialisation vector keeps them apart (`XorTwice`).
- **Packing.** `PlacesInv` gives every byte of the frames sent one place: it waits with its whole frame in the queue, one datagram has it, or a flush
  that failed dropped it. Cutting gives every position of the packed bytes one fragment, and no position twice. The frames found in a payload are those whose bytes it holds whole, by induction over what is left of it.
- **Failures.** A packet on the wire was wrapped by this code, at an end with the settings it has had from the start (`OriginInv`, `SetupStays`), so without any of the named causes its header comes out (`RecoverOne`)
  and it opens. What a datagram under way will fail for is decided when it is begun (`CausesInv`), but for a frame whose handling throws.
- **Handshake.** Every chunk the
  server sent is in exactly one of the stream's buffer, the resumed read and TLS (`ChunkInv`); only a resumed read carries any.
- **Varints.** Splitting a number into halves and putting them together again is the identity (`Halves`), width by width, and
  the length in the first byte's top quarter comes out whatever the rest of it is.
- **Frames.** A byte string is made of pieces (`MadeOf`): what is written is made of frames, a frame of its type and one value for each field
  (`Spells`). Which fields follow depends on values before them (a length, the number of ranges of an ACK, whose fields therefore are
  shown to be 4, twice the count, and 3 more if it has ECN counts). `ReaderInv` says that the values read so far are the
  first values of the frame whose piece the reader is in. The next value is then read as it was written if all its bytes are there, and the source ends inside it if not.
- **Parameters.** The encoding is made of one piece per parameter in the order of ids (`Sorted`, whose *k*-th id has *k* - 1 ids below it). A round of the decoder that begins
  where a piece does goes on where the piece ends, or throws because the message does not reach that far (`EntryHere`). Going back from the last piece that is there
  whole, the decoder finds just the parameters that arrived (`CutDecoded`).
- **Recursion.** No theorem with a predicate as a parameter can be used, so induction is the least counterexample of a set (`LeastElement`), and what a recursive definition computes
  follows from the existence of a function that satisfies it (`RecursionExists`), which is built from the functions up to each bound.

## 8. What is only model-checked

Liveness under fairness: `ReaderReachesEnd`, `FinIsSent`, `LoopStops`,
`CloseSettles`, `HandshakeSettles`, `FinishedLeaves`, `ReaderSettles`. The prover does not treat `ENABLED`, so these
hold for the bounds of section 5. So does `CreditOutstanding`, for the
window sizes of its run; `CreditIsRenewed` is what remains of it for all sizes.

## 9. Where code and documentation disagree

Four have a run of their own, marked with its name; the others came up while the
code was read into the models, which contain them as the code has them.

Streams (`stream.ts`):
- A chunk waiting in the reassembly buffer that another frame overtakes or repeats is delivered again (`:281`). `StreamReceive_duplicate`
- A FIN on an empty frame at `recvOffset` takes the early return at `:218` and is never signalled. `StreamReceive_barefin`
- `signalFin` wakes one reader; others go on waiting (`:296`). A delivered empty chunk would look like the end.
- `read()` on a stream that was reset or force-closed waits for ever (`:149`), where `types.ts:383` says "or reject if the stream closes first".
- A local `close()` of the connection calls no `abortAll`, so waiting reads and accepts stay (`connection.ts:280`; compare the comment on `forceClose`).
- DATA_BLOCKED is sent only when the budget is used up as well (`:612`); the header comment promises it whenever the window is.
- `connectionMaxData` starts from a default and never from the peer's `initialMaxData`, which may be smaller.
- The limit we count as advertised starts from the *peer's* parameter, not from ours (`:120`). If that is so much more than what we gave that half of it is more, the threshold of half (`:57`,
  "waiting for the full window would stall the peer") is never reached and the peer stalls: with `GivenWindow` = 2 and `StreamWindow` = 6 TLC finds `CreditOutstanding` violated. The run has 2 and 4.
- MAX_STREAM_DATA and MAX_DATA are sent once each; if one is lost, the peer waits for data-driven credit that cannot come.
- The drain starts at the head of the map each time (`:570`): a stream that is written to faster than it drains keeps those behind it from ever sending.
- `handleStream` ignores frames of client-initiated streams it did not open (`:678`), and every connection opens client-initiated ones: of two ends that run this code neither can accept a stream of the other.
- The limits on stream counts are stored and never consulted, received limits never enforced.
- RESET_STREAM deletes the stream; a late STREAM frame registers it anew, and another RESET_STREAM deletes that (`:695` looks at nothing but the map), so the application can be given one id any number of times. Streams that end normally never leave the map.
- STOP_SENDING also withdraws a requested FIN. An empty FIN frame waits for window it does not need.

Connection (`connection.ts`):
- Queued sends leave only after an inbound datagram (`:895`); a handshake with a server that waits stalls, and `handshakeTimeoutMs` (`types.ts:462`) is read nowhere. `Handshake_stall`
- `flush` cuts inside frames (`:370`), and the receiver reads each datagram by itself: a cut frame is fatal to it. Since `drainSends` allows a full datagram of stream data plus the frame headers, every drain that uses its budget is cut; `connection-chunks.test.ts:279` expects two datagrams.
- `unprotectPayload` is given a first byte that is unmasked already (`:618`). `Packets_open`
- A payload of fewer than 4 bytes cannot be protected; `flush` throws after taking the frames from the queue.
- If sending the CONNECTION_CLOSE fails, the connection is never torn down (`:279`). A second `close()` during the first one's flush tears down before that flush is over. Frames behind a CONNECTION_CLOSE in one datagram are handled and may be answered on a released transport.
- `sendPathChallenge` looks at no flag (`:289`), so it sends on a released transport; a challenge that is lost stays pending.
- `receivePeerParameters` and `getEncodedLocalParameters` are called by nobody in the source, and until then our own parameters stand for the peer's (`:1060`).
- `handshake()` does not look at `skipHandshake` (`:235`): after `connectQuic` with that option it runs a handshake, where the comments say that it
  "resolves immediately" (`connection.ts:232`, and `types.ts:403` likewise). `HandshakeCall` has it as the code does, and no property says which is meant. Concurrent runs overwrite each other's keys.
- `handshakeResult` is set before Finished has been drained, so Finished goes out protected. Datagrams of the other kind around the key change are fatal, while frames of an unsealed datagram that is under way when the keys come are still handled (`:670`). `connectQuic` leaves the connection running if its handshake fails.
- Each end strips the length of its own `dcid` from a short header (`:603`, `:662`, `:744`), whatever the sender wrote there; since long headers carry an empty source id (`:469`),
  a peer that learned our id from them would write none, and what it sends would be cut in the wrong place. `FailureHasCause` names this cause.
- Every end seals with `clientProtection` and opens with `serverProtection`: two ends that both run this code as clients of one handshake never share keys; `FailureHasCause` names this, too.
- Short headers set bit 5 and not the fixed bit. `largestReceivedPn` is written before authentication and read nowhere; there is no acknowledgement, no retransmission and no detection of repeated packets.

Codecs:
- A transport parameter cut in its id or its length raises `RangeError`, where `transport-params.ts:44` says "never a generic RangeError".
- An unknown frame type is surfaced as PADDING (`frame.ts:448`) and its fields are read as the next frame.
- A CONNECTION_CLOSE that stops behind its error code is said to "fall back" (`frame.ts:424-426`: "present only if there are more bytes", "if the remaining data
  doesn't parse cleanly, fall back"); the code has no way back, `readVarint` throws and the connection aborts with that error. The model has the throw; `CutIsNoticed` leaves this cut open (`CutBehindErrorCode`).
- The LEN bit of a STREAM frame is not looked at: a length is read in any case.
- An ACK_ECN frame without its counts is written as an ACK.

Elsewhere: a second `read` of the transport adapter while one waits replaces the first; the key length for ChaCha20 is
16 in `quic-handshake.ts` and 32 in `key-derivation.ts:99`; application secrets are expanded with an empty context instead of the transcript.

## 10. What is not modelled

- Key derivation, ciphers, HKDF and TLS: pure functions of external primitives, without state here; what they compute is not
  within reach of a model that treats a cipher as opening exactly what it sealed. The TLS library appears in `Handshake` as the environment.
- Errors, helpers, barrels: no behaviour of their own.
- Timing: the code has no timers.
- `StreamManager`: MAX_STREAMS and `sendWaiters`, written and read by nobody.
- `Connection`: challenges of a wrong length, refused before anything changes.
- `Packets`: truncated headers, `largestReceivedPn`, and the two packet-number codecs nobody calls.
- `Handshake`: the adapter's `close()`, which nobody calls.
- `Varint`: numbers past 2^62 - 1, on which the encoder throws.
- A composition of two ends (section 2, number 7).
