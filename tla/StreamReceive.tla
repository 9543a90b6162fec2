---------------------------- MODULE StreamReceive -----------------------------
(***************************************************************************)
(* The receiving half of one ManagedStream, with the part of the stream    *)
(* manager that feeds it: handleStream -> ingest -> reassembly -> deliver  *)
(* -> signalFin -> receive credit (src/src/stream/stream.ts).              *)
(*                                                                         *)
(* Data.  The byte at stream offset n is written n and a frame is its      *)
(* offset, its length and its FIN bit, so that what the application reads  *)
(* shows at once whether bytes were lost, repeated or reordered.           *)
(*                                                                         *)
(* Control.  JavaScript runs a handler to completion.  handleStream is     *)
(* modelled by the phases of its loop, in variable "phase": while it is    *)
(* not "idle" no other action is enabled, so nothing interleaves with the  *)
(* handler and no phase can be skipped.                                    *)
(*                                                                         *)
(* Environment.  The peer's STREAM frames travel in unordered datagrams:   *)
(* any frame of Frames arrives at any time, up to MaxCopies times, or      *)
(* never.  The peer respects the limits it was given.                      *)
(***************************************************************************)
EXTENDS Integers, Sequences, FiniteSets, SequencesExt

CONSTANTS
    Frames,          \* the STREAM frames the peer may put on the wire
    FinalSize,       \* the length of the peer's stream
    MaxCopies,       \* bound: how often the network delivers one frame
    OverlapBuffered, \* whether a frame may arrive that overlaps bytes which
                     \* wait in the reassembly buffer
    MaxReaders,      \* bound: read() calls the application has outstanding
    GivenWindow,     \* the stream limit that our own transport parameters
                     \* gave the peer
    StreamWindow,    \* what is counted as that limit, and added to it each
                     \* time: the code takes the peer's parameter for both
    ConnWindow,      \* initial MAX_DATA limit (local initialMaxData)
    Aborts           \* whether RESET_STREAM / connection close may happen

FrameType == [offset : Nat, length : Nat, fin : BOOLEAN]

(* One past the last byte of a frame or of a reassembly chunk. *)
End(f) == f.offset + f.length

(* Frames are pieces of one stream; only its last piece carries FIN, and   *)
(* only a FIN frame may be empty.                                          *)
ASSUME FramesAssumption ==
    /\ Frames \subseteq FrameType
    /\ \A f \in Frames : /\ End(f) <= FinalSize
                         /\ f.fin => End(f) = FinalSize
                         /\ f.length = 0 => f.fin
ASSUME SizesAssumption ==
    /\ FinalSize \in Nat
    /\ MaxCopies \in Nat
    /\ MaxReaders \in Nat
    /\ GivenWindow \in Nat /\ StreamWindow \in Nat \ {0}
    /\ ConnWindow \in Nat \ {0}
ASSUME SwitchesAssumption == OverlapBuffered \in BOOLEAN /\ Aborts \in BOOLEAN

(* recvFinOffset is undefined until a FIN arrives. *)
NoFin == -1

VARIABLES
    copies,                  \* copies[f]: how often frame f has arrived
    inMap,                   \* the manager's map still holds this stream
    state,                   \* StreamState; a closed one is named by its reason
    finSent,                 \* our own FIN was sent (the sending half)
    reassembly,              \* chunks above recvOffset, sorted by offset
    recvOffset,              \* next byte to deliver
    recvFinOffset,           \* where the FIN is, or NoFin
    finDelivered,            \* signalFin has run
    readBuffer,              \* bytes delivered while no reader waited
    readWaiters,             \* readers waiting (a FIFO of equal entries)
    dataReceived,            \* bytes received, repeats included
    maxStreamDataAdvertised, \* stream limit as the code counts it
    connectionDataReceived,  \* bytes since the last MAX_DATA
    connectionMaxDataAdvertised,
    phase,                   \* progress of the handler that is running
    frame,                   \* the STREAM frame it is handling
    got,                     \* history: the bytes read() handed out, in order
    eof                      \* history: read() returned an empty chunk

network == <<copies>>
life    == <<inMap, state, finSent>>
buffer  == <<reassembly, recvOffset, recvFinOffset, finDelivered>>
readers == <<readBuffer, readWaiters, got, eof>>
credit  == <<dataReceived, maxStreamDataAdvertised,
             connectionDataReceived, connectionMaxDataAdvertised>>
handler == <<phase, frame>>
vars    == <<network, life, buffer, readers, credit, handler>>

Chunk == [offset : Nat, length : Nat]

CloseReasons == {"normal", "reset", "connection_close"}
States == {"open", "half_closed_local", "half_closed_remote"} \cup CloseReasons

LifeType == inMap \in BOOLEAN /\ finSent \in BOOLEAN /\ state \in States

BufferType ==
    /\ reassembly \in Seq(Chunk)
    /\ recvOffset \in Nat
    /\ recvFinOffset \in Nat \cup {NoFin}
    /\ finDelivered \in BOOLEAN

ReadersType ==
    /\ readBuffer \in Seq(Nat)
    /\ readWaiters \in 0..MaxReaders
    /\ got \in Seq(Nat)
    /\ eof \in BOOLEAN

CreditType ==
    /\ dataReceived \in Nat /\ maxStreamDataAdvertised \in Nat
    /\ connectionDataReceived \in Nat /\ connectionMaxDataAdvertised \in Nat

HandlerType == phase \in {"idle", "drain", "fin", "credit"} /\ frame \in FrameType

TypeOK ==
    /\ copies \in [Frames -> 0..MaxCopies]
    /\ LifeType /\ BufferType /\ ReadersType /\ CreditType /\ HandlerType

EmptyFrame == [offset |-> 0, length |-> 0, fin |-> FALSE]

Init ==
    /\ copies = [f \in Frames |-> 0]
    /\ inMap = TRUE /\ state = "open" /\ finSent = FALSE
    /\ reassembly = <<>> /\ recvOffset = 0
    /\ recvFinOffset = NoFin /\ finDelivered = FALSE
    /\ readBuffer = <<>> /\ readWaiters = 0 /\ got = <<>> /\ eof = FALSE
    /\ dataReceived = 0 /\ maxStreamDataAdvertised = StreamWindow
    /\ connectionDataReceived = 0 /\ connectionMaxDataAdvertised = ConnWindow
    /\ phase = "idle" /\ frame = EmptyFrame

-------------------------------------------------------------------------------
(* Helpers *)

(* The bytes of the stream from one offset up to, not including, another. *)
Bytes(from, to) == [i \in 1..(to - from) |-> from + i - 1]

(* deliver: bytes go to the reader that has waited longest, else into the  *)
(* read buffer.  A reader takes an empty chunk for the end of the stream.  *)
DeliverToWaiter(bytes) ==  \* variant: a waiter is taken without a look
    /\ readWaiters' = readWaiters - 1
    /\ got' = got \o bytes
    /\ eof' = (eof \/ bytes = <<>>)
    /\ UNCHANGED readBuffer

DeliverOverBuffer(bytes) ==  \* variant: the buffer is replaced, not extended
    IF readWaiters > 0
    THEN /\ readWaiters' = readWaiters - 1
         /\ got' = got \o bytes
         /\ eof' = (eof \/ bytes = <<>>)
         /\ UNCHANGED readBuffer
    ELSE /\ readBuffer' = bytes
         /\ UNCHANGED <<readWaiters, got, eof>>

Deliver(bytes) ==
    IF readWaiters > 0
    THEN /\ readWaiters' = readWaiters - 1
         /\ got' = got \o bytes
         /\ eof' = (eof \/ bytes = <<>>)
         /\ UNCHANGED readBuffer
    ELSE /\ readBuffer' = readBuffer \o bytes
         /\ UNCHANGED <<readWaiters, got, eof>>

(* insertReassembly: push, then a stable sort by offset. *)
AppendUnsorted(chunk) == reassembly' = Append(reassembly, chunk)  \* variant

InsertReassembly(chunk) ==
    \E k \in 0..Len(reassembly) :
        /\ \A i \in 1..k : reassembly[i].offset <= chunk.offset
        /\ \A i \in (k + 1)..Len(reassembly) : chunk.offset < reassembly[i].offset
        /\ reassembly' = InsertAt(reassembly, k + 1, chunk)

TransitionOnLocalFin(s) ==
    CASE s = "open" -> "half_closed_local"
      [] s = "half_closed_remote" -> "normal"
      [] OTHER -> s

TransitionOnRemoteFinOnce(s) ==  \* variant: the half-closed case is forgotten
    IF s = "open" THEN "half_closed_remote" ELSE s

TransitionOnRemoteFin(s) ==
    CASE s = "open" -> "half_closed_remote"
      [] s = "half_closed_local" -> "normal"
      [] OTHER -> s

(* replenishNeeded: half of the advertised limit has been received. *)
ReplenishWhenFull == dataReceived > maxStreamDataAdvertised  \* variant

ReplenishNeeded == dataReceived >= maxStreamDataAdvertised \div 2

ConnReplenishWhenFull ==  \* variant
    connectionDataReceived + frame.length > connectionMaxDataAdvertised

(* The same test for the connection, on the bytes since the last MAX_DATA. *)
ConnReplenishNeeded ==
    connectionDataReceived + frame.length >= connectionMaxDataAdvertised \div 2

Overlap(f, chunk) ==
    /\ f.offset < End(chunk) /\ chunk.offset < End(f)

-------------------------------------------------------------------------------
(* The handler of one STREAM frame *)

(* The peer's limit: its parameter, until a MAX_STREAM_DATA states a       *)
(* larger one.                                                             *)
PeerLimit ==
    IF maxStreamDataAdvertised > StreamWindow /\ maxStreamDataAdvertised > GivenWindow
    THEN maxStreamDataAdvertised ELSE GivenWindow

(* The peer never exceeds the limits it was given; the receiver does not   *)
(* enforce them.                                                           *)
MayArrive(f) ==
    /\ copies[f] < MaxCopies
    /\ End(f) <= PeerLimit
    /\ End(f) <= connectionMaxDataAdvertised
    /\ ~OverlapBuffered => \A i \in 1..Len(reassembly) : ~Overlap(f, reassembly[i])

(* What every STREAM frame does first: handleStream finds the stream and   *)
(* ingest notes the FIN and counts the payload.                            *)
StartIngest(f) ==
    /\ phase = "idle" /\ inMap /\ MayArrive(f)
    /\ copies' = [copies EXCEPT ![f] = @ + 1]
    /\ frame' = f
    /\ recvFinOffset' = IF f.fin THEN End(f) ELSE recvFinOffset
    /\ dataReceived' = dataReceived + f.length
    /\ UNCHANGED <<life, finDelivered, maxStreamDataAdvertised,
                   connectionDataReceived, connectionMaxDataAdvertised>>

(* Everything in the frame was delivered before: nothing is left but the   *)
(* credit accounting.  (A FIN at recvOffset takes this path too.)          *)
IngestStale(f) ==
    /\ StartIngest(f)
    /\ End(f) <= recvOffset
    /\ phase' = "credit"
    /\ UNCHANGED <<reassembly, recvOffset, readers>>

(* The frame, its front clipped, continues the stream: deliver it, then    *)
(* drain the chunks behind it.                                             *)
IngestWithoutClip(f) ==  \* variant: the delivered front is handed out again
    /\ StartIngest(f)
    /\ End(f) > recvOffset /\ f.offset <= recvOffset
    /\ recvOffset' = End(f)
    /\ Deliver(Bytes(f.offset, End(f)))
    /\ phase' = "drain"
    /\ UNCHANGED reassembly

IngestContiguous(f) ==
    /\ StartIngest(f)
    /\ End(f) > recvOffset /\ f.offset <= recvOffset
    /\ recvOffset' = End(f)
    /\ Deliver(Bytes(recvOffset, End(f)))
    /\ phase' = "drain"
    /\ UNCHANGED reassembly

(* There is a gap before the frame: keep it for later. *)
IngestAhead(f) ==
    /\ StartIngest(f)
    /\ End(f) > recvOffset /\ f.offset > recvOffset
    /\ InsertReassembly([offset |-> f.offset, length |-> f.length])
    /\ phase' = "fin"
    /\ UNCHANGED <<recvOffset, readers>>

HeadBridges == reassembly # <<>> /\ Head(reassembly).offset <= recvOffset

(* drainReassembly, one round: the head no longer lies above recvOffset.   *)
(* It is delivered whole, whatever its offset.                             *)
DrainOne ==
    /\ phase = "drain"
    /\ HeadBridges
    /\ LET head == Head(reassembly) IN
         /\ recvOffset' = recvOffset + head.length
         /\ Deliver(Bytes(head.offset, End(head)))
    /\ reassembly' = Tail(reassembly)
    /\ UNCHANGED <<network, life, recvFinOffset, finDelivered, credit, handler>>

DrainDone ==
    /\ phase = "drain"
    /\ ~HeadBridges
    /\ phase' = "fin"
    /\ UNCHANGED <<network, life, buffer, readers, credit, frame>>

(* The end of ingest: with the FIN known and every byte before it          *)
(* delivered, one waiting reader is told and the state advances.           *)
FinKnown == recvFinOffset # NoFin  \* variant: the bytes before it are ignored

FinReached == recvFinOffset # NoFin /\ recvOffset >= recvFinOffset

SignalFin ==
    /\ phase = "fin" /\ FinReached /\ ~finDelivered
    /\ finDelivered' = TRUE
    /\ IF readWaiters > 0
       THEN readWaiters' = readWaiters - 1 /\ eof' = TRUE
       ELSE UNCHANGED <<readWaiters, eof>>
    /\ state' = TransitionOnRemoteFin(state)
    /\ phase' = "credit"
    /\ UNCHANGED <<network, inMap, finSent, reassembly, recvOffset,
                   recvFinOffset, readBuffer, got, credit, frame>>

NoFinYet ==
    /\ phase = "fin" /\ ~(FinReached /\ ~finDelivered)
    /\ phase' = "credit"
    /\ UNCHANGED <<network, life, buffer, readers, credit, frame>>

(* The end of handleStream: replenish the stream's and the connection's    *)
(* credit.  The connection's limit doubles each time.                      *)
Replenish ==
    /\ phase = "credit"
    /\ maxStreamDataAdvertised' = IF ReplenishNeeded
                                  THEN maxStreamDataAdvertised + StreamWindow
                                  ELSE maxStreamDataAdvertised
    /\ IF ConnReplenishNeeded
       THEN /\ connectionDataReceived' = 0
            /\ connectionMaxDataAdvertised' = 2 * connectionMaxDataAdvertised
       ELSE /\ connectionDataReceived' = connectionDataReceived + frame.length
            /\ UNCHANGED connectionMaxDataAdvertised
    /\ phase' = "idle" /\ frame' = EmptyFrame
    /\ UNCHANGED <<network, life, buffer, readers, dataReceived>>

-------------------------------------------------------------------------------
(* The application and the other handlers of the stream *)

(* read(), all of it buffered bytes first, then the end, else wait. *)
ReadBuffered ==
    /\ phase = "idle" /\ readBuffer # <<>>
    /\ got' = got \o readBuffer
    /\ readBuffer' = <<>>
    /\ UNCHANGED <<network, life, buffer, readWaiters, eof, credit, handler>>

ReadEnd ==
    /\ phase = "idle" /\ readBuffer = <<>> /\ finDelivered
    /\ eof' = TRUE
    /\ UNCHANGED <<network, life, buffer, readBuffer, readWaiters, got, credit, handler>>

ReadWait ==
    /\ phase = "idle" /\ readBuffer = <<>> /\ ~finDelivered
    /\ readWaiters < MaxReaders
    /\ readWaiters' = readWaiters + 1
    /\ UNCHANGED <<network, life, buffer, readBuffer, got, eof, credit, handler>>

(* commitSend of our FIN, by flushSends: only for a stream in the map. *)
LocalFin ==
    /\ phase = "idle" /\ inMap /\ ~finSent
    /\ finSent' = TRUE
    /\ state' = TransitionOnLocalFin(state)
    /\ UNCHANGED <<network, inMap, buffer, readers, credit, handler>>

(* Every way out rejects the readers that wait and drops the stream from   *)
(* the map; what was buffered stays readable.                              *)
LeaveMap(reason) ==
    /\ Aborts /\ phase = "idle" /\ inMap
    /\ inMap' = FALSE
    /\ state' = reason
    /\ readWaiters' = 0
    /\ UNCHANGED <<network, finSent, buffer, readBuffer, got, eof, credit, handler>>

(* RESET_STREAM: handleResetStream calls resetPeer. *)
ResetPeer == LeaveMap("reset")

(* Connection teardown: abortAll calls forceClose. *)
ForceClose == LeaveMap("connection_close")

-------------------------------------------------------------------------------
HandleStream == \E f \in Frames : IngestStale(f) \/ IngestContiguous(f) \/ IngestAhead(f)

(* The rest of the running handler. *)
Continue == DrainOne \/ DrainDone \/ SignalFin \/ NoFinYet \/ Replenish

Read == ReadBuffered \/ ReadEnd \/ ReadWait

Next == HandleStream \/ Continue \/ Read \/ LocalFin \/ ResetPeer \/ ForceClose

Spec == Init /\ [][Next]_vars

(* A handler that runs finishes; the network delivers each frame that may  *)
(* arrive once, and owes no repeats; the application goes on reading.      *)
Fairness ==
    /\ WF_vars(Continue)
    /\ \A f \in Frames :
         WF_vars(copies[f] = 0 /\ (IngestStale(f) \/ IngestContiguous(f) \/ IngestAhead(f)))
    /\ WF_vars(Read)

FairSpec == Spec /\ Fairness

-------------------------------------------------------------------------------
(* Properties *)

(* What read() has handed out and what is buffered for it is, in this      *)
(* order, the peer's bytes from the first on up to recvOffset: nothing     *)
(* lost, repeated or reordered, whatever the arrival order of the frames.  *)
InOrderDelivery ==
    /\ Len(got) + Len(readBuffer) = recvOffset
    /\ \A i \in 1..Len(got \o readBuffer) : (got \o readBuffer)[i] = i - 1

(* No reader waits while bytes are buffered for it, and between handlers   *)
(* nothing deliverable is left in the reassembly buffer.                   *)
NoLostWakeup ==
    /\ readWaiters > 0 => readBuffer = <<>>
    /\ phase = "idle" => \A i \in 1..Len(reassembly) : reassembly[i].offset > recvOffset

(* The end of the stream is reported only behind its last byte. *)
EofIsComplete == eof => Len(got) = FinalSize

(* The stream is closed normally exactly when both FINs went through, and  *)
(* half-closed exactly on the side whose FIN did.                          *)
StateTracksFins ==
    state \notin {"reset", "connection_close"} =>
        state = CASE ~finSent /\ ~finDelivered -> "open"
                  [] finSent /\ ~finDelivered -> "half_closed_local"
                  [] ~finSent /\ finDelivered -> "half_closed_remote"
                  [] OTHER -> "normal"

(* Between handlers the peer always has credit left: it is never stopped   *)
(* by a limit whose every byte has arrived, on the stream or on the        *)
(* connection (REPLENISH_FRACTION's comment: "waiting for the full window  *)
(* would stall the peer").                                                 *)
CreditOutstanding ==
    phase = "idle" => /\ recvOffset < PeerLimit
                      /\ recvOffset < connectionMaxDataAdvertised

(* With every frame delivered and a reader that goes on, the reader gets   *)
(* to the end of the stream, unless the stream is aborted: the credit      *)
(* never runs dry for good, and no wakeup is lost.                         *)
ReaderReachesEnd == <>(eof \/ ~inMap)

(* The ByteStream promise, with the same bytes and the same end. *)
Promise == INSTANCE ByteStream WITH FinalSize <- FinalSize, got <- got, eof <- eof

KeepsPromise == Promise!Spec

(* Documented, and refuted by the code:                                    *)

(* No read() waits for more once the FIN is known and every byte before it *)
(* is delivered, or the stream was reset or closed (types.ts:382, "Read the*)
(* next chunk of bytes, or reject if the stream closes first."; stream.ts: *)
(* 243, "FIN and all bytes delivered: signal EOF.").                       *)
ReadsSettle ==
    phase = "idle" /\ (FinReached \/ ~inMap) => readWaiters = 0

===============================================================================
