---------------------------- MODULE StreamManager -----------------------------
(***************************************************************************)
(* createStreamManager (src/src/stream/stream.ts): the table of streams,   *)
(* opening and accepting, the sending half of every ManagedStream, the     *)
(* send windows, the send drain flushSends, and closing.  The receiving    *)
(* half is StreamReceive's; here an incoming STREAM frame registers its    *)
(* stream and may complete it.                                             *)
(*                                                                         *)
(* Data.  A send queue is its length, a STREAM frame its offset, length    *)
(* and FIN.  Stream ids keep their two type bits (RFC 9000, 2.1).          *)
(*                                                                         *)
(* Control.  A call runs to completion.  flushSends is one step per stream *)
(* of its loop: while phase = "flush" nothing else is enabled.             *)
(*                                                                         *)
(* Environment.  The application calls what it has handles for; frames     *)
(* arrive in any order, STREAM frames behind their RESET_STREAM included.  *)
(***************************************************************************)
EXTENDS Integers, Sequences, FiniteSets, SequencesExt

CONSTANTS
    StreamIds,          \* bound: the stream ids in use
    StreamWindows,      \* per-stream limits the peer may state, a set
    ConnWindows,        \* connection limits the peer may state, a set
    DefaultMaxData,     \* DEFAULT_INITIAL_MAX_DATA
    MaxPayload,         \* the byte budget of one flushSends
    MaxBytes,           \* bound: bytes the application writes per stream
    MaxAccepts,         \* bound: accept calls outstanding, per type
    MaxResets,          \* bound: resets of streams, all together
    StopSending         \* whether the peer may send STOP_SENDING

ASSUME IdsAssumption == StreamIds \subseteq Nat
ASSUME WindowsAssumption ==
    /\ StreamWindows \subseteq Nat /\ StreamWindows # {}
    /\ ConnWindows \subseteq Nat
    /\ DefaultMaxData \in Nat /\ MaxPayload \in Nat /\ MaxBytes \in Nat
    /\ MaxAccepts \in Nat /\ MaxResets \in Nat
ASSUME SwitchAssumption == StopSending \in BOOLEAN

ClientInitiated(id) == id % 2 = 0
Bidirectional(id) == (id \div 2) % 2 = 0
FirstStreamId(bidi) == IF bidi THEN 0 ELSE 2

VARIABLES
    streams,            \* the Map's keys, in insertion order
    \* ManagedStream, per id (of the object the map holds, or held last)
    state, sendQueue, sendFinPending, finSent, dataSent, maxStreamData,
    \* the manager
    nextId,             \* nextBidi (TRUE) and nextUni (FALSE)
    acceptedStreams,
    acceptWaiters,      \* accept calls waiting, per type (equal FIFO entries)
    peerStreamWindow,   \* the stream limit in deps.peerParameters
    connectionMaxData, connectionDataSent,
    closing, closed,
    \* flushSends
    phase, cursor, budget,
    \* environment and history
    held,               \* ids whose current stream object the application has
    resets,             \* how often a RESET_STREAM has removed the stream from the map
    handedOut,          \* how often acceptStream resolved with an id
    wireEnd,            \* per id: bytes put on the wire so far
    wireFins            \* per id: FINs put on the wire so far

table   == <<streams, nextId, acceptedStreams, acceptWaiters, held, handedOut>>
sending == <<sendQueue, sendFinPending, finSent, dataSent>>
limits  == <<maxStreamData, peerStreamWindow, connectionMaxData>>
wire    == <<connectionDataSent, wireEnd, wireFins>>
closes  == <<closing, closed, resets>>
flush   == <<phase, cursor, budget>>
vars    == <<table, state, sending, limits, wire, closes, flush>>

CloseReasons == {"normal", "reset", "connection_close"}
States == {"none", "open", "half_closed_local", "half_closed_remote"} \cup CloseReasons

InMap(id) == id \in Range(streams)

TableType ==
    /\ streams \in Seq(StreamIds)
    /\ nextId \in [BOOLEAN -> Nat]
    /\ acceptedStreams \subseteq StreamIds
    /\ acceptWaiters \in [BOOLEAN -> Nat]
    /\ held \subseteq StreamIds
    /\ handedOut \in [StreamIds -> Nat]

SendingType ==
    /\ sendQueue \in [StreamIds -> Nat] /\ dataSent \in [StreamIds -> Nat]
    /\ sendFinPending \in [StreamIds -> BOOLEAN] /\ finSent \in [StreamIds -> BOOLEAN]

LimitsType ==
    /\ maxStreamData \in [StreamIds -> Nat]
    /\ peerStreamWindow \in StreamWindows
    /\ connectionMaxData \in Nat

WireType ==
    /\ connectionDataSent \in Nat
    /\ wireEnd \in [StreamIds -> Nat] /\ wireFins \in [StreamIds -> Nat]

ClosesType == closing \in BOOLEAN /\ closed \in BOOLEAN /\ resets \in [StreamIds -> Nat]

FlushType ==
    /\ phase \in {"idle", "flush"}
    /\ cursor \in Nat \ {0}
    /\ budget \in 0..MaxPayload

TypeOK ==
    /\ TableType /\ state \in [StreamIds -> States] /\ SendingType /\ LimitsType
    /\ WireType /\ ClosesType /\ FlushType

Init ==
    /\ streams = <<>> /\ nextId = [b \in BOOLEAN |-> FirstStreamId(b)]
    /\ acceptedStreams = {} /\ acceptWaiters = [b \in BOOLEAN |-> 0]
    /\ held = {} /\ handedOut = [id \in StreamIds |-> 0]
    /\ state = [id \in StreamIds |-> "none"]
    /\ sendQueue = [id \in StreamIds |-> 0] /\ dataSent = [id \in StreamIds |-> 0]
    /\ sendFinPending = [id \in StreamIds |-> FALSE]
    /\ finSent = [id \in StreamIds |-> FALSE]
    /\ maxStreamData = [id \in StreamIds |-> 0]
    /\ peerStreamWindow \in StreamWindows
    /\ connectionMaxData = DefaultMaxData
    /\ connectionDataSent = 0
    /\ wireEnd = [id \in StreamIds |-> 0] /\ wireFins = [id \in StreamIds |-> 0]
    /\ closing = FALSE /\ closed = FALSE /\ resets = [id \in StreamIds |-> 0]
    /\ phase = "idle" /\ cursor = 1 /\ budget = 0

-------------------------------------------------------------------------------
(* The stream table *)

(* new ManagedStream(id, resolvePeerMaxStreamData(..)); streams.set(id, ..) *)
CreateStream(id, initial) ==
    /\ streams' = Append(streams, id)
    /\ state' = [state EXCEPT ![id] = initial]
    /\ sendQueue' = [sendQueue EXCEPT ![id] = 0]
    /\ sendFinPending' = [sendFinPending EXCEPT ![id] = FALSE]
    /\ finSent' = [finSent EXCEPT ![id] = FALSE]
    /\ dataSent' = [dataSent EXCEPT ![id] = 0]
    /\ maxStreamData' = [maxStreamData EXCEPT ![id] = peerStreamWindow]
    /\ UNCHANGED <<peerStreamWindow, connectionMaxData>>

OpenStream(bidi) ==
    /\ phase = "idle"
    /\ ~closing /\ ~closed
    /\ nextId[bidi] \in StreamIds
    /\ CreateStream(nextId[bidi], "open")
    /\ nextId' = [nextId EXCEPT ![bidi] = @ + 4]
    /\ held' = held \cup {nextId[bidi]}
    /\ UNCHANGED <<acceptedStreams, acceptWaiters, handedOut, wire, closes, flush>>

(* Streams of a type that the peer opened and nobody has accepted, by      *)
(* their places in the map.                                                *)
Waiting(bidi) == {i \in 1..Len(streams) : /\ ~ClientInitiated(streams[i])
                                          /\ Bidirectional(streams[i]) = bidi
                                          /\ streams[i] \notin acceptedStreams}

HandOutUnmarked(id) ==  \* variant: acceptedStreams is forgotten
    /\ held' = held \cup {id}
    /\ handedOut' = [handedOut EXCEPT ![id] = @ + 1]
    /\ UNCHANGED acceptedStreams

(* Resolve an accept call with a stream. *)
HandOut(id) ==
    /\ acceptedStreams' = acceptedStreams \cup {id}
    /\ held' = held \cup {id}
    /\ handedOut' = [handedOut EXCEPT ![id] = @ + 1]

(* acceptStream, with a stream there: the first one in the map. *)
AcceptStream(bidi) ==
    /\ phase = "idle"
    /\ ~closing /\ ~closed
    /\ \E i \in Waiting(bidi) : /\ \A j \in Waiting(bidi) : i <= j
                                /\ HandOut(streams[i])
    /\ UNCHANGED <<streams, nextId, acceptWaiters, state, sending, limits,
                   wire, closes, flush>>

AcceptWaitUnlooked(bidi) ==  \* variant: the map is not searched first
    /\ phase = "idle"
    /\ ~closing /\ ~closed
    /\ acceptWaiters[bidi] < MaxAccepts
    /\ acceptWaiters' = [acceptWaiters EXCEPT ![bidi] = @ + 1]
    /\ UNCHANGED <<streams, nextId, acceptedStreams, held, handedOut, state,
                   sending, limits, wire, closes, flush>>

(* acceptStream, with none there: wait. *)
AcceptWait(bidi) ==
    /\ phase = "idle"
    /\ ~closing /\ ~closed
    /\ Waiting(bidi) = {}
    /\ acceptWaiters[bidi] < MaxAccepts
    /\ acceptWaiters' = [acceptWaiters EXCEPT ![bidi] = @ + 1]
    /\ UNCHANGED <<streams, nextId, acceptedStreams, held, handedOut, state,
                   sending, limits, wire, closes, flush>>

(* registerIncomingStream wakes the accept call that has waited longest.   *)
(* The object is new: nobody has a handle on it unless a waiter gets it.   *)
WakeAcceptWaiter(id) ==
    IF acceptWaiters[Bidirectional(id)] > 0
    THEN /\ acceptWaiters' = [acceptWaiters EXCEPT ![Bidirectional(id)] = @ - 1]
         /\ HandOut(id)
    ELSE /\ held' = held \ {id}
         /\ UNCHANGED <<acceptWaiters, acceptedStreams, handedOut>>

TransitionOnLocalFin(s) ==
    CASE s = "open" -> "half_closed_local"
      [] s = "half_closed_remote" -> "normal"
      [] OTHER -> s

TransitionOnRemoteFin(s) ==
    CASE s = "open" -> "half_closed_remote"
      [] s = "half_closed_local" -> "normal"
      [] OTHER -> s

(* handleStream, for a stream the map does not hold: register it, unless   *)
(* its id says that we opened it.  Its first frame may complete it.        *)
HandleNewStream(id, fin) ==
    /\ phase = "idle"
    /\ ~InMap(id) /\ ~ClientInitiated(id)
    /\ CreateStream(id, IF fin THEN TransitionOnRemoteFin("open") ELSE "open")
    /\ WakeAcceptWaiter(id)
    /\ UNCHANGED <<nextId, wire, closes, flush>>

(* handleStream, when the frame completes the stream: signalFin.           *)
HandleLastStream(id) ==
    /\ phase = "idle"
    /\ InMap(id)
    /\ state' = [state EXCEPT ![id] = TransitionOnRemoteFin(@)]
    /\ UNCHANGED <<table, sending, limits, wire, closes, flush>>

(* streams.delete(id) *)
Delete(id) ==
    \E i \in 1..Len(streams) :
        /\ streams[i] = id
        /\ streams' = RemoveAt(streams, i)

ResetsSoFar == FoldFunction(+, 0, resets)

(* handleResetStream: the whole stream closes, our half with it, and the   *)
(* manager forgets it.  (For a stream it does not know it does nothing.)   *)
(* A late frame may bring the stream back, and another reset end it again. *)
HandleResetStream(id) ==
    /\ phase = "idle" /\ InMap(id) /\ ResetsSoFar < MaxResets
    /\ resets' = [resets EXCEPT ![id] = @ + 1]
    /\ state' = [state EXCEPT ![id] = "reset"]
    /\ Delete(id)
    /\ UNCHANGED <<nextId, acceptedStreams, acceptWaiters, held, handedOut,
                   sending, limits, wire, closing, closed, flush>>

-------------------------------------------------------------------------------
(* The sending half *)

(* write(): refused once our FIN was sent or the stream is closed. *)
Write(id, n) ==
    /\ phase = "idle" /\ id \in held
    /\ state[id] \in {"open", "half_closed_remote"}
    /\ dataSent[id] + sendQueue[id] + n <= MaxBytes
    /\ sendQueue' = [sendQueue EXCEPT ![id] = @ + n]
    /\ UNCHANGED <<table, state, sendFinPending, finSent, dataSent, limits,
                   wire, closes, flush>>

(* close() of a stream: ask for a FIN behind what is queued. *)
CloseStream(id) ==
    /\ phase = "idle" /\ id \in held
    /\ state[id] \notin CloseReasons
    /\ sendFinPending' = [sendFinPending EXCEPT ![id] = TRUE]
    /\ UNCHANGED <<table, state, sendQueue, finSent, dataSent, limits,
                   wire, closes, flush>>

(* STOP_SENDING: the queue and a requested FIN are discarded. *)
HandleStopSending(id) ==
    /\ StopSending /\ phase = "idle" /\ InMap(id)
    /\ sendQueue' = [sendQueue EXCEPT ![id] = 0]
    /\ sendFinPending' = [sendFinPending EXCEPT ![id] = FALSE]
    /\ UNCHANGED <<table, state, finSent, dataSent, limits, wire, closes, flush>>

(* MAX_STREAM_DATA and MAX_DATA: limits only grow. *)
SetMaxStreamData(id, maximum) ==  \* variant: an older, smaller limit is taken
    /\ phase = "idle" /\ InMap(id)
    /\ maxStreamData' = [maxStreamData EXCEPT ![id] = maximum]
    /\ UNCHANGED <<table, state, sending, peerStreamWindow, connectionMaxData,
                   wire, closes, flush>>

HandleMaxStreamData(id, maximum) ==
    /\ phase = "idle" /\ InMap(id)
    /\ maximum > maxStreamData[id]
    /\ maxStreamData' = [maxStreamData EXCEPT ![id] = maximum]
    /\ UNCHANGED <<table, state, sending, peerStreamWindow, connectionMaxData,
                   wire, closes, flush>>

HandleMaxData(maximum) ==
    /\ phase = "idle"
    /\ maximum > connectionMaxData
    /\ connectionMaxData' = maximum
    /\ UNCHANGED <<table, state, sending, maxStreamData, peerStreamWindow,
                   wire, closes, flush>>

(* updatePeerParameters: sizes the streams created from now on. *)
UpdatePeerParameters(window) ==
    /\ phase = "idle"
    /\ peerStreamWindow' = window
    /\ UNCHANGED <<table, state, sending, maxStreamData, connectionMaxData,
                   wire, closes, flush>>

-------------------------------------------------------------------------------
(* flushSends *)

HasPendingData(id) == sendQueue[id] > 0  \* variant: a FIN alone does not count

HasPendingSend(id) == sendQueue[id] > 0 \/ (sendFinPending[id] /\ ~finSent[id])

StreamWindow(id) == maxStreamData[id] - dataSent[id]
ConnWindow == connectionMaxData - connectionDataSent

MinOf(a, b) == IF a <= b THEN a ELSE b

AllowWithoutBudget(id) == MinOf(StreamWindow(id), ConnWindow)  \* variant

(* How much of the stream may go out in this pass. *)
Allow(id) == MinOf(MinOf(StreamWindow(id), ConnWindow), budget)

(* drainSends calls flushSends when some stream has something to send. *)
FlushBegin ==
    /\ phase = "idle"
    /\ \E i \in 1..Len(streams) : HasPendingSend(streams[i])
    /\ phase' = "flush" /\ cursor' = 1 /\ budget' = MaxPayload
    /\ UNCHANGED <<table, state, sending, limits, wire, closes>>

(* The loop is at stream id. *)
At(id) ==
    /\ phase = "flush" /\ budget > 0
    /\ cursor <= Len(streams) /\ streams[cursor] = id

FlushSkip(id) ==
    /\ At(id) /\ ~HasPendingSend(id)
    /\ cursor' = cursor + 1
    /\ UNCHANGED <<table, state, sending, limits, wire, closes, phase, budget>>

(* Nothing may go out: on to the next stream.  (STREAM_DATA_BLOCKED, sent  *)
(* if the stream's own window is used up, changes nothing here.)           *)
FlushBlockedStops(id) ==  \* variant: "break" instead of "continue"
    /\ At(id) /\ HasPendingSend(id) /\ Allow(id) <= 0
    /\ phase' = "idle" /\ cursor' = 1 /\ budget' = 0
    /\ UNCHANGED <<table, state, sending, limits, wire, closes>>

FlushBlocked(id) ==
    /\ At(id) /\ HasPendingSend(id) /\ Allow(id) <= 0
    /\ cursor' = cursor + 1
    /\ UNCHANGED <<table, state, sending, limits, wire, closes, phase, budget>>

CommitFinUnnoted(id) ==  \* variant: the state advances, finSent does not
    /\ state' = [state EXCEPT ![id] = TransitionOnLocalFin(@)]
    /\ UNCHANGED finSent

CommitFin(id) ==
    /\ state' = [state EXCEPT ![id] = TransitionOnLocalFin(@)]
    /\ finSent' = [finSent EXCEPT ![id] = TRUE]

(* Emit one STREAM frame and commit it: commitSend and the accounting. *)
Commit(id, length, fin) ==
    /\ sendQueue' = [sendQueue EXCEPT ![id] = @ - length]
    /\ dataSent' = [dataSent EXCEPT ![id] = @ + length]
    /\ IF fin THEN CommitFin(id) ELSE UNCHANGED <<state, finSent>>
    /\ connectionDataSent' = connectionDataSent + length
    /\ budget' = budget - length
    /\ wireEnd' = [wireEnd EXCEPT ![id] =
                     IF dataSent[id] + length > @ THEN dataSent[id] + length ELSE @]
    /\ wireFins' = IF fin THEN [wireFins EXCEPT ![id] = @ + 1] ELSE wireFins

(* The FIN rides on the frame that empties the queue. *)
IsLastOfStream(id, length) == sendFinPending[id] /\ sendQueue[id] <= length

FlushSend(id) ==
    /\ At(id) /\ HasPendingSend(id) /\ Allow(id) > 0
    /\ LET length == MinOf(Allow(id), sendQueue[id]) IN
         Commit(id, length, IsLastOfStream(id, length))
    /\ cursor' = cursor + 1
    /\ UNCHANGED <<table, sendFinPending, limits, closes, phase>>

(* The loop is over.  (DATA_BLOCKED likewise only informs the peer.) *)
FlushEnd ==
    /\ phase = "flush"
    /\ ~(budget > 0 /\ cursor <= Len(streams))
    /\ phase' = "idle" /\ cursor' = 1 /\ budget' = 0
    /\ UNCHANGED <<table, state, sending, limits, wire, closes>>

-------------------------------------------------------------------------------
(* Closing *)

(* close(): a CONNECTION_CLOSE frame goes out; streams and accept calls    *)
(* stay as they are.                                                       *)
Close ==
    /\ phase = "idle" /\ ~closed
    /\ closing' = TRUE /\ closed' = TRUE
    /\ UNCHANGED <<table, state, sending, limits, wire, resets, flush>>

(* abortAll: every stream is closed and forgotten, every accept rejected. *)
AbortAll ==
    /\ state' = [id \in StreamIds |-> IF InMap(id) THEN "connection_close" ELSE state[id]]
    /\ streams' = <<>>
    /\ acceptWaiters' = [b \in BOOLEAN |-> 0]

(* CONNECTION_CLOSE: handleConnectionClose, whose signal the connection    *)
(* answers with abortAll (connection.ts, onPeerClose), unless our own      *)
(* close() has already torn it down.                                       *)
HandleConnectionClose ==
    /\ phase = "idle"
    /\ closing' = TRUE
    /\ AbortAll \/ (closed /\ UNCHANGED <<state, streams, acceptWaiters>>)
    /\ UNCHANGED <<nextId, acceptedStreams, held, handedOut, sending, limits,
                   wire, closed, resets, flush>>

-------------------------------------------------------------------------------
HandleStream(id) == (\E fin \in BOOLEAN : HandleNewStream(id, fin)) \/ HandleLastStream(id)

HandleFrame ==
    \/ \E id \in StreamIds : \/ HandleStream(id)
                             \/ HandleResetStream(id)
                             \/ HandleStopSending(id)
                             \/ \E m \in StreamWindows : HandleMaxStreamData(id, m)
    \/ \E m \in ConnWindows : HandleMaxData(m)
    \/ HandleConnectionClose

Application ==
    \/ \E bidi \in BOOLEAN : OpenStream(bidi) \/ AcceptStream(bidi) \/ AcceptWait(bidi)
    \/ \E id \in StreamIds : CloseStream(id) \/ \E n \in 1..MaxBytes : Write(id, n)
    \/ Close

FlushStep ==
    \/ FlushEnd
    \/ \E id \in StreamIds : FlushSkip(id) \/ FlushBlocked(id) \/ FlushSend(id)

Next ==
    \/ Application \/ HandleFrame
    \/ \E w \in StreamWindows : UpdatePeerParameters(w)
    \/ FlushBegin \/ FlushStep

Spec == Init /\ [][Next]_vars

(* A call that runs finishes.  Until it is closed the connection drains    *)
(* after every datagram, and the peer goes on sending some: it grants each *)
(* limit it may state, however often other events come first.              *)
Fairness ==
    /\ WF_vars(FlushStep)
    /\ SF_vars(~closing /\ FlushBegin)
    /\ \A m \in ConnWindows : SF_vars(HandleMaxData(m))
    /\ \A id \in StreamIds, m \in StreamWindows : SF_vars(HandleMaxStreamData(id, m))

FairSpec == Spec /\ Fairness

-------------------------------------------------------------------------------
(* Properties *)

(* At no point of any drain has a stream, or the connection as a whole,    *)
(* sent past the limit in force ("we never send more than the peer's       *)
(* MAX_STREAM_DATA / MAX_DATA windows allow", stream.ts:7).                *)
WithinWindows ==
    /\ \A id \in StreamIds : dataSent[id] <= maxStreamData[id]
    /\ connectionDataSent <= connectionMaxData

(* Every stream does what SendStream promises with what is written to it,  *)
(* whatever limits, STOP_SENDING, resets and closes come between the       *)
(* drains: its frames continue each other, and its FIN is sent once, behind*)
(* the last byte.                                                          *)
Live == {id \in StreamIds : resets[id] = 0 /\ ~closing}

Promise == INSTANCE SendStream WITH
    Streams <- StreamIds,
    written <- [id \in StreamIds |-> dataSent[id] + sendQueue[id]],
    ended <- sendFinPending, sent <- wireEnd, fins <- wireFins, live <- Live

KeepsPromise == Promise!Spec

(* An accept call waits only while no stream of its type waits for it.     *)
NoLostAccept == \A bidi \in BOOLEAN : acceptWaiters[bidi] > 0 => Waiting(bidi) = {}

(* No peer-initiated stream object is handed to the application twice: a   *)
(* stream is handed out once, and once more at most for each reset behind  *)
(* which a late frame may have brought it back while an accept call waits. *)
AcceptedOnce ==
    \A id \in StreamIds :
        /\ handedOut[id] > 0 <=> id \in acceptedStreams
        /\ handedOut[id] <= 1 + resets[id]

(* A drain that did not use up its budget leaves nothing behind that could *)
(* have been sent: whatever is still pending has no window.                *)
FlushDrains ==
    [][phase = "flush" /\ phase' = "idle" /\ budget > 0 =>
         \A id \in StreamIds :
           InMap(id) /\ HasPendingSend(id) => ConnWindow <= 0 \/ StreamWindow(id) <= 0]_vars

(* A closed stream's FIN is sent in the end, behind all its data, unless   *)
(* the stream or the connection is closed first.                           *)
FinIsSent ==
    \A id \in StreamIds :
        id \in held /\ sendFinPending[id]
            ~> \/ finSent[id] /\ sendQueue[id] = 0
               \/ state[id] \in CloseReasons \/ ~InMap(id) \/ closing

===============================================================================
