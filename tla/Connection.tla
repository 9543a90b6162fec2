------------------------------ MODULE Connection ------------------------------
(***************************************************************************)
(* The life of a QuicConnectionImpl (src/src/connection.ts) from connect   *)
(* to teardown: the datagram read loop, close() called by several parts of *)
(* the application at once, the peer's CONNECTION_CLOSE, fatal errors, and *)
(* what becomes of the accept() and read() calls that wait meanwhile.      *)
(*                                                                         *)
(* Data.  Streams and pending calls are counted, a frame is its kind:      *)
(*   "stream"     the first STREAM frame of a stream the peer opens        *)
(*   "data"       a STREAM frame that a waiting read() can be given        *)
(*   "challenge"  PATH_CHALLENGE                                           *)
(*   "response"   PATH_RESPONSE, to any challenge                          *)
(*   "close"      CONNECTION_CLOSE                                         *)
(*   "garbage"    bytes that no frame decodes from                         *)
(*                                                                         *)
(* Control.  Code between two awaits is one step.  The read loop awaits    *)
(* between the frames of a datagram (for await), so application code that  *)
(* a frame woke runs before the next frame is handled.                     *)
(*                                                                         *)
(* Environment.  The datagram transport: send() and close() settle later,  *)
(* recv() rejects when the socket fails or is closed.                      *)
(***************************************************************************)
EXTENDS Naturals, Sequences

CONSTANTS
    Callers,      \* close() calls the application makes
    Challenges,   \* bound: the data of the challenges the application sends
    Datagrams,    \* the datagrams the peer may send, as sequences of kinds
    MaxDatagrams, \* bound: datagrams that arrive
    MaxPending,   \* bound: accept() calls, read() calls, streams opened
    SendFails     \* whether sending the CONNECTION_CLOSE may fail

Kinds == {"stream", "data", "challenge", "response", "close", "garbage"}

ASSUME DatagramsAssumption == Datagrams \subseteq Seq(Kinds)
ASSUME BoundsAssumption == MaxDatagrams \in Nat /\ MaxPending \in Nat
ASSUME SwitchAssumption == SendFails \in BOOLEAN

VARIABLES
    closing, closed,               \* the connection's flags
    managerClosing, managerClosed, \* the stream manager's
    closedBy,                      \* the reason _teardown was given, or "none"
    caller,                        \* progress of each close() call
    closeFrame,                    \* our CONNECTION_CLOSE
    loop,                          \* where the read loop awaits
    datagram,                      \* frames of its datagram still to be handled
    arrived,                       \* datagrams so far
    transport,                     \* "open", or close() was called, or it is closed
    closeCalls,                    \* how often transport.close was called
    unaccepted,                    \* streams in the map nobody has accepted
    live,                          \* streams in the map the application works with
    acceptWaiters, readWaiters,    \* accept() calls, and read() calls on streams
                                   \* of the map, that wait
    pending,                       \* whether a stream has something to send
    challenges,                    \* pendingPathChallenges
    lateSend                       \* history: who sent after transport.close

flags   == <<closing, closed, managerClosing, managerClosed, closedBy>>
release == <<transport, closeCalls>>
streams == <<unaccepted, live, acceptWaiters, readWaiters, pending>>
reading == <<loop, datagram, arrived>>
vars    == <<flags, caller, closeFrame, reading, release, streams, challenges, lateSend>>

FlagsType ==
    /\ closing \in BOOLEAN /\ closed \in BOOLEAN
    /\ managerClosing \in BOOLEAN /\ managerClosed \in BOOLEAN
    /\ closedBy \in {"none", "client_close", "remote_close", "error"}

CallersType ==
    /\ caller \in [Callers -> {"idle", "sending", "flushed", "closing", "done", "failed"}]
    /\ closeFrame \in {"none", "sending", "sent", "failed"}

ReadingType ==
    /\ loop \in {"recv", "dispatch", "stopped"}
    /\ datagram \in Seq(Kinds) /\ arrived \in 0..MaxDatagrams

ReleaseType == transport \in {"open", "closing", "closed"} /\ closeCalls \in Nat

CallsType ==
    /\ acceptWaiters \in 0..MaxPending /\ readWaiters \in 0..MaxPending
    /\ unaccepted \in Nat /\ live \in Nat

StreamsType == CallsType /\ pending \in BOOLEAN

SendsType == challenges \subseteq Challenges /\ lateSend \subseteq {"frame", "call", "challenge"}

TypeOK == FlagsType /\ CallersType /\ ReadingType /\ ReleaseType /\ StreamsType /\ SendsType

Init ==
    /\ closing = FALSE /\ closed = FALSE
    /\ managerClosing = FALSE /\ managerClosed = FALSE
    /\ closedBy = "none"
    /\ caller = [c \in Callers |-> "idle"] /\ closeFrame = "none"
    /\ loop = "recv" /\ datagram = <<>> /\ arrived = 0
    /\ transport = "open" /\ closeCalls = 0
    /\ unaccepted = 0 /\ live = 0 /\ acceptWaiters = 0 /\ readWaiters = 0
    /\ pending = FALSE /\ challenges = {} /\ lateSend = {}

-------------------------------------------------------------------------------
(* Teardown *)

(* _teardown: only the first one releases the transport. *)
TeardownAgain(reason) ==  \* variant: "if (this.closed) return" is missing
    /\ closed' = TRUE /\ closing' = TRUE
    /\ closedBy' = reason
    /\ transport' = "closing" /\ closeCalls' = closeCalls + 1

TeardownUnreleased(reason) ==  \* variant: the transport is not closed
    IF closed
    THEN UNCHANGED <<closed, closing, closedBy, release>>
    ELSE /\ closed' = TRUE /\ closing' = TRUE
         /\ closedBy' = reason
         /\ UNCHANGED release

Teardown(reason) ==
    IF closed
    THEN UNCHANGED <<closed, closing, closedBy, release>>
    ELSE /\ closed' = TRUE /\ closing' = TRUE
         /\ closedBy' = reason
         /\ transport' = "closing" /\ closeCalls' = closeCalls + 1

(* abortAll: every stream is closed, every waiting call rejected. *)
AbortAll ==
    /\ unaccepted' = 0 /\ live' = 0
    /\ acceptWaiters' = 0 /\ readWaiters' = 0
    /\ pending' = FALSE

(* onPeerClose and _handleFatal. *)
AbortUnlessClosing(reason) ==  \* variant: the guard looks at the wrong flag
    IF closing
    THEN UNCHANGED <<closed, closing, closedBy, release, streams>>
    ELSE AbortAll /\ Teardown(reason)

Abort(reason) ==
    IF closed
    THEN UNCHANGED <<closed, closing, closedBy, release, streams>>
    ELSE AbortAll /\ Teardown(reason)

(* transport.send, on a transport that may have been released: for a frame *)
(* that is handled, from a close(), or for a path challenge of our own.    *)
Send(by) == lateSend' = lateSend \cup (IF transport = "open" THEN {} ELSE {by})

-------------------------------------------------------------------------------
(* The read loop *)

Receive ==
    /\ loop = "recv" /\ transport # "closed"
    /\ arrived < MaxDatagrams
    /\ arrived' = arrived + 1
    /\ \E d \in Datagrams : datagram' = d
    /\ loop' = "dispatch"
    /\ UNCHANGED <<flags, caller, closeFrame, release, streams, challenges, lateSend>>

(* recv() rejects: fatal, unless we closed the transport ourselves. *)
ReceiveFails ==
    /\ loop = "recv"
    /\ Abort("error")
    /\ loop' = "stopped"
    /\ UNCHANGED <<managerClosing, managerClosed, caller, closeFrame, datagram,
                   arrived, challenges, lateSend>>

(* The loop takes the next frame of its datagram. *)
NextFrame(kind) ==
    /\ loop = "dispatch" /\ datagram # <<>> /\ Head(datagram) = kind
    /\ datagram' = Tail(datagram)
    /\ UNCHANGED <<managerClosed, caller, closeFrame, loop, arrived>>

(* registerIncomingStream. *)
FrameStream ==
    /\ NextFrame("stream")
    /\ IF acceptWaiters > 0
       THEN /\ acceptWaiters' = acceptWaiters - 1 /\ live' = live + 1
            /\ UNCHANGED unaccepted
       ELSE /\ unaccepted' = unaccepted + 1
            /\ UNCHANGED <<acceptWaiters, live>>
    /\ UNCHANGED <<closing, closed, managerClosing, closedBy, release,
                   readWaiters, pending, challenges, lateSend>>

WakeReaderUnlooked == readWaiters' = readWaiters - 1  \* variant

WakeReader == readWaiters' = IF readWaiters > 0 THEN readWaiters - 1 ELSE 0

(* deliver; a credit frame may go out at once (withOutbound). *)
FrameData ==
    /\ NextFrame("data")
    /\ WakeReader
    /\ Send("frame") \/ UNCHANGED lateSend
    /\ UNCHANGED <<closing, closed, managerClosing, closedBy, release,
                   unaccepted, live, acceptWaiters, pending, challenges>>

(* PATH_CHALLENGE is answered at once. *)
FrameChallenge ==
    /\ NextFrame("challenge")
    /\ Send("frame")
    /\ UNCHANGED <<closing, closed, managerClosing, closedBy, release, streams, challenges>>

(* PATH_RESPONSE: its challenge, if it is one of ours, is met. *)
FrameResponse ==
    /\ NextFrame("response")
    /\ \E data \in Challenges : challenges' = challenges \ {data}
    /\ UNCHANGED <<closing, closed, managerClosing, closedBy, release, streams, lateSend>>

(* handleConnectionClose -> onPeerClose. *)
FrameClose ==
    /\ NextFrame("close")
    /\ managerClosing' = TRUE
    /\ Abort("remote_close")
    /\ UNCHANGED <<challenges, lateSend>>

(* readFrames throws: the rest of the datagram is dropped, and the         *)
(* connection with it.                                                     *)
FrameGarbage ==
    /\ loop = "dispatch" /\ datagram # <<>> /\ Head(datagram) = "garbage"
    /\ datagram' = <<>>
    /\ Abort("error")
    /\ UNCHANGED <<managerClosing, managerClosed, caller, closeFrame, loop,
                   arrived, challenges, lateSend>>

(* The datagram is done: drainSends, as far as the windows allow, and on   *)
(* with the loop.                                                          *)
EndDatagram ==
    /\ loop = "dispatch" /\ datagram = <<>>
    /\ IF pending
       THEN (Send("frame") \/ UNCHANGED lateSend) /\ pending' \in BOOLEAN
       ELSE UNCHANGED <<pending, lateSend>>
    /\ loop' = IF closed THEN "stopped" ELSE "recv"
    /\ UNCHANGED <<flags, caller, closeFrame, datagram, arrived, release,
                   unaccepted, live, acceptWaiters, readWaiters, challenges>>

-------------------------------------------------------------------------------
(* close() *)

CloseUnchecked(c) ==  \* variant: "if (this.closed) return" is missing
    /\ caller[c] = "idle"
    /\ closing' = TRUE /\ managerClosing' = TRUE /\ managerClosed' = TRUE
    /\ IF managerClosed
       THEN /\ caller' = [caller EXCEPT ![c] = "flushed"]
            /\ UNCHANGED <<closeFrame, lateSend>>
       ELSE /\ caller' = [caller EXCEPT ![c] = "sending"]
            /\ closeFrame' = "sending"
            /\ Send("call")
    /\ UNCHANGED <<closed, closedBy, reading, release, streams, challenges>>

(* Up to the first await.  Only the first call queues a CONNECTION_CLOSE   *)
(* and waits for its send; a later one finds nothing to flush.             *)
Close(c) ==
    /\ caller[c] = "idle"
    /\ IF closed
       THEN /\ caller' = [caller EXCEPT ![c] = "done"]
            /\ UNCHANGED <<closing, managerClosing, managerClosed, closeFrame, lateSend>>
       ELSE /\ closing' = TRUE /\ managerClosing' = TRUE /\ managerClosed' = TRUE
            /\ IF managerClosed
               THEN /\ caller' = [caller EXCEPT ![c] = "flushed"]
                    /\ UNCHANGED <<closeFrame, lateSend>>
               ELSE /\ caller' = [caller EXCEPT ![c] = "sending"]
                    /\ closeFrame' = "sending"
                    /\ Send("call")
    /\ UNCHANGED <<closed, closedBy, reading, release, streams, challenges>>

(* transport.send of the CONNECTION_CLOSE settles. *)
CloseFrameSettles ==
    /\ closeFrame = "sending"
    /\ closeFrame' \in {"sent"} \cup (IF SendFails THEN {"failed"} ELSE {})
    /\ UNCHANGED <<flags, caller, reading, release, streams, challenges, lateSend>>

(* After "await this.flush()": tear down, and wait for the transport if    *)
(* this call is the one that released it.                                  *)
CloseFlushed(c) ==
    /\ caller[c] = "flushed" \/ (caller[c] = "sending" /\ closeFrame = "sent")
    /\ caller' = [caller EXCEPT ![c] = IF closed THEN "done" ELSE "closing"]
    /\ Teardown("client_close")
    /\ UNCHANGED <<managerClosing, managerClosed, closeFrame, reading, streams, challenges, lateSend>>

(* The flush rejects, and close() with it. *)
CloseFails(c) ==
    /\ caller[c] = "sending" /\ closeFrame = "failed"
    /\ caller' = [caller EXCEPT ![c] = "failed"]
    /\ UNCHANGED <<flags, closeFrame, reading, release, streams, challenges, lateSend>>

(* transport.close settles; a rejection is ignored. *)
TransportCloses ==
    /\ transport = "closing"
    /\ transport' = "closed"
    /\ UNCHANGED <<flags, caller, closeFrame, reading, closeCalls, streams, challenges, lateSend>>

CloseReturns(c) ==
    /\ caller[c] = "closing" /\ transport = "closed"
    /\ caller' = [caller EXCEPT ![c] = "done"]
    /\ UNCHANGED <<flags, closeFrame, reading, release, streams, challenges, lateSend>>

-------------------------------------------------------------------------------
(* The rest of the application *)

OpenStream ==
    /\ ~closing /\ ~closed /\ ~managerClosing /\ ~managerClosed
    /\ live < MaxPending
    /\ live' = live + 1
    /\ UNCHANGED <<flags, caller, closeFrame, reading, release, unaccepted,
                   acceptWaiters, readWaiters, pending, challenges, lateSend>>

AcceptUnchecked ==  \* variant: ensureOpen is left to the stream manager
    /\ ~managerClosing /\ ~managerClosed
    /\ IF unaccepted > 0
       THEN /\ unaccepted' = unaccepted - 1 /\ live' = live + 1
            /\ UNCHANGED acceptWaiters
       ELSE /\ acceptWaiters < MaxPending
            /\ acceptWaiters' = acceptWaiters + 1
            /\ UNCHANGED <<unaccepted, live>>
    /\ UNCHANGED <<flags, caller, closeFrame, reading, release, readWaiters,
                   pending, challenges, lateSend>>

(* ensureOpen, then the stream manager's acceptStream. *)
Accept ==
    /\ ~closing /\ ~closed /\ ~managerClosing /\ ~managerClosed
    /\ IF unaccepted > 0
       THEN /\ unaccepted' = unaccepted - 1 /\ live' = live + 1
            /\ UNCHANGED acceptWaiters
       ELSE /\ acceptWaiters < MaxPending
            /\ acceptWaiters' = acceptWaiters + 1
            /\ UNCHANGED <<unaccepted, live>>
    /\ UNCHANGED <<flags, caller, closeFrame, reading, release, readWaiters,
                   pending, challenges, lateSend>>

(* read() and write() on a stream of the map.  (On one that has left it    *)
(* they are StreamReceive's and StreamManager's affair.)                   *)
Read ==
    /\ live > 0 /\ readWaiters < MaxPending
    /\ readWaiters' = readWaiters + 1
    /\ UNCHANGED <<flags, caller, closeFrame, reading, release, unaccepted, live,
                   acceptWaiters, pending, challenges, lateSend>>

Write ==
    /\ live > 0
    /\ pending' = TRUE
    /\ UNCHANGED <<flags, caller, closeFrame, reading, release, unaccepted, live,
                   acceptWaiters, readWaiters, challenges, lateSend>>

(* sendPathChallenge, with data of the right length: it looks at no flag.  *)
SendPathChallenge(data) ==
    /\ challenges' = challenges \cup {data}
    /\ Send("challenge")
    /\ UNCHANGED <<flags, caller, closeFrame, reading, release, streams>>

-------------------------------------------------------------------------------
Dispatch ==
    \/ FrameStream \/ FrameData \/ FrameChallenge \/ FrameResponse \/ FrameClose
    \/ FrameGarbage \/ EndDatagram

ReadLoop == Receive \/ ReceiveFails \/ Dispatch

CloseCall == \E c \in Callers : Close(c) \/ CloseFlushed(c) \/ CloseFails(c) \/ CloseReturns(c)

Next ==
    \/ ReadLoop \/ CloseCall
    \/ CloseFrameSettles \/ TransportCloses
    \/ OpenStream \/ Accept \/ Read \/ Write
    \/ \E data \in Challenges : SendPathChallenge(data)

Spec == Init /\ [][Next]_vars

(* Code that was resumed runs on; the transport settles what it was asked  *)
(* for, and a closed one rejects recv().                                   *)
Fairness ==
    /\ WF_vars(Dispatch)
    /\ WF_vars(transport = "closed" /\ ReceiveFails)
    /\ WF_vars(CloseFrameSettles) /\ WF_vars(TransportCloses)
    /\ \A c \in Callers : WF_vars(CloseFlushed(c) \/ CloseFails(c) \/ CloseReturns(c))

FairSpec == Spec /\ Fairness

-------------------------------------------------------------------------------
(* Properties *)

(* However close() calls, the peer's CONNECTION_CLOSE and fatal errors     *)
(* meet, the transport is released once, by the first of them, and the     *)
(* connection counts as closed exactly from then on.                       *)
ReleasedOnce ==
    /\ closeCalls = IF closed THEN 1 ELSE 0
    /\ closed <=> transport # "open"

(* After the peer's close or a fatal error no accept() and no read() that  *)
(* waited is left waiting, and no accept() can begin to: not even with the *)
(* streams that the frames still handled behind the abort register.        *)
AbortSettlesCalls ==
    closedBy \in {"remote_close", "error"} => acceptWaiters = 0 /\ readWaiters = 0

(* The read loop never ends under a connection that is still in use.       *)
LoopEndsOnlyClosed == loop = "stopped" => closed

(* A connection that is closed stops reading. *)
LoopStops == closed ~> loop = "stopped"

(* Every close() call settles. *)
CloseSettles == \A c \in Callers : caller[c] # "idle" ~> caller[c] \in {"done", "failed"}

(* No close() call, whichever way the connection ended before it, sends on *)
(* the transport that _teardown released.  (A frame that is still being    *)
(* handled can: flush() looks at no flag.)                                 *)
ReleasedIsUnused == "call" \notin lateSend

===============================================================================
