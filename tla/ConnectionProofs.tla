--------------------------- MODULE ConnectionProofs ----------------------------
(***************************************************************************)
(* Theorems about Connection, for any number of close() calls, any         *)
(* datagrams and any number of pending calls.                              *)
(***************************************************************************)
EXTENDS Connection, TLAPS

(***************************************************************************)
(* ReleasedOnce and AbortSettlesCalls are not inductive.  An abort has     *)
(* lasting effect only because it leaves no stream the application could   *)
(* work with, and because "closing" keeps new ones from being opened or    *)
(* accepted while the rest of the datagram is handled.                     *)
(***************************************************************************)
LifeInv ==
    /\ CallsType
    /\ closed => closing
    /\ closedBy # "none" => closed
    /\ ReleasedOnce
    /\ closedBy \in {"remote_close", "error"} =>
          live = 0 /\ acceptWaiters = 0 /\ readWaiters = 0
    /\ LoopEndsOnlyClosed

(* _teardown keeps the flags consistent, whoever calls it. *)
LEMMA TeardownKeeps ==
    ASSUME closed => closing, closedBy # "none" => closed, ReleasedOnce,
           NEW reason, Teardown(reason)
    PROVE  /\ closed' /\ closing'
           /\ ReleasedOnce'
           /\ closed => closedBy' = closedBy
           /\ ~closed => closedBy' = reason
  <1>1. CASE closed
    BY <1>1 DEF Teardown, ReleasedOnce, release
  <1>2. CASE ~closed
    BY <1>2 DEF Teardown, ReleasedOnce
  <1> QED  BY <1>1, <1>2

(* So does an abort, which also leaves nobody waiting. *)
LEMMA AbortKeeps ==
    ASSUME LifeInv, NEW reason \in {"remote_close", "error"}, Abort(reason)
    PROVE  /\ CallsType' /\ closed' /\ closing' /\ ReleasedOnce'
           /\ closedBy' \in {"remote_close", "error"} =>
                 live' = 0 /\ acceptWaiters' = 0 /\ readWaiters' = 0
  <1>1. CASE closed
    BY <1>1 DEF Abort, LifeInv, CallsType, ReleasedOnce, release, streams
  <1>2. CASE ~closed
    <2>1. AbortAll /\ Teardown(reason)
      BY <1>2 DEF Abort
    <2>2. closed' /\ closing' /\ ReleasedOnce'
      BY <2>1, TeardownKeeps DEF LifeInv
    <2>3. live' = 0 /\ acceptWaiters' = 0 /\ readWaiters' = 0 /\ unaccepted' = 0
      BY <2>1 DEF AbortAll
    <2>4. CallsType'
      BY <2>3, BoundsAssumption DEF CallsType
    <2> QED  BY <2>2, <2>3, <2>4
  <1> QED  BY <1>1, <1>2

LEMMA LifeInvariant == Spec => []LifeInv
  <1>1. Init => LifeInv
    BY BoundsAssumption DEF Init, LifeInv, CallsType, ReleasedOnce, LoopEndsOnlyClosed
  <1>2. LifeInv /\ [Next]_vars => LifeInv'
    <2> SUFFICES ASSUME LifeInv, [Next]_vars
                 PROVE  LifeInv'
      OBVIOUS
    <2> USE BoundsAssumption DEF LifeInv
    (* The flags and the transport stay as they are, nothing begins to     *)
    (* wait on an aborted connection, and the loop goes on.                *)
    <2>a. ASSUME UNCHANGED <<flags, release>>, CallsType',
                 closedBy \in {"remote_close", "error"} =>
                    live' = 0 /\ acceptWaiters' = 0 /\ readWaiters' = 0,
                 loop' = "stopped" => closed
          PROVE  LifeInv'
      BY <2>a DEF flags, release, ReleasedOnce, LoopEndsOnlyClosed
    <2>1. CASE Receive
      BY <2>1, <2>a DEF Receive, streams, CallsType
    <2>2. CASE ReceiveFails
      BY <2>2, AbortKeeps DEF ReceiveFails, LoopEndsOnlyClosed
    <2>3. CASE FrameStream
      <3>1. CallsType'
        BY <2>3 DEF FrameStream, CallsType
      <3>2. UNCHANGED <<flags, release, loop, readWaiters>>
        BY <2>3 DEF FrameStream, NextFrame, flags, release
      <3>3. acceptWaiters = 0 => live' = live /\ acceptWaiters' = acceptWaiters
        BY <2>3 DEF FrameStream
      <3> QED  BY <2>a, <3>1, <3>2, <3>3 DEF LoopEndsOnlyClosed
    <2>4. CASE FrameData
      <3>1. CallsType' /\ (readWaiters = 0 => readWaiters' = 0)
        BY <2>4 DEF FrameData, WakeReader, CallsType
      <3>2. UNCHANGED <<flags, release, loop, live, acceptWaiters>>
        BY <2>4 DEF FrameData, NextFrame, flags, release
      <3> QED  BY <2>a, <3>1, <3>2 DEF LoopEndsOnlyClosed
    <2>5. CASE FrameChallenge
      BY <2>5, <2>a DEF FrameChallenge, NextFrame, flags, release, streams,
                        CallsType, LoopEndsOnlyClosed
    <2>6. CASE FrameResponse
      BY <2>6, <2>a DEF FrameResponse, NextFrame, flags, release, streams,
                         CallsType, LoopEndsOnlyClosed
    <2>7. CASE FrameClose
      <3>1. Abort("remote_close") /\ loop' = loop
        BY <2>7 DEF FrameClose, NextFrame
      <3> QED  BY <3>1, AbortKeeps DEF LoopEndsOnlyClosed
    <2>8. CASE FrameGarbage
      BY <2>8, AbortKeeps DEF FrameGarbage, LoopEndsOnlyClosed
    <2>9. CASE EndDatagram
      BY <2>9, <2>a DEF EndDatagram, CallsType
    <2>10. ASSUME NEW c \in Callers, Close(c)
          PROVE  LifeInv'
      <3>1. UNCHANGED <<closed, closedBy, loop, release, streams>>
        BY <2>10 DEF Close, reading
      <3>2. closing => closing'
        BY <2>10 DEF Close
      <3> QED  BY <3>1, <3>2 DEF release, streams, CallsType, ReleasedOnce, LoopEndsOnlyClosed
    <2>11. ASSUME NEW c \in Callers, CloseFlushed(c)
           PROVE  LifeInv'
      <3>1. Teardown("client_close") /\ UNCHANGED <<loop, streams>>
        BY <2>11 DEF CloseFlushed, reading
      <3>2. /\ closed' /\ closing' /\ ReleasedOnce'
            /\ closed => closedBy' = closedBy
            /\ ~closed => closedBy' = "client_close"
        BY <3>1, TeardownKeeps
      <3> QED  BY <3>1, <3>2 DEF streams, CallsType, LoopEndsOnlyClosed
    <2>12. ASSUME NEW c \in Callers, CloseFails(c) \/ CloseReturns(c)
           PROVE  LifeInv'
      BY <2>12, <2>a DEF CloseFails, CloseReturns, reading, streams, CallsType,
                         LoopEndsOnlyClosed
    <2>13. CASE CloseFrameSettles
      BY <2>13, <2>a DEF CloseFrameSettles, reading, streams, CallsType,
                         LoopEndsOnlyClosed
    <2>14. CASE TransportCloses
      BY <2>14 DEF TransportCloses, flags, reading, streams, CallsType, ReleasedOnce,
                   LoopEndsOnlyClosed
    <2>15. CASE OpenStream
      BY <2>15, <2>a DEF OpenStream, reading, CallsType, LoopEndsOnlyClosed
    <2>16. CASE Accept
      <3>1. CallsType'
        BY <2>16 DEF Accept, CallsType
      <3> QED  BY <2>16, <3>1, <2>a DEF Accept, reading, LoopEndsOnlyClosed
    <2>17. CASE Read
      BY <2>17, <2>a DEF Read, reading, CallsType, LoopEndsOnlyClosed
    <2>18. CASE Write
      BY <2>18, <2>a DEF Write, reading, CallsType, LoopEndsOnlyClosed
    <2>19. ASSUME NEW data \in Challenges, SendPathChallenge(data)
           PROVE  LifeInv'
      BY <2>19, <2>a DEF SendPathChallenge, reading, streams, CallsType, LoopEndsOnlyClosed
    <2>20. CASE UNCHANGED vars
      BY <2>20, <2>a DEF vars, reading, streams, CallsType, LoopEndsOnlyClosed
    <2> QED
      BY <2>1, <2>2, <2>3, <2>4, <2>5, <2>6, <2>7, <2>8, <2>9, <2>10, <2>11, <2>12,
         <2>13, <2>14, <2>15, <2>16, <2>17, <2>18, <2>19, <2>20
      DEF Next, ReadLoop, Dispatch, CloseCall
  <1> QED  BY <1>1, <1>2, PTL DEF Spec

(* The transport is released once, by the first of any number of close()   *)
(* calls, the peer's CONNECTION_CLOSE and fatal errors (_teardown).        *)
THEOREM TransportIsReleasedOnce == Spec => []ReleasedOnce
  <1>1. LifeInv => ReleasedOnce
    BY DEF LifeInv
  <1> QED  BY <1>1, LifeInvariant, PTL

(* An abort (onPeerClose, _handleFatal) leaves no accept() and no read()   *)
(* waiting, now or later.                                                  *)
THEOREM AbortIsFinal == Spec => []AbortSettlesCalls
  <1>1. LifeInv => AbortSettlesCalls
    BY DEF LifeInv, AbortSettlesCalls
  <1> QED  BY <1>1, LifeInvariant, PTL

(* The read loop outlives every connection in use (readLoop, _handleFatal). *)
THEOREM LoopOutlivesConnection == Spec => []LoopEndsOnlyClosed
  <1>1. LifeInv => LoopEndsOnlyClosed
    BY DEF LifeInv
  <1> QED  BY <1>1, LifeInvariant, PTL

(* Taking a frame off the datagram, and sending, keep their parts of TypeOK. *)
LEMMA NextFrameType ==
    ASSUME TypeOK, NEW kind, NextFrame(kind)
    PROVE  ReadingType' /\ CallersType'
  BY DEF TypeOK, NextFrame, ReadingType, CallersType

LEMMA SendType ==
    ASSUME SendsType, UNCHANGED challenges,
           UNCHANGED lateSend \/ Send("frame") \/ Send("call")
    PROVE  SendsType'
  BY DEF Send, SendsType

(* An abort and a teardown keep theirs.                                    *)
LEMMA TeardownType ==
    ASSUME FlagsType, ReleaseType, NEW reason \in {"client_close", "remote_close", "error"},
           Teardown(reason)
    PROVE  /\ ReleaseType' /\ closing' \in BOOLEAN /\ closed' \in BOOLEAN
           /\ closedBy' \in {"none", "client_close", "remote_close", "error"}
  <1>1. CASE closed
    BY <1>1 DEF Teardown, FlagsType, ReleaseType, release
  <1>2. CASE ~closed
    <2>1. closed' = TRUE /\ closing' = TRUE /\ closedBy' = reason
      BY <1>2 DEF Teardown
    <2>2. ReleaseType'
      BY <1>2 DEF Teardown, ReleaseType
    <2> QED  BY <2>1, <2>2
  <1> QED  BY <1>1, <1>2

LEMMA AbortType ==
    ASSUME TypeOK, NEW reason \in {"remote_close", "error"}, Abort(reason)
    PROVE  /\ ReleaseType' /\ StreamsType' /\ closing' \in BOOLEAN /\ closed' \in BOOLEAN
           /\ closedBy' \in {"none", "client_close", "remote_close", "error"}
  <1>1. CASE closed
    BY <1>1 DEF Abort, TypeOK, FlagsType, ReleaseType, StreamsType, CallsType, release, streams
  <1>2. CASE ~closed
    <2>1. AbortAll /\ Teardown(reason)
      BY <1>2 DEF Abort
    <2>2. CallsType'
      BY <2>1, BoundsAssumption DEF AbortAll, CallsType
    <2>3. pending' = FALSE
      BY <2>1 DEF AbortAll
    <2> QED  BY <2>1, <2>2, <2>3, TeardownType DEF TypeOK, StreamsType
  <1> QED  BY <1>1, <1>2

(* The type invariant of a connection, for any number of close() calls,    *)
(* any datagrams and any challenges.                                       *)
THEOREM TypeCorrect == Spec => []TypeOK
  <1>1. Init => TypeOK
    <2> SUFFICES ASSUME Init PROVE TypeOK
      OBVIOUS
    <2> USE BoundsAssumption DEF Init
    <2>1. FlagsType /\ SendsType
      BY DEF FlagsType, SendsType
    <2>4. ReleaseType /\ CallsType
      BY DEF ReleaseType, CallsType
    <2>5. StreamsType
      BY <2>4 DEF StreamsType
    <2>2. CallersType
      BY DEF CallersType
    <2>3. ReadingType
      BY DEF ReadingType
    <2> QED  BY <2>1, <2>2, <2>3, <2>4, <2>5 DEF TypeOK
  <1>2. TypeOK /\ [Next]_vars => TypeOK'
    <2> SUFFICES ASSUME TypeOK, [Next]_vars
                 PROVE  TypeOK'
      OBVIOUS
    <2> USE BoundsAssumption
    <2> USE DEF TypeOK
    <2>k. /\ UNCHANGED flags => FlagsType'
          /\ UNCHANGED <<caller, closeFrame>> => CallersType'
          /\ UNCHANGED reading => ReadingType'
          /\ UNCHANGED release => ReleaseType'
          /\ UNCHANGED streams => StreamsType'
          /\ UNCHANGED <<challenges, lateSend>> => SendsType'
      BY ZenonT(30) DEF FlagsType, CallersType, ReadingType, ReleaseType, StreamsType, CallsType, SendsType,
             flags, reading, release, streams
    <2>1. CASE Receive
      <3>1. ReadingType'
        BY <2>1, DatagramsAssumption DEF Receive, ReadingType
      <3> QED  BY <2>1, <2>k, <3>1 DEF Receive
    <2>2. CASE ReceiveFails
      <3>1. Abort("error")
        BY <2>2 DEF ReceiveFails
      <3>2. FlagsType'
        BY <2>2, <3>1, AbortType DEF ReceiveFails, FlagsType
      <3>3. ReadingType'
        BY <2>2 DEF ReceiveFails, ReadingType
      <3> QED  BY <2>2, <2>k, <3>1, <3>2, <3>3, AbortType DEF ReceiveFails
    <2>3. CASE FrameStream
      <3>1. ReadingType' /\ CallersType'
        BY <2>3, NextFrameType DEF FrameStream
      <3>2. FlagsType'
        BY <2>3 DEF FrameStream, NextFrame, FlagsType
      <3>3. StreamsType'
        BY <2>3 DEF FrameStream, StreamsType, CallsType
      <3> QED  BY <2>3, <2>k, <3>1, <3>2, <3>3 DEF FrameStream
    <2>4. CASE FrameData
      <3>1. ReadingType' /\ CallersType'
        BY <2>4, NextFrameType DEF FrameData
      <3>2. FlagsType'
        BY <2>4 DEF FrameData, NextFrame, FlagsType
      <3>3. StreamsType'
        BY <2>4 DEF FrameData, WakeReader, StreamsType, CallsType
      <3>4. SendsType'
        BY <2>4, SendType DEF FrameData
      <3> QED  BY <2>4, <2>k, <3>1, <3>2, <3>3, <3>4 DEF FrameData
    <2>5. CASE FrameChallenge
      <3>1. ReadingType' /\ CallersType'
        BY <2>5, NextFrameType DEF FrameChallenge
      <3>2. FlagsType'
        BY <2>5 DEF FrameChallenge, NextFrame, FlagsType
      <3>3. SendsType'
        BY <2>5, SendType DEF FrameChallenge
      <3> QED  BY <2>5, <2>k, <3>1, <3>2, <3>3 DEF FrameChallenge
    <2>6. CASE FrameResponse
      <3>1. ReadingType' /\ CallersType'
        BY <2>6, NextFrameType DEF FrameResponse
      <3>2. FlagsType'
        BY <2>6 DEF FrameResponse, NextFrame, FlagsType
      <3>3. SendsType'
        BY <2>6 DEF FrameResponse, SendsType
      <3> QED  BY <2>6, <2>k, <3>1, <3>2, <3>3 DEF FrameResponse
    <2>7. CASE FrameClose
      <3>1. Abort("remote_close") /\ ReadingType' /\ CallersType'
        BY <2>7, NextFrameType DEF FrameClose
      <3>2. FlagsType'
        BY <2>7, <3>1, AbortType DEF FrameClose, NextFrame, FlagsType
      <3> QED  BY <2>7, <2>k, <3>1, <3>2, AbortType DEF FrameClose
    <2>8. CASE FrameGarbage
      <3>1. Abort("error")
        BY <2>8 DEF FrameGarbage
      <3>2. FlagsType'
        BY <2>8, <3>1, AbortType DEF FrameGarbage, FlagsType
      <3>3. ReadingType'
        BY <2>8 DEF FrameGarbage, ReadingType
      <3> QED  BY <2>8, <2>k, <3>1, <3>2, <3>3, AbortType DEF FrameGarbage
    <2>9. CASE EndDatagram
      <3>1. ReadingType'
        BY <2>9 DEF EndDatagram, ReadingType
      <3>2. StreamsType'
        BY <2>9 DEF EndDatagram, StreamsType, CallsType
      <3>3. SendsType'
        BY <2>9, SendType DEF EndDatagram
      <3> QED  BY <2>9, <2>k, <3>1, <3>2, <3>3 DEF EndDatagram
    <2>10. ASSUME NEW c \in Callers, Close(c)
           PROVE  TypeOK'
      <3>1. FlagsType'
        BY <2>10 DEF Close, FlagsType
      <3>2. CallersType'
        BY <2>10 DEF Close, CallersType
      <3>3. SendsType'
        BY <2>10, SendType DEF Close
      <3> QED  BY <2>10, <2>k, <3>1, <3>2, <3>3 DEF Close
    <2>11. ASSUME NEW c \in Callers, CloseFlushed(c)
           PROVE  TypeOK'
      <3>1. FlagsType' /\ ReleaseType'
        BY <2>11, TeardownType DEF CloseFlushed, FlagsType
      <3>2. CallersType'
        BY <2>11 DEF CloseFlushed, CallersType
      <3> QED  BY <2>11, <2>k, <3>1, <3>2 DEF CloseFlushed
    <2>12. ASSUME NEW c \in Callers, CloseFails(c) \/ CloseReturns(c)
           PROVE  TypeOK'
      <3>1. CallersType'
        BY <2>12 DEF CloseFails, CloseReturns, CallersType
      <3> QED  BY <2>12, <2>k, <3>1 DEF CloseFails, CloseReturns
    <2>13. CASE CloseFrameSettles
      <3>1. CallersType'
        BY <2>13 DEF CloseFrameSettles, CallersType
      <3> QED  BY <2>13, <2>k, <3>1 DEF CloseFrameSettles
    <2>14. CASE TransportCloses
      <3>1. ReleaseType'
        BY <2>14 DEF TransportCloses, ReleaseType
      <3> QED  BY <2>14, <2>k, <3>1 DEF TransportCloses
    <2>15. CASE OpenStream \/ Accept \/ Read \/ Write
      <3>1. CallsType'
        BY <2>15 DEF OpenStream, Accept, Read, Write, StreamsType, CallsType
      <3>2. pending' = pending \/ pending' = TRUE
        BY <2>15 DEF OpenStream, Accept, Read, Write
      <3>3. StreamsType'
        BY <3>1, <3>2 DEF StreamsType
      <3> QED  BY <2>15, <2>k, <3>3 DEF OpenStream, Accept, Read, Write
    <2>16. ASSUME NEW data \in Challenges, SendPathChallenge(data)
           PROVE  TypeOK'
      <3>1. SendsType'
        BY <2>16 DEF SendPathChallenge, Send, SendsType
      <3> QED  BY <2>16, <2>k, <3>1 DEF SendPathChallenge
    <2>17. CASE UNCHANGED vars
      BY <2>17, <2>k DEF vars
    <2> QED
      BY <2>1, <2>2, <2>3, <2>4, <2>5, <2>6, <2>7, <2>8, <2>9, <2>10, <2>11, <2>12,
         <2>13, <2>14, <2>15, <2>16, <2>17
      DEF Next, ReadLoop, Dispatch, CloseCall
  <1> QED  BY <1>1, <1>2, PTL DEF Spec

(***************************************************************************)
(* ReleasedIsUnused: a close() that sends has found the connection not yet *)
(* closed, and then, by ReleasedOnce, nobody has released the transport.   *)
(***************************************************************************)

(* No close() call sends on a transport that _teardown has released.       *)
THEOREM CloseNeverSendsLate == Spec => []ReleasedIsUnused
  <1>1. Init => ReleasedIsUnused
    BY DEF Init, ReleasedIsUnused
  <1>2. LifeInv /\ ReleasedIsUnused /\ [Next]_vars => ReleasedIsUnused'
    <2> SUFFICES ASSUME LifeInv, ReleasedIsUnused, [Next]_vars
                 PROVE  ReleasedIsUnused'
      OBVIOUS
    <2> USE DEF ReleasedIsUnused, Send
    <2>1. ASSUME NEW c \in Callers, Close(c)
          PROVE  ReleasedIsUnused'
      <3>1. ~closed => transport = "open"
        BY DEF LifeInv, ReleasedOnce
      <3> QED  BY <2>1, <3>1 DEF Close
    <2>2. CASE ReadLoop
      BY <2>2 DEF ReadLoop, Dispatch, Receive, ReceiveFails, FrameStream, FrameData,
                  FrameChallenge, FrameResponse, FrameClose, FrameGarbage, EndDatagram
    <2>3. ASSUME NEW c \in Callers, CloseFlushed(c) \/ CloseFails(c) \/ CloseReturns(c)
          PROVE  ReleasedIsUnused'
      BY <2>3 DEF CloseFlushed, CloseFails, CloseReturns
    <2>4. CASE CloseFrameSettles \/ TransportCloses
      BY <2>4 DEF CloseFrameSettles, TransportCloses
    <2>5. CASE OpenStream \/ Accept \/ Read \/ Write
      BY <2>5 DEF OpenStream, Accept, Read, Write
    <2>6. ASSUME NEW data \in Challenges, SendPathChallenge(data)
          PROVE  ReleasedIsUnused'
      BY <2>6 DEF SendPathChallenge
    <2>7. CASE UNCHANGED vars
      BY <2>7 DEF vars
    <2> QED  BY <2>1, <2>2, <2>3, <2>4, <2>5, <2>6, <2>7 DEF Next, CloseCall
  <1> QED  BY <1>1, <1>2, LifeInvariant, PTL DEF Spec
===============================================================================
