------------------------- MODULE StreamManagerProofs --------------------------
(***************************************************************************)
(* Theorems about StreamManager, for every set of stream ids, every limit  *)
(* the peer may state and every budget.                                    *)
(***************************************************************************)
EXTENDS StreamManager, TLAPS

(* The loop's allowance is below each of its three bounds. *)
LEMMA AllowBounds ==
    ASSUME LimitsType, SendingType, WireType, FlushType, NEW id \in StreamIds
    PROVE  /\ Allow(id) \in Int
           /\ Allow(id) <= StreamWindow(id)
           /\ Allow(id) <= ConnWindow
           /\ Allow(id) <= budget
  <1>1. /\ maxStreamData[id] \in Nat /\ dataSent[id] \in Nat
        /\ connectionMaxData \in Nat /\ connectionDataSent \in Nat
        /\ MaxPayload \in Nat /\ budget \in 0..MaxPayload
    BY WindowsAssumption DEF LimitsType, SendingType, WireType, FlushType
  <1>2. StreamWindow(id) \in Int /\ ConnWindow \in Int
    BY <1>1 DEF StreamWindow, ConnWindow
  <1> QED  BY <1>1, <1>2 DEF Allow, MinOf

(* What one round of the loop sends. *)
LEMMA LengthBounds ==
    ASSUME LimitsType, SendingType, WireType, FlushType, NEW id \in StreamIds,
           Allow(id) > 0
    PROVE  /\ MinOf(Allow(id), sendQueue[id]) \in Nat
           /\ MinOf(Allow(id), sendQueue[id]) <= sendQueue[id]
           /\ MinOf(Allow(id), sendQueue[id]) <= Allow(id)
  <1>1. sendQueue[id] \in Nat
    BY DEF SendingType
  <1>2. Allow(id) \in Int
    BY AllowBounds
  <1> QED  BY <1>1, <1>2 DEF MinOf

LEMMA CreateStreamType ==
    ASSUME TypeOK, NEW id \in StreamIds, NEW initial \in States,
           CreateStream(id, initial)
    PROVE  /\ streams' \in Seq(StreamIds) /\ state' \in [StreamIds -> States]
           /\ SendingType' /\ LimitsType'
  <1> USE WindowsAssumption DEF TypeOK, CreateStream
  <1>1. peerStreamWindow \in Nat
    BY DEF LimitsType
  <1>2. streams' \in Seq(StreamIds)
    BY DEF TableType
  <1>3. state' \in [StreamIds -> States]
    OBVIOUS
  <1>4. SendingType'
    BY DEF SendingType
  <1>5. LimitsType'
    BY <1>1 DEF LimitsType
  <1> QED  BY <1>2, <1>3, <1>4, <1>5

LEMMA HandOutType ==
    ASSUME TableType, NEW id \in StreamIds, HandOut(id)
    PROVE  /\ acceptedStreams' \subseteq StreamIds /\ held' \subseteq StreamIds
           /\ handedOut' \in [StreamIds -> Nat]
  BY DEF TableType, HandOut

LEMMA DeleteType ==
    ASSUME streams \in Seq(StreamIds), NEW id, Delete(id)
    PROVE  streams' \in Seq(StreamIds)
  <1>1. PICK i \in 1..Len(streams) : streams' = RemoveAt(streams, i)
    BY DEF Delete
  <1>2. SubSeq(streams, 1, i - 1) \in Seq(StreamIds)
    OBVIOUS
  <1>3. SubSeq(streams, i + 1, Len(streams)) \in Seq(StreamIds)
    OBVIOUS
  <1> QED  BY <1>1, <1>2, <1>3 DEF RemoveAt

(* Every variable keeps its type. *)
THEOREM TypeCorrect == Spec => []TypeOK
  <1>1. Init => TypeOK
    <2> SUFFICES ASSUME Init PROVE TypeOK
      OBVIOUS
    <2> USE WindowsAssumption DEF Init
    <2>1. TableType
      BY DEF TableType, FirstStreamId
    <2>2. state \in [StreamIds -> States]
      BY DEF States
    <2>3. SendingType
      BY DEF SendingType
    <2>4. LimitsType
      BY DEF LimitsType
    <2>5. WireType
      BY DEF WireType
    <2>6. ClosesType
      BY DEF ClosesType
    <2>7. FlushType
      BY DEF FlushType
    <2> QED  BY <2>1, <2>2, <2>3, <2>4, <2>5, <2>6, <2>7 DEF TypeOK
  <1>2. TypeOK /\ [Next]_vars => TypeOK'
    <2> SUFFICES ASSUME TypeOK, [Next]_vars
                 PROVE  TypeOK'
      OBVIOUS
    <2> USE DEF TypeOK
    (* A group of variables that does not change keeps its type. *)
    <2>a. UNCHANGED table => TableType'
      BY DEF table, TableType
    <2>b. UNCHANGED sending => SendingType'
      BY DEF sending, SendingType
    <2>c. UNCHANGED limits => LimitsType'
      BY DEF limits, LimitsType
    <2>d. UNCHANGED wire => WireType'
      BY DEF wire, WireType
    <2>e. UNCHANGED closes => ClosesType'
      BY DEF closes, ClosesType
    <2>f. UNCHANGED flush => FlushType'
      BY DEF flush, FlushType
    <2>1. ASSUME NEW bidi \in BOOLEAN, OpenStream(bidi)
          PROVE  TypeOK'
      <3>1. nextId[bidi] \in StreamIds /\ "open" \in States
        BY <2>1 DEF OpenStream, States
      <3>2. /\ streams' \in Seq(StreamIds) /\ state' \in [StreamIds -> States]
            /\ SendingType' /\ LimitsType'
        BY <2>1, <3>1, CreateStreamType DEF OpenStream
      <3>3. nextId' \in [BOOLEAN -> Nat]
        BY <2>1 DEF OpenStream, TableType
      <3>4. TableType'
        BY <2>1, <3>1, <3>2, <3>3 DEF OpenStream, TableType
      <3> QED  BY <2>1, <2>d, <2>e, <2>f, <3>2, <3>4 DEF OpenStream
    <2>2. ASSUME NEW bidi \in BOOLEAN, AcceptStream(bidi)
          PROVE  TypeOK'
      <3>1. PICK i \in Waiting(bidi) : HandOut(streams[i])
        BY <2>2 DEF AcceptStream
      <3>2. streams[i] \in StreamIds
        BY DEF Waiting, TableType
      <3>3. TableType'
        BY <2>2, <3>1, <3>2, HandOutType DEF AcceptStream, TableType
      <3> QED  BY <2>2, <2>b, <2>c, <2>d, <2>e, <2>f, <3>3 DEF AcceptStream
    <2>3. ASSUME NEW bidi \in BOOLEAN, AcceptWait(bidi)
          PROVE  TypeOK'
      <3>1. TableType'
        BY <2>3 DEF AcceptWait, TableType
      <3> QED  BY <2>3, <2>b, <2>c, <2>d, <2>e, <2>f, <3>1 DEF AcceptWait
    <2>4. ASSUME NEW id \in StreamIds, NEW fin \in BOOLEAN, HandleNewStream(id, fin)
          PROVE  TypeOK'
      <3>1. (IF fin THEN TransitionOnRemoteFin("open") ELSE "open") \in States
        BY DEF TransitionOnRemoteFin, States
      <3>2. /\ streams' \in Seq(StreamIds) /\ state' \in [StreamIds -> States]
            /\ SendingType' /\ LimitsType'
        BY <2>4, <3>1, CreateStreamType DEF HandleNewStream
      <3>3. WakeAcceptWaiter(id) /\ UNCHANGED <<nextId, wire, closes, flush>>
        BY <2>4 DEF HandleNewStream
      <3>4. TableType'
        <4>1. CASE acceptWaiters[Bidirectional(id)] > 0
          <5>1. HandOut(id) /\ acceptWaiters' =
                  [acceptWaiters EXCEPT ![Bidirectional(id)] = @ - 1]
            BY <3>3, <4>1 DEF WakeAcceptWaiter
          <5>2. acceptWaiters' \in [BOOLEAN -> Nat]
            <6> DEFINE b == Bidirectional(id)
            <6>1. b \in BOOLEAN
              BY DEF Bidirectional
            <6> HIDE DEF b
            <6>2. acceptWaiters[b] \in Nat /\ acceptWaiters[b] > 0
              BY <4>1, <6>1 DEF TableType, b
            <6>3. acceptWaiters[b] - 1 \in Nat
              BY <6>2
            <6>4. acceptWaiters' = [acceptWaiters EXCEPT ![b] = acceptWaiters[b] - 1]
              BY <5>1 DEF b
            <6> QED  BY <6>3, <6>4 DEF TableType
          <5>3. /\ acceptedStreams' \subseteq StreamIds /\ held' \subseteq StreamIds
                /\ handedOut' \in [StreamIds -> Nat]
            BY <5>1, HandOutType
          <5> QED  BY <3>2, <3>3, <5>2, <5>3 DEF TableType
        <4>2. CASE ~(acceptWaiters[Bidirectional(id)] > 0)
          <5>1. held' = held \ {id} /\ UNCHANGED <<acceptWaiters, acceptedStreams, handedOut>>
            BY <3>3, <4>2 DEF WakeAcceptWaiter
          <5> QED  BY <3>2, <3>3, <5>1 DEF TableType
        <4> QED  BY <4>1, <4>2
      <3> QED  BY <2>d, <2>e, <2>f, <3>2, <3>3, <3>4
    <2>5. ASSUME NEW id \in StreamIds, HandleLastStream(id)
          PROVE  TypeOK'
      <3>1. state' \in [StreamIds -> States]
        <4>1. TransitionOnRemoteFin(state[id]) \in States
          BY DEF TransitionOnRemoteFin, States, CloseReasons
        <4> QED  BY <2>5, <4>1 DEF HandleLastStream
      <3> QED
        BY <2>5, <2>a, <2>b, <2>c, <2>d, <2>e, <2>f, <3>1 DEF HandleLastStream
    <2>6. ASSUME NEW id \in StreamIds, HandleResetStream(id)
          PROVE  TypeOK'
      <3>1. state' \in [StreamIds -> States]
        BY <2>6 DEF HandleResetStream, States, CloseReasons
      <3>2. streams' \in Seq(StreamIds)
        BY <2>6, DeleteType DEF HandleResetStream, TableType
      <3>3. TableType'
        BY <2>6, <3>2 DEF HandleResetStream, TableType
      <3>4. ClosesType'
        BY <2>6 DEF HandleResetStream, ClosesType
      <3> QED
        BY <2>6, <2>b, <2>c, <2>d, <2>f, <3>1, <3>3, <3>4 DEF HandleResetStream
    <2>7. ASSUME NEW id \in StreamIds, NEW n \in 1..MaxBytes, Write(id, n)
          PROVE  TypeOK'
      <3>1. n \in Nat
        BY WindowsAssumption
      <3>2. SendingType'
        BY <2>7, <3>1 DEF Write, SendingType
      <3> QED  BY <2>7, <2>a, <2>c, <2>d, <2>e, <2>f, <3>2 DEF Write
    <2>8. ASSUME NEW id \in StreamIds, CloseStream(id)
          PROVE  TypeOK'
      <3>1. SendingType'
        BY <2>8 DEF CloseStream, SendingType
      <3> QED  BY <2>8, <2>a, <2>c, <2>d, <2>e, <2>f, <3>1 DEF CloseStream
    <2>9. ASSUME NEW id \in StreamIds, HandleStopSending(id)
          PROVE  TypeOK'
      <3>1. SendingType'
        BY <2>9 DEF HandleStopSending, SendingType
      <3> QED  BY <2>9, <2>a, <2>c, <2>d, <2>e, <2>f, <3>1 DEF HandleStopSending
    <2>10. ASSUME NEW id \in StreamIds, NEW m \in StreamWindows, HandleMaxStreamData(id, m)
           PROVE  TypeOK'
      <3>1. LimitsType'
        BY <2>10, WindowsAssumption DEF HandleMaxStreamData, LimitsType
      <3> QED
        BY <2>10, <2>a, <2>b, <2>d, <2>e, <2>f, <3>1 DEF HandleMaxStreamData
    <2>11. ASSUME NEW m \in ConnWindows, HandleMaxData(m)
           PROVE  TypeOK'
      <3>1. LimitsType'
        BY <2>11, WindowsAssumption DEF HandleMaxData, LimitsType
      <3> QED  BY <2>11, <2>a, <2>b, <2>d, <2>e, <2>f, <3>1 DEF HandleMaxData
    <2>12. ASSUME NEW w \in StreamWindows, UpdatePeerParameters(w)
           PROVE  TypeOK'
      <3>1. LimitsType'
        BY <2>12 DEF UpdatePeerParameters, LimitsType
      <3> QED
        BY <2>12, <2>a, <2>b, <2>d, <2>e, <2>f, <3>1 DEF UpdatePeerParameters
    <2>13. CASE FlushBegin
      <3>1. WireType'
        BY <2>13 DEF FlushBegin, WireType, wire
      <3>2. FlushType'
        <4>1. phase' = "flush" /\ cursor' = 1 /\ budget' = MaxPayload
          BY <2>13 DEF FlushBegin
        <4>2. MaxPayload \in 0..MaxPayload
          BY WindowsAssumption
        <4> QED  BY <4>1, <4>2 DEF FlushType
      <3> QED  BY <2>13, <2>a, <2>b, <2>c, <2>e, <3>1, <3>2 DEF FlushBegin
    <2>14. CASE FlushEnd
      <3>1. WireType' /\ FlushType'
        BY <2>14, WindowsAssumption DEF FlushEnd, WireType, FlushType, wire
      <3> QED  BY <2>14, <2>a, <2>b, <2>c, <2>e, <3>1 DEF FlushEnd
    <2>15. ASSUME NEW id \in StreamIds, FlushSkip(id)
           PROVE  TypeOK'
      <3>1. FlushType'
        BY <2>15 DEF FlushSkip, FlushType
      <3> QED  BY <2>15, <2>a, <2>b, <2>c, <2>d, <2>e, <3>1 DEF FlushSkip
    <2>16. ASSUME NEW id \in StreamIds, FlushBlocked(id)
           PROVE  TypeOK'
      <3>1. FlushType' /\ WireType'
        BY <2>16 DEF FlushBlocked, FlushType, WireType, wire
      <3> QED  BY <2>16, <2>a, <2>b, <2>c, <2>e, <3>1 DEF FlushBlocked
    <2>17. ASSUME NEW id \in StreamIds, FlushSend(id)
           PROVE  TypeOK'
      <3> DEFINE n == MinOf(Allow(id), sendQueue[id])
                 fin == IsLastOfStream(id, n)
      <3>1. /\ n \in Nat /\ n <= sendQueue[id] /\ n <= Allow(id) /\ Allow(id) \in Int
            /\ Allow(id) <= budget
        BY <2>17, AllowBounds, LengthBounds DEF FlushSend
      <3>2. /\ Commit(id, n, fin) /\ cursor' = cursor + 1
            /\ UNCHANGED <<table, sendFinPending, limits,
                           closes, phase>>
        BY <2>17 DEF FlushSend
      <3> HIDE DEF n, fin
      <3>3. state' \in [StreamIds -> States] /\ finSent' \in [StreamIds -> BOOLEAN]
        BY <3>2 DEF Commit, CommitFin, TransitionOnLocalFin, States, CloseReasons,
                    SendingType
      <3>4. sendQueue[id] - n \in Nat /\ dataSent[id] + n \in Nat
            /\ connectionDataSent + n \in Nat
        BY <3>1 DEF SendingType, WireType
      <3>5. SendingType'
        BY <3>2, <3>3, <3>4 DEF Commit, SendingType
      <3>6. WireType'
        BY <3>2, <3>4 DEF Commit, WireType
      <3>7. budget - n \in 0..MaxPayload
        BY <3>1, WindowsAssumption DEF FlushType
      <3>8. FlushType'
        BY <3>2, <3>7 DEF Commit, FlushType
      <3> QED  BY <2>a, <2>c, <2>e, <3>2, <3>3, <3>5, <3>6, <3>8
    <2>18. CASE Close
      <3>1. ClosesType'
        BY <2>18 DEF Close, ClosesType
      <3> QED  BY <2>18, <2>a, <2>b, <2>c, <2>d, <2>f, <3>1 DEF Close
    <2>19. CASE HandleConnectionClose
      <3>1. /\ closing' = TRUE /\ UNCHANGED <<closed, resets>>
            /\ UNCHANGED <<nextId, acceptedStreams, held, handedOut>>
            /\ UNCHANGED <<sending, limits, wire, flush>>
            /\ AbortAll \/ UNCHANGED <<state, streams, acceptWaiters>>
        BY <2>19 DEF HandleConnectionClose
      <3>2. CASE AbortAll
        <4>1. state' \in [StreamIds -> States]
          BY <3>2 DEF AbortAll, States, CloseReasons
        <4>2. TableType'
          BY <3>1, <3>2 DEF AbortAll, TableType
        <4>3. ClosesType'
          BY <3>1 DEF ClosesType
        <4> QED  BY <2>b, <2>c, <2>d, <2>f, <3>1, <4>1, <4>2, <4>3
      <3>3. CASE UNCHANGED <<state, streams, acceptWaiters>>
        <4>1. TableType'
          BY <3>1, <3>3 DEF TableType
        <4>2. ClosesType'
          BY <3>1 DEF ClosesType
        <4> QED  BY <2>b, <2>c, <2>d, <2>f, <3>1, <3>3, <4>1, <4>2
      <3> QED  BY <3>1, <3>2, <3>3
    <2>20. CASE UNCHANGED vars
      BY <2>20, <2>a, <2>b, <2>c, <2>d, <2>e, <2>f DEF vars
    <2> QED
      BY <2>1, <2>2, <2>3, <2>4, <2>5, <2>6, <2>7, <2>8, <2>9, <2>10, <2>11, <2>12,
         <2>13, <2>14, <2>15, <2>16, <2>17, <2>18, <2>19, <2>20
      DEF Next, Application, HandleFrame, HandleStream, FlushStep
  <1> QED  BY <1>1, <1>2, PTL DEF Spec

-------------------------------------------------------------------------------
(* In no drain has a stream, or the connection, sent past the limit in     *)
(* force (flushSends, commitSend): limits only grow, and what one round    *)
(* sends fits into what both windows have left.                            *)
THEOREM SendsWithinWindows == Spec => []WithinWindows
  <1>1. Init => WithinWindows
    BY WindowsAssumption DEF Init, WithinWindows
  <1>2. TypeOK /\ TypeOK' /\ WithinWindows /\ [Next]_vars => WithinWindows'
    <2> SUFFICES ASSUME TypeOK, TypeOK', WithinWindows, [Next]_vars
                 PROVE  WithinWindows'
      OBVIOUS
    <2>0. /\ maxStreamData \in [StreamIds -> Nat] /\ dataSent \in [StreamIds -> Nat]
          /\ connectionMaxData \in Nat /\ connectionDataSent \in Nat
      BY DEF TypeOK, LimitsType, SendingType, WireType
    (* The steps that neither send nor move a limit. *)
    <2>a. UNCHANGED <<dataSent, maxStreamData, connectionDataSent, connectionMaxData>>
            => WithinWindows'
      BY DEF WithinWindows
    <2>1. ASSUME NEW id \in StreamIds, NEW initial \in States, CreateStream(id, initial),
                 UNCHANGED connectionDataSent
          PROVE  WithinWindows'
      <3>1. peerStreamWindow \in Nat
        BY WindowsAssumption DEF TypeOK, LimitsType
      <3> QED  BY <2>0, <2>1, <3>1 DEF CreateStream, WithinWindows
    <2>2. ASSUME NEW bidi \in BOOLEAN, OpenStream(bidi)
          PROVE  WithinWindows'
      BY <2>1, <2>2 DEF OpenStream, wire, States
    <2>3. ASSUME NEW id \in StreamIds, NEW fin \in BOOLEAN, HandleNewStream(id, fin)
          PROVE  WithinWindows'
      <3>1. (IF fin THEN TransitionOnRemoteFin("open") ELSE "open") \in States
        BY DEF TransitionOnRemoteFin, States
      <3> QED  BY <2>1, <2>3, <3>1 DEF HandleNewStream, wire
    <2>4. ASSUME NEW id \in StreamIds, NEW m \in StreamWindows, HandleMaxStreamData(id, m)
          PROVE  WithinWindows'
      <3>1. m \in Nat
        BY WindowsAssumption
      <3> QED
        BY <2>0, <2>4, <3>1 DEF HandleMaxStreamData, WithinWindows, sending, wire
    <2>5. ASSUME NEW m \in ConnWindows, HandleMaxData(m)
          PROVE  WithinWindows'
      <3>1. m \in Nat
        BY WindowsAssumption
      <3> QED
        BY <2>0, <2>5, <3>1 DEF HandleMaxData, WithinWindows, sending, wire
    <2>6. ASSUME NEW id \in StreamIds, FlushSend(id)
          PROVE  WithinWindows'
      <3> DEFINE n == MinOf(Allow(id), sendQueue[id])
      <3>1. /\ n \in Nat /\ n <= Allow(id) /\ Allow(id) \in Int
            /\ Allow(id) <= StreamWindow(id) /\ Allow(id) <= ConnWindow
        BY <2>6, AllowBounds, LengthBounds DEF FlushSend, TypeOK
      <3>2. /\ dataSent' = [dataSent EXCEPT ![id] = @ + n]
            /\ connectionDataSent' = connectionDataSent + n
            /\ UNCHANGED <<maxStreamData, connectionMaxData>>
        BY <2>6 DEF FlushSend, Commit, limits
      <3> HIDE DEF n
      <3>3. maxStreamData[id] \in Nat /\ dataSent[id] \in Nat
        BY <2>0
      <3>4. dataSent[id] + n <= maxStreamData[id]
        BY <3>1, <3>3 DEF StreamWindow
      <3>5. connectionDataSent + n <= connectionMaxData
        BY <2>0, <3>1 DEF ConnWindow
      <3> QED  BY <2>0, <3>2, <3>4, <3>5 DEF WithinWindows
    <2>7. ASSUME NEW bidi \in BOOLEAN, AcceptStream(bidi) \/ AcceptWait(bidi)
          PROVE  WithinWindows'
      BY <2>a, <2>7 DEF AcceptStream, AcceptWait, sending, limits, wire
    <2>8. ASSUME NEW id \in StreamIds,
                 \/ HandleLastStream(id) \/ HandleResetStream(id) \/ CloseStream(id)
                 \/ HandleStopSending(id) \/ \E n \in 1..MaxBytes : Write(id, n)
                 \/ FlushSkip(id) \/ FlushBlocked(id)
          PROVE  WithinWindows'
      BY <2>a, <2>8 DEF HandleLastStream, HandleResetStream, CloseStream, Write,
                        HandleStopSending, FlushSkip, FlushBlocked, sending, limits, wire
    <2>9. ASSUME \/ Close \/ HandleConnectionClose \/ FlushBegin \/ FlushEnd
                 \/ (\E w \in StreamWindows : UpdatePeerParameters(w))
                 \/ UNCHANGED vars
          PROVE  WithinWindows'
      BY <2>a, <2>9 DEF Close, HandleConnectionClose, FlushBegin, FlushEnd,
                        UpdatePeerParameters, vars, sending, limits, wire
    <2> QED
      BY <2>2, <2>3, <2>4, <2>5, <2>6, <2>7, <2>8, <2>9
      DEF Next, Application, HandleFrame, HandleStream, FlushStep
  <1> QED  BY <1>1, <1>2, TypeCorrect, PTL DEF Spec

-------------------------------------------------------------------------------
(* What is added to and removed from the map. *)
LEMMA AppendToMap ==
    ASSUME streams \in Seq(StreamIds), NEW id \in StreamIds, streams' = Append(streams, id),
           NEW s
    PROVE  InMap(s)' <=> InMap(s) \/ s = id
  <1>1. /\ Len(streams') = Len(streams) + 1 /\ streams'[Len(streams) + 1] = id
        /\ \A i \in 1..Len(streams) : streams'[i] = streams[i]
        /\ DOMAIN streams = 1..Len(streams) /\ DOMAIN streams' = 1..(Len(streams) + 1)
        /\ Len(streams) \in Nat
    OBVIOUS
  <1> QED  BY <1>1 DEF InMap, Range

LEMMA DeleteFromMap ==
    ASSUME streams \in Seq(StreamIds), NEW id, Delete(id), NEW s, s # id
    PROVE  InMap(s)' <=> InMap(s)
  <1>1. PICK i \in 1..Len(streams) : streams[i] = id /\ streams' = RemoveAt(streams, i)
    BY DEF Delete
  <1> DEFINE front == SubSeq(streams, 1, i - 1)
             back == SubSeq(streams, i + 1, Len(streams))
  <1>2. /\ front \in Seq(StreamIds) /\ Len(front) = i - 1
        /\ \A j \in 1..(i - 1) : front[j] = streams[j]
    OBVIOUS
  <1>3. /\ back \in Seq(StreamIds) /\ Len(back) = Len(streams) - i
        /\ \A j \in 1..(Len(streams) - i) : back[j] = streams[i + j]
    OBVIOUS
  <1>4. streams' = front \o back
    BY <1>1 DEF RemoveAt
  <1> HIDE DEF front, back
  <1>5. /\ Len(streams') = Len(streams) - 1
        /\ \A j \in 1..(i - 1) : streams'[j] = streams[j]
        /\ \A j \in i..(Len(streams) - 1) : streams'[j] = streams[j + 1]
        /\ DOMAIN streams' = 1..(Len(streams) - 1)
    <2>1. Len(streams') = Len(streams) - 1 /\ DOMAIN streams' = 1..(Len(streams) - 1)
      BY <1>2, <1>3, <1>4
    <2>2. ASSUME NEW j \in 1..(i - 1) PROVE streams'[j] = streams[j]
      BY <1>2, <1>3, <1>4
    <2>3. ASSUME NEW j \in i..(Len(streams) - 1) PROVE streams'[j] = streams[j + 1]
      <3>1. j - (i - 1) \in 1..(Len(streams) - i) /\ j \in 1..(Len(front) + Len(back))
        BY <1>2, <1>3
      <3>2. streams'[j] = back[j - (i - 1)]
        BY <1>2, <1>3, <1>4, <3>1
      <3>3. back[j - (i - 1)] = streams[i + (j - (i - 1))]
        BY <1>3, <3>1
      <3> QED  BY <3>2, <3>3
    <2> QED  BY <2>1, <2>2, <2>3
  <1>6. ASSUME InMap(s) PROVE InMap(s)'
    <2>1. PICK j \in 1..Len(streams) : streams[j] = s
      BY <1>6 DEF InMap, Range
    <2>2. CASE j < i
      BY <1>5, <2>1, <2>2 DEF InMap, Range
    <2>3. CASE j > i
      <3>1. j - 1 \in i..(Len(streams) - 1) /\ (j - 1) + 1 = j
        BY <2>3
      <3>2. streams'[j - 1] = s
        BY <1>5, <2>1, <3>1
      <3> QED  BY <1>5, <3>1, <3>2 DEF InMap, Range
    <2> QED  BY <1>1, <2>1, <2>2, <2>3
  <1>7. ASSUME InMap(s)' PROVE InMap(s)
    <2>1. PICK j \in 1..(Len(streams) - 1) : streams'[j] = s
      BY <1>5, <1>7 DEF InMap, Range
    <2>2. CASE j < i
      BY <1>5, <2>1, <2>2 DEF InMap, Range
    <2>3. CASE j >= i
      <3>1. j \in i..(Len(streams) - 1) /\ j + 1 \in 1..Len(streams)
        BY <2>3
      <3> QED  BY <1>5, <2>1, <3>1 DEF InMap, Range
    <2> QED  BY <2>2, <2>3
  <1> QED  BY <1>6, <1>7

-------------------------------------------------------------------------------
(* What a stream's object accounts for is what the wire has seen of it,    *)
(* nothing is left to send behind a FIN, and a stream that is not in the   *)
(* map is one that never was.                                              *)
Fresh(s) ==
    sendQueue[s] = 0 /\ dataSent[s] = 0 /\ sendFinPending[s] = FALSE /\ finSent[s] = FALSE

Accounted(s) ==
    /\ wireEnd[s] = dataSent[s]
    /\ wireFins[s] = IF finSent[s] THEN 1 ELSE 0
    /\ finSent[s] => sendQueue[s] = 0 /\ state[s] \notin {"open", "half_closed_remote"}
    /\ ~InMap(s) => Fresh(s)
    /\ s \in held => InMap(s)

SendInv == \A s \in Live : Accounted(s)

(* What a step of the promise does to one stream. *)
Moves(s) ==
    \/ Promise!Write(s) \/ Promise!End(s) \/ Promise!Withdraw(s)
    \/ Promise!SendData(s) \/ Promise!SendFin(s) \/ Promise!Rest(s)

SameAccount(s) ==
    /\ sendQueue'[s] = sendQueue[s] /\ dataSent'[s] = dataSent[s]
    /\ sendFinPending'[s] = sendFinPending[s] /\ finSent'[s] = finSent[s]
    /\ wireEnd'[s] = wireEnd[s] /\ wireFins'[s] = wireFins[s]

(* A stream that has no part in a step. *)
LEMMA OtherStream ==
    ASSUME NEW s \in StreamIds, Accounted(s), SameAccount(s),
           InMap(s)' <=> InMap(s),
           state'[s] \in {"open", "half_closed_remote"}
             => state[s] \in {"open", "half_closed_remote"},
           s \in held' => InMap(s)'
    PROVE  Accounted(s)' /\ Moves(s)
  <1>1. Accounted(s)'
    BY DEF Accounted, SameAccount, Fresh
  <1>2. Promise!Rest(s)
    BY DEF Promise!Rest, SameAccount
  <1> QED  BY <1>1, <1>2 DEF Moves

LEMMA CreateStreamKeepsAccount ==
    ASSUME TypeOK, TypeOK', NEW id \in StreamIds, NEW initial, CreateStream(id, initial),
           ~InMap(id), UNCHANGED wire, id \in held' \/ held' \subseteq held,
           held' \subseteq held \cup {id},
           NEW s \in StreamIds, Accounted(s)
    PROVE  Accounted(s)' /\ Moves(s)
  <1>1. InMap(s)' <=> InMap(s) \/ s = id
    BY AppendToMap DEF CreateStream, TypeOK, TableType
  <1>2. CASE s # id
    <2>1. SameAccount(s) /\ state'[s] = state[s]
      BY <1>2 DEF CreateStream, SameAccount, wire, TypeOK, SendingType
    <2>2. s \in held' => s \in held
      BY <1>2
    <2> QED  BY <1>1, <1>2, <2>1, <2>2, OtherStream DEF Accounted
  <1>3. CASE s = id
    <2>1. Fresh(s)
      BY <1>3 DEF Accounted
    <2>2. Fresh(s)'
      BY <1>3 DEF CreateStream, Fresh, TypeOK, SendingType
    <2>3. SameAccount(s)
      BY <2>1, <2>2 DEF SameAccount, Fresh, wire
    <2>4. Accounted(s)'
      BY <1>1, <1>3, <2>2, <2>3 DEF Accounted, Fresh, SameAccount
    <2>5. Promise!Rest(s)
      BY <2>3 DEF Promise!Rest, SameAccount
    <2> QED  BY <2>4, <2>5 DEF Moves
  <1> QED  BY <1>2, <1>3

(* One round of the drain's loop, for the stream it is at. *)
LEMMA FlushSendKeepsAccount ==
    ASSUME TypeOK, TypeOK', NEW id \in StreamIds, FlushSend(id), Accounted(id)
    PROVE  Accounted(id)' /\ Moves(id)
  <1> DEFINE n == MinOf(Allow(id), sendQueue[id])
             fin == IsLastOfStream(id, n)
  <1>1. Allow(id) > 0 /\ Allow(id) \in Int /\ HasPendingSend(id) /\ InMap(id)
    <2>1. Allow(id) \in Int
      BY AllowBounds DEF TypeOK
    <2>2. At(id) /\ Allow(id) > 0 /\ HasPendingSend(id)
      BY DEF FlushSend
    <2>3. InMap(id)
      BY <2>2 DEF At, InMap, Range, TypeOK, TableType, FlushType
    <2> QED  BY <2>1, <2>2, <2>3
  <1>2. /\ n \in Nat /\ n <= sendQueue[id] /\ sendQueue[id] \in Nat
        /\ sendQueue[id] > 0 => n > 0
    BY <1>1, LengthBounds DEF TypeOK, SendingType, MinOf, FlushSend
  <1>3. /\ Commit(id, n, fin)
        /\ UNCHANGED <<table, sendFinPending, limits, closes, phase>>
    BY DEF FlushSend
  <1>4. fin <=> sendFinPending[id] /\ sendQueue[id] <= n
    BY DEF IsLastOfStream
  <1>5. fin \in BOOLEAN
    BY DEF IsLastOfStream
  <1> HIDE DEF n, fin
  <1>6. finSent[id] = FALSE
    <2>1. finSent[id] => sendQueue[id] = 0
      BY DEF Accounted
    <2>2. finSent[id] => ~HasPendingSend(id)
      BY <2>1 DEF HasPendingSend
    <2> QED  BY <1>1, <2>2 DEF TypeOK, SendingType
  <1>7. /\ wireEnd[id] = dataSent[id] /\ wireFins[id] = 0
        /\ dataSent[id] \in Nat
    BY <1>6 DEF Accounted, TypeOK, SendingType
  <1>8. /\ sendQueue'[id] = sendQueue[id] - n /\ dataSent'[id] = dataSent[id] + n
        /\ wireEnd'[id] = dataSent[id] + n
    BY <1>2, <1>3, <1>7 DEF Commit, TypeOK, SendingType, WireType
  <1>9. /\ fin => /\ finSent'[id] = TRUE /\ wireFins'[id] = 1
                  /\ state'[id] \notin {"open", "half_closed_remote"}
        /\ ~fin => finSent'[id] = FALSE /\ wireFins'[id] = 0 /\ state'[id] = state[id]
    BY <1>3, <1>6, <1>7
    DEF Commit, CommitFin, TransitionOnLocalFin, TypeOK, SendingType, WireType
  <1>10. sendFinPending'[id] = sendFinPending[id]
    BY <1>3
  <1>11. InMap(id)'
    BY <1>1, <1>3 DEF table, InMap
  <1>12. fin => sendQueue'[id] = 0
    BY <1>2, <1>4, <1>8
  <1>13. Accounted(id)'
    BY <1>5, <1>8, <1>9, <1>11, <1>12 DEF Accounted
  <1>14. CASE fin
    <2>1. dataSent[id] + n = dataSent[id] + sendQueue[id]
      BY <1>2, <1>4, <1>14
    <2>2. (dataSent[id] + n) + (sendQueue[id] - n) = dataSent[id] + sendQueue[id]
      BY <1>2, <1>7
    <2>3. sendFinPending[id]
      BY <1>4, <1>14
    <2>4. Promise!SendFin(id)
      BY <1>7, <1>8, <1>9, <1>10, <1>14, <2>1, <2>2, <2>3 DEF Promise!SendFin
    <2> QED  BY <1>13, <2>4 DEF Moves
  <1>15. CASE ~fin
    <2>1. n > 0
      BY <1>1, <1>2, <1>4, <1>6, <1>15 DEF HasPendingSend
    <2>2. (dataSent[id] + n) + (sendQueue[id] - n) = dataSent[id] + sendQueue[id]
      BY <1>2, <1>7
    <2>3. /\ dataSent[id] < dataSent[id] + n
          /\ dataSent[id] + n <= dataSent[id] + sendQueue[id]
      BY <1>2, <1>7, <2>1
    <2>4. Promise!SendData(id)
      BY <1>7, <1>8, <1>9, <1>10, <1>15, <2>2, <2>3 DEF Promise!SendData
    <2> QED  BY <1>13, <2>4 DEF Moves
  <1> QED  BY <1>14, <1>15

(* Every stream of ours that is in the map is below the next of its type.  *)
IdsInv ==
    \A bidi \in BOOLEAN :
        /\ nextId[bidi] % 4 = FirstStreamId(bidi)
        /\ \A s \in StreamIds : InMap(s) /\ ClientInitiated(s) /\ Bidirectional(s) = bidi
                                  => s < nextId[bidi]

(* The two low bits of a stream id are its type. *)
LEMMA TypeBits ==
    ASSUME NEW n \in Nat, NEW bidi \in BOOLEAN, n % 4 = FirstStreamId(bidi)
    PROVE  /\ ClientInitiated(n) /\ Bidirectional(n) = bidi
           /\ (n + 4) % 4 = FirstStreamId(bidi)
  <1>1. CASE bidi = TRUE
    <2>1. n % 4 = 0
      BY <1>1 DEF FirstStreamId
    <2>2. n % 2 = 0 /\ (n \div 2) % 2 = 0 /\ (n + 4) % 4 = 0
      BY <2>1
    <2> QED  BY <1>1, <2>2 DEF FirstStreamId, ClientInitiated, Bidirectional
  <1>2. CASE bidi = FALSE
    <2>1. n % 4 = 2
      BY <1>2 DEF FirstStreamId
    <2>2. n % 2 = 0 /\ (n \div 2) % 2 = 1 /\ (n + 4) % 4 = 2
      BY <2>1
    <2> QED  BY <1>2, <2>2 DEF FirstStreamId, ClientInitiated, Bidirectional
  <1> QED  BY <1>1, <1>2

LEMMA NextIsNew ==
    ASSUME TypeOK, IdsInv, NEW bidi \in BOOLEAN, nextId[bidi] \in StreamIds
    PROVE  ~InMap(nextId[bidi])
  <1>1. nextId[bidi] \in Nat /\ nextId[bidi] % 4 = FirstStreamId(bidi)
    BY DEF TypeOK, TableType, IdsInv
  <1>2. ClientInitiated(nextId[bidi]) /\ Bidirectional(nextId[bidi]) = bidi
    BY <1>1, TypeBits
  <1> QED  BY <1>1, <1>2 DEF IdsInv

LEMMA IdsInvKept ==
    ASSUME TypeOK, IdsInv, [Next]_vars
    PROVE  IdsInv'
  (* Steps that add nothing to the map. *)
  <1>a. ASSUME nextId' = nextId, \A s \in StreamIds : InMap(s)' => InMap(s)
        PROVE  IdsInv'
    BY <1>a DEF IdsInv
  <1>b. streams' = streams => \A s \in StreamIds : InMap(s)' => InMap(s)
    BY DEF InMap
  <1>1. ASSUME NEW bidi \in BOOLEAN, OpenStream(bidi) PROVE IdsInv'
    <2> DEFINE n == nextId[bidi]
    <2>1. /\ streams' = Append(streams, n) /\ n \in StreamIds
          /\ nextId' = [nextId EXCEPT ![bidi] = n + 4]
      BY <1>1 DEF OpenStream, CreateStream
    <2>2. n \in Nat /\ n % 4 = FirstStreamId(bidi)
      BY DEF TypeOK, TableType, IdsInv
    <2>3. Bidirectional(n) = bidi /\ (n + 4) % 4 = FirstStreamId(bidi)
      BY <2>2, TypeBits
    <2>4. \A s \in StreamIds : InMap(s)' <=> InMap(s) \/ s = n
      BY <2>1, AppendToMap DEF TypeOK, TableType
    <2> SUFFICES ASSUME NEW b \in BOOLEAN
                 PROVE  /\ nextId'[b] % 4 = FirstStreamId(b)
                        /\ \A s \in StreamIds : InMap(s)' /\ ClientInitiated(s) /\ Bidirectional(s) = b
                                                  => s < nextId'[b]
      BY DEF IdsInv
    <2>5. nextId'[b] = IF b = bidi THEN n + 4 ELSE nextId[b]
      BY <2>1 DEF TypeOK, TableType
    <2> HIDE DEF n
    <2>6. nextId'[b] % 4 = FirstStreamId(b)
      BY <2>3, <2>5 DEF IdsInv
    <2>7. ASSUME NEW s \in StreamIds, InMap(s)', ClientInitiated(s), Bidirectional(s) = b
          PROVE  s < nextId'[b]
      <3>1. s \in Nat
        BY IdsAssumption
      <3>2. CASE s = n
        BY <2>2, <2>3, <2>5, <2>7, <3>2
      <3>3. CASE s # n
        <4>1. s < nextId[b]
          BY <2>4, <2>7, <3>3 DEF IdsInv
        <4>2. nextId[b] \in Nat
          BY DEF TypeOK, TableType
        <4>3. b = bidi => nextId[b] = n
          BY DEF n
        <4> QED  BY <2>2, <2>5, <3>1, <4>1, <4>2, <4>3
      <3> QED  BY <3>2, <3>3
    <2> QED  BY <2>6, <2>7
  <1>2. ASSUME NEW id \in StreamIds, NEW fin \in BOOLEAN, HandleNewStream(id, fin)
        PROVE  IdsInv'
    <2>1. streams' = Append(streams, id) /\ ~ClientInitiated(id) /\ nextId' = nextId
      BY <1>2 DEF HandleNewStream, CreateStream
    <2>2. \A s \in StreamIds : InMap(s)' <=> InMap(s) \/ s = id
      BY <2>1, AppendToMap DEF TypeOK, TableType
    <2> QED  BY <2>1, <2>2 DEF IdsInv
  <1>3. ASSUME NEW id \in StreamIds, HandleResetStream(id) PROVE IdsInv'
    <2>1. InMap(id) /\ Delete(id) /\ nextId' = nextId
      BY <1>3 DEF HandleResetStream
    <2>2. \A s \in StreamIds : s # id => (InMap(s)' <=> InMap(s))
      BY <2>1, DeleteFromMap DEF TypeOK, TableType
    <2> QED  BY <1>a, <2>1, <2>2
  <1>4. ASSUME HandleConnectionClose PROVE IdsInv'
    <2>1. nextId' = nextId /\ (streams' = <<>> \/ streams' = streams)
      BY <1>4 DEF HandleConnectionClose, AbortAll
    <2>2. streams' = <<>> => \A s \in StreamIds : ~InMap(s)'
      BY DEF InMap, Range
    <2> QED  BY <1>a, <1>b, <2>1, <2>2
  <1>5. ASSUME \/ \E bidi \in BOOLEAN : AcceptStream(bidi) \/ AcceptWait(bidi)
               \/ \E id \in StreamIds : \/ HandleLastStream(id) \/ CloseStream(id)
                                        \/ HandleStopSending(id)
                                        \/ FlushSkip(id) \/ FlushBlocked(id) \/ FlushSend(id)
                                        \/ \E n \in 1..MaxBytes : Write(id, n)
                                        \/ \E m \in StreamWindows : HandleMaxStreamData(id, m)
               \/ \E m \in ConnWindows : HandleMaxData(m)
               \/ \E w \in StreamWindows : UpdatePeerParameters(w)
               \/ Close \/ FlushBegin \/ FlushEnd \/ UNCHANGED vars
        PROVE  IdsInv'
    <2>1. nextId' = nextId /\ streams' = streams
      BY <1>5 DEF AcceptStream, AcceptWait, HandleLastStream, CloseStream, HandleStopSending,
           FlushSkip, FlushBlocked, FlushSend, Write, HandleMaxStreamData, HandleMaxData,
           UpdatePeerParameters, Close, FlushBegin, FlushEnd, vars, table
    <2> QED  BY <1>a, <1>b, <2>1
  <1> QED
    BY <1>1, <1>2, <1>3, <1>4, <1>5 DEF Next, Application, HandleFrame, HandleStream, FlushStep

LEMMA SendInvKept ==
    ASSUME TypeOK, TypeOK', IdsInv, SendInv, [Next]_vars
    PROVE  Live' \subseteq Live /\ \A s \in Live' : Accounted(s)' /\ Moves(s)
  <1>1. Live' \subseteq Live
    <2>1. (closing => closing') /\ \A s \in StreamIds : resets[s] <= resets'[s]
      <3>1. /\ resets \in [StreamIds -> Nat]
            /\ UNCHANGED resets => \A s \in StreamIds : resets[s] <= resets'[s]
        BY DEF TypeOK, ClosesType
      <3>2. ASSUME NEW id \in StreamIds, HandleResetStream(id)
            PROVE  UNCHANGED closing /\ \A s \in StreamIds : resets[s] <= resets'[s]
        BY <3>1, <3>2 DEF HandleResetStream
      <3>3. ASSUME Application PROVE (closing => closing') /\ UNCHANGED resets
        BY <3>3 DEF Application, OpenStream, AcceptStream, AcceptWait, CloseStream, Write,
                    Close, closes
      <3>4. ASSUME \/ \E id \in StreamIds :
                         \/ HandleStream(id) \/ HandleStopSending(id)
                         \/ \E m \in StreamWindows : HandleMaxStreamData(id, m)
                   \/ \E m \in ConnWindows : HandleMaxData(m)
                   \/ HandleConnectionClose
            PROVE  (closing => closing') /\ UNCHANGED resets
        BY <3>4 DEF HandleStream, HandleNewStream, HandleLastStream, HandleStopSending,
             HandleMaxStreamData, HandleMaxData, HandleConnectionClose, closes
      <3>5. ASSUME \/ \E w \in StreamWindows : UpdatePeerParameters(w)
                   \/ FlushBegin \/ FlushStep \/ UNCHANGED vars
            PROVE  (closing => closing') /\ UNCHANGED resets
        BY <3>5 DEF UpdatePeerParameters, FlushBegin, FlushStep, FlushEnd, FlushSkip,
                    FlushBlocked, FlushSend, vars, closes
      <3> QED  BY <3>1, <3>2, <3>3, <3>4, <3>5 DEF Next, HandleFrame
    <2>2. ASSUME NEW s \in StreamIds, resets'[s] = 0 PROVE resets[s] = 0
      BY <2>1, <2>2 DEF TypeOK, ClosesType
    <2> QED  BY <2>1, <2>2 DEF Live
  <1> SUFFICES ASSUME NEW s \in Live' PROVE Accounted(s)' /\ Moves(s)
    BY <1>1
  <1>2. s \in StreamIds /\ s \in Live /\ Accounted(s) /\ ~closing' /\ resets'[s] = 0
    BY <1>1 DEF Live, SendInv
  (* Steps that touch no account, and leave the map as it is. *)
  <1>a. ASSUME UNCHANGED <<streams, sending, wire>>,
               state'[s] = state[s]
                 \/ state'[s] \notin {"open", "half_closed_remote"},
               s \in held' => s \in held
        PROVE  Accounted(s)' /\ Moves(s)
    <2>1. SameAccount(s)
      BY <1>a DEF SameAccount, sending, wire
    <2>2. InMap(s)' <=> InMap(s)
      BY <1>a DEF InMap
    <2> QED  BY <1>2, <1>a, <2>1, <2>2, OtherStream DEF Accounted
  <1>3. ASSUME NEW bidi \in BOOLEAN, OpenStream(bidi) PROVE Accounted(s)' /\ Moves(s)
    <2>1. /\ CreateStream(nextId[bidi], "open") /\ nextId[bidi] \in StreamIds
          /\ held' = held \cup {nextId[bidi]} /\ UNCHANGED wire
      BY <1>3 DEF OpenStream
    <2>2. ~InMap(nextId[bidi])
      BY <2>1, NextIsNew
    <2> QED  BY <1>2, <2>1, <2>2, CreateStreamKeepsAccount
  <1>4. ASSUME NEW bidi \in BOOLEAN, AcceptStream(bidi) PROVE Accounted(s)' /\ Moves(s)
    <2>1. PICK i \in Waiting(bidi) : HandOut(streams[i])
      BY <1>4 DEF AcceptStream
    <2>2. InMap(streams[i])
      BY DEF Waiting, InMap, Range, TypeOK, TableType
    <2>3. UNCHANGED <<streams, state, sending, wire>>
      BY <1>4 DEF AcceptStream
    <2>4. SameAccount(s) /\ (InMap(s)' <=> InMap(s))
      BY <2>3 DEF SameAccount, sending, wire, InMap
    <2>5. s \in held' => s \in held \/ s = streams[i]
      BY <2>1 DEF HandOut
    <2>6. s \in held' => InMap(s)'
      BY <1>2, <2>2, <2>4, <2>5 DEF Accounted
    <2> QED  BY <1>2, <2>3, <2>4, <2>6, OtherStream
  <1>5. ASSUME NEW bidi \in BOOLEAN, AcceptWait(bidi) PROVE Accounted(s)' /\ Moves(s)
    BY <1>5, <1>a DEF AcceptWait
  <1>6. ASSUME NEW id \in StreamIds, NEW fin \in BOOLEAN, HandleNewStream(id, fin)
        PROVE  Accounted(s)' /\ Moves(s)
    <2>1. held' \subseteq held \cup {id} /\ (id \in held' \/ held' \subseteq held)
      BY <1>6 DEF HandleNewStream, WakeAcceptWaiter, HandOut
    <2>2. /\ CreateStream(id, IF fin THEN TransitionOnRemoteFin("open") ELSE "open")
          /\ ~InMap(id) /\ UNCHANGED wire
      BY <1>6 DEF HandleNewStream
    <2> QED  BY <1>2, <2>1, <2>2, CreateStreamKeepsAccount
  <1>7. ASSUME NEW id \in StreamIds, HandleLastStream(id) PROVE Accounted(s)' /\ Moves(s)
    <2>1. SameAccount(s) /\ (InMap(s)' <=> InMap(s)) /\ held' = held
      BY <1>7 DEF HandleLastStream, SameAccount, sending, wire, table, InMap
    <2>2. state'[s] \in {"open", "half_closed_remote"}
            => state[s] \in {"open", "half_closed_remote"}
      BY <1>7 DEF HandleLastStream, TransitionOnRemoteFin, TypeOK
    <2> QED  BY <1>2, <2>1, <2>2, OtherStream DEF Accounted
  <1>8. ASSUME NEW id \in StreamIds, HandleResetStream(id) PROVE Accounted(s)' /\ Moves(s)
    <2>1. s # id
      BY <1>2, <1>8 DEF HandleResetStream, TypeOK, ClosesType
    <2>2. state'[s] = state[s] /\ held' = held
      BY <1>2, <1>8, <2>1 DEF HandleResetStream, TypeOK
    <2>a. Delete(id) /\ streams \in Seq(StreamIds)
      BY <1>8 DEF HandleResetStream, TypeOK, TableType
    <2>d. InMap(s)' <=> InMap(s)
      BY <1>2, <2>1, <2>a, DeleteFromMap
    <2>3. SameAccount(s)
      BY <1>8 DEF HandleResetStream, SameAccount, sending, wire
    <2> QED  BY <1>2, <2>2, <2>d, <2>3, OtherStream DEF Accounted
  <1>9. ASSUME NEW id \in StreamIds, NEW n \in 1..MaxBytes, Write(id, n)
        PROVE  Accounted(s)' /\ Moves(s)
    <2>1. UNCHANGED <<streams, held, state, wire, finSent, dataSent, sendFinPending>>
      BY <1>9 DEF Write, table
    <2>2. InMap(s)' <=> InMap(s)
      BY <2>1 DEF InMap
    <2>3. CASE s # id
      <3>1. SameAccount(s)
        BY <1>9, <2>1, <2>3 DEF Write, SameAccount, wire, TypeOK, SendingType
      <3> QED  BY <1>2, <2>1, <2>2, <3>1, OtherStream DEF Accounted
    <2>4. CASE s = id
      <3>1. state[s] \in {"open", "half_closed_remote"} /\ InMap(s)
        BY <1>2, <1>9, <2>4 DEF Write, Accounted
      <3>2. finSent[s] = FALSE /\ wireFins[s] = 0
        BY <1>2, <3>1 DEF Accounted, TypeOK, SendingType
      <3>3. /\ n \in Nat /\ n > 0 /\ sendQueue[s] \in Nat /\ dataSent[s] \in Nat
            /\ sendQueue'[s] = sendQueue[s] + n
        BY <1>2, <1>9, <2>4, WindowsAssumption DEF Write, TypeOK, SendingType
      <3>4. dataSent[s] + (sendQueue[s] + n) > dataSent[s] + sendQueue[s]
        BY <3>3
      <3>5. Promise!Write(s)
        BY <1>2, <2>1, <3>2, <3>3, <3>4 DEF Promise!Write, wire
      <3>6. Accounted(s)'
        BY <1>2, <2>1, <2>2, <3>1, <3>2 DEF Accounted, wire
      <3> QED  BY <3>5, <3>6 DEF Moves
    <2> QED  BY <2>3, <2>4
  <1>10. ASSUME NEW id \in StreamIds, CloseStream(id) PROVE Accounted(s)' /\ Moves(s)
    <2>1. UNCHANGED <<streams, held, state, wire, finSent, dataSent, sendQueue>>
      BY <1>10 DEF CloseStream, table
    <2>2. InMap(s)' <=> InMap(s)
      BY <2>1 DEF InMap
    <2>3. CASE s # id
      <3>1. SameAccount(s)
        BY <1>10, <2>1, <2>3 DEF CloseStream, SameAccount, wire, TypeOK, SendingType
      <3> QED  BY <1>2, <2>1, <2>2, <3>1, OtherStream DEF Accounted
    <2>4. CASE s = id
      <3>1. sendFinPending'[s] = TRUE
        BY <1>2, <1>10, <2>4 DEF CloseStream, TypeOK, SendingType
      <3>2. InMap(s)
        BY <1>2, <1>10, <2>4 DEF CloseStream, Accounted
      <3>3. Promise!End(s)
        BY <2>1, <3>1 DEF Promise!End, wire
      <3>4. Accounted(s)'
        BY <1>2, <2>1, <2>2, <3>2 DEF Accounted, wire
      <3> QED  BY <3>3, <3>4 DEF Moves
    <2> QED  BY <2>3, <2>4
  <1>11. ASSUME NEW id \in StreamIds, HandleStopSending(id) PROVE Accounted(s)' /\ Moves(s)
    <2>1. UNCHANGED <<streams, held, state, wire, finSent, dataSent>>
      BY <1>11 DEF HandleStopSending, table
    <2>2. InMap(s)' <=> InMap(s)
      BY <2>1 DEF InMap
    <2>3. CASE s # id
      <3>1. SameAccount(s)
        BY <1>11, <2>1, <2>3 DEF HandleStopSending, SameAccount, wire, TypeOK, SendingType
      <3> QED  BY <1>2, <2>1, <2>2, <3>1, OtherStream DEF Accounted
    <2>4. CASE s = id
      <3>1. sendFinPending'[s] = FALSE /\ sendQueue'[s] = 0
        BY <1>2, <1>11, <2>4 DEF HandleStopSending, TypeOK, SendingType
      <3>2. InMap(s)
        BY <1>11, <2>4 DEF HandleStopSending
      <3>3. dataSent[s] + 0 = wireEnd[s]
        BY <1>2 DEF Accounted, TypeOK, SendingType
      <3>4. Promise!Withdraw(s)
        BY <1>2, <2>1, <3>1, <3>3 DEF Promise!Withdraw, wire
      <3>5. Accounted(s)'
        BY <1>2, <2>1, <2>2, <3>1, <3>2 DEF Accounted, wire
      <3> QED  BY <3>4, <3>5 DEF Moves
    <2> QED  BY <2>3, <2>4
  <1>12. ASSUME NEW id \in StreamIds, NEW m \in StreamWindows, HandleMaxStreamData(id, m)
         PROVE  Accounted(s)' /\ Moves(s)
    BY <1>12, <1>a DEF HandleMaxStreamData, table
  <1>13. ASSUME NEW m \in ConnWindows, HandleMaxData(m) PROVE Accounted(s)' /\ Moves(s)
    BY <1>13, <1>a DEF HandleMaxData, table
  <1>14. ASSUME NEW w \in StreamWindows, UpdatePeerParameters(w)
         PROVE  Accounted(s)' /\ Moves(s)
    BY <1>14, <1>a DEF UpdatePeerParameters, table
  <1>15. ASSUME NEW id \in StreamIds, FlushSend(id) PROVE Accounted(s)' /\ Moves(s)
    <2>1. CASE s = id
      BY <1>2, <1>15, <2>1, FlushSendKeepsAccount
    <2>2. CASE s # id
      <3>1. UNCHANGED <<table, sendFinPending>>
        BY <1>15 DEF FlushSend
      <3> DEFINE n == MinOf(Allow(id), sendQueue[id])
                 fin == IsLastOfStream(id, n)
      <3>2. Commit(id, n, fin) /\ fin \in BOOLEAN
        BY <1>15 DEF FlushSend, IsLastOfStream
      <3> HIDE DEF n, fin
      <3>3. SameAccount(s) /\ state'[s] = state[s]
        BY <1>2, <2>2, <3>1, <3>2
        DEF Commit, CommitFin, SameAccount, TypeOK, SendingType, WireType
      <3>4. held' = held /\ (InMap(s)' <=> InMap(s))
        BY <3>1 DEF table, InMap
      <3> QED  BY <1>2, <3>3, <3>4, OtherStream DEF Accounted
    <2> QED  BY <2>1, <2>2
  <1>16. ASSUME NEW id \in StreamIds, FlushSkip(id) \/ FlushBlocked(id)
         PROVE  Accounted(s)' /\ Moves(s)
    BY <1>16, <1>a DEF FlushSkip, FlushBlocked, table
  <1>17. ASSUME FlushBegin \/ FlushEnd PROVE Accounted(s)' /\ Moves(s)
    BY <1>17, <1>a DEF FlushBegin, FlushEnd, table
  <1>18. ASSUME Close \/ HandleConnectionClose PROVE Accounted(s)' /\ Moves(s)
    BY <1>2, <1>18 DEF Close, HandleConnectionClose
  <1>19. ASSUME UNCHANGED vars PROVE Accounted(s)' /\ Moves(s)
    BY <1>19, <1>a DEF vars, table
  <1> QED
    BY <1>3, <1>4, <1>5, <1>6, <1>7, <1>8, <1>9, <1>10, <1>11, <1>12, <1>13, <1>14, <1>15,
       <1>16, <1>17, <1>18, <1>19
    DEF Next, Application, HandleFrame, HandleStream, FlushStep

(* Whatever limits, STOP_SENDING, resets and closes come between the       *)
(* drains, what flushSends puts on the wire for a stream is what was       *)
(* written to it, each byte once, and its FIN once, behind the last byte.  *)
THEOREM SendingImplementsSendStream == Spec => KeepsPromise
  <1>1. Init => IdsInv /\ SendInv /\ Promise!Init
    <2> SUFFICES ASSUME Init PROVE IdsInv /\ SendInv /\ Promise!Init
      OBVIOUS
    <2>1. \A s : ~InMap(s)
      BY DEF Init, InMap, Range
    <2>2. IdsInv
      BY <2>1 DEF Init, IdsInv, FirstStreamId
    <2>3. SendInv
      BY <2>1 DEF Init, SendInv, Accounted, Fresh, Live
    <2>4. Promise!Init
      BY DEF Init, Promise!Init, Live
    <2> QED  BY <2>2, <2>3, <2>4
  <1>2. TypeOK /\ TypeOK' /\ IdsInv /\ SendInv /\ [Next]_vars
          => IdsInv' /\ SendInv' /\ Promise!Next
    <2> SUFFICES ASSUME TypeOK, TypeOK', IdsInv, SendInv, [Next]_vars
                 PROVE  IdsInv' /\ SendInv' /\ Promise!Next
      OBVIOUS
    <2>1. IdsInv'
      BY IdsInvKept
    <2>2. Live' \subseteq Live /\ \A s \in Live' : Accounted(s)' /\ Moves(s)
      BY SendInvKept
    <2>3. SendInv'
      BY <2>2 DEF SendInv
    <2>4. Promise!Next
      BY <2>2 DEF Promise!Next, Moves
    <2> QED  BY <2>1, <2>3, <2>4
  <1> QED  BY <1>1, <1>2, TypeCorrect, PTL DEF Spec, KeepsPromise, Promise!Spec

-------------------------------------------------------------------------------
(* A drain that has budget left has passed no stream it could have served. *)
Exhausted(s) == HasPendingSend(s) => ConnWindow <= 0 \/ StreamWindow(s) <= 0

ServedBehind ==
    phase = "flush" /\ budget > 0 =>
        \A i \in 1..Len(streams) : i < cursor => Exhausted(streams[i])

LEMMA FlushSendExhausts ==
    ASSUME TypeOK, NEW id \in StreamIds, FlushSend(id), budget' > 0
    PROVE  /\ Exhausted(id)'
           /\ \A s \in StreamIds \ {id} : Exhausted(s) => Exhausted(s)'
  <1> DEFINE n == MinOf(Allow(id), sendQueue[id])
             fin == IsLastOfStream(id, n)
  <1>1. /\ Commit(id, n, fin) /\ Allow(id) > 0 /\ HasPendingSend(id)
        /\ UNCHANGED <<sendFinPending, maxStreamData, connectionMaxData>>
    BY DEF FlushSend, limits
  <1>2. /\ n \in Nat /\ n <= sendQueue[id] /\ n <= Allow(id)
        /\ n = sendQueue[id] \/ n = Allow(id)
    BY <1>1, LengthBounds DEF TypeOK, MinOf
  <1>3. /\ sendQueue[id] \in Nat /\ dataSent[id] \in Nat /\ maxStreamData[id] \in Nat
        /\ connectionMaxData \in Nat /\ connectionDataSent \in Nat /\ budget \in Nat
        /\ sendFinPending[id] \in BOOLEAN
    BY WindowsAssumption DEF TypeOK, SendingType, LimitsType, WireType, FlushType
  <1>4. /\ sendQueue' = [sendQueue EXCEPT ![id] = @ - n]
        /\ dataSent' = [dataSent EXCEPT ![id] = @ + n]
        /\ fin => finSent' = [finSent EXCEPT ![id] = TRUE]
        /\ ~fin => finSent' = finSent
        /\ connectionDataSent' = connectionDataSent + n /\ budget' = budget - n
    BY <1>1 DEF Commit, CommitFin
  <1>5. fin <=> sendFinPending[id] /\ sendQueue[id] <= n
    BY DEF IsLastOfStream
  <1> HIDE DEF n, fin
  <1>6. /\ DOMAIN sendQueue = StreamIds /\ DOMAIN dataSent = StreamIds
        /\ DOMAIN finSent = StreamIds
    BY DEF TypeOK, SendingType
  <1>7. Exhausted(id)'
    <2>1. CASE n = sendQueue[id]
      <3>1. sendQueue'[id] = 0
        BY <1>3, <1>4, <1>6, <2>1
      <3>2. sendFinPending'[id] => finSent'[id]
        <4>1. sendFinPending[id] => fin
          BY <1>3, <1>5, <2>1
        <4> QED  BY <1>1, <1>4, <1>6, <4>1
      <3>3. ~HasPendingSend(id)'
        BY <3>1, <3>2 DEF HasPendingSend
      <3> QED  BY <3>3 DEF Exhausted
    <2>2. CASE n = Allow(id) /\ n # sendQueue[id]
      <3>1. n = StreamWindow(id) \/ n = ConnWindow
        BY <1>2, <1>3, <1>4, <2>2 DEF Allow, MinOf
      <3>2. dataSent'[id] = dataSent[id] + n
        BY <1>4, <1>6
      <3>3. StreamWindow(id)' <= 0 \/ ConnWindow' <= 0
        BY <1>1, <1>2, <1>3, <1>4, <3>1, <3>2 DEF StreamWindow, ConnWindow
      <3> QED  BY <3>3 DEF Exhausted
    <2> QED  BY <1>2, <2>1, <2>2
  <1>8. ASSUME NEW s \in StreamIds \ {id}, Exhausted(s) PROVE Exhausted(s)'
    <2>1. /\ sendQueue'[s] = sendQueue[s] /\ dataSent'[s] = dataSent[s]
          /\ finSent'[s] = finSent[s]
      BY <1>4, <1>6
    <2>2. HasPendingSend(s)' => HasPendingSend(s)
      BY <1>1, <2>1 DEF HasPendingSend
    <2>3. StreamWindow(s)' = StreamWindow(s)
      BY <1>1, <2>1 DEF StreamWindow
    <2>4. ConnWindow <= 0 => ConnWindow' <= 0
      BY <1>1, <1>2, <1>3, <1>4 DEF ConnWindow
    <2> QED  BY <1>8, <2>2, <2>3, <2>4 DEF Exhausted
  <1> QED  BY <1>7, <1>8

LEMMA ServedBehindKept ==
    ASSUME TypeOK, ServedBehind, [Next]_vars
    PROVE  ServedBehind'
  <1>0. streams \in Seq(StreamIds) /\ cursor \in Nat \ {0} /\ Len(streams) \in Nat
    BY DEF TypeOK, TableType, FlushType
  (* The loop passes stream id and leaves nothing of it that could be sent. *)
  <1>a. ASSUME NEW id \in StreamIds, At(id), cursor' = cursor + 1, streams' = streams,
               budget' > 0 => Exhausted(id)' /\ budget > 0,
               budget' > 0 => \A s \in StreamIds \ {id} : Exhausted(s) => Exhausted(s)'
        PROVE  ServedBehind'
    <2> SUFFICES ASSUME budget' > 0, NEW i \in 1..Len(streams), i < cursor'
                 PROVE  Exhausted(streams[i])'
      BY <1>a DEF ServedBehind
    <2>1. streams[i] \in StreamIds /\ (streams[i])' = streams[i]
      BY <1>0, <1>a
    <2>2. CASE streams[i] = id
      BY <1>a, <2>1, <2>2
    <2>3. CASE streams[i] # id
      <3>1. i < cursor
        BY <1>0, <1>a, <2>3 DEF At
      <3>2. Exhausted(streams[i])
        BY <1>a, <3>1 DEF ServedBehind, At
      <3> QED  BY <1>a, <2>1, <2>3, <3>2
    <2> QED  BY <2>2, <2>3
  <1>1. ASSUME NEW id \in StreamIds, FlushSend(id) PROVE ServedBehind'
    <2>1. At(id) /\ cursor' = cursor + 1 /\ streams' = streams
      BY <1>1 DEF FlushSend, table
    <2>2. budget > 0
      BY <2>1 DEF At
    <2> QED  BY <1>1, <1>a, <2>1, <2>2, FlushSendExhausts
  <1>2. ASSUME NEW id \in StreamIds, FlushSkip(id) \/ FlushBlocked(id) PROVE ServedBehind'
    <2>1. /\ At(id) /\ cursor' = cursor + 1
          /\ UNCHANGED <<streams, sending, limits, wire, budget>>
      BY <1>2 DEF FlushSkip, FlushBlocked, table
    <2>2. UNCHANGED <<sendQueue, sendFinPending, finSent, dataSent, maxStreamData,
                      connectionMaxData, connectionDataSent>>
      BY <2>1 DEF sending, limits, wire
    <2>3. budget \in Nat /\ budget > 0
      BY <2>1, WindowsAssumption DEF At, TypeOK, FlushType
    <2>4. \A s \in StreamIds : Exhausted(s)' <=> Exhausted(s)
      BY <2>2 DEF Exhausted, HasPendingSend, ConnWindow, StreamWindow
    <2>5. Exhausted(id)
      <3>1. CASE FlushSkip(id)
        BY <3>1 DEF FlushSkip, Exhausted
      <3>2. CASE FlushBlocked(id)
        <4>1. Allow(id) <= 0
          BY <3>2 DEF FlushBlocked
        <4>2. StreamWindow(id) <= 0 \/ ConnWindow <= 0
          BY <2>3, <4>1 DEF Allow, MinOf
        <4> QED  BY <4>2 DEF Exhausted
      <3> QED  BY <1>2, <3>1, <3>2
    <2> QED  BY <1>a, <2>1, <2>3, <2>4, <2>5
  <1>3. ASSUME FlushBegin PROVE ServedBehind'
    <2>1. cursor' = 1
      BY <1>3 DEF FlushBegin
    <2> QED  BY <2>1 DEF ServedBehind
  <1>4. ASSUME phase' # "flush" PROVE ServedBehind'
    BY <1>4 DEF ServedBehind
  <1>5. ASSUME FlushEnd PROVE ServedBehind'
    BY <1>4, <1>5 DEF FlushEnd
  <1>6. ASSUME Application \/ HandleFrame \/ \E w \in StreamWindows : UpdatePeerParameters(w)
        PROVE  ServedBehind'
    <2>1. phase = "idle" /\ UNCHANGED flush
      BY <1>6 DEF Application, HandleFrame, HandleStream, UpdatePeerParameters,
           OpenStream, AcceptStream, AcceptWait, CloseStream, Write, Close, HandleNewStream,
           HandleLastStream, HandleResetStream, HandleStopSending, HandleMaxStreamData,
           HandleMaxData, HandleConnectionClose
    <2> QED  BY <1>4, <2>1 DEF flush
  <1>7. CASE UNCHANGED vars
    BY <1>7 DEF vars, table, sending, limits, wire, flush, ServedBehind, Exhausted,
         HasPendingSend, ConnWindow, StreamWindow
  <1> QED  BY <1>1, <1>2, <1>3, <1>5, <1>6, <1>7 DEF Next, FlushStep

(* flushSends leaves nothing behind that it could have sent: for any       *)
(* streams, in any order, with any windows, and whatever the connection's  *)
(* window loses to the streams before, as long as the budget lasts.        *)
THEOREM DrainsLeaveNothing == Spec => FlushDrains
  <1>1. Init => ServedBehind
    BY DEF Init, ServedBehind
  <1>2. TypeOK /\ ServedBehind /\ [Next]_vars => ServedBehind'
    BY ServedBehindKept
  <1>3. TypeOK /\ ServedBehind /\ [Next]_vars
          => [phase = "flush" /\ phase' = "idle" /\ budget > 0 =>
                 \A id \in StreamIds :
                   InMap(id) /\ HasPendingSend(id) => ConnWindow <= 0 \/ StreamWindow(id) <= 0]_vars
    <2> SUFFICES ASSUME TypeOK, ServedBehind, [Next]_vars,
                        phase = "flush", phase' = "idle", budget > 0,
                        NEW id \in StreamIds, InMap(id)
                 PROVE  Exhausted(id)
      BY DEF Exhausted
    <2>0. streams \in Seq(StreamIds) /\ cursor \in Nat /\ Len(streams) \in Nat
      BY DEF TypeOK, TableType, FlushType
    <2>1. FlushEnd
      <3>1. ~FlushBegin /\ ~(\E w \in StreamWindows : UpdatePeerParameters(w))
        BY DEF FlushBegin, UpdatePeerParameters
      <3>2. ~Application
        BY DEF Application, OpenStream, AcceptStream, AcceptWait, CloseStream, Write, Close
      <3>3. ~HandleFrame
        BY DEF HandleFrame, HandleStream, HandleNewStream, HandleLastStream, HandleResetStream,
             HandleStopSending, HandleMaxStreamData, HandleMaxData, HandleConnectionClose
      <3>4. ~(\E s \in StreamIds : FlushSkip(s) \/ FlushBlocked(s) \/ FlushSend(s))
        BY DEF FlushSkip, FlushBlocked, FlushSend
      <3>5. ~UNCHANGED vars
        BY DEF vars, flush
      <3> QED  BY <3>1, <3>2, <3>3, <3>4, <3>5 DEF Next, FlushStep
    <2>2. cursor > Len(streams)
      BY <2>0, <2>1 DEF FlushEnd
    <2>3. PICK i \in 1..Len(streams) : streams[i] = id
      BY <2>0 DEF InMap, Range
    <2> QED  BY <2>0, <2>2, <2>3 DEF ServedBehind
  <1> QED  BY <1>1, <1>2, <1>3, TypeCorrect, PTL DEF Spec, FlushDrains

(***************************************************************************)
(* Accept calls and incoming streams: acceptStream, handleResetStream,     *)
(* registerIncomingStream, abortAll.                                       *)
(***************************************************************************)
(* Nobody has to wait: each stream of the type that the peer opened is     *)
(* accepted.                                                               *)
Unclaimed(s, bidi) ==
    InMap(s) /\ ~ClientInitiated(s) /\ Bidirectional(s) = bidi /\ s \notin acceptedStreams

NoneWaits(bidi) == \A s \in StreamIds : ~Unclaimed(s, bidi)

CallsWait == \A bidi \in BOOLEAN : acceptWaiters[bidi] > 0 => NoneWaits(bidi)

(* No accept call can be resolved any more. *)
Over == closing /\ \A bidi \in BOOLEAN : acceptWaiters[bidi] = 0

(* How often a stream may be handed out.  Once it was that often, it stays *)
(* in the map, where no frame registers it again, until the next reset, or *)
(* the connection ends.                                                    *)
Most(s) == 1 + resets[s]

Claimed(s) ==
    /\ handedOut[s] > 0 <=> s \in acceptedStreams
    /\ handedOut[s] <= Most(s)
    /\ handedOut[s] = Most(s) => InMap(s) \/ Over

ClaimsInv == \A s \in StreamIds : Claimed(s)

AcceptInv == CallsWait /\ ClaimsInv

LEMMA WaitingIsUnclaimed ==
    ASSUME TypeOK, NEW bidi \in BOOLEAN
    PROVE  Waiting(bidi) = {} <=> NoneWaits(bidi)
  <1>1. streams \in Seq(StreamIds)
    BY DEF TypeOK, TableType
  <1>2. /\ DOMAIN streams = 1..Len(streams)
        /\ \A i \in 1..Len(streams) : streams[i] \in StreamIds
    BY <1>1
  <1>3. \A s \in StreamIds : InMap(s) <=> \E i \in 1..Len(streams) : streams[i] = s
    BY <1>2 DEF InMap, Range
  <1>4. Waiting(bidi) = {}
          <=> \A i \in 1..Len(streams) : ~(/\ ~ClientInitiated(streams[i])
                                          /\ Bidirectional(streams[i]) = bidi
                                          /\ streams[i] \notin acceptedStreams)
    BY DEF Waiting
  <1> QED  BY <1>2, <1>3, <1>4 DEF NoneWaits, Unclaimed

LEMMA CountsAreNumbers ==
    ASSUME TypeOK
    PROVE  /\ \A s \in StreamIds : handedOut[s] \in Nat
           /\ \A bidi \in BOOLEAN : acceptWaiters[bidi] \in Nat
           /\ \A s \in StreamIds : Most(s) \in Nat /\ 1 <= Most(s)
  BY DEF TypeOK, TableType, ClosesType, Most

(* A step that adds nothing to the map, takes nobody's mark and lets no    *)
(* call wait leaves the calls as they were.                                *)
LEMMA CallsGoOnWaiting ==
    ASSUME CallsWait,
           \A s \in StreamIds : InMap(s)' => InMap(s) \/ ClientInitiated(s),
           acceptedStreams \subseteq acceptedStreams',
           \A bidi \in BOOLEAN : acceptWaiters'[bidi] > 0 => acceptWaiters[bidi] > 0
    PROVE  CallsWait'
  BY DEF CallsWait, NoneWaits, Unclaimed

LEMMA OpenStreamAccepts ==
    ASSUME TypeOK, IdsInv, AcceptInv, NEW bidi \in BOOLEAN, OpenStream(bidi)
    PROVE  AcceptInv'
  <1> DEFINE n == nextId[bidi]
  <1>1. /\ streams' = Append(streams, n) /\ n \in StreamIds
        /\ UNCHANGED <<acceptedStreams, acceptWaiters, handedOut, closing, resets>>
    BY DEF OpenStream, CreateStream, closes
  <1>2. ClientInitiated(n)
    <2>1. n \in Nat /\ n % 4 = FirstStreamId(bidi)
      BY DEF TypeOK, TableType, IdsInv
    <2> QED  BY <2>1, TypeBits
  <1>3. streams \in Seq(StreamIds)
    BY DEF TypeOK, TableType
  <1> HIDE DEF n
  <1>4. \A s \in StreamIds : InMap(s)' <=> InMap(s) \/ s = n
    BY <1>1, <1>3, AppendToMap
  <1>5. CallsWait'
    <2>1. \A s \in StreamIds : InMap(s)' => InMap(s) \/ ClientInitiated(s)
      BY <1>2, <1>4
    <2> QED  BY <1>1, <2>1, CallsGoOnWaiting DEF AcceptInv
  <1>6. ClaimsInv'
    BY <1>1, <1>4 DEF AcceptInv, ClaimsInv, Claimed, Most, Over
  <1> QED  BY <1>5, <1>6 DEF AcceptInv

(* A stream nobody has accepted was never handed out. *)
LEMMA AcceptStreamAccepts ==
    ASSUME TypeOK, AcceptInv, NEW bidi \in BOOLEAN, AcceptStream(bidi)
    PROVE  AcceptInv'
  <1>1. PICK i \in Waiting(bidi) : HandOut(streams[i])
    BY DEF AcceptStream
  <1> DEFINE n == streams[i]
  <1>2. /\ UNCHANGED <<streams, acceptWaiters, closing, resets>>
        /\ acceptedStreams' = acceptedStreams \cup {n}
        /\ handedOut' = [handedOut EXCEPT ![n] = @ + 1]
    BY <1>1 DEF AcceptStream, HandOut, closes
  <1>3. n \in StreamIds /\ n \notin acceptedStreams /\ InMap(n)
    BY <1>1 DEF Waiting, TypeOK, TableType, InMap, Range
  <1> HIDE DEF n
  <1>4. \A s \in StreamIds : InMap(s)' <=> InMap(s)
    BY <1>2 DEF InMap
  <1>5. CallsWait'
    BY <1>2, <1>4, CallsGoOnWaiting DEF AcceptInv
  <1>6. ASSUME NEW s \in StreamIds
        PROVE  Claimed(s)'
    <2>1. Claimed(s) /\ handedOut[s] \in Nat
      BY CountsAreNumbers DEF AcceptInv, ClaimsInv
    <2>2. CASE s # n
      <3>1. handedOut'[s] = handedOut[s]
        BY <1>2, <2>2 DEF TypeOK, TableType
      <3> QED  BY <1>2, <1>4, <2>1, <2>2, <3>1 DEF Claimed, Most, Over
    <2>3. CASE s = n
      <3>1. handedOut[s] = 0 /\ InMap(s)'
        BY <1>3, <1>4, <2>1, <2>3 DEF Claimed
      <3>2. handedOut'[s] = 1 /\ s \in acceptedStreams'
        BY <1>2, <1>3, <2>3, <3>1 DEF TypeOK, TableType
      <3>3. 1 <= Most(s)' /\ (1 = Most(s)' => InMap(s)')
        BY <1>2, <3>1, CountsAreNumbers DEF Most
      <3> QED  BY <3>1, <3>2, <3>3 DEF Claimed
    <2> QED  BY <2>2, <2>3
  <1>7. ClaimsInv'
    BY <1>6 DEF ClaimsInv
  <1> QED  BY <1>5, <1>7 DEF AcceptInv

(* A call that starts to wait has looked first. *)
LEMMA AcceptWaitAccepts ==
    ASSUME TypeOK, AcceptInv, NEW bidi \in BOOLEAN, AcceptWait(bidi)
    PROVE  AcceptInv'
  <1>1. /\ UNCHANGED <<streams, acceptedStreams, handedOut, resets, closing>>
        /\ acceptWaiters' = [acceptWaiters EXCEPT ![bidi] = @ + 1]
        /\ ~closing
    BY DEF AcceptWait, closes
  <1>2. NoneWaits(bidi)
    BY WaitingIsUnclaimed DEF AcceptWait
  <1>3. \A b \in BOOLEAN : NoneWaits(b)' <=> NoneWaits(b)
    BY <1>1 DEF NoneWaits, Unclaimed, InMap
  <1>4. \A b \in BOOLEAN : b # bidi => acceptWaiters'[b] = acceptWaiters[b]
    BY <1>1 DEF TypeOK, TableType
  <1>5. CallsWait'
    BY <1>2, <1>3, <1>4 DEF AcceptInv, CallsWait
  <1>6. ClaimsInv'
    BY <1>1 DEF AcceptInv, ClaimsInv, Claimed, Most, Over, InMap
  <1> QED  BY <1>5, <1>6 DEF AcceptInv

(* A stream is registered: the call that has waited longest gets it, so    *)
(* that only a stream without a call is left unclaimed.                    *)
LEMMA HandleNewStreamAccepts ==
    ASSUME TypeOK, AcceptInv, NEW id \in StreamIds, NEW fin \in BOOLEAN,
           HandleNewStream(id, fin)
    PROVE  AcceptInv'
  <1> DEFINE bidi == Bidirectional(id)
  <1>1. /\ streams' = Append(streams, id) /\ ~InMap(id) /\ WakeAcceptWaiter(id)
        /\ UNCHANGED <<resets, closing>>
    BY DEF HandleNewStream, CreateStream, closes
  <1>2. bidi \in BOOLEAN
    BY DEF Bidirectional
  <1>3. \A s \in StreamIds : InMap(s)' <=> InMap(s) \/ s = id
    BY <1>1, AppendToMap DEF TypeOK, TableType
  <1>4. CASE acceptWaiters[bidi] > 0
    <2>1. /\ acceptWaiters' = [acceptWaiters EXCEPT ![bidi] = @ - 1]
          /\ acceptedStreams' = acceptedStreams \cup {id}
          /\ handedOut' = [handedOut EXCEPT ![id] = @ + 1]
      BY <1>1, <1>4 DEF WakeAcceptWaiter, HandOut
    <2>2. ~Over
      BY <1>2, <1>4 DEF Over
    <2>3. \A b \in BOOLEAN : acceptWaiters'[b] > 0 => acceptWaiters[b] > 0
      BY <1>2, <1>4, <2>1 DEF TypeOK, TableType
    <2>4. CallsWait'
      BY <1>3, <2>1, <2>3 DEF AcceptInv, CallsWait, NoneWaits, Unclaimed
    <2>5. ASSUME NEW s \in StreamIds
          PROVE  Claimed(s)'
      <3>1. Claimed(s) /\ handedOut[s] \in Nat /\ Most(s)' = Most(s) /\ Most(s) \in Nat
        BY <1>1, CountsAreNumbers DEF AcceptInv, ClaimsInv, Most
      <3>2. CASE s # id
        <4>1. handedOut'[s] = handedOut[s]
          BY <2>1, <3>2 DEF TypeOK, TableType
        <4> QED  BY <1>3, <2>1, <2>2, <3>1, <3>2, <4>1 DEF Claimed
      <3>3. CASE s = id
        <4>1. handedOut[id] < Most(id)
          BY <1>1, <2>2, <3>1, <3>3 DEF Claimed
        <4>2. handedOut'[id] = handedOut[id] + 1
          BY <2>1 DEF TypeOK, TableType
        <4>3. 0 < handedOut'[id] /\ handedOut'[id] <= Most(id)
          BY <3>1, <3>3, <4>1, <4>2
        <4> QED  BY <1>3, <2>1, <3>1, <3>3, <4>3 DEF Claimed
      <3> QED  BY <3>2, <3>3
    <2>6. ClaimsInv'
      BY <2>5 DEF ClaimsInv
    <2> QED  BY <2>4, <2>6 DEF AcceptInv
  <1>5. CASE ~(acceptWaiters[bidi] > 0)
    <2>1. UNCHANGED <<acceptWaiters, acceptedStreams, handedOut>>
      BY <1>1, <1>5 DEF WakeAcceptWaiter
    <2>2. CallsWait'
      BY <1>3, <1>5, <2>1 DEF AcceptInv, CallsWait, NoneWaits, Unclaimed
    <2>3. ClaimsInv'
      BY <1>1, <1>3, <2>1 DEF AcceptInv, ClaimsInv, Claimed, Most, Over
    <2> QED  BY <2>2, <2>3 DEF AcceptInv
  <1> QED  BY <1>4, <1>5

(* A reset is the one step after which a stream may be handed out again. *)
LEMMA HandleResetStreamAccepts ==
    ASSUME TypeOK, AcceptInv, NEW id \in StreamIds, HandleResetStream(id)
    PROVE  AcceptInv'
  <1>1. /\ resets' = [resets EXCEPT ![id] = @ + 1]
        /\ UNCHANGED <<acceptedStreams, acceptWaiters, handedOut, closing>>
    BY DEF HandleResetStream
  <1>2. \A s \in StreamIds : s # id => (InMap(s)' <=> InMap(s))
    BY DeleteFromMap DEF HandleResetStream, TypeOK, TableType
  <1>3. InMap(id)
    BY DEF HandleResetStream
  <1>4. CallsWait'
    <2>1. \A s \in StreamIds : InMap(s)' => InMap(s) \/ ClientInitiated(s)
      BY <1>2, <1>3
    <2> QED  BY <1>1, <2>1, CallsGoOnWaiting DEF AcceptInv
  <1>5. ASSUME NEW s \in StreamIds
        PROVE  Claimed(s)'
    <2>1. Claimed(s) /\ handedOut[s] \in Nat
      BY CountsAreNumbers DEF AcceptInv, ClaimsInv
    <2>2. resets'[s] = IF s = id THEN resets[s] + 1 ELSE resets[s]
      BY <1>1 DEF TypeOK, ClosesType
    <2>3. CASE s # id
      BY <1>1, <1>2, <2>1, <2>2, <2>3 DEF Claimed, Most, Over
    <2>4. CASE s = id
      <3>1. Most(s)' = Most(s) + 1 /\ Most(s) \in Nat
        BY <2>2, <2>4, CountsAreNumbers DEF Most, TypeOK, ClosesType
      <3>2. handedOut[s] <= Most(s)' /\ handedOut[s] # Most(s)'
        BY <2>1, <3>1 DEF Claimed
      <3> QED  BY <1>1, <2>1, <3>2 DEF Claimed
    <2> QED  BY <2>3, <2>4
  <1>6. ClaimsInv'
    BY <1>5 DEF ClaimsInv
  <1> QED  BY <1>4, <1>6 DEF AcceptInv

(* Closing takes the calls with the streams. *)
LEMMA ClosingAccepts ==
    ASSUME TypeOK, AcceptInv, Close \/ HandleConnectionClose
    PROVE  AcceptInv'
  <1>1. /\ UNCHANGED <<acceptedStreams, handedOut, resets>> /\ closing' = TRUE
        /\ \/ UNCHANGED <<streams, acceptWaiters>>
           \/ streams' = <<>> /\ acceptWaiters' = [b \in BOOLEAN |-> 0]
    BY DEF Close, HandleConnectionClose, AbortAll, table
  <1>2. CASE UNCHANGED <<streams, acceptWaiters>>
    BY <1>1, <1>2 DEF AcceptInv, CallsWait, NoneWaits, Unclaimed, ClaimsInv, Claimed,
                      Most, Over, InMap
  <1>3. CASE streams' = <<>> /\ acceptWaiters' = [b \in BOOLEAN |-> 0]
    <2>1. CallsWait'
      BY <1>3 DEF CallsWait
    <2>2. Over'
      BY <1>1, <1>3 DEF Over
    <2>3. ClaimsInv'
      BY <1>1, <2>2 DEF AcceptInv, ClaimsInv, Claimed, Most
    <2> QED  BY <2>1, <2>3 DEF AcceptInv
  <1> QED  BY <1>1, <1>2, <1>3

(* All other steps leave the table, the calls and the marks alone. *)
LEMMA AcceptInvKept ==
    ASSUME TypeOK, IdsInv, AcceptInv, [Next]_vars
    PROVE  AcceptInv'
  <1>1. ASSUME \/ \E id \in StreamIds : \/ HandleLastStream(id) \/ CloseStream(id)
                                        \/ HandleStopSending(id)
                                        \/ FlushSkip(id) \/ FlushBlocked(id) \/ FlushSend(id)
                                        \/ \E n \in 1..MaxBytes : Write(id, n)
                                        \/ \E m \in StreamWindows : HandleMaxStreamData(id, m)
               \/ \E m \in ConnWindows : HandleMaxData(m)
               \/ \E w \in StreamWindows : UpdatePeerParameters(w)
               \/ FlushBegin \/ FlushEnd \/ UNCHANGED vars
        PROVE  AcceptInv'
    <2>1. UNCHANGED <<streams, acceptedStreams, acceptWaiters, handedOut, resets, closing>>
      BY <1>1 DEF HandleLastStream, CloseStream, HandleStopSending, FlushSkip, FlushBlocked,
           FlushSend, Write, HandleMaxStreamData, HandleMaxData, UpdatePeerParameters,
           FlushBegin, FlushEnd, vars, table, closes
    <2> QED
      BY <2>1 DEF AcceptInv, CallsWait, NoneWaits, Unclaimed, ClaimsInv, Claimed, Most, Over, InMap
  <1> QED
    BY <1>1, OpenStreamAccepts, AcceptStreamAccepts, AcceptWaitAccepts, HandleNewStreamAccepts,
       HandleResetStreamAccepts, ClosingAccepts
    DEF Next, Application, HandleFrame, HandleStream, FlushStep

LEMMA AcceptInvariant == Spec => [](TypeOK /\ AcceptInv)
  <1>1. Init => IdsInv /\ AcceptInv
    <2> SUFFICES ASSUME Init PROVE IdsInv /\ AcceptInv
      OBVIOUS
    <2>1. \A s : ~InMap(s)
      BY DEF Init, InMap, Range
    <2>2. IdsInv
      BY <2>1 DEF Init, IdsInv, FirstStreamId
    <2>3. AcceptInv
      BY DEF Init, AcceptInv, CallsWait, ClaimsInv, Claimed, Most
    <2> QED  BY <2>2, <2>3
  <1>2. TypeOK /\ IdsInv /\ AcceptInv /\ [Next]_vars => IdsInv' /\ AcceptInv'
    BY IdsInvKept, AcceptInvKept
  <1> QED  BY <1>1, <1>2, TypeCorrect, PTL DEF Spec

(* For any number of accept calls of both types and any streams, frames,   *)
(* resets and closes, no call waits beside a stream of its type            *)
(* (acceptStream, registerIncomingStream).                                 *)
THEOREM AcceptsAreServed == Spec => []NoLostAccept
  <1>1. TypeOK /\ AcceptInv => NoLostAccept
    BY WaitingIsUnclaimed DEF AcceptInv, CallsWait, NoLostAccept
  <1> QED  BY <1>1, AcceptInvariant, PTL

(* And no stream is handed out more often than once and once more for each *)
(* reset, behind which a late frame may have brought it back               *)
(* (acceptedStreams, handleResetStream).                                   *)
THEOREM StreamsAreAcceptedOnce == Spec => []AcceptedOnce
  <1>1. AcceptInv => AcceptedOnce
    BY DEF AcceptInv, ClaimsInv, Claimed, Most, AcceptedOnce
  <1> QED  BY <1>1, AcceptInvariant, PTL

===============================================================================
