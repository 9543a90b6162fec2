-------------------------- MODULE StreamReceiveProofs --------------------------
(***************************************************************************)
(* What StreamReceive guarantees for every set of frames, every arrival    *)
(* order and every window.                                                 *)
(***************************************************************************)
EXTENDS StreamReceive, TLAPS

(* A bounded run of stream bytes is a sequence of naturals of the expected *)
(* length and content.                                                     *)
LEMMA BytesType ==
    ASSUME NEW from \in Nat, NEW to \in Nat, from <= to
    PROVE  /\ Bytes(from, to) \in Seq(Nat)
           /\ to - from = Len(Bytes(from, to))
           /\ \A i \in 1..(to - from) : Bytes(from, to)[i] = from + i - 1
  <1>1. to - from \in Nat
    OBVIOUS
  <1>2. \A i \in 1..(to - from) : from + i - 1 \in Nat
    OBVIOUS
  <1> QED  BY <1>1, <1>2 DEF Bytes

(* Delivering well-typed bytes keeps the readers' state well-typed. *)
LEMMA DeliverType ==
    ASSUME ReadersType, NEW bytes \in Seq(Nat), Deliver(bytes)
    PROVE  ReadersType'
  <1> USE SizesAssumption DEF ReadersType
  <1>1. CASE readWaiters > 0
    <2>1. readWaiters' = readWaiters - 1 /\ got' = got \o bytes /\ UNCHANGED readBuffer
      BY <1>1 DEF Deliver
    <2>2. eof' \in BOOLEAN
      BY <1>1 DEF Deliver
    <2> QED  BY <2>1, <2>2, <1>1
  <1>2. CASE ~(readWaiters > 0)
    <2>1. readBuffer' = readBuffer \o bytes /\ UNCHANGED <<readWaiters, got, eof>>
      BY <1>2 DEF Deliver
    <2>2. readBuffer' \in Seq(Nat)
      BY <2>1
    <2> QED  BY <2>1, <2>2
  <1> QED  BY <1>1, <1>2

(* Inserting a chunk gives a sequence of chunks. *)
LEMMA InsertType ==
    ASSUME reassembly \in Seq(Chunk), NEW chunk \in Chunk, InsertReassembly(chunk)
    PROVE  reassembly' \in Seq(Chunk)
  <1>1. PICK k \in 0..Len(reassembly) :
               reassembly' = InsertAt(reassembly, k + 1, chunk)
    BY DEF InsertReassembly
  <1>2. SubSeq(reassembly, 1, (k + 1) - 1) \in Seq(Chunk)
    OBVIOUS
  <1>3. SubSeq(reassembly, k + 1, Len(reassembly)) \in Seq(Chunk)
    OBVIOUS
  <1> QED  BY <1>1, <1>2, <1>3 DEF InsertAt

(* What an arriving frame does before its payload is looked at. *)
LEMMA StartIngestType ==
    ASSUME TypeOK, NEW f \in Frames, StartIngest(f)
    PROVE  /\ copies' \in [Frames -> 0..MaxCopies]
           /\ LifeType' /\ CreditType'
           /\ frame' \in FrameType
           /\ recvFinOffset' \in Nat \cup {NoFin} /\ finDelivered' \in BOOLEAN
  <1> USE SizesAssumption, FramesAssumption DEF StartIngest
  <1>1. f \in FrameType /\ f.length \in Nat /\ End(f) \in Nat
    BY DEF FrameType, End
  <1>2. copies' \in [Frames -> 0..MaxCopies]
    BY DEF TypeOK, MayArrive
  <1>3. LifeType'
    BY DEF TypeOK, LifeType, life
  <1>4. CreditType'
    BY <1>1 DEF TypeOK, CreditType
  <1>5. recvFinOffset' \in Nat \cup {NoFin} /\ finDelivered' \in BOOLEAN
    BY <1>1 DEF TypeOK, BufferType
  <1> QED  BY <1>1, <1>2, <1>3, <1>4, <1>5

(* The variables hold values of their types, in every reachable state. *)
THEOREM TypeCorrect == Spec => []TypeOK
  <1>1. Init => TypeOK
    <2> SUFFICES ASSUME Init PROVE TypeOK
      OBVIOUS
    <2> USE SizesAssumption DEF Init
    <2>1. copies \in [Frames -> 0..MaxCopies]
      OBVIOUS
    <2>2. LifeType
      BY DEF LifeType, States
    <2>3. BufferType
      <3>1. <<>> \in Seq(Chunk) /\ 0 \in Nat
        OBVIOUS
      <3> QED  BY <3>1 DEF BufferType
    <2>4. ReadersType
      <3>1. <<>> \in Seq(Nat) /\ 0 \in 0..MaxReaders
        OBVIOUS
      <3> QED  BY <3>1 DEF ReadersType
    <2>5. CreditType
      BY DEF CreditType
    <2>6. HandlerType
      BY DEF HandlerType, EmptyFrame, FrameType
    <2> QED  BY <2>1, <2>2, <2>3, <2>4, <2>5, <2>6 DEF TypeOK
  <1>2. TypeOK /\ [Next]_vars => TypeOK'
    <2> SUFFICES ASSUME TypeOK, [Next]_vars
                 PROVE  TypeOK'
      OBVIOUS
    <2> USE SizesAssumption, FramesAssumption DEF TypeOK
    <2>1. ASSUME NEW f \in Frames, IngestStale(f)
          PROVE  TypeOK'
      <3>1. StartIngest(f)
        BY <2>1 DEF IngestStale
      <3>2. BufferType'
        BY <2>1, <3>1, StartIngestType DEF IngestStale, BufferType
      <3>3. ReadersType'
        BY <2>1 DEF IngestStale, ReadersType, readers
      <3>4. HandlerType'
        BY <2>1, <3>1, StartIngestType DEF IngestStale, HandlerType
      <3> QED  BY <3>1, <3>2, <3>3, <3>4, StartIngestType
    <2>2. ASSUME NEW f \in Frames, IngestContiguous(f)
          PROVE  TypeOK'
      <3>1. StartIngest(f)
        BY <2>2 DEF IngestContiguous
      <3>2. recvOffset \in Nat /\ End(f) \in Nat /\ recvOffset <= End(f)
        BY <2>2 DEF IngestContiguous, BufferType, FrameType, End
      <3>3. Bytes(recvOffset, End(f)) \in Seq(Nat)
        BY <3>2, BytesType
      <3>4. BufferType'
        BY <2>2, <3>1, <3>2, StartIngestType DEF IngestContiguous, BufferType
      <3>5. ReadersType'
        BY <2>2, <3>3, DeliverType DEF IngestContiguous
      <3>6. HandlerType'
        BY <2>2, <3>1, StartIngestType DEF IngestContiguous, HandlerType
      <3> QED  BY <3>1, <3>4, <3>5, <3>6, StartIngestType
    <2>3. ASSUME NEW f \in Frames, IngestAhead(f)
          PROVE  TypeOK'
      <3>1. StartIngest(f)
        BY <2>3 DEF IngestAhead
      <3>2. [offset |-> f.offset, length |-> f.length] \in Chunk
        BY DEF FrameType, Chunk
      <3>3. reassembly' \in Seq(Chunk)
        BY <2>3, <3>2, InsertType DEF IngestAhead, BufferType
      <3>4. BufferType'
        BY <2>3, <3>1, <3>3, StartIngestType DEF IngestAhead, BufferType
      <3>5. ReadersType'
        BY <2>3 DEF IngestAhead, ReadersType, readers
      <3>6. HandlerType'
        BY <2>3, <3>1, StartIngestType DEF IngestAhead, HandlerType
      <3> QED  BY <3>1, <3>4, <3>5, <3>6, StartIngestType
    <2>4. CASE DrainOne
      <3> DEFINE head == Head(reassembly)
      <3>1. /\ reassembly \in Seq(Chunk) /\ reassembly # <<>>
            /\ head \in Chunk /\ Tail(reassembly) \in Seq(Chunk)
        BY <2>4 DEF DrainOne, HeadBridges, BufferType
      <3>2. /\ head.offset \in Nat /\ head.length \in Nat /\ End(head) \in Nat
            /\ head.offset <= End(head)
        BY <3>1 DEF Chunk, End
      <3>3. Bytes(head.offset, End(head)) \in Seq(Nat)
        BY <3>2, BytesType
      <3>4. Deliver(Bytes(head.offset, End(head)))
        BY <2>4 DEF DrainOne
      <3>5. ReadersType'
        BY <3>3, <3>4, DeliverType
      <3>6. BufferType'
        BY <2>4, <3>1, <3>2 DEF DrainOne, BufferType
      <3> QED
        BY <2>4, <3>5, <3>6
        DEF DrainOne, network, life, credit, handler, LifeType, CreditType, HandlerType
    <2>5. CASE DrainDone
      BY <2>5 DEF DrainDone, network, life, buffer, readers, credit,
                  LifeType, BufferType, ReadersType, CreditType, HandlerType
    <2>6. CASE SignalFin
      <3>1. LifeType'
        BY <2>6 DEF SignalFin, TransitionOnRemoteFin, LifeType, States, CloseReasons
      <3>2. ReadersType'
        <4>1. readBuffer' = readBuffer /\ got' = got
          BY <2>6 DEF SignalFin
        <4>2. readWaiters' \in 0..MaxReaders
          BY <2>6 DEF SignalFin, ReadersType
        <4>3. eof' \in BOOLEAN
          BY <2>6 DEF SignalFin, ReadersType
        <4> QED  BY <4>1, <4>2, <4>3 DEF ReadersType
      <3>3. BufferType'
        BY <2>6 DEF SignalFin, BufferType
      <3> QED
        BY <2>6, <3>1, <3>2, <3>3
        DEF SignalFin, network, credit, CreditType, HandlerType
    <2>7. CASE NoFinYet
      BY <2>7 DEF NoFinYet, network, life, buffer, readers, credit,
                  LifeType, BufferType, ReadersType, CreditType, HandlerType
    <2>8. CASE Replenish
      <3>1. maxStreamDataAdvertised' \in Nat
        BY <2>8 DEF Replenish, CreditType
      <3>2. connectionDataReceived' \in Nat /\ connectionMaxDataAdvertised' \in Nat
        BY <2>8 DEF Replenish, CreditType, HandlerType, FrameType
      <3>3. CreditType'
        BY <2>8, <3>1, <3>2 DEF Replenish, CreditType
      <3>4. HandlerType'
        BY <2>8 DEF Replenish, HandlerType, EmptyFrame, FrameType
      <3> QED
        BY <2>8, <3>3, <3>4 DEF Replenish, network, life, buffer, readers,
                                LifeType, BufferType, ReadersType
    <2>9. CASE ReadBuffered
      <3>1. ReadersType'
        BY <2>9 DEF ReadBuffered, ReadersType
      <3> QED
        BY <2>9, <3>1 DEF ReadBuffered, network, life, buffer, credit, handler,
                          LifeType, BufferType, CreditType, HandlerType
    <2>10. CASE ReadEnd
      <3>1. ReadersType'
        BY <2>10 DEF ReadEnd, ReadersType
      <3> QED
        BY <2>10, <3>1 DEF ReadEnd, network, life, buffer, credit, handler,
                           LifeType, BufferType, CreditType, HandlerType
    <2>11. CASE ReadWait
      <3>1. ReadersType'
        BY <2>11 DEF ReadWait, ReadersType
      <3> QED
        BY <2>11, <3>1 DEF ReadWait, network, life, buffer, credit, handler,
                           LifeType, BufferType, CreditType, HandlerType
    <2>12. CASE LocalFin
      <3>1. LifeType'
        BY <2>12 DEF LocalFin, TransitionOnLocalFin, LifeType, States, CloseReasons
      <3> QED
        BY <2>12, <3>1 DEF LocalFin, network, buffer, readers, credit, handler,
                           BufferType, ReadersType, CreditType, HandlerType
    <2>13. ASSUME NEW reason \in CloseReasons, LeaveMap(reason)
           PROVE  TypeOK'
      <3>1. LifeType'
        BY <2>13 DEF LeaveMap, LifeType, States
      <3>2. ReadersType'
        BY <2>13 DEF LeaveMap, ReadersType
      <3> QED
        BY <2>13, <3>1, <3>2 DEF LeaveMap, network, buffer, credit, handler,
                                 BufferType, CreditType, HandlerType
    <2>14. CASE UNCHANGED vars
      BY <2>14 DEF vars, network, life, buffer, readers, credit, handler,
                   LifeType, BufferType, ReadersType, CreditType, HandlerType
    <2>15. "reset" \in CloseReasons /\ "connection_close" \in CloseReasons
      BY DEF CloseReasons
    <2> QED
      BY <2>1, <2>2, <2>3, <2>4, <2>5, <2>6, <2>7, <2>8, <2>9, <2>10, <2>11, <2>12,
         <2>13, <2>14, <2>15
      DEF Next, HandleStream, Continue, Read, ResetPeer, ForceClose
  <1> QED  BY <1>1, <1>2, PTL DEF Spec

-------------------------------------------------------------------------------
(***************************************************************************)
(* Ordered delivery, as long as no frame arrives that overlaps bytes still *)
(* waiting in the reassembly buffer.  InOrderDelivery and EofIsComplete    *)
(* are not inductive: what is delivered next comes from the reassembly     *)
(* buffer, so its chunks must be known to lie at or above recvOffset,      *)
(* disjoint and sorted, and a waiting reader must be known to have nothing *)
(* buffered in front of it.                                                *)
(***************************************************************************)

(* got and then readBuffer hold the bytes below recvOffset. *)
DeliveredPrefix ==
    /\ recvOffset = Len(got) + Len(readBuffer)
    /\ \A i \in 1..Len(got) : got[i] = i - 1
    /\ \A i \in 1..Len(readBuffer) : readBuffer[i] = Len(got) + i - 1

WaitersHaveNothing == readWaiters > 0 => readBuffer = <<>>

(* A chunk that can wait at or above offset n. *)
ChunkAhead(c, n) ==
    /\ n <= c.offset
    /\ End(c) <= FinalSize
    /\ c.length = 0 => c.offset = FinalSize

ChunksAhead == \A i \in 1..Len(reassembly) : ChunkAhead(reassembly[i], recvOffset)

ChunksSorted ==
    \A i, j \in 1..Len(reassembly) :
        i < j => End(reassembly[i]) <= reassembly[j].offset

EndKnown ==
    /\ recvOffset <= FinalSize
    /\ recvFinOffset \in {NoFin, FinalSize}
    /\ finDelivered => recvOffset = FinalSize
    /\ eof => Len(got) = FinalSize

OrderInv ==
    /\ TypeOK
    /\ DeliveredPrefix /\ WaitersHaveNothing
    /\ ChunksAhead /\ ChunksSorted
    /\ EndKnown

(* Concatenation, element by element. *)
LEMMA ConcatElements ==
    ASSUME NEW s \in Seq(Nat), NEW t \in Seq(Nat)
    PROVE  /\ s \o t \in Seq(Nat)
           /\ Len(s \o t) = Len(s) + Len(t)
           /\ \A i \in 1..Len(s) : (s \o t)[i] = s[i]
           /\ \A i \in (Len(s) + 1)..(Len(s) + Len(t)) : (s \o t)[i] = t[i - Len(s)]
  OBVIOUS

(* Delivering exactly the bytes from recvOffset on extends the prefix. *)
LEMMA DeliverInOrder ==
    ASSUME ReadersType, recvOffset \in Nat, DeliveredPrefix, WaitersHaveNothing,
           NEW n \in Nat, recvOffset <= n, recvOffset' = n,
           Deliver(Bytes(recvOffset, n))
    PROVE  /\ DeliveredPrefix' /\ WaitersHaveNothing'
           /\ Len(got') >= Len(got)
           /\ Len(got') = Len(got) \/ eof' = eof
           /\ eof => eof'
           /\ eof' => eof \/ (n = recvOffset /\ Len(got') = n)
  <1> DEFINE bytes == Bytes(recvOffset, n)
  <1>1. /\ bytes \in Seq(Nat) /\ n - recvOffset = Len(bytes)
        /\ \A i \in 1..(n - recvOffset) : bytes[i] = recvOffset + i - 1
    BY BytesType
  <1>2. readBuffer \in Seq(Nat) /\ got \in Seq(Nat)
    BY DEF ReadersType
  <1> HIDE DEF bytes
  <1>3. CASE readWaiters > 0
    <2>1. /\ readBuffer = <<>> /\ readBuffer' = <<>>
          /\ got' = got \o bytes /\ eof' = (eof \/ bytes = <<>>)
      BY <1>3 DEF WaitersHaveNothing, Deliver, bytes
    <2>2. recvOffset = Len(got) /\ \A i \in 1..Len(got) : got[i] = i - 1
      BY <2>1 DEF DeliveredPrefix
    <2>3. n = Len(got')
      BY <1>1, <1>2, <2>1, <2>2
    <2>4. \A i \in 1..Len(got') : got'[i] = i - 1
      <3> SUFFICES ASSUME NEW i \in 1..n
                   PROVE  got'[i] = i - 1
        BY <2>3
      <3>1. CASE i <= Len(got)
        BY <3>1, <1>1, <1>2, <2>1, <2>2
      <3>2. CASE i > Len(got)
        <4>1. i - recvOffset \in 1..(n - recvOffset) /\ got'[i] = bytes[i - recvOffset]
          BY <3>2, <1>1, <1>2, <2>1, <2>2, ConcatElements
        <4> QED  BY <4>1, <1>1, <2>2
      <3> QED  BY <3>1, <3>2, <1>2
    <2>5. DeliveredPrefix'
      BY <2>1, <2>3, <2>4 DEF DeliveredPrefix
    <2>6. WaitersHaveNothing'
      BY <2>1 DEF WaitersHaveNothing
    <2>7. Len(got') = Len(got) \/ bytes # <<>>
      BY <1>1, <2>2, <2>3
    <2>8. bytes = <<>> => n = recvOffset
      BY <1>1
    <2>9. Len(got') >= Len(got)
      BY <2>2, <2>3
    <2>10. /\ Len(got') = Len(got) \/ eof' = eof
           /\ eof => eof'
           /\ eof' => eof \/ bytes = <<>>
      <3>1. eof \in BOOLEAN
        BY DEF ReadersType
      <3> QED  BY <2>1, <2>7, <3>1
    <2> QED  BY <2>3, <2>5, <2>6, <2>8, <2>9, <2>10
  <1>4. CASE ~(readWaiters > 0)
    <2>1. readBuffer' = readBuffer \o bytes /\ got' = got
      BY <1>4 DEF Deliver, bytes
    <2>0. readWaiters' = readWaiters /\ eof' = eof
      BY <1>4 DEF Deliver, bytes
    <2>9. Len(got) \in Nat /\ Len(readBuffer) \in Nat /\ recvOffset = Len(got) + Len(readBuffer)
      BY <1>2 DEF DeliveredPrefix
    <2>2. Len(readBuffer) + (n - recvOffset) = Len(readBuffer')
      BY <1>1, <1>2, <2>1, ConcatElements
    <2>3. \A i \in 1..Len(readBuffer') : readBuffer'[i] = Len(got') + i - 1
      <3> SUFFICES ASSUME NEW i \in 1..Len(readBuffer')
                   PROVE  readBuffer'[i] = Len(got) + i - 1
        BY <2>1
      <3>1. CASE i <= Len(readBuffer)
        BY <3>1, <1>1, <1>2, <2>1 DEF DeliveredPrefix
      <3>2. CASE i > Len(readBuffer)
        <4>1. /\ i - Len(readBuffer) \in 1..(n - recvOffset)
              /\ readBuffer'[i] = bytes[i - Len(readBuffer)]
          BY <3>2, <1>1, <1>2, <2>1, <2>2, ConcatElements
        <4>2. readBuffer'[i] = recvOffset + (i - Len(readBuffer)) - 1
          BY <4>1, <1>1
        <4> QED  BY <4>2, <2>9
      <3> QED  BY <3>1, <3>2, <1>2, <2>2
    <2>4. DeliveredPrefix'
      BY <2>1, <2>2, <2>3, <2>9 DEF DeliveredPrefix
    <2>5. WaitersHaveNothing'
      BY <1>4, <2>0 DEF WaitersHaveNothing
    <2> QED  BY <2>0, <2>1, <2>4, <2>5, <1>2
  <1> QED  BY <1>3, <1>4

(* What is known of a frame that is allowed to arrive. *)
LEMMA FrameFacts ==
    ASSUME NEW f \in Frames
    PROVE  /\ f.offset \in Nat /\ f.length \in Nat /\ End(f) \in Nat
           /\ End(f) = f.offset + f.length /\ End(f) <= FinalSize
           /\ f.fin => End(f) = FinalSize
           /\ f.length = 0 => f.offset = FinalSize
  BY FramesAssumption, SizesAssumption DEF FrameType, End

(* The same of the chunks that wait. *)
LEMMA ChunkFacts ==
    ASSUME OrderInv, NEW i \in 1..Len(reassembly)
    PROVE  /\ reassembly[i] \in Chunk
           /\ reassembly[i].offset \in Nat
           /\ reassembly[i].length \in Nat
           /\ End(reassembly[i]) \in Nat
           /\ End(reassembly[i]) = reassembly[i].offset + reassembly[i].length
           /\ recvOffset <= reassembly[i].offset
           /\ End(reassembly[i]) <= FinalSize
           /\ reassembly[i].length = 0 => reassembly[i].offset = FinalSize
  <1>1. reassembly[i] \in Chunk
    BY DEF OrderInv, TypeOK, BufferType
  <1>2. ChunkAhead(reassembly[i], recvOffset)
    BY DEF OrderInv, ChunksAhead
  <1> QED  BY <1>1, <1>2 DEF Chunk, End, ChunkAhead

(* Where the elements of a sequence are after an insertion behind its k-th. *)
LEMMA InsertElements ==
    ASSUME NEW s \in Seq(Chunk), NEW c \in Chunk, NEW k \in 0..Len(s)
    PROVE  /\ InsertAt(s, k + 1, c) \in Seq(Chunk)
           /\ Len(s) + 1 = Len(InsertAt(s, k + 1, c))
           /\ \A i \in 1..k : InsertAt(s, k + 1, c)[i] = s[i]
           /\ InsertAt(s, k + 1, c)[k + 1] = c
           /\ \A i \in (k + 2)..(Len(s) + 1) : InsertAt(s, k + 1, c)[i] = s[i - 1]
  <1> DEFINE u == SubSeq(s, 1, k)
             v == SubSeq(s, k + 1, Len(s))
  <1>1. u \in Seq(Chunk) /\ k = Len(u) /\ \A i \in 1..k : u[i] = s[i]
    OBVIOUS
  <1>2. /\ v \in Seq(Chunk) /\ Len(s) - k = Len(v)
        /\ \A i \in 1..(Len(s) - k) : v[i] = s[k + i]
    OBVIOUS
  <1>3. <<c>> \in Seq(Chunk) /\ 1 = Len(<<c>>) /\ <<c>>[1] = c
    OBVIOUS
  <1>4. ASSUME NEW a \in Seq(Chunk), NEW b \in Seq(Chunk)
        PROVE  /\ a \o b \in Seq(Chunk)
               /\ Len(a \o b) = Len(a) + Len(b)
               /\ \A i \in 1..Len(a) : (a \o b)[i] = a[i]
               /\ \A i \in (Len(a) + 1)..(Len(a) + Len(b)) : (a \o b)[i] = b[i - Len(a)]
    OBVIOUS
  <1> DEFINE w == u \o <<c>>
  <1>0. InsertAt(s, k + 1, c) = w \o v
    <2>1. (k + 1) - 1 = k
      OBVIOUS
    <2> QED  BY <2>1 DEF InsertAt
  <1> HIDE DEF u, v
  <1>5. /\ w \in Seq(Chunk) /\ k + 1 = Len(w)
        /\ \A i \in 1..k : w[i] = s[i]
        /\ w[k + 1] = c
    <2>1. w \in Seq(Chunk) /\ k + 1 = Len(w)
      BY <1>1, <1>3, <1>4
    <2>2. \A i \in 1..k : w[i] = s[i]
      BY <1>1, <1>3, <1>4
    <2>3. w[k + 1] = c
      BY <1>1, <1>3, <1>4
    <2> QED  BY <2>1, <2>2, <2>3
  <1> HIDE DEF w
  <1>6. /\ w \o v \in Seq(Chunk) /\ Len(s) + 1 = Len(w \o v)
        /\ \A i \in 1..(k + 1) : (w \o v)[i] = w[i]
        /\ \A i \in (k + 2)..(Len(s) + 1) : (w \o v)[i] = v[i - (k + 1)]
    BY <1>2, <1>4, <1>5
  <1>7. \A i \in (k + 2)..(Len(s) + 1) : v[i - (k + 1)] = s[i - 1]
    BY <1>2
  <1>8. \A i \in 1..k : (w \o v)[i] = s[i]
    BY <1>5, <1>6
  <1>9. (w \o v)[k + 1] = c
    BY <1>5, <1>6
  <1>10. \A i \in (k + 2)..(Len(s) + 1) : (w \o v)[i] = s[i - 1]
    BY <1>6, <1>7
  <1> QED  BY <1>0, <1>6, <1>8, <1>9, <1>10

(* A chunk that overlaps none of those that wait goes between them. *)
LEMMA InsertInOrder ==
    ASSUME OrderInv, NEW f \in Frames, f.offset > recvOffset,
           \A i \in 1..Len(reassembly) : ~Overlap(f, reassembly[i]),
           InsertReassembly([offset |-> f.offset, length |-> f.length]),
           recvOffset' = recvOffset
    PROVE  ChunksAhead' /\ ChunksSorted'
  <1> DEFINE c == [offset |-> f.offset, length |-> f.length]
             r == reassembly
             s == reassembly'
  <1>1. /\ r \in Seq(Chunk) /\ recvOffset \in Nat /\ FinalSize \in Nat
        /\ c \in Chunk /\ c.offset = f.offset /\ End(c) = End(f)
        /\ ChunkAhead(c, recvOffset)
    BY FrameFacts, SizesAssumption
    DEF OrderInv, TypeOK, BufferType, Chunk, End, ChunkAhead
  <1>2. PICK k \in 0..Len(r) :
              /\ \A i \in 1..k : r[i].offset <= f.offset
              /\ \A i \in (k + 1)..Len(r) : f.offset < r[i].offset
              /\ s = InsertAt(r, k + 1, c)
    BY DEF InsertReassembly
  <1>8. Len(r) \in Nat /\ k \in Nat /\ k <= Len(r)
    BY <1>1, <1>2
  <1>3. /\ s \in Seq(Chunk) /\ Len(r) + 1 = Len(s)
        /\ \A i \in 1..k : s[i] = r[i]
        /\ s[k + 1] = c
        /\ \A i \in (k + 2)..(Len(r) + 1) : s[i] = r[i - 1]
    <2>1. r \in Seq(Chunk) /\ c \in Chunk
      BY <1>1
    <2> HIDE DEF c, r, s
    <2>2. k \in 0..Len(r) /\ s = InsertAt(r, k + 1, c)
      BY <1>2
    <2> QED  BY <2>1, <2>2, InsertElements, ZenonT(30)
  (* A chunk of r ends before f begins, or begins behind its end. *)
  <1>0. /\ f.offset \in Nat /\ f.length \in Nat /\ End(f) \in Nat
        /\ End(f) = f.offset + f.length
        /\ f.length = 0 => f.offset = FinalSize
    BY FrameFacts
  <1>4. \A i \in 1..k : End(r[i]) <= f.offset
    <2> SUFFICES ASSUME NEW i \in 1..k PROVE End(r[i]) <= f.offset
      OBVIOUS
    <2>1. i \in 1..Len(reassembly) /\ r[i].offset <= f.offset
      <3>1. i \in 1..Len(r) /\ Len(r) \in Nat
        BY <1>8
      <3> QED  BY <3>1, <1>2
    <2>2. /\ r[i].offset \in Nat /\ End(r[i]) \in Nat
          /\ End(r[i]) <= FinalSize
      BY <2>1, ChunkFacts
    <2>3. ~(f.offset < End(r[i]) /\ r[i].offset < End(f))
      BY <2>1 DEF Overlap
    <2> QED  BY <2>1, <2>2, <2>3, <1>0, <1>1, SMTT(30)
  <1>5. \A i \in (k + 1)..Len(r) : End(f) <= r[i].offset
    <2> SUFFICES ASSUME NEW i \in (k + 1)..Len(r) PROVE End(f) <= r[i].offset
      OBVIOUS
    <2>1. i \in 1..Len(reassembly) /\ f.offset < r[i].offset
      BY <1>1, <1>2
    <2>2. /\ r[i].offset \in Nat /\ r[i].length \in Nat
          /\ End(r[i]) = r[i].offset + r[i].length
      BY <2>1, ChunkFacts
    <2>3. ~(f.offset < End(r[i]) /\ r[i].offset < End(f))
      BY <2>1 DEF Overlap
    <2> QED  BY <2>1, <2>2, <2>3, <1>0
  <1>9. (\A i \in 1..Len(r) : ChunkAhead(r[i], recvOffset))
        /\ (\A m, n \in 1..Len(r) : m < n => End(r[m]) <= r[n].offset)
    BY DEF OrderInv, ChunksAhead, ChunksSorted
  <1>10. /\ (\A i \in 1..Len(s) : ChunkAhead(s[i], recvOffset)) => ChunksAhead'
         /\ (\A i, j \in 1..Len(s) : i < j => End(s[i]) <= s[j].offset)
               => ChunksSorted'
    BY DEF ChunksAhead, ChunksSorted, ChunkAhead, End
  <1> HIDE DEF c, s, r
  <1>6. ChunksAhead'
    <2> SUFFICES ASSUME NEW i \in 1..Len(s) PROVE ChunkAhead(s[i], recvOffset)
      BY <1>10
    <2>1. CASE i <= k
      BY <2>1, <1>3, <1>8, <1>9
    <2>2. CASE i = k + 1
      BY <2>2, <1>1, <1>3
    <2>3. CASE i > k + 1
      <3>1. i \in (k + 2)..(Len(r) + 1) /\ i - 1 \in 1..Len(r)
        BY <2>3, <1>3, <1>8
      <3> QED  BY <3>1, <1>3, <1>9
    <2> QED  BY <2>1, <2>2, <2>3, <1>8
  <1>7. ChunksSorted'
    <2> SUFFICES ASSUME NEW i \in 1..Len(s), NEW j \in 1..Len(s), i < j
                 PROVE  End(s[i]) <= s[j].offset
      BY <1>10
    <2>1. \A m, n \in 1..Len(r) : m < n => End(r[m]) <= r[n].offset
      BY <1>9
    <2>2. k \in Nat /\ k <= Len(r) /\ Len(r) \in Nat /\ i \in Nat /\ j \in Nat
          /\ j <= Len(r) + 1 /\ 1 <= i
      BY <1>3, <1>8
    <2>3. CASE j <= k
      <3>1. s[i] = r[i] /\ s[j] = r[j] /\ i \in 1..Len(r) /\ j \in 1..Len(r)
        BY <2>3, <2>2, <1>3
      <3> QED  BY <3>1, <2>1
    <2>4. CASE j = k + 1
      <3>1. s[i] = r[i] /\ s[j] = c /\ i \in 1..k
        BY <2>4, <2>2, <1>3
      <3> QED  BY <3>1, <1>1, <1>4
    <2>5. CASE j > k + 1 /\ i <= k
      <3>1. s[i] = r[i] /\ s[j] = r[j - 1] /\ i \in 1..Len(r) /\ j - 1 \in 1..Len(r)
        BY <2>5, <2>2, <1>3
      <3>2. i < j - 1
        BY <2>5, <2>2
      <3> QED  BY <3>1, <3>2, <2>1
    <2>6. CASE j > k + 1 /\ i = k + 1
      <3>1. s[i] = c /\ s[j] = r[j - 1] /\ j - 1 \in (k + 1)..Len(r)
        BY <2>6, <2>2, <1>3
      <3> QED  BY <3>1, <1>1, <1>5
    <2>7. CASE j > k + 1 /\ i > k + 1
      <3>1. /\ s[i] = r[i - 1] /\ s[j] = r[j - 1]
            /\ i - 1 \in 1..Len(r) /\ j - 1 \in 1..Len(r)
        BY <2>7, <2>2, <1>3
      <3>2. i - 1 < j - 1
        BY <2>2
      <3> QED  BY <3>1, <3>2, <2>1
    <2> QED  BY <2>2, <2>3, <2>4, <2>5, <2>6, <2>7
  <1> QED  BY <1>6, <1>7

(* A step takes back nothing that read() handed out, and does not report   *)
(* the end together with the last bytes.                                   *)
ReadsAdvance ==
    /\ Len(got') >= Len(got)
    /\ Len(got') = Len(got) \/ eof' = eof
    /\ eof => eof'

(* What a delivery from recvOffset up to n does to the invariant's parts   *)
(* that are not about the reassembly buffer.                               *)
LEMMA DeliverStep ==
    ASSUME OrderInv, NEW n \in Nat, recvOffset <= n, n <= FinalSize,
           n = recvOffset => n = FinalSize,
           recvOffset' = n, Deliver(Bytes(recvOffset, n)), TypeOK',
           recvFinOffset' \in {NoFin, FinalSize}, finDelivered' = finDelivered
    PROVE  /\ DeliveredPrefix' /\ WaitersHaveNothing' /\ EndKnown'
           /\ ReadsAdvance
  <1>1. /\ ReadersType /\ recvOffset \in Nat /\ FinalSize \in Nat
        /\ got \in Seq(Nat) /\ got' \in Seq(Nat) /\ readBuffer' \in Seq(Nat)
    BY SizesAssumption DEF OrderInv, TypeOK, BufferType, ReadersType
  <1>2. /\ DeliveredPrefix' /\ WaitersHaveNothing'
        /\ Len(got') >= Len(got)
        /\ Len(got') = Len(got) \/ eof' = eof
        /\ eof => eof'
        /\ eof' => eof \/ (n = recvOffset /\ Len(got') = n)
    BY <1>1, DeliverInOrder DEF OrderInv
  <1>3. /\ Len(got) \in Nat /\ Len(got') \in Nat /\ Len(readBuffer') \in Nat
        /\ n = Len(got') + Len(readBuffer')
    <2>1. n = Len(got') + Len(readBuffer')
      BY <1>2 DEF DeliveredPrefix
    <2> QED  BY <1>1, <2>1
  <1>4. eof => Len(got) = FinalSize
    BY DEF OrderInv, EndKnown
  <1>5. Len(got) = FinalSize => Len(got') = FinalSize
    BY <1>1, <1>2, <1>3
  <1>6. eof' => Len(got') = FinalSize
    BY <1>2, <1>4, <1>5
  <1>7. finDelivered' => n = FinalSize
    <2>1. finDelivered => recvOffset = FinalSize
      BY DEF OrderInv, EndKnown
    <2> QED  BY <2>1, <1>1
  <1>8. EndKnown'
    BY <1>6, <1>7 DEF EndKnown
  <1> QED  BY <1>2, <1>8 DEF ReadsAdvance

(* The first element of a sequence of chunks, and the rest. *)
LEMMA HeadAndTail ==
    ASSUME NEW s \in Seq(Chunk), s # <<>>
    PROVE  /\ Len(s) \in Nat \ {0} /\ Head(s) = s[1]
           /\ Len(s) - 1 = Len(Tail(s))
           /\ \A i \in 1..(Len(s) - 1) : Tail(s)[i] = s[i + 1]
  OBVIOUS

(* Every step keeps the order, and only ever adds to what was read. *)
LEMMA OrderStep ==
    ASSUME ~OverlapBuffered, OrderInv, [Next]_vars, TypeOK'
    PROVE  OrderInv' /\ ReadsAdvance
  <1> SUFFICES DeliveredPrefix' /\ WaitersHaveNothing' /\ ChunksAhead'
               /\ ChunksSorted' /\ EndKnown' /\ ReadsAdvance
    BY DEF OrderInv
  <1>0. /\ recvOffset \in Nat /\ FinalSize \in Nat /\ reassembly \in Seq(Chunk)
        /\ got \in Seq(Nat) /\ readBuffer \in Seq(Nat)
        /\ readWaiters \in 0..MaxReaders /\ MaxReaders \in Nat
    BY SizesAssumption DEF OrderInv, TypeOK, BufferType, ReadersType
  <1>a. Len(got) \in Nat /\ Len(readBuffer) \in Nat /\ Len(reassembly) \in Nat
    BY <1>0
  <1>c. recvOffset \in Nat /\ FinalSize \in Nat
    BY <1>0
  (* A frame that arrives changes what is known of the FIN consistently. *)
  <1>b. ASSUME NEW f \in Frames, StartIngest(f)
        PROVE  /\ recvFinOffset' \in {NoFin, FinalSize}
               /\ finDelivered' = finDelivered
               /\ \A i \in 1..Len(reassembly) : ~Overlap(f, reassembly[i])
    BY <1>b, FrameFacts DEF StartIngest, MayArrive, OrderInv, EndKnown
  <1>1. ASSUME NEW f \in Frames, IngestStale(f)
        PROVE  DeliveredPrefix' /\ WaitersHaveNothing' /\ ChunksAhead'
               /\ ChunksSorted' /\ EndKnown' /\ ReadsAdvance
    <2>1. /\ UNCHANGED <<reassembly, recvOffset, readBuffer, readWaiters, got, eof>>
          /\ recvFinOffset' \in {NoFin, FinalSize} /\ finDelivered' = finDelivered
      BY <1>1, <1>b DEF IngestStale, readers
    <2>2. DeliveredPrefix' /\ WaitersHaveNothing' /\ ChunksAhead' /\ ChunksSorted'
      BY <2>1 DEF OrderInv, DeliveredPrefix, WaitersHaveNothing, ChunksAhead,
                  ChunkAhead, ChunksSorted
    <2>3. EndKnown'
      BY <2>1 DEF OrderInv, EndKnown
    <2> QED  BY <2>1, <2>2, <2>3, <1>a DEF ReadsAdvance
  <1>2. ASSUME NEW f \in Frames, IngestContiguous(f)
        PROVE  DeliveredPrefix' /\ WaitersHaveNothing' /\ ChunksAhead'
               /\ ChunksSorted' /\ EndKnown' /\ ReadsAdvance
    <2>1. /\ StartIngest(f) /\ recvOffset' = End(f) /\ reassembly' = reassembly
          /\ Deliver(Bytes(recvOffset, End(f)))
          /\ f.offset <= recvOffset /\ End(f) > recvOffset
      BY <1>2 DEF IngestContiguous
    <2>2. /\ f.offset \in Nat /\ End(f) \in Nat /\ End(f) <= FinalSize
      BY FrameFacts
    <2>3. DeliveredPrefix' /\ WaitersHaveNothing' /\ EndKnown' /\ ReadsAdvance
      <3>1. recvOffset <= End(f) /\ End(f) # recvOffset
        BY <1>0, <2>1, <2>2
      <3> QED  BY <1>b, <2>1, <2>2, <3>1, DeliverStep
    <2>4. ChunksAhead'
      <3> SUFFICES ASSUME NEW i \in 1..Len(reassembly)
                   PROVE  ChunkAhead(reassembly[i], End(f))
        BY <2>1 DEF ChunksAhead, ChunkAhead
      <3>1. /\ reassembly[i].offset \in Nat /\ reassembly[i].length \in Nat
            /\ End(reassembly[i]) = reassembly[i].offset + reassembly[i].length
            /\ recvOffset <= reassembly[i].offset
            /\ End(reassembly[i]) <= FinalSize
            /\ reassembly[i].length = 0 => reassembly[i].offset = FinalSize
        BY ChunkFacts
      <3>2. ~(f.offset < End(reassembly[i]) /\ reassembly[i].offset < End(f))
        BY <1>b, <2>1 DEF Overlap
      <3>3. f.offset <= recvOffset
        BY <2>1
      <3>4. End(f) <= reassembly[i].offset
        <4>1. CASE reassembly[i].offset < End(f)
          <5>1. End(reassembly[i]) <= f.offset
            BY <2>2, <3>1, <3>2, <4>1
          <5>2. reassembly[i].offset + reassembly[i].length <= reassembly[i].offset
            BY <1>c, <2>2, <3>1, <3>3, <5>1
          <5>3. reassembly[i].length = 0
            BY <3>1, <5>2
          <5> QED  BY <1>c, <2>2, <3>1, <5>3
        <4>2. CASE ~(reassembly[i].offset < End(f))
          BY <2>2, <3>1, <4>2
        <4> QED  BY <4>1, <4>2
      <3> QED  BY <3>1, <3>4 DEF ChunkAhead
    <2>5. ChunksSorted'
      BY <2>1 DEF OrderInv, ChunksSorted
    <2> QED  BY <2>3, <2>4, <2>5
  <1>3. ASSUME NEW f \in Frames, IngestAhead(f)
        PROVE  DeliveredPrefix' /\ WaitersHaveNothing' /\ ChunksAhead'
               /\ ChunksSorted' /\ EndKnown' /\ ReadsAdvance
    <2>1. /\ StartIngest(f) /\ f.offset > recvOffset
          /\ InsertReassembly([offset |-> f.offset, length |-> f.length])
          /\ UNCHANGED <<recvOffset, readBuffer, readWaiters, got, eof>>
      BY <1>3 DEF IngestAhead, readers
    <2>2. ChunksAhead' /\ ChunksSorted'
      BY <1>b, <2>1, InsertInOrder
    <2>3. DeliveredPrefix' /\ WaitersHaveNothing'
      BY <2>1 DEF OrderInv, DeliveredPrefix, WaitersHaveNothing
    <2>4. EndKnown'
      BY <2>1, <1>b DEF OrderInv, EndKnown
    <2> QED  BY <2>1, <2>2, <2>3, <2>4, <1>a DEF ReadsAdvance
  <1>4. CASE DrainOne
    <2> DEFINE head == Head(reassembly)
               rest == Tail(reassembly)
    <2>1. /\ reassembly # <<>> /\ head.offset <= recvOffset
          /\ recvOffset' = recvOffset + head.length
          /\ Deliver(Bytes(head.offset, End(head)))
          /\ reassembly' = rest
          /\ recvFinOffset' = recvFinOffset /\ finDelivered' = finDelivered
      BY <1>4 DEF DrainOne, HeadBridges
    <2>2. /\ Len(reassembly) \in Nat \ {0} /\ head = reassembly[1]
          /\ Len(reassembly) - 1 = Len(rest)
          /\ \A i \in 1..(Len(reassembly) - 1) : rest[i] = reassembly[i + 1]
      BY <1>0, <2>1, HeadAndTail
    <2>3. /\ head.offset \in Nat /\ head.length \in Nat
          /\ End(head) = head.offset + head.length
          /\ recvOffset <= head.offset /\ End(head) <= FinalSize
          /\ head.length = 0 => head.offset = FinalSize
      <3>1. 1 \in 1..Len(reassembly)
        BY <2>2
      <3> QED  BY <2>2, <3>1, ChunkFacts
    <2> HIDE DEF head, rest
    <2>4. head.offset = recvOffset
      BY <1>c, <2>1, <2>3
    <2>5. /\ End(head) \in Nat /\ recvOffset <= End(head)
          /\ End(head) = recvOffset => End(head) = FinalSize
          /\ recvOffset' = End(head)
      BY <1>c, <2>1, <2>3, <2>4
    <2>6. DeliveredPrefix' /\ WaitersHaveNothing' /\ EndKnown' /\ ReadsAdvance
      <3>1. recvFinOffset' \in {NoFin, FinalSize}
        BY <2>1 DEF OrderInv, EndKnown
      <3> QED  BY <2>1, <2>3, <2>4, <2>5, <3>1, DeliverStep
    <2>7. \A i, j \in 1..Len(reassembly) :
              i < j => End(reassembly[i]) <= reassembly[j].offset
      BY DEF OrderInv, ChunksSorted
    <2>8. ChunksAhead'
      <3> SUFFICES ASSUME NEW i \in 1..Len(rest)
                   PROVE  ChunkAhead(rest[i], End(head))
        BY <2>1, <2>5 DEF ChunksAhead, ChunkAhead
      <3>1. i + 1 \in 1..Len(reassembly) /\ 1 \in 1..Len(reassembly) /\ 1 < i + 1
            /\ rest[i] = reassembly[i + 1]
        BY <2>2
      <3>2. End(head) <= rest[i].offset
        BY <2>2, <2>7, <3>1
      <3>3. ChunkAhead(reassembly[i + 1], recvOffset)
        BY <3>1 DEF OrderInv, ChunksAhead
      <3> QED  BY <3>1, <3>2, <3>3 DEF ChunkAhead
    <2>9. ChunksSorted'
      <3> SUFFICES ASSUME NEW i \in 1..Len(rest), NEW j \in 1..Len(rest), i < j
                   PROVE  End(rest[i]) <= rest[j].offset
        BY <2>1 DEF ChunksSorted
      <3>1. /\ i + 1 \in 1..Len(reassembly) /\ j + 1 \in 1..Len(reassembly)
            /\ i + 1 < j + 1
            /\ rest[i] = reassembly[i + 1] /\ rest[j] = reassembly[j + 1]
        BY <2>2
      <3> QED  BY <2>7, <3>1
    <2> QED  BY <2>6, <2>8, <2>9
  <1>5. CASE SignalFin
    <2>1. /\ UNCHANGED <<reassembly, recvOffset, recvFinOffset, readBuffer, got>>
          /\ finDelivered' = TRUE
          /\ recvFinOffset # NoFin /\ recvOffset >= recvFinOffset
          /\ \/ readWaiters > 0 /\ readWaiters' = readWaiters - 1 /\ eof' = TRUE
             \/ readWaiters' = readWaiters /\ eof' = eof
      BY <1>5 DEF SignalFin, FinReached
    <2>2. recvOffset = FinalSize
      BY <2>1, <1>0 DEF OrderInv, EndKnown
    <2>3. DeliveredPrefix' /\ ChunksAhead' /\ ChunksSorted'
      BY <2>1 DEF OrderInv, DeliveredPrefix, ChunksAhead, ChunkAhead, ChunksSorted
    <2>4. readWaiters' > 0 => readWaiters > 0
      BY <2>1, <1>0
    <2>5. WaitersHaveNothing'
      BY <2>1, <2>4 DEF OrderInv, WaitersHaveNothing
    <2>6. readWaiters > 0 => Len(got) = FinalSize
      <3>1. ASSUME readWaiters > 0 PROVE Len(readBuffer) = 0
        BY <3>1 DEF OrderInv, WaitersHaveNothing
      <3>2. recvOffset = Len(got) + Len(readBuffer)
        BY DEF OrderInv, DeliveredPrefix
      <3> QED  BY <1>a, <2>2, <3>1, <3>2
    <2>7. eof' => Len(got) = FinalSize
      BY <2>1, <2>6 DEF OrderInv, EndKnown
    <2>8. EndKnown'
      BY <2>1, <2>2, <2>7 DEF OrderInv, EndKnown
    <2>9. ReadsAdvance
      <3>1. Len(got') >= Len(got) /\ Len(got') = Len(got)
        BY <2>1, <1>a
      <3> QED  BY <2>1, <3>1 DEF ReadsAdvance
    <2> QED  BY <2>3, <2>5, <2>8, <2>9
  <1>6. CASE ReadBuffered
    <2>1. /\ UNCHANGED <<reassembly, recvOffset, recvFinOffset, finDelivered,
                         readWaiters, eof>>
          /\ got' = got \o readBuffer /\ readBuffer' = <<>>
      BY <1>6 DEF ReadBuffered, buffer
    <2>2. /\ Len(got') = Len(got) + Len(readBuffer)
          /\ \A i \in 1..Len(got) : got'[i] = got[i]
          /\ \A i \in (Len(got) + 1)..(Len(got) + Len(readBuffer)) :
                  got'[i] = readBuffer[i - Len(got)]
      BY <2>1, <1>0, ConcatElements
    <2>3. /\ recvOffset = Len(got) + Len(readBuffer)
          /\ \A i \in 1..Len(got) : got[i] = i - 1
          /\ \A i \in 1..Len(readBuffer) : readBuffer[i] = Len(got) + i - 1
      BY DEF OrderInv, DeliveredPrefix
    <2>4. \A i \in 1..Len(got') : got'[i] = i - 1
      <3> SUFFICES ASSUME NEW i \in 1..(Len(got) + Len(readBuffer))
                   PROVE  got'[i] = i - 1
        BY <2>2
      <3>1. CASE i <= Len(got)
        BY <3>1, <1>a, <2>2, <2>3
      <3>2. CASE i > Len(got)
        <4>1. i - Len(got) \in 1..Len(readBuffer)
              /\ i \in (Len(got) + 1)..(Len(got) + Len(readBuffer))
          BY <3>2, <1>a
        <4>2. readBuffer[i - Len(got)] = Len(got) + (i - Len(got)) - 1
          BY <4>1, <2>3
        <4> QED  BY <4>1, <4>2, <1>a, <2>2
      <3> QED  BY <3>1, <3>2, <1>a
    <2>5. Len(readBuffer') = 0 /\ recvOffset' = Len(got')
      BY <2>1, <2>2, <2>3
    <2>6. DeliveredPrefix'
      BY <2>4, <2>5, <1>a, <2>2 DEF DeliveredPrefix
    <2>7. WaitersHaveNothing' /\ ChunksAhead' /\ ChunksSorted'
      BY <2>1 DEF OrderInv, WaitersHaveNothing, ChunksAhead, ChunkAhead, ChunksSorted
    <2>8. Len(got) = FinalSize => Len(got') = FinalSize
      <3>1. recvOffset <= FinalSize
        BY DEF OrderInv, EndKnown
      <3> QED  BY <3>1, <2>2, <2>3, <1>a, <1>0
    <2>9. EndKnown'
      BY <2>1, <2>8 DEF OrderInv, EndKnown
    <2>10. ReadsAdvance
      BY <2>1, <2>2, <1>a DEF ReadsAdvance
    <2> QED  BY <2>6, <2>7, <2>9, <2>10
  <1>7. CASE ReadEnd
    <2>1. /\ UNCHANGED <<reassembly, recvOffset, recvFinOffset, finDelivered,
                         readWaiters, readBuffer, got>>
          /\ readBuffer = <<>> /\ finDelivered /\ eof' = TRUE
      BY <1>7 DEF ReadEnd, buffer
    <2>2. Len(got) = FinalSize
      <3>1. Len(readBuffer) = 0 /\ recvOffset = FinalSize
        BY <2>1 DEF OrderInv, EndKnown
      <3>2. recvOffset = Len(got) + Len(readBuffer)
        BY DEF OrderInv, DeliveredPrefix
      <3> QED  BY <1>a, <3>1, <3>2
    <2>3. DeliveredPrefix' /\ WaitersHaveNothing' /\ ChunksAhead' /\ ChunksSorted'
      BY <2>1 DEF OrderInv, DeliveredPrefix, WaitersHaveNothing, ChunksAhead,
                  ChunkAhead, ChunksSorted
    <2>4. EndKnown'
      BY <2>1, <2>2 DEF OrderInv, EndKnown
    <2>5. Len(got') >= Len(got) /\ Len(got') = Len(got)
      BY <2>1, <1>a
    <2> QED  BY <2>1, <2>3, <2>4, <2>5 DEF ReadsAdvance
  <1>8. ASSUME UNCHANGED <<buffer, readBuffer, got, eof>>,
               readWaiters' > 0 => readWaiters > 0 \/ readBuffer = <<>>
        PROVE  DeliveredPrefix' /\ WaitersHaveNothing' /\ ChunksAhead'
               /\ ChunksSorted' /\ EndKnown' /\ ReadsAdvance
    <2>1. UNCHANGED <<reassembly, recvOffset, recvFinOffset, finDelivered,
                      readBuffer, got, eof>>
      BY <1>8 DEF buffer
    <2>2. DeliveredPrefix' /\ ChunksAhead' /\ ChunksSorted'
      BY <2>1 DEF OrderInv, DeliveredPrefix, ChunksAhead, ChunkAhead, ChunksSorted
    <2>3. WaitersHaveNothing'
      BY <2>1, <1>8 DEF OrderInv, WaitersHaveNothing
    <2>4. EndKnown'
      BY <2>1 DEF OrderInv, EndKnown
    <2> QED  BY <2>1, <2>2, <2>3, <2>4, <1>a DEF ReadsAdvance
  (* The other steps leave the bytes alone. *)
  <1>9. CASE DrainDone \/ NoFinYet \/ Replenish \/ LocalFin \/ UNCHANGED vars
    <2>1. UNCHANGED <<buffer, readers>>
      BY <1>9 DEF DrainDone, NoFinYet, Replenish, LocalFin, vars
    <2> QED  BY <2>1, <1>8 DEF readers
  <1>10. CASE ReadWait
    BY <1>10, <1>8 DEF ReadWait
  <1>11. CASE ResetPeer \/ ForceClose
    <2>1. UNCHANGED <<buffer, readBuffer, got, eof>> /\ readWaiters' = 0
      BY <1>11 DEF ResetPeer, ForceClose, LeaveMap
    <2>2. ~(readWaiters' > 0)
      BY <2>1
    <2> QED  BY <2>1, <2>2, <1>8
  <1> QED
    BY <1>1, <1>2, <1>3, <1>4, <1>5, <1>6, <1>7, <1>9, <1>10, <1>11
    DEF Next, HandleStream, Continue, Read

LEMMA OrderInit ==
    ASSUME Init, TypeOK
    PROVE  OrderInv
  <1>1. /\ Len(got) = 0 /\ Len(readBuffer) = 0 /\ Len(reassembly) = 0
        /\ recvOffset = 0 /\ recvFinOffset = NoFin
        /\ readWaiters = 0 /\ finDelivered = FALSE /\ eof = FALSE
    BY DEF Init
  <1>2. DeliveredPrefix /\ WaitersHaveNothing
    BY <1>1 DEF DeliveredPrefix, WaitersHaveNothing
  <1>3. ChunksAhead /\ ChunksSorted
    BY <1>1 DEF ChunksAhead, ChunksSorted
  <1>4. EndKnown
    BY <1>1, SizesAssumption DEF EndKnown
  <1> QED  BY <1>2, <1>3, <1>4 DEF OrderInv

LEMMA OrderInvariant ==
    ASSUME ~OverlapBuffered
    PROVE  Spec => []OrderInv
  <1>1. Init /\ TypeOK => OrderInv
    BY OrderInit
  <1>2. OrderInv /\ [Next]_vars /\ TypeOK' => OrderInv'
    BY OrderStep
  <1> QED  BY <1>1, <1>2, TypeCorrect, PTL DEF Spec

(* The bytes the application reads are the peer's, in order and complete   *)
(* up to recvOffset (deliver, insertReassembly, drainReassembly), if no    *)
(* frame arrives that overlaps bytes waiting in the reassembly buffer.     *)
THEOREM DeliveryIsOrdered ==
    ASSUME ~OverlapBuffered
    PROVE  Spec => []InOrderDelivery
  <1>1. OrderInv => InOrderDelivery
    <2> SUFFICES ASSUME OrderInv PROVE InOrderDelivery
      OBVIOUS
    <2>1. got \in Seq(Nat) /\ readBuffer \in Seq(Nat)
      BY DEF OrderInv, TypeOK, ReadersType
    <2>2. Len(got) \in Nat /\ Len(readBuffer) \in Nat
      BY <2>1
    <2> DEFINE both == got \o readBuffer
    <2>3. /\ Len(both) = Len(got) + Len(readBuffer)
          /\ \A i \in 1..Len(got) : both[i] = got[i]
          /\ \A i \in (Len(got) + 1)..(Len(got) + Len(readBuffer)) :
                  both[i] = readBuffer[i - Len(got)]
      BY <2>1, ConcatElements
    <2> HIDE DEF both
    <2>4. /\ recvOffset = Len(got) + Len(readBuffer)
          /\ \A i \in 1..Len(got) : got[i] = i - 1
          /\ \A i \in 1..Len(readBuffer) : readBuffer[i] = Len(got) + i - 1
      BY DEF OrderInv, DeliveredPrefix
    <2>5. \A i \in 1..Len(both) : both[i] = i - 1
      <3> SUFFICES ASSUME NEW i \in 1..(Len(got) + Len(readBuffer))
                   PROVE  both[i] = i - 1
        BY <2>3
      <3>1. CASE i <= Len(got)
        BY <3>1, <2>2, <2>3, <2>4
      <3>2. CASE i > Len(got)
        <4>1. i - Len(got) \in 1..Len(readBuffer)
              /\ i \in (Len(got) + 1)..(Len(got) + Len(readBuffer))
          BY <3>2, <2>2
        <4>2. readBuffer[i - Len(got)] = Len(got) + (i - Len(got)) - 1
          BY <4>1, <2>4
        <4> QED  BY <4>1, <4>2, <2>2, <2>3
      <3> QED  BY <3>1, <3>2, <2>2
    <2> QED  BY <2>4, <2>5 DEF InOrderDelivery, both
  <1> QED  BY <1>1, OrderInvariant, PTL

(* read() reports the end only behind the last byte of the stream.         *)
THEOREM EndIsComplete ==
    ASSUME ~OverlapBuffered
    PROVE  Spec => []EofIsComplete
  <1>1. OrderInv => EofIsComplete
    BY DEF OrderInv, EndKnown, EofIsComplete
  <1> QED  BY <1>1, OrderInvariant, PTL

(* Between two rounds of the drain a chunk may be deliverable, at no other *)
(* time: insertReassembly only takes what lies behind a gap, and the drain *)
(* ends at the first chunk that does, the lowest that is left.             *)
GapBefore(n) == \A i \in 1..Len(reassembly) : reassembly[i].offset > n

Drained == phase # "drain" => GapBefore(recvOffset)

LEMMA DrainedStep ==
    ASSUME OrderInv, Drained, [Next]_vars
    PROVE  Drained'
  <1>0. reassembly \in Seq(Chunk) /\ recvOffset \in Nat /\ Len(reassembly) \in Nat
    BY DEF OrderInv, TypeOK, BufferType
  <1>1. ASSUME NEW f \in Frames, IngestAhead(f)
        PROVE  Drained'
    <2> DEFINE c == [offset |-> f.offset, length |-> f.length]
    <2>1. /\ phase # "drain" /\ recvOffset' = recvOffset /\ f.offset > recvOffset
          /\ InsertReassembly(c)
      BY <1>1 DEF IngestAhead, StartIngest
    <2>2. PICK k \in 0..Len(reassembly) : reassembly' = InsertAt(reassembly, k + 1, c)
      BY <2>1 DEF InsertReassembly
    <2>3. c \in Chunk /\ c.offset = f.offset
      BY FrameFacts DEF Chunk
    <2> HIDE DEF c
    <2>4. /\ Len(reassembly') = Len(reassembly) + 1
          /\ \A i \in 1..k : reassembly'[i] = reassembly[i]
          /\ reassembly'[k + 1] = c
          /\ \A i \in (k + 2)..(Len(reassembly) + 1) : reassembly'[i] = reassembly[i - 1]
      BY <1>0, <2>2, <2>3, InsertElements
    <2>5. \A i \in 1..Len(reassembly) : reassembly[i].offset > recvOffset
      BY <2>1 DEF Drained, GapBefore
    <2>6. ASSUME NEW i \in 1..Len(reassembly')
          PROVE  reassembly'[i].offset > recvOffset
      <3>1. CASE i <= k
        BY <1>0, <2>4, <2>5, <3>1
      <3>2. CASE i = k + 1
        BY <2>1, <2>3, <2>4, <3>2
      <3>3. CASE i > k + 1
        <4>1. i \in (k + 2)..(Len(reassembly) + 1) /\ i - 1 \in 1..Len(reassembly)
          BY <1>0, <2>4, <3>3
        <4> QED  BY <2>4, <2>5, <4>1
      <3> QED  BY <1>0, <2>4, <3>1, <3>2, <3>3
    <2> QED  BY <2>1, <2>6 DEF Drained, GapBefore
  <1>2. CASE DrainDone
    <2>1. UNCHANGED <<reassembly, recvOffset>> /\ ~HeadBridges
      BY <1>2 DEF DrainDone, buffer
    <2>2. ASSUME NEW i \in 1..Len(reassembly)
          PROVE  reassembly[i].offset > recvOffset
      <3>1. reassembly # <<>> /\ Head(reassembly) = reassembly[1] /\ 1 \in 1..Len(reassembly)
        BY <1>0, HeadAndTail
      <3>2. ~(reassembly[1].offset <= recvOffset)
        BY <2>1, <3>1 DEF HeadBridges
      <3>3. /\ reassembly[1].offset \in Nat /\ reassembly[1].length \in Nat
            /\ End(reassembly[1]) = reassembly[1].offset + reassembly[1].length
        BY <3>1, ChunkFacts
      <3>4. reassembly[i].offset \in Nat
        BY ChunkFacts
      <3>5. CASE i = 1
        BY <1>0, <3>2, <3>3, <3>5
      <3>6. CASE i # 1
        <4>1. 1 < i
          BY <3>6
        <4>2. End(reassembly[1]) <= reassembly[i].offset
          BY <3>1, <4>1 DEF OrderInv, ChunksSorted
        <4> QED  BY <1>0, <3>2, <3>3, <3>4, <4>2
      <3> QED  BY <3>5, <3>6
    <2> QED  BY <2>1, <2>2 DEF Drained, GapBefore
  <1>3. CASE phase' = "drain"
    BY <1>3 DEF Drained
  <1>4. CASE phase # "drain" /\ UNCHANGED <<reassembly, recvOffset>>
    BY <1>4 DEF Drained, GapBefore
  (* The other steps deliver and go on to drain, or touch neither. *)
  <1>5. ASSUME NEW f \in Frames, IngestStale(f) \/ IngestContiguous(f)
        PROVE  Drained'
    BY <1>3, <1>4, <1>5 DEF IngestStale, IngestContiguous, StartIngest
  <1>6. ASSUME \/ DrainOne \/ SignalFin \/ NoFinYet \/ Replenish \/ Read
               \/ LocalFin \/ ResetPeer \/ ForceClose \/ UNCHANGED vars
        PROVE  Drained'
    <2>1. phase' = "drain" \/ (phase # "drain" /\ UNCHANGED <<reassembly, recvOffset>>)
      BY <1>6 DEF DrainOne, SignalFin, NoFinYet, Replenish, Read, ReadBuffered, ReadEnd,
           ReadWait, LocalFin, ResetPeer, ForceClose, LeaveMap, vars, buffer, handler
    <2> QED  BY <1>3, <1>4, <2>1
  <1> QED
    BY <1>1, <1>2, <1>5, <1>6 DEF Next, HandleStream, Continue

(* No read waits beside bytes that are there, in the read buffer or, once  *)
(* a handler is done, in the reassembly buffer (deliver, drainReassembly). *)
THEOREM NoReadIsForgotten ==
    ASSUME ~OverlapBuffered
    PROVE  Spec => []NoLostWakeup
  <1>1. Init => Drained
    BY DEF Init, Drained, GapBefore
  <1>2. OrderInv /\ Drained /\ [Next]_vars => Drained'
    BY DrainedStep
  <1>3. OrderInv /\ Drained => NoLostWakeup
    BY DEF OrderInv, WaitersHaveNothing, Drained, GapBefore, NoLostWakeup
  <1> QED  BY <1>1, <1>2, <1>3, OrderInvariant, PTL DEF Spec

(* In the states of the invariant what was read is a prefix of the stream. *)
GotIsPrefix ==
    /\ got = Promise!Prefix(Len(got))
    /\ Len(got) \in 0..FinalSize

LEMMA ReadIsPrefix ==
    ASSUME OrderInv
    PROVE  GotIsPrefix
  <1>1. got \in Seq(Nat) /\ readBuffer \in Seq(Nat) /\ FinalSize \in Nat
        /\ recvOffset \in Nat
    BY SizesAssumption DEF OrderInv, TypeOK, ReadersType, BufferType
  <1>2. \A i \in 1..Len(got) : got[i] = i - 1
    BY DEF OrderInv, DeliveredPrefix
  <1>3. got = [i \in 1..Len(got) |-> got[i]]
    BY <1>1
  <1>4. got = [i \in 1..Len(got) |-> i - 1]
    BY <1>2, <1>3
  <1>5. recvOffset = Len(got) + Len(readBuffer) /\ recvOffset <= FinalSize
    BY DEF OrderInv, DeliveredPrefix, EndKnown
  <1>6. Len(got) \in Nat /\ Len(readBuffer) \in Nat
    BY <1>1
  <1> QED  BY <1>1, <1>4, <1>5, <1>6 DEF GotIsPrefix, Promise!Prefix

(* The receiving half, with its reassembly buffer, its waiters and its     *)
(* handler in phases, keeps the promise of the abstract ByteStream.        *)
THEOREM ReceiveImplementsByteStream ==
    ASSUME ~OverlapBuffered
    PROVE  Spec => KeepsPromise
  <1>1. Init => Promise!Init
    BY DEF Init, Promise!Init
  <1>2. OrderInv => GotIsPrefix
    BY ReadIsPrefix
  <1>3. ASSUME OrderInv, OrderInv', [Next]_vars, TypeOK', GotIsPrefix, GotIsPrefix'
        PROVE  [Promise!Next]_Promise!vars
    <2>0. FinalSize \in Nat
      BY SizesAssumption
    <2>1. /\ Len(got') >= Len(got)
          /\ Len(got') = Len(got) \/ eof' = eof
          /\ eof => eof'
      BY <1>3, OrderStep DEF ReadsAdvance
    <2>2. /\ got = Promise!Prefix(Len(got)) /\ Len(got) \in Nat
          /\ Len(got) <= FinalSize
      BY <1>3, <2>0 DEF GotIsPrefix
    <2>3. /\ got' = Promise!Prefix(Len(got')) /\ Len(got') \in Nat
          /\ Len(got') <= FinalSize
      <3>1. Len(got') \in 0..FinalSize
        BY <1>3 DEF GotIsPrefix
      <3>2. got' = Promise!Prefix(Len(got'))
        BY <1>3 DEF GotIsPrefix, Promise!Prefix
      <3> QED  BY <2>0, <3>1, <3>2
    <2>4. eof \in BOOLEAN /\ eof' \in BOOLEAN
      BY <1>3 DEF OrderInv, TypeOK, ReadersType
    <2>5. eof => Len(got) = FinalSize
      BY <1>3 DEF OrderInv, EndKnown
    <2>6. eof' => Len(got') = FinalSize
      BY <1>3 DEF OrderInv, EndKnown
    <2>7. CASE Len(got') = Len(got)
      <3>1. got' = got
        BY <2>2, <2>3, <2>7
      <3>2. CASE eof' = eof
        BY <3>1, <3>2 DEF Promise!vars
      <3>3. CASE eof' # eof
        <4>1. ~eof /\ eof' = TRUE
          BY <2>1, <2>4, <3>3
        <4>2. got = Promise!Prefix(FinalSize)
          BY <2>2, <2>6, <2>7, <4>1
        <4> QED  BY <3>1, <4>1, <4>2 DEF Promise!Next, Promise!ReadEnd
      <3> QED  BY <3>2, <3>3
    <2>8. CASE Len(got') # Len(got)
      <3>1. Len(got') \in (Len(got) + 1)..FinalSize
        BY <2>1, <2>2, <2>3, <2>8
      <3>2. ~eof
        BY <2>5, <2>0, <3>1, <2>2
      <3>3. eof' = eof
        BY <2>1, <2>8
      <3> QED  BY <2>3, <3>1, <3>2, <3>3 DEF Promise!Next, Promise!ReadBytes
    <2> QED  BY <2>7, <2>8
  <1> QED
    BY <1>1, <1>2, <1>3, TypeCorrect, OrderInvariant, PTL
    DEF Spec, KeepsPromise, Promise!Spec

-------------------------------------------------------------------------------
(* The stream's state says which of the two FINs went through              *)
(* (transitionOnLocalFin, transitionOnRemoteFin), whatever frames arrive.  *)
THEOREM StateIsTracked == Spec => []StateTracksFins
  <1>1. Init => StateTracksFins
    BY DEF Init, StateTracksFins
  <1>2. ASSUME TypeOK, StateTracksFins, [Next]_vars
        PROVE  StateTracksFins'
    <2>0. finSent \in BOOLEAN /\ finDelivered \in BOOLEAN
      BY <1>2 DEF TypeOK, LifeType, BufferType
    <2>1. CASE SignalFin
      BY <1>2, <2>0, <2>1 DEF SignalFin, TransitionOnRemoteFin, StateTracksFins
    <2>2. CASE LocalFin
      BY <1>2, <2>0, <2>2 DEF LocalFin, TransitionOnLocalFin, StateTracksFins, buffer
    <2>3. CASE ResetPeer \/ ForceClose
      BY <2>3 DEF ResetPeer, ForceClose, LeaveMap, StateTracksFins
    <2>4. CASE UNCHANGED <<state, finSent, finDelivered>>
      BY <1>2, <2>4 DEF StateTracksFins
    <2>5. ASSUME NEW f \in Frames, IngestStale(f) \/ IngestContiguous(f) \/ IngestAhead(f)
          PROVE  UNCHANGED <<state, finSent, finDelivered>>
      BY <2>5 DEF IngestStale, IngestContiguous, IngestAhead, StartIngest, life
    <2>6. DrainOne \/ DrainDone \/ NoFinYet \/ Replenish \/ Read \/ UNCHANGED vars
            => UNCHANGED <<state, finSent, finDelivered>>
      BY DEF DrainOne, DrainDone, NoFinYet, Replenish, Read, ReadBuffered, ReadEnd,
             ReadWait, vars, life, buffer
    <2> QED
      BY <1>2, <2>1, <2>2, <2>3, <2>4, <2>5, <2>6 DEF Next, HandleStream, Continue
  <1> QED  BY <1>1, <1>2, TypeCorrect, PTL DEF Spec

-------------------------------------------------------------------------------
(***************************************************************************)
(* Credit.  What is delivered and what waits were received, each byte at   *)
(* most as often as it was counted: the counts are stated as a function    *)
(* that runs from recvOffset through the chunks that wait.                 *)
(***************************************************************************)

(* A count for every place in a sequence of chunks. *)
Counts(t, r, from, limit) ==
    /\ t \in [0..Len(r) -> Nat] /\ from <= t[0]
    /\ \A i \in 1..Len(r) : t[i - 1] + r[i].length <= t[i]
    /\ \A i \in 0..Len(r) : t[i] <= limit

CountedIn(r, from, limit) == \E t : Counts(t, r, from, limit)

LEMMA CountFacts ==
    ASSUME NEW r \in Seq(Chunk), NEW from \in Nat, NEW m \in Nat, NEW t, Counts(t, r, from, m)
    PROVE  /\ Len(r) \in Nat /\ from <= t[0]
           /\ \A i \in 0..Len(r) : t[i] \in Nat /\ t[i] <= m
           /\ \A i \in 1..Len(r) : /\ r[i].length \in Nat
                                   /\ i - 1 \in 0..Len(r) /\ i \in 0..Len(r)
                                   /\ t[i - 1] + r[i].length <= t[i]
  <1>1. Len(r) \in Nat /\ \A i \in 1..Len(r) : r[i] \in Chunk
    OBVIOUS
  <1>2. \A c \in Chunk : c.length \in Nat
    BY DEF Chunk
  <1>3. \A i \in 1..Len(r) : r[i].length \in Nat
    BY <1>1, <1>2
  <1>4. t \in [0..Len(r) -> Nat]
    BY DEF Counts
  <1>5. \A i \in 1..Len(r) : i - 1 \in 0..Len(r) /\ i \in 0..Len(r)
    BY <1>1
  <1>6. \A i \in 0..Len(r) : t[i] \in Nat
    BY <1>4
  <1>7. /\ from <= t[0] /\ \A i \in 0..Len(r) : t[i] <= m
        /\ \A i \in 1..Len(r) : t[i - 1] + r[i].length <= t[i]
    BY DEF Counts
  <1> QED  BY <1>1, <1>3, <1>5, <1>6, <1>7

LEMMA CountedMore ==
    ASSUME NEW r \in Seq(Chunk), NEW from \in Nat, NEW m \in Nat, CountedIn(r, from, m),
           NEW n \in Nat, m <= n
    PROVE  CountedIn(r, from, n)
  <1>1. PICK t : Counts(t, r, from, m)
    BY DEF CountedIn
  <1>2. /\ t \in [0..Len(r) -> Nat] /\ from <= t[0]
        /\ \A i \in 1..Len(r) : t[i - 1] + r[i].length <= t[i]
    BY <1>1 DEF Counts
  <1>3. ASSUME NEW i \in 0..Len(r) PROVE t[i] <= n
    <2>1. t[i] \in Nat /\ t[i] <= m
      BY <1>1, CountFacts
    <2> QED  BY <2>1
  <1>4. Counts(t, r, from, n)
    BY <1>2, <1>3 DEF Counts
  <1> QED  BY <1>4 DEF CountedIn

LEMMA CountedFrom ==
    ASSUME NEW r \in Seq(Chunk), NEW from \in Nat, NEW m \in Nat, CountedIn(r, from, m)
    PROVE  from <= m
  <1>1. PICK t : Counts(t, r, from, m)
    BY DEF CountedIn
  <1>2. t[0] \in Nat /\ 0 \in 0..Len(r)
    BY <1>1 DEF Counts
  <1> QED  BY <1>1, <1>2 DEF Counts

(* The bytes of a frame that are delivered are counted with it, ... *)
LEMMA CountedDelivery ==
    ASSUME NEW r \in Seq(Chunk), NEW from \in Nat, NEW m \in Nat, CountedIn(r, from, m),
           NEW n \in Nat, NEW to \in Nat, to <= from + n
    PROVE  CountedIn(r, to, m + n)
  <1>1. PICK t : Counts(t, r, from, m)
    BY DEF CountedIn
  <1> DEFINE u == [i \in 0..Len(r) |-> t[i] + n]
  <1>2. /\ Len(r) \in Nat /\ from <= t[0]
        /\ \A i \in 0..Len(r) : t[i] \in Nat /\ t[i] <= m
        /\ \A i \in 1..Len(r) : /\ r[i].length \in Nat
                                /\ i - 1 \in 0..Len(r) /\ i \in 0..Len(r)
                                /\ t[i - 1] + r[i].length <= t[i]
    BY <1>1, CountFacts
  <1>3. \A i \in 0..Len(r) : u[i] = t[i] + n /\ u[i] \in Nat
    BY <1>2
  <1>4. u \in [0..Len(r) -> Nat]
    BY <1>2
  <1> HIDE DEF u
  <1>5. to <= u[0]
    BY <1>2, <1>3
  <1>6. ASSUME NEW i \in 1..Len(r) PROVE u[i - 1] + r[i].length <= u[i]
    <2>1. /\ r[i].length \in Nat /\ t[i - 1] + r[i].length <= t[i]
          /\ i - 1 \in 0..Len(r) /\ i \in 0..Len(r)
      BY <1>2
    <2>2. u[i - 1] = t[i - 1] + n /\ u[i] = t[i] + n /\ t[i - 1] \in Nat /\ t[i] \in Nat
      BY <1>2, <1>3, <2>1
    <2> QED  BY <2>1, <2>2, SMTT(30)
  <1>7. ASSUME NEW i \in 0..Len(r) PROVE u[i] <= m + n
    BY <1>2, <1>3, SMTT(30)
  <1>8. Counts(u, r, to, m + n)
    BY <1>4, <1>5, <1>6, <1>7 DEF Counts
  <1> QED  BY <1>8 DEF CountedIn

(* ... those of a frame that is kept for later with the chunk, ... *)
LEMMA CountedInsert ==
    ASSUME NEW r \in Seq(Chunk), NEW from \in Nat, NEW m \in Nat, CountedIn(r, from, m),
           NEW c \in Chunk, NEW k \in 0..Len(r)
    PROVE  CountedIn(InsertAt(r, k + 1, c), from, m + c.length)
  <1>1. PICK t : Counts(t, r, from, m)
    BY DEF CountedIn
  <1> DEFINE s == InsertAt(r, k + 1, c)
             n == Len(r)
             u == [i \in 0..(n + 1) |-> IF i <= k THEN t[i] ELSE t[i - 1] + c.length]
  <1>2. /\ Len(s) = n + 1 /\ s[k + 1] = c
        /\ \A i \in 1..k : s[i] = r[i]
        /\ \A i \in (k + 2)..(n + 1) : s[i] = r[i - 1]
    BY InsertElements
  <1>3. /\ n \in Nat /\ k \in 0..n /\ c.length \in Nat
        /\ \A i \in 0..n : t[i] \in Nat /\ t[i] <= m
        /\ \A i \in 1..n : r[i].length \in Nat /\ t[i - 1] + r[i].length <= t[i]
    BY <1>1, CountFacts DEF Chunk
  <1>4. from <= t[0]
    BY <1>1 DEF Counts
  <1>5. \A i \in 0..(n + 1) : u[i] = IF i <= k THEN t[i] ELSE t[i - 1] + c.length
    OBVIOUS
  <1>6. ASSUME NEW i \in 0..(n + 1) PROVE u[i] \in Nat /\ u[i] <= m + c.length
    <2>1. CASE i <= k
      <3>1. i \in 0..n
        BY <1>3, <2>1
      <3>2. u[i] = t[i]
        BY <1>5, <2>1
      <3> HIDE DEF u
      <3> QED  BY <1>3, <3>1, <3>2
    <2>2. CASE ~(i <= k)
      <3>1. i - 1 \in 0..n
        BY <1>3, <2>2
      <3>2. u[i] = t[i - 1] + c.length
        BY <1>5, <2>2
      <3> HIDE DEF u
      <3> QED  BY <1>3, <3>1, <3>2, SMTT(30)
    <2> QED  BY <2>1, <2>2
  <1>7. u \in [0..Len(s) -> Nat]
    BY <1>2, <1>6
  <1> HIDE DEF u, s, n
  <1>8. from <= u[0]
    BY <1>3, <1>4, <1>5
  <1>9. ASSUME NEW i \in 1..(n + 1) PROVE u[i - 1] + s[i].length <= u[i]
    <2>0. i - 1 \in 0..(n + 1) /\ i \in 0..(n + 1)
      BY <1>3
    <2>1. CASE i <= k
      <3>1. i \in 1..n /\ i \in 1..k /\ i - 1 <= k
        BY <1>3, <2>1
      <3>2. u[i - 1] = t[i - 1] /\ u[i] = t[i] /\ s[i] = r[i]
        BY <1>2, <1>5, <2>0, <2>1, <3>1
      <3> QED  BY <1>3, <3>1, <3>2
    <2>2. CASE i = k + 1
      <3>1. i - 1 <= k /\ ~(i <= k) /\ i - 1 \in 0..n
        BY <1>3, <2>2
      <3>2. u[i - 1] = t[i - 1] /\ u[i] = t[i - 1] + c.length /\ s[i] = c
        BY <1>2, <1>5, <2>0, <2>2, <3>1
      <3> QED  BY <1>3, <3>1, <3>2
    <2>3. CASE i > k + 1
      <3>1. /\ ~(i <= k) /\ ~(i - 1 <= k) /\ i - 1 \in 1..n /\ i \in (k + 2)..(n + 1)
            /\ (i - 1) - 1 \in 0..n
        BY <1>3, <2>3
      <3>2. u[i - 1] = t[(i - 1) - 1] + c.length /\ u[i] = t[i - 1] + c.length
        BY <1>5, <2>0, <3>1
      <3>3. s[i] = r[i - 1]
        BY <1>2, <3>1
      <3>4. /\ t[(i - 1) - 1] + r[i - 1].length <= t[i - 1] /\ r[i - 1].length \in Nat
            /\ t[i - 1] \in Nat /\ t[(i - 1) - 1] \in Nat
        BY <1>3, <3>1
      <3> QED  BY <1>3, <3>2, <3>3, <3>4, SMTT(30)
    <2> QED  BY <1>3, <2>1, <2>2, <2>3
  <1>10. Counts(u, s, from, m + c.length)
    BY <1>2, <1>3, <1>6, <1>7, <1>8, <1>9 DEF Counts
  <1> QED  BY <1>10 DEF CountedIn, s

(* ... and the head of the reassembly buffer was counted before.           *)
LEMMA CountedDrain ==
    ASSUME NEW r \in Seq(Chunk), r # <<>>, NEW from \in Nat, NEW m \in Nat,
           CountedIn(r, from, m)
    PROVE  CountedIn(Tail(r), from + Head(r).length, m)
  <1>1. PICK t : Counts(t, r, from, m)
    BY DEF CountedIn
  <1> DEFINE s == Tail(r)
             n == Len(r) - 1
             u == [i \in 0..n |-> t[i + 1]]
  <1>2. /\ n \in Nat /\ Head(r) = r[1] /\ Len(s) = n /\ Len(r) = n + 1
        /\ \A i \in 1..n : s[i] = r[i + 1]
    BY HeadAndTail
  <1> HIDE DEF n, s
  <1>3. /\ \A i \in 0..(n + 1) : t[i] \in Nat /\ t[i] <= m
        /\ \A i \in 1..(n + 1) : r[i].length \in Nat /\ t[i - 1] + r[i].length <= t[i]
        /\ from <= t[0]
    BY <1>1, <1>2, CountFacts
  <1>4. \A i \in 0..n : u[i] = t[i + 1] /\ i + 1 \in 0..(n + 1)
    BY <1>2
  <1>5. u \in [0..Len(s) -> Nat]
    BY <1>2, <1>3, <1>4
  <1> HIDE DEF u
  <1>6. from + r[1].length <= u[0]
    <2>1. t[0] + r[1].length <= t[1] /\ r[1].length \in Nat /\ t[0] \in Nat /\ t[1] \in Nat
      <3>1. 1 \in 1..(n + 1) /\ 1 - 1 = 0 /\ 0 \in 0..(n + 1) /\ 1 \in 0..(n + 1)
        BY <1>2
      <3> QED  BY <1>3, <3>1
    <2>2. u[0] = t[1]
      BY <1>2, <1>4
    <2> QED  BY <1>3, <2>1, <2>2
  <1>7. ASSUME NEW i \in 1..n PROVE u[i - 1] + s[i].length <= u[i]
    <2>1. i + 1 \in 1..(n + 1) /\ (i + 1) - 1 = i /\ i - 1 \in 0..n /\ (i - 1) + 1 = i /\ i \in 0..n
      BY <1>2
    <2>2. t[i] + r[i + 1].length <= t[i + 1]
      BY <1>3, <2>1
    <2>3. u[i - 1] = t[i] /\ u[i] = t[i + 1] /\ s[i] = r[i + 1]
      BY <1>2, <1>4, <2>1
    <2> QED  BY <2>2, <2>3
  <1>8. Counts(u, s, from + r[1].length, m)
    BY <1>2, <1>3, <1>4, <1>5, <1>6, <1>7 DEF Counts
  <1> QED  BY <1>2, <1>8 DEF CountedIn, s

(* Everything that came lay within a limit. *)
Below(offset, chunks, limit) ==
    /\ offset <= limit
    /\ \A i \in 1..Len(chunks) : End(chunks[i]) <= limit

InWindows ==
    /\ Below(recvOffset, reassembly, connectionMaxDataAdvertised)
    /\ Below(recvOffset, reassembly, PeerLimit)

(* Half the connection's limit covers what came before the last MAX_DATA.  *)
ConnCount == connectionMaxDataAdvertised \div 2 + connectionDataReceived + frame.length

BytesCounted ==
    /\ InWindows
    /\ CountedIn(reassembly, recvOffset, dataReceived)
    /\ CountedIn(reassembly, recvOffset, ConnCount)

(* A limit of the stream that a MAX_STREAM_DATA stated is never used up.   *)
StreamCredit ==
    phase = "idle" => recvOffset < PeerLimit \/ PeerLimit = GivenWindow

ConnCredit ==
    /\ connectionMaxDataAdvertised > 0
    /\ phase = "idle" =>
         /\ frame.length = 0
         /\ connectionDataReceived = 0
            \/ connectionDataReceived < connectionMaxDataAdvertised \div 2

CreditInv == BytesCounted /\ StreamCredit /\ ConnCredit

LEMMA CreditNumbers ==
    ASSUME OrderInv
    PROVE  /\ recvOffset \in Nat /\ reassembly \in Seq(Chunk)
           /\ dataReceived \in Nat /\ maxStreamDataAdvertised \in Nat
           /\ connectionDataReceived \in Nat /\ connectionMaxDataAdvertised \in Nat
           /\ frame.length \in Nat /\ ConnCount \in Nat
           /\ StreamWindow \in Nat \ {0} /\ GivenWindow \in Nat /\ PeerLimit \in Nat
  <1>1. /\ recvOffset \in Nat /\ reassembly \in Seq(Chunk)
        /\ dataReceived \in Nat /\ maxStreamDataAdvertised \in Nat
        /\ connectionDataReceived \in Nat /\ connectionMaxDataAdvertised \in Nat
        /\ frame.length \in Nat
    BY DEF OrderInv, TypeOK, BufferType, CreditType, HandlerType, FrameType
  <1>2. ConnCount \in Nat
    BY <1>1 DEF ConnCount
  <1>3. PeerLimit \in Nat
    BY <1>1, SizesAssumption DEF PeerLimit
  <1> QED  BY <1>1, <1>2, <1>3, SizesAssumption

(* Bytes within the connection's limit, in chunks that do not overlap, are *)
(* no more than the limit.                                                 *)
LEMMA CountedInWindow ==
    ASSUME OrderInv, Below(recvOffset, reassembly, connectionMaxDataAdvertised)
    PROVE  CountedIn(reassembly, recvOffset, connectionMaxDataAdvertised)
  <1> DEFINE n == Len(reassembly)
             u == [i \in 0..n |-> IF i = 0 THEN recvOffset ELSE End(reassembly[i])]
  <1>1. n \in Nat /\ recvOffset \in Nat /\ connectionMaxDataAdvertised \in Nat
    BY CreditNumbers
  <1>2. ASSUME NEW i \in 1..n
        PROVE  /\ End(reassembly[i]) \in Nat /\ reassembly[i].length \in Nat
               /\ reassembly[i].offset \in Nat /\ recvOffset <= reassembly[i].offset
               /\ End(reassembly[i]) = reassembly[i].offset + reassembly[i].length
               /\ End(reassembly[i]) <= connectionMaxDataAdvertised
    BY <1>2, ChunkFacts DEF Below
  <1>3. u[0] = recvOffset /\ \A i \in 1..n : u[i] = End(reassembly[i])
    BY <1>1
  <1>4. ASSUME NEW i \in 0..n PROVE u[i] \in Nat /\ u[i] <= connectionMaxDataAdvertised
    <2>1. i = 0 \/ i \in 1..n
      BY <1>1
    <2> HIDE DEF u
    <2> QED  BY <1>1, <1>2, <1>3, <2>1 DEF Below
  <1>5. u \in [0..n -> Nat]
    BY <1>4
  <1> HIDE DEF u
  <1>6. ASSUME NEW i \in 1..n PROVE u[i - 1] + reassembly[i].length <= u[i]
    <2>1. CASE i = 1
      <3>1. i - 1 = 0
        BY <2>1
      <3>2. u[i - 1] = recvOffset /\ u[i] = End(reassembly[i])
        BY <1>3, <3>1
      <3> QED  BY <1>1, <1>2, <3>2
    <2>2. CASE i # 1
      <3>1. i - 1 \in 1..n /\ i - 1 < i
        BY <1>1, <2>2
      <3>2. End(reassembly[i - 1]) <= reassembly[i].offset
        BY <3>1 DEF OrderInv, ChunksSorted
      <3>3. u[i - 1] = End(reassembly[i - 1]) /\ u[i] = End(reassembly[i])
        BY <1>3, <3>1
      <3>4. End(reassembly[i - 1]) \in Nat
        BY <1>2, <3>1
      <3> QED  BY <1>2, <3>2, <3>3, <3>4
    <2> QED  BY <2>1, <2>2
  <1>7. Counts(u, reassembly, recvOffset, connectionMaxDataAdvertised)
    BY <1>1, <1>3, <1>4, <1>5, <1>6 DEF Counts
  <1> QED  BY <1>7 DEF CountedIn

(* The counters when a frame has come ... *)
LEMMA IngestCredit ==
    ASSUME OrderInv, CreditInv, NEW f \in Frames, StartIngest(f), phase' # "idle",
           CountedIn(reassembly', recvOffset', dataReceived + f.length),
           CountedIn(reassembly', recvOffset', ConnCount + f.length),
           Below(recvOffset', reassembly', connectionMaxDataAdvertised),
           Below(recvOffset', reassembly', PeerLimit)
    PROVE  CreditInv'
  <1>1. /\ phase = "idle" /\ frame' = f /\ dataReceived' = dataReceived + f.length
        /\ UNCHANGED <<maxStreamDataAdvertised, connectionDataReceived,
                       connectionMaxDataAdvertised>>
    BY DEF StartIngest
  <1>2. f.length \in Nat
    BY FrameFacts
  <1>3. ConnCount' = ConnCount + f.length
    <2>1. frame.length = 0
      BY <1>1 DEF CreditInv, ConnCredit
    <2>2. (frame.length)' = f.length
      BY <1>1
    <2>3. connectionMaxDataAdvertised \div 2 \in Nat
      BY CreditNumbers
    <2> QED  BY <1>1, <1>2, <2>1, <2>2, <2>3, CreditNumbers DEF ConnCount
  <1>4. InWindows'
    <2>1. PeerLimit' = PeerLimit
      BY <1>1 DEF PeerLimit
    <2>2. /\ Below(recvOffset', reassembly', connectionMaxDataAdvertised')
          /\ Below(recvOffset', reassembly', PeerLimit')
      BY <1>1, <2>1
    <2> QED  BY <2>2 DEF InWindows, Below, End
  <1>5. BytesCounted'
    BY <1>1, <1>3, <1>4 DEF BytesCounted
  <1>6. StreamCredit'
    BY DEF StreamCredit
  <1>7. ConnCredit'
    BY <1>1 DEF CreditInv, ConnCredit
  <1> QED  BY <1>5, <1>6, <1>7 DEF CreditInv

(* A limit only grows, and one that a MAX_STREAM_DATA stated grows with    *)
(* every replenishment.                                                    *)
LEMMA LimitGrows ==
    ASSUME OrderInv, CreditInv, Replenish
    PROVE  /\ PeerLimit' \in Nat /\ PeerLimit <= PeerLimit'
           /\ recvOffset < PeerLimit' \/ PeerLimit' = GivenWindow
  <1>1. /\ recvOffset \in Nat /\ dataReceived \in Nat /\ maxStreamDataAdvertised \in Nat
        /\ StreamWindow \in Nat \ {0} /\ GivenWindow \in Nat /\ PeerLimit \in Nat
        /\ ConnCount \in Nat
    BY CreditNumbers
  <1>2. maxStreamDataAdvertised' = IF ReplenishNeeded
                                   THEN maxStreamDataAdvertised + StreamWindow
                                   ELSE maxStreamDataAdvertised
    BY DEF Replenish
  <1>3. recvOffset <= dataReceived /\ recvOffset <= PeerLimit
    <2>1. CountedIn(reassembly, recvOffset, dataReceived) /\ InWindows
      BY DEF CreditInv, BytesCounted
    <2>2. recvOffset <= dataReceived
      BY <2>1, CountedFrom, CreditNumbers
    <2> QED  BY <2>1, <2>2 DEF InWindows, Below
  <1>4. CASE ReplenishNeeded
    <2>1. maxStreamDataAdvertised' = maxStreamDataAdvertised + StreamWindow
      BY <1>2, <1>4
    <2>2. /\ PeerLimit' \in Nat /\ PeerLimit <= PeerLimit'
          /\ PeerLimit < PeerLimit' \/ PeerLimit' = GivenWindow
      BY <1>1, <2>1 DEF PeerLimit
    <2> QED  BY <1>1, <1>3, <2>2
  <1>5. CASE ~ReplenishNeeded
    <2>1. maxStreamDataAdvertised' = maxStreamDataAdvertised
      BY <1>2, <1>5
    <2>2. PeerLimit' = PeerLimit
      BY <2>1 DEF PeerLimit
    <2>3. dataReceived < maxStreamDataAdvertised \div 2
      BY <1>1, <1>5 DEF ReplenishNeeded
    <2>4. recvOffset < maxStreamDataAdvertised
      BY <1>1, <1>3, <2>3
    <2>5. PeerLimit = maxStreamDataAdvertised \/ PeerLimit = GivenWindow
      BY DEF PeerLimit
    <2> QED  BY <1>1, <2>2, <2>4, <2>5
  <1> QED  BY <1>4, <1>5

LEMMA BelowMore ==
    ASSUME OrderInv, NEW m \in Nat, NEW k \in Nat, m <= k, Below(recvOffset, reassembly, m)
    PROVE  Below(recvOffset, reassembly, k)
  <1>1. recvOffset \in Nat /\ \A i \in 1..Len(reassembly) : End(reassembly[i]) \in Nat
    BY ChunkFacts, CreditNumbers
  <1> QED  BY <1>1 DEF Below

(* ... and when its credit is replenished. *)
LEMMA ReplenishCredit ==
    ASSUME OrderInv, CreditInv, Replenish
    PROVE  CreditInv'
  <1>1. /\ phase' = "idle" /\ frame' = EmptyFrame
        /\ UNCHANGED <<reassembly, recvOffset, dataReceived>>
    BY DEF Replenish, buffer
  <1>2. (frame.length)' = 0
    BY <1>1 DEF EmptyFrame
  <1>3. StreamCredit'
    BY <1>1, LimitGrows DEF StreamCredit
  <1>4. CountedIn(reassembly', recvOffset', dataReceived')
    BY <1>1 DEF CreditInv, BytesCounted
  <1>5. Below(recvOffset, reassembly, PeerLimit')
    BY LimitGrows, BelowMore, CreditNumbers DEF CreditInv, BytesCounted, InWindows
  <1>6. Below(recvOffset, reassembly, connectionMaxDataAdvertised)
    BY DEF CreditInv, BytesCounted, InWindows
  <1>7. CASE ConnReplenishNeeded
    <2>1. /\ connectionDataReceived' = 0
          /\ connectionMaxDataAdvertised' = 2 * connectionMaxDataAdvertised
      BY <1>7 DEF Replenish
    <2>2. ConnCount' = connectionMaxDataAdvertised
      BY <1>2, <2>1, CreditNumbers DEF ConnCount
    <2>3. CountedIn(reassembly', recvOffset', ConnCount')
      BY <1>1, <1>6, <2>2, CountedInWindow
    <2>4. Below(recvOffset, reassembly, connectionMaxDataAdvertised')
      <3>1. /\ connectionMaxDataAdvertised' \in Nat
            /\ connectionMaxDataAdvertised <= connectionMaxDataAdvertised'
        BY <2>1, CreditNumbers
      <3> QED  BY <1>6, <3>1, BelowMore, CreditNumbers
    <2>5. InWindows'
      BY <1>1, <1>5, <2>4 DEF InWindows, Below, End
    <2>6. ConnCredit'
      BY <1>2, <2>1, CreditNumbers DEF CreditInv, ConnCredit
    <2> QED  BY <1>3, <1>4, <2>3, <2>5, <2>6 DEF CreditInv, BytesCounted
  <1>8. CASE ~ConnReplenishNeeded
    <2>1. /\ connectionDataReceived' = connectionDataReceived + frame.length
          /\ UNCHANGED connectionMaxDataAdvertised
      BY <1>8 DEF Replenish
    <2>2. ConnCount' = ConnCount
      BY <1>2, <2>1, CreditNumbers, SMTT(30) DEF ConnCount
    <2>3. CountedIn(reassembly', recvOffset', ConnCount')
      BY <1>1, <2>2 DEF CreditInv, BytesCounted
    <2>4. InWindows'
      BY <1>1, <1>5, <1>6, <2>1 DEF InWindows, Below, End
    <2>5. connectionDataReceived + frame.length < connectionMaxDataAdvertised \div 2
      BY <1>8, CreditNumbers DEF ConnReplenishNeeded
    <2>6. ConnCredit'
      BY <1>2, <2>1, <2>5 DEF CreditInv, ConnCredit
    <2> QED  BY <1>3, <1>4, <2>3, <2>4, <2>6 DEF CreditInv, BytesCounted
  <1> QED  BY <1>7, <1>8

LEMMA CreditInit ==
    ASSUME Init
    PROVE  CreditInv
  <1> DEFINE t == [i \in 0..0 |-> 0]
  <1>1. /\ reassembly = <<>> /\ Len(reassembly) = 0 /\ recvOffset = 0
        /\ dataReceived = 0 /\ maxStreamDataAdvertised = StreamWindow
        /\ connectionDataReceived = 0 /\ connectionMaxDataAdvertised = ConnWindow
        /\ frame.length = 0
    BY DEF Init, EmptyFrame
  <1>2. ConnCount \in Nat
    BY <1>1, SizesAssumption DEF ConnCount
  <1>3. t \in [0..0 -> Nat] /\ \A i \in 0..0 : t[i] = 0
    OBVIOUS
  <1> HIDE DEF t
  <1>4. ASSUME NEW n \in Nat PROVE CountedIn(reassembly, recvOffset, n)
    <2>1. Counts(t, reassembly, recvOffset, n)
      BY <1>1, <1>3 DEF Counts
    <2> QED  BY <2>1 DEF CountedIn
  <1>5. PeerLimit = GivenWindow
    BY <1>1, SizesAssumption DEF PeerLimit
  <1>6. BytesCounted
    BY <1>1, <1>2, <1>4, <1>5, SizesAssumption DEF BytesCounted, InWindows, Below
  <1>7. StreamCredit
    BY <1>5 DEF StreamCredit
  <1>8. ConnCredit
    BY <1>1, SizesAssumption DEF ConnCredit
  <1> QED  BY <1>6, <1>7, <1>8 DEF CreditInv

(* A step that leaves the buffer and the counters alone, within a handler  *)
(* or between two.                                                         *)
LEMMA CreditKept ==
    ASSUME CreditInv,
           UNCHANGED <<reassembly, recvOffset, credit, frame>>,
           phase' = "idle" => phase = "idle"
    PROVE  CreditInv'
  <1>1. UNCHANGED <<reassembly, recvOffset, frame, dataReceived, maxStreamDataAdvertised,
                    connectionDataReceived, connectionMaxDataAdvertised>>
    BY DEF credit
  <1>2. PeerLimit' = PeerLimit
    BY <1>1 DEF PeerLimit
  <1>3. BytesCounted'
    BY <1>1, <1>2 DEF CreditInv, BytesCounted, InWindows, Below, ConnCount
  <1>4. StreamCredit' /\ ConnCredit'
    BY <1>1, <1>2 DEF CreditInv, StreamCredit, ConnCredit
  <1> QED  BY <1>3, <1>4 DEF CreditInv

(* The head of the reassembly buffer lies within every limit it lay within *)
(* before it is delivered.                                                 *)
LEMMA DrainBelow ==
    ASSUME OrderInv, DrainOne, NEW m \in Nat, Below(recvOffset, reassembly, m)
    PROVE  Below(recvOffset', reassembly', m)
  <1> DEFINE head == Head(reassembly)
             rest == Tail(reassembly)
  <1>1. /\ reassembly # <<>> /\ head.offset <= recvOffset
        /\ recvOffset' = recvOffset + head.length /\ reassembly' = rest
    BY DEF DrainOne, HeadBridges
  <1>2. /\ Len(reassembly) \in Nat \ {0} /\ head = reassembly[1]
        /\ Len(reassembly) - 1 = Len(rest)
        /\ \A i \in 1..(Len(reassembly) - 1) : rest[i] = reassembly[i + 1]
    BY <1>1, HeadAndTail, CreditNumbers
  <1>3. /\ head.offset \in Nat /\ head.length \in Nat
        /\ End(head) = head.offset + head.length /\ recvOffset <= head.offset
        /\ End(head) <= m
    <2>1. 1 \in 1..Len(reassembly)
      BY <1>2
    <2> QED  BY <1>2, <2>1, ChunkFacts DEF Below
  <1> HIDE DEF head, rest
  <1>4. recvOffset' <= m
    <2>1. recvOffset \in Nat
      BY CreditNumbers
    <2>2. recvOffset = head.offset
      BY <1>1, <1>3, <2>1
    <2>3. recvOffset' = End(head)
      BY <1>1, <1>3, <2>2
    <2> QED  BY <1>3, <2>3
  <1>5. ASSUME NEW i \in 1..Len(rest)
        PROVE  End(rest[i]) <= m
    <2>1. i + 1 \in 1..Len(reassembly) /\ rest[i] = reassembly[i + 1]
      BY <1>2
    <2> QED  BY <2>1 DEF Below
  <1> QED  BY <1>1, <1>4, <1>5 DEF Below

(* drainReassembly, one round. *)
LEMMA DrainCredit ==
    ASSUME OrderInv, CreditInv, DrainOne
    PROVE  CreditInv'
  <1>1. /\ reassembly # <<>>
        /\ recvOffset' = recvOffset + Head(reassembly).length /\ reassembly' = Tail(reassembly)
        /\ phase = "drain" /\ phase' = "drain" /\ UNCHANGED <<credit, frame>>
    BY DEF DrainOne, HeadBridges, handler
  <1>2. UNCHANGED <<dataReceived, maxStreamDataAdvertised,
                    connectionDataReceived, connectionMaxDataAdvertised>>
    BY <1>1 DEF credit
  <1>3. ConnCount' = ConnCount /\ PeerLimit' = PeerLimit
    BY <1>1, <1>2 DEF ConnCount, PeerLimit
  <1>4. /\ CountedIn(reassembly, recvOffset, dataReceived)
        /\ CountedIn(reassembly, recvOffset, ConnCount) /\ InWindows
    BY DEF CreditInv, BytesCounted
  <1>5. /\ CountedIn(reassembly', recvOffset', dataReceived)
        /\ CountedIn(reassembly', recvOffset', ConnCount)
    BY <1>1, <1>4, CountedDrain, CreditNumbers
  <1>6. /\ Below(recvOffset', reassembly', connectionMaxDataAdvertised)
        /\ Below(recvOffset', reassembly', PeerLimit)
    BY <1>4, DrainBelow, CreditNumbers DEF InWindows
  <1>7. InWindows'
    BY <1>2, <1>3, <1>6 DEF InWindows, Below, End
  <1>8. BytesCounted'
    BY <1>2, <1>3, <1>5, <1>7 DEF BytesCounted
  <1>9. StreamCredit' /\ ConnCredit'
    BY <1>1, <1>2 DEF CreditInv, StreamCredit, ConnCredit
  <1> QED  BY <1>8, <1>9 DEF CreditInv

LEMMA AheadBelow ==
    ASSUME OrderInv, NEW f \in Frames, IngestAhead(f), NEW m \in Nat,
           Below(recvOffset, reassembly, m), End(f) <= m
    PROVE  Below(recvOffset', reassembly', m)
  <1> DEFINE c == [offset |-> f.offset, length |-> f.length]
  <1>1. recvOffset' = recvOffset /\ InsertReassembly(c)
    BY DEF IngestAhead
  <1>2. c \in Chunk /\ End(c) = End(f)
    BY FrameFacts DEF Chunk, End
  <1>3. PICK k \in 0..Len(reassembly) : reassembly' = InsertAt(reassembly, k + 1, c)
    BY <1>1 DEF InsertReassembly
  <1> HIDE DEF c
  <1>4. /\ Len(reassembly) \in Nat /\ Len(reassembly') = Len(reassembly) + 1
        /\ reassembly'[k + 1] = c
        /\ \A i \in 1..k : reassembly'[i] = reassembly[i]
        /\ \A i \in (k + 2)..(Len(reassembly) + 1) : reassembly'[i] = reassembly[i - 1]
    <2>1. reassembly \in Seq(Chunk) /\ Len(reassembly) \in Nat
      BY CreditNumbers
    <2>2. /\ Len(reassembly) + 1 = Len(InsertAt(reassembly, k + 1, c))
          /\ \A i \in 1..k : InsertAt(reassembly, k + 1, c)[i] = reassembly[i]
          /\ InsertAt(reassembly, k + 1, c)[k + 1] = c
          /\ \A i \in (k + 2)..(Len(reassembly) + 1) :
                  InsertAt(reassembly, k + 1, c)[i] = reassembly[i - 1]
      BY <1>2, <2>1, InsertElements
    <2> QED  BY <1>3, <2>1, <2>2
  <1>5. ASSUME NEW i \in 1..(Len(reassembly) + 1)
        PROVE  End(reassembly'[i]) <= m
    <2>1. CASE i \in 1..k
      <3>1. i \in 1..Len(reassembly)
        BY <1>4, <2>1
      <3> QED  BY <1>4, <2>1, <3>1 DEF Below
    <2>2. CASE i = k + 1
      BY <1>2, <1>4, <2>2
    <2>3. CASE i \in (k + 2)..(Len(reassembly) + 1)
      <3>1. i - 1 \in 1..Len(reassembly)
        BY <1>4, <2>3
      <3> QED  BY <1>4, <2>3, <3>1 DEF Below
    <2> QED  BY <1>4, <2>1, <2>2, <2>3
  <1> QED  BY <1>1, <1>4, <1>5 DEF Below

(* A frame above a gap is kept, and its bytes are counted with it.         *)
LEMMA AheadCredit ==
    ASSUME OrderInv, CreditInv, NEW f \in Frames, IngestAhead(f)
    PROVE  CreditInv'
  <1> DEFINE c == [offset |-> f.offset, length |-> f.length]
  <1>1. /\ StartIngest(f) /\ recvOffset' = recvOffset /\ phase' = "fin"
        /\ InsertReassembly(c)
    BY DEF IngestAhead
  <1>2. c \in Chunk /\ c.length = f.length /\ f.length \in Nat
    BY FrameFacts DEF Chunk
  <1>3. End(f) <= connectionMaxDataAdvertised /\ End(f) <= PeerLimit
    BY <1>1 DEF StartIngest, MayArrive
  <1>4. PICK k \in 0..Len(reassembly) : reassembly' = InsertAt(reassembly, k + 1, c)
    BY <1>1 DEF InsertReassembly
  <1>5. /\ CountedIn(reassembly, recvOffset, dataReceived)
        /\ CountedIn(reassembly, recvOffset, ConnCount) /\ InWindows
    BY DEF CreditInv, BytesCounted
  <1> HIDE DEF c
  <1>6. /\ CountedIn(reassembly', recvOffset', dataReceived + f.length)
        /\ CountedIn(reassembly', recvOffset', ConnCount + f.length)
    <2>1. /\ CountedIn(InsertAt(reassembly, k + 1, c), recvOffset, dataReceived + c.length)
          /\ CountedIn(InsertAt(reassembly, k + 1, c), recvOffset, ConnCount + c.length)
      BY <1>2, <1>5, CountedInsert, CreditNumbers
    <2> QED  BY <1>1, <1>2, <1>4, <2>1
  <1>7. /\ Below(recvOffset', reassembly', connectionMaxDataAdvertised)
        /\ Below(recvOffset', reassembly', PeerLimit)
    BY <1>3, <1>5, AheadBelow, CreditNumbers DEF InWindows
  <1>8. phase' # "idle"
    BY <1>1
  <1> QED  BY <1>1, <1>6, <1>7, <1>8, IngestCredit

(* A frame that was delivered before, or that continues the stream.        *)
LEMMA DeliveredCredit ==
    ASSUME OrderInv, CreditInv, NEW f \in Frames,
           IngestStale(f) \/ IngestContiguous(f)
    PROVE  CreditInv'
  <1>1. /\ StartIngest(f) /\ reassembly' = reassembly /\ phase' # "idle"
        /\ recvOffset' = recvOffset \/ (recvOffset' = End(f) /\ f.offset <= recvOffset)
    BY DEF IngestStale, IngestContiguous
  <1>2. End(f) <= connectionMaxDataAdvertised /\ End(f) <= PeerLimit
    BY <1>1 DEF StartIngest, MayArrive
  <1>3. /\ CountedIn(reassembly, recvOffset, dataReceived)
        /\ CountedIn(reassembly, recvOffset, ConnCount) /\ InWindows
    BY DEF CreditInv, BytesCounted
  <1>4. /\ f.offset \in Nat /\ f.length \in Nat /\ End(f) \in Nat
        /\ End(f) = f.offset + f.length
    BY FrameFacts
  <1>5. recvOffset' \in Nat /\ recvOffset' <= recvOffset + f.length
    <2>1. recvOffset \in Nat
      BY CreditNumbers
    <2>2. CASE recvOffset' = recvOffset
      BY <1>4, <2>1, <2>2
    <2>3. CASE recvOffset' = End(f) /\ f.offset <= recvOffset
      BY <1>4, <2>1, <2>3
    <2> QED  BY <1>1, <2>2, <2>3
  <1>6. /\ CountedIn(reassembly, recvOffset', dataReceived + f.length)
        /\ CountedIn(reassembly, recvOffset', ConnCount + f.length)
    BY <1>3, <1>4, <1>5, CountedDelivery, CreditNumbers
  <1>7. /\ Below(recvOffset', reassembly', connectionMaxDataAdvertised)
        /\ Below(recvOffset', reassembly', PeerLimit)
    BY <1>1, <1>2, <1>3 DEF InWindows, Below
  <1> QED  BY <1>1, <1>6, <1>7, IngestCredit

LEMMA CreditStep ==
    ASSUME OrderInv, CreditInv, [Next]_vars
    PROVE  CreditInv'
  <1>1. CASE HandleStream
    BY <1>1, DeliveredCredit, AheadCredit DEF HandleStream
  <1>2. CASE DrainOne
    BY <1>2, DrainCredit
  <1>3. CASE Replenish
    BY <1>3, ReplenishCredit
  <1>4. CASE DrainDone \/ SignalFin \/ NoFinYet
    <2>1. UNCHANGED <<reassembly, recvOffset, credit, frame>> /\ phase' # "idle"
      BY <1>4 DEF DrainDone, SignalFin, NoFinYet, buffer
    <2> QED  BY <2>1, CreditKept
  <1>5. CASE Read \/ LocalFin \/ ResetPeer \/ ForceClose \/ UNCHANGED vars
    <2>1. UNCHANGED <<reassembly, recvOffset, credit, frame, phase>>
      BY <1>5 DEF Read, ReadBuffered, ReadEnd, ReadWait, LocalFin, ResetPeer, ForceClose,
                  LeaveMap, vars, buffer, handler
    <2> QED  BY <2>1, CreditKept
  <1> QED  BY <1>1, <1>2, <1>3, <1>4, <1>5 DEF Next, Continue

(* CreditOutstanding, as far as it does not depend on how large the        *)
(* windows are.                                                            *)
CreditRenewed ==
    phase = "idle" =>
        /\ recvOffset < connectionMaxDataAdvertised
        /\ recvOffset < PeerLimit \/ PeerLimit = GivenWindow

(* What the counts say of the limits.                                      *)
LEMMA CreditLeft ==
    ASSUME OrderInv, CreditInv
    PROVE  CreditRenewed
  <1> SUFFICES ASSUME phase = "idle"
               PROVE  /\ recvOffset < connectionMaxDataAdvertised
                      /\ recvOffset < PeerLimit \/ PeerLimit = GivenWindow
    BY DEF CreditRenewed
  <1>1. /\ recvOffset \in Nat /\ connectionDataReceived \in Nat
        /\ connectionMaxDataAdvertised \in Nat /\ frame.length \in Nat /\ ConnCount \in Nat
    BY CreditNumbers
  <1>2. recvOffset <= ConnCount
    <2>1. CountedIn(reassembly, recvOffset, ConnCount)
      BY DEF CreditInv, BytesCounted
    <2> QED  BY <1>1, <2>1, CountedFrom, CreditNumbers
  <1>3. /\ frame.length = 0 /\ connectionMaxDataAdvertised > 0
        /\ connectionDataReceived = 0
           \/ connectionDataReceived < connectionMaxDataAdvertised \div 2
    BY DEF CreditInv, ConnCredit
  <1>4. recvOffset <= connectionMaxDataAdvertised \div 2 + connectionDataReceived
    BY <1>1, <1>2, <1>3 DEF ConnCount
  <1>5. recvOffset < PeerLimit \/ PeerLimit = GivenWindow
    BY DEF CreditInv, StreamCredit
  <1> QED  BY <1>1, <1>3, <1>4, <1>5

(* For all sizes of windows, if no frame overlaps buffered bytes, the peer *)
(* has credit left between handlers: on the connection always, on the      *)
(* stream from the first MAX_STREAM_DATA that exceeds what our transport   *)
(* parameters gave it (replenishNeeded, replenishConnectionCredit).  That  *)
(* there is such a one in time depends on the sizes, and the code does not *)
(* ensure it.                                                              *)
THEOREM CreditIsRenewed ==
    ASSUME ~OverlapBuffered
    PROVE  Spec => []CreditRenewed
  <1>1. Init => CreditInv
    BY CreditInit
  <1>2. OrderInv /\ CreditInv /\ [Next]_vars => CreditInv'
    BY CreditStep
  <1>3. OrderInv /\ CreditInv => CreditRenewed
    BY CreditLeft
  <1> QED  BY <1>1, <1>2, <1>3, OrderInvariant, PTL DEF Spec

===============================================================================
