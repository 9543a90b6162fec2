---------------------------- MODULE HandshakeProofs ----------------------------
(***************************************************************************)
(* What holds of module Handshake for any number of handshake() calls and  *)
(* any length of the server's flight, as TLAPS proves it.                  *)
(***************************************************************************)
EXTENDS Handshake, TLAPS

(* Every chunk the server sent is in exactly one place; only a read that   *)
(* was resumed carries any, one that waits has an empty buffer before it,  *)
(* and a run that has no stream yet has had nothing sent to it.            *)
Counted(c)  == got[c] + carry[c] + inbox[c] = served[c]
Placed(c)   == /\ reader[c] # "resumed" => carry[c] = 0
               /\ reader[c] = "waiting" => inbox[c] = 0
Unopened(c) == /\ reader[c] = "none" /\ served[c] = 0
               /\ unsent[c] = {} /\ ~HasReceived(c)

ChunkInv ==
    \A c \in Calls : /\ Counted(c) /\ Placed(c)
                     /\ call[c] \in {"idle", "opening"} => Unopened(c)

HandInv == TypeOK /\ ChunkInv

LEMMA HandInit == Init => HandInv
  <1> SUFFICES ASSUME Init
               PROVE  TypeOK /\ ChunkInv
    BY DEF HandInv
  <1>1. call \in [Calls -> {"idle", "opening", "running", "derived", "done", "failed"}]
    BY DEF Init
  <1>2. 0 \in 0..Flight
    BY FlightAssumption
  <1>3. TypeOK
    BY <1>1, <1>2 DEF Init, TypeOK
  <1>4. ASSUME NEW c \in Calls
        PROVE  /\ Counted(c) /\ Placed(c)
               /\ call[c] \in {"idle", "opening"} => Unopened(c)
    BY DEF Init, Counted, Placed, Unopened, HasReceived
  <1> QED  BY <1>3, <1>4 DEF ChunkInv

(* What a run's own step does to the other runs' accounts: nothing.        *)
LEMMA HandshakeCallKeeps ==
  ASSUME HandInv, NEW c \in AppCalls, HandshakeCall(c)
  PROVE  HandInv'
  <1>1. c \in Calls
    BY DEF Calls
  <1>2. TypeOK'
    BY <1>1 DEF HandInv, TypeOK, HandshakeCall, adapter
  <1>3. ChunkInv'
    BY <1>1 DEF HandInv, TypeOK, ChunkInv, HandshakeCall, adapter,
                Counted, Placed, Unopened, HasReceived
  <1> QED  BY <1>2, <1>3 DEF HandInv

LEMMA OpenStreamKeeps ==
  ASSUME HandInv, NEW c \in Calls, OpenStream(c)
  PROVE  HandInv'
  <1> USE DEF HandInv, OpenStream
  <1>1. TypeOK'
    BY DEF TypeOK, Messages
  <1>2. Unopened(c) /\ Counted(c)
    BY DEF ChunkInv
  <1>3. got[c] \in Nat /\ carry[c] \in Nat /\ inbox[c] \in Nat
    BY FlightAssumption DEF TypeOK
  <1>4. got[c] = 0 /\ carry[c] = 0 /\ inbox[c] = 0
    BY <1>2, <1>3 DEF Unopened, Counted
  <1>5. ASSUME NEW d \in Calls
        PROVE  /\ Counted(d)' /\ Placed(d)'
               /\ call'[d] \in {"idle", "opening"} => Unopened(d)'
    <2>1. Counted(d)'
      BY DEF ChunkInv, Counted
    <2>2. Placed(d)'
      BY <1>4 DEF TypeOK, ChunkInv, Placed
    <2>3. call'[d] \in {"idle", "opening"} => Unopened(d)'
      BY DEF TypeOK, ChunkInv, Unopened, HasReceived
    <2> QED  BY <2>1, <2>2, <2>3
  <1>6. ChunkInv'
    BY <1>5 DEF ChunkInv
  <1> QED  BY <1>1, <1>6

LEMMA ResumeKeeps ==
  ASSUME HandInv, NEW c \in Calls, Resume(c)
  PROVE  HandInv'
  <1>1. /\ got[c] \in 0..Flight /\ carry[c] \in 0..Flight
        /\ inbox[c] \in 0..Flight /\ served[c] \in 0..Flight
    BY DEF HandInv, TypeOK
  <1>2. Counted(c) /\ call[c] \notin {"idle", "opening"}
    BY DEF HandInv, ChunkInv, Unopened, Resume
  <1>3. got[c] + carry[c] \in 0..Flight
    BY <1>1, <1>2, FlightAssumption DEF Counted
  <1>4. TypeOK'
    BY <1>1, <1>3, FlightAssumption
    DEF HandInv, TypeOK, Resume, ReadOrWait, ReadNoMore, Messages
  <1>5. ASSUME NEW d \in Calls
        PROVE  /\ Counted(d)' /\ Placed(d)'
               /\ call'[d] \in {"idle", "opening"} => Unopened(d)'
    <2>1. Counted(d) /\ Placed(d)
      BY DEF HandInv, ChunkInv
    <2>2. CASE d # c
      BY <2>1, <2>2, ZenonT(30) DEF HandInv, TypeOK, ChunkInv, Resume, ReadOrWait, ReadNoMore,
                        Counted, Placed, Unopened, HasReceived
    <2>3. CASE d = c
      <3>1. Counted(c)' /\ Placed(c)'
        BY <1>1, <1>2 DEF HandInv, TypeOK, Resume, ReadOrWait, ReadNoMore, Counted, Placed
      <3>2. call'[c] \notin {"idle", "opening"}
        BY <1>2 DEF HandInv, TypeOK, Resume
      <3> QED  BY <2>3, <3>1, <3>2
    <2> QED  BY <2>2, <2>3
  <1>6. ChunkInv'
    BY <1>5 DEF ChunkInv
  <1> QED  BY <1>4, <1>6 DEF HandInv

LEMMA ServerDataKeeps ==
  ASSUME HandInv, NEW c \in Calls, ServerData(c)
  PROVE  HandInv'
  <1>1. /\ got[c] \in 0..Flight /\ carry[c] \in 0..Flight
        /\ inbox[c] \in 0..Flight /\ served[c] \in 0..Flight
    BY DEF HandInv, TypeOK
  <1>2. Counted(c) /\ Placed(c) /\ call[c] \notin {"idle", "opening"}
    BY DEF HandInv, ChunkInv, Unopened, ServerData
  <1>3. inbox[c] + 1 \in 0..Flight /\ served[c] + 1 \in 0..Flight
    BY <1>1, <1>2, FlightAssumption DEF Counted, ServerData
  <1>4. TypeOK'
    BY <1>1, <1>3, FlightAssumption DEF HandInv, TypeOK, ServerData
  <1>5. ASSUME NEW d \in Calls
        PROVE  /\ Counted(d)' /\ Placed(d)'
               /\ call'[d] \in {"idle", "opening"} => Unopened(d)'
    <2>1. CASE d # c
      BY <2>1 DEF HandInv, TypeOK, ChunkInv, ServerData, Counted, Placed, Unopened, HasReceived
    <2>2. CASE d = c
      BY <1>1, <1>2, <2>2 DEF HandInv, TypeOK, ServerData, Counted, Placed
    <2> QED  BY <2>1, <2>2
  <1>6. ChunkInv'
    BY <1>5 DEF ChunkInv
  <1> QED  BY <1>4, <1>6 DEF HandInv

(* The drain sends a hello only for a run whose stream is open.            *)
LEMMA EndDatagramKeeps ==
  ASSUME HandInv, EndDatagram
  PROVE  HandInv'
  <1>1. TypeOK'
    BY DEF HandInv, TypeOK, EndDatagram, adapter
  <1>2. ASSUME NEW c \in Calls, Unopened(c)
        PROVE  Unopened(c)'
    BY <1>2 DEF Unopened, EndDatagram, HasReceived, adapter
  <1>3. ChunkInv'
    BY <1>2 DEF HandInv, ChunkInv, EndDatagram, Counted, Placed, adapter
  <1> QED  BY <1>1, <1>3 DEF HandInv

LEMMA HandStep == HandInv /\ [Next]_vars => HandInv'
  <1> SUFFICES ASSUME HandInv, [Next]_vars
               PROVE  HandInv'
    OBVIOUS
  <1>1. ASSUME NEW c \in Calls, Install(c)
        PROVE  HandInv'
    BY <1>1 DEF HandInv, TypeOK, ChunkInv, Install, adapter,
                Counted, Placed, Unopened, HasReceived
  <1>2. CASE OtherDatagram
    BY <1>2 DEF HandInv, TypeOK, ChunkInv, OtherDatagram, adapter,
                Counted, Placed, Unopened, HasReceived
  <1>3. CASE Abort
    BY <1>3 DEF HandInv, TypeOK, ChunkInv, Abort, Messages,
                Counted, Placed, Unopened, HasReceived
  <1>4. CASE UNCHANGED vars
    BY <1>4 DEF HandInv, TypeOK, ChunkInv, vars, adapter,
                Counted, Placed, Unopened, HasReceived
  <1> QED
    BY HandshakeCallKeeps, OpenStreamKeeps, ResumeKeeps, ServerDataKeeps,
       EndDatagramKeeps, <1>1, <1>2, <1>3, <1>4
    DEF Next, Run

(* The state of the handshake keeps its types: no buffer, no read and no   *)
(* run ever holds more chunks than the server's flight has (the adapter    *)
(* and the stream below it).                                               *)
THEOREM TypeCorrect == Spec => []TypeOK
  <1>1. HandInv => TypeOK
    BY DEF HandInv
  <1> QED  BY <1>1, HandInit, HandStep, PTL DEF Spec

(* No chunk is lost or seen twice between the read loop and TLS, and no    *)
(* read waits beside a chunk (readNextChunk and read).                     *)
THEOREM NoChunkIsLost == Spec => []ChunksAccounted
  <1>1. HandInv => ChunksAccounted
    BY DEF HandInv, ChunkInv, Counted, Placed, ChunksAccounted
  <1> QED  BY <1>1, HandInit, HandStep, PTL DEF Spec

===============================================================================
