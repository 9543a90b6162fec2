------------------------------ MODULE Handshake -------------------------------
(***************************************************************************)
(* The TLS handshake of a connection: connectQuic, handshake() and         *)
(* performHandshake of src/src/connection.ts, the adapter that lets TLS    *)
(* read and write a QUIC stream (src/src/handshake/                        *)
(* quic-transport-adapter.ts), and runQuicHandshake (src/src/handshake/    *)
(* quic-handshake.ts).                                                     *)
(*                                                                         *)
(* connectQuic runs one handshake of its own, unless it is told to skip    *)
(* it; the application then has the connection and may call handshake()    *)
(* any number of times, also at once.  Each run has a stream of its own.   *)
(* What a stream has to send leaves when the read loop has handled a       *)
(* datagram (drainSends), at no other time.                                *)
(*                                                                         *)
(* Data.  The client writes two messages, the server answers the first     *)
(* with Flight chunks.  Abstracted: windows (both messages fit), packets   *)
(* (module Packets), and the key derivation.                               *)
(*                                                                         *)
(* Environment.  The TLS library (@browsercore/tls): it writes the hello,  *)
(* reads until it has the server's flight, may reject it, and writes       *)
(* Finished.  The server answers a hello it has received.                  *)
(***************************************************************************)
EXTENDS Naturals

CONSTANTS
    AppCalls,  \* the handshake() calls of the application
    Flight     \* chunks in the server's flight

ASSUME FlightAssumption == Flight \in Nat \ {0}
ASSUME CallsAssumption == "connect" \notin AppCalls /\ "none" \notin AppCalls

Calls == AppCalls \cup {"connect"}
Messages == {"hello", "finished"}

VARIABLES
    skip,    \* the option skipHandshake
    call,    \* progress of each run
    result,  \* the run whose handshakeResult is installed, or "none"
    reader,  \* the adapter's read: none, waiting for the stream, or resumed
    carry,   \* chunks the resumed read has got
    inbox,   \* chunks in the stream's readBuffer
    got,     \* chunks TLS has consumed
    unsent,  \* what the stream has yet to send
    sent,    \* what has gone out, and whether protected
    served,  \* chunks the server has sent
    loop,    \* the read loop: awaits a datagram, handles one, or has stopped
    aborted  \* the peer closed the connection, or an error was fatal

adapter == <<reader, carry, inbox, got>>
vars    == <<skip, call, result, adapter, unsent, sent, served, loop, aborted>>

TypeOK ==
    /\ skip \in BOOLEAN /\ aborted \in BOOLEAN
    /\ call \in [Calls -> {"idle", "opening", "running", "derived", "done", "failed"}]
    /\ result \in Calls \cup {"none"}
    /\ reader \in [Calls -> {"none", "waiting", "resumed"}]
    /\ carry \in [Calls -> 0..Flight] /\ inbox \in [Calls -> 0..Flight]
    /\ got \in [Calls -> 0..Flight] /\ served \in [Calls -> 0..Flight]
    /\ unsent \in [Calls -> SUBSET Messages]
    /\ sent \subseteq [call : Calls, message : Messages, protected : BOOLEAN]
    /\ loop \in {"recv", "dispatch", "stopped"}

Init ==
    /\ skip \in BOOLEAN
    /\ call = [c \in Calls |-> IF c # "connect" THEN "idle"
                               ELSE IF skip THEN "done" ELSE "opening"]
    /\ result = "none"
    /\ reader = [c \in Calls |-> "none"]
    /\ carry = [c \in Calls |-> 0] /\ inbox = [c \in Calls |-> 0]
    /\ got = [c \in Calls |-> 0] /\ served = [c \in Calls |-> 0]
    /\ unsent = [c \in Calls |-> {}] /\ sent = {}
    /\ loop = "recv" /\ aborted = FALSE

-------------------------------------------------------------------------------
(* Calls *)

(* handshake(), on a connection the application has.  It does not look at  *)
(* skip (connection.ts:232 says that with skipHandshake it resolves        *)
(* immediately), and joins no run that is under way.                       *)
HandshakeCall(c) ==
    /\ call[c] = "idle" /\ call["connect"] = "done"
    /\ call' = [call EXCEPT ![c] = IF result # "none" THEN "done" ELSE "opening"]
    /\ UNCHANGED <<skip, result, adapter, unsent, sent, served, loop, aborted>>

(* openBidirectionalStream, one turn later; then TLS writes its hello and  *)
(* reads.                                                                  *)
OpenStream(c) ==
    /\ call[c] = "opening"
    /\ IF aborted
       THEN /\ call' = [call EXCEPT ![c] = "failed"]
            /\ UNCHANGED <<reader, unsent>>
       ELSE /\ call' = [call EXCEPT ![c] = "running"]
            /\ unsent' = [unsent EXCEPT ![c] = {"hello"}]
            /\ reader' = [reader EXCEPT ![c] = "waiting"]
    /\ UNCHANGED <<skip, result, carry, inbox, got, sent, served, loop, aborted>>

(* The adapter's read: what the stream has buffered, or wait.  On a stream *)
(* that was force-closed it waits, too.                                    *)
ReadOrWaitUnlooked(c) ==  \* variant: waits without a look at the buffer
    /\ reader' = [reader EXCEPT ![c] = "waiting"]
    /\ carry' = [carry EXCEPT ![c] = 0]
    /\ UNCHANGED inbox

ReadOrWaitKeeps(c) ==  \* variant: the buffer is handed out and kept
    /\ reader' = [reader EXCEPT ![c] = IF inbox[c] > 0 THEN "resumed" ELSE "waiting"]
    /\ carry' = [carry EXCEPT ![c] = inbox[c]]
    /\ UNCHANGED inbox

ReadOrWait(c) ==
    /\ reader' = [reader EXCEPT ![c] = IF inbox[c] > 0 THEN "resumed" ELSE "waiting"]
    /\ carry' = [carry EXCEPT ![c] = inbox[c]]
    /\ inbox' = [inbox EXCEPT ![c] = 0]

ReadNoMore(c) ==
    /\ reader' = [reader EXCEPT ![c] = "none"]
    /\ carry' = [carry EXCEPT ![c] = 0]
    /\ UNCHANGED inbox

(* readNextChunk resumes, and TLS with the chunk: it rejects what it got,  *)
(* or reads on, or has the whole flight and writes Finished, which a       *)
(* stream that was force-closed refuses.                                   *)
Resume(c) ==
    /\ reader[c] = "resumed"
    /\ got' = [got EXCEPT ![c] = @ + carry[c]]
    /\ \/ /\ call' = [call EXCEPT ![c] = "failed"]
          /\ ReadNoMore(c) /\ UNCHANGED unsent
       \/ /\ got[c] + carry[c] < Flight
          /\ ReadOrWait(c) /\ UNCHANGED <<call, unsent>>
       \/ /\ got[c] + carry[c] = Flight
          /\ call' = [call EXCEPT ![c] = IF aborted THEN "failed" ELSE "derived"]
          /\ unsent' = [unsent EXCEPT ![c] = IF aborted THEN @ ELSE @ \cup {"finished"}]
          /\ ReadNoMore(c)
    /\ UNCHANGED <<skip, result, sent, served, loop, aborted>>

(* runQuicHandshake returns: the keys are installed, over others if need   *)
(* be, and the call returns.                                               *)
Install(c) ==
    /\ call[c] = "derived"
    /\ result' = c
    /\ call' = [call EXCEPT ![c] = "done"]
    /\ UNCHANGED <<skip, adapter, unsent, sent, served, loop, aborted>>

-------------------------------------------------------------------------------
(* Datagrams *)

HasReceived(c) == \E m \in sent : m.call = c /\ m.message = "hello"

(* A chunk of the server's flight: to the waiting read, or buffered. *)
ServerData(c) ==
    /\ loop = "recv" /\ ~aborted
    /\ HasReceived(c) /\ served[c] < Flight
    /\ served' = [served EXCEPT ![c] = @ + 1]
    /\ IF reader[c] = "waiting"
       THEN /\ reader' = [reader EXCEPT ![c] = "resumed"]
            /\ carry' = [carry EXCEPT ![c] = 1]
            /\ UNCHANGED inbox
       ELSE /\ inbox' = [inbox EXCEPT ![c] = @ + 1]
            /\ UNCHANGED <<reader, carry>>
    /\ loop' = "dispatch"
    /\ UNCHANGED <<skip, call, result, got, unsent, sent, aborted>>

(* Any other datagram of the peer. *)
OtherDatagram ==
    /\ loop = "recv" /\ ~aborted
    /\ loop' = "dispatch"
    /\ UNCHANGED <<skip, call, result, adapter, unsent, sent, served, aborted>>

(* The peer's CONNECTION_CLOSE or a fatal error: every stream is           *)
(* force-closed, and the reads that wait are rejected.                     *)
Abort ==
    /\ loop = "dispatch" /\ ~aborted
    /\ aborted' = TRUE
    /\ call' = [c \in Calls |-> IF reader[c] = "waiting" THEN "failed" ELSE call[c]]
    /\ reader' = [c \in Calls |-> IF reader[c] = "waiting" THEN "none" ELSE reader[c]]
    /\ unsent' = [c \in Calls |-> {}]
    /\ UNCHANGED <<skip, result, carry, inbox, got, sent, served, loop>>

(* The datagram is done: drainSends.  With a handshakeResult, what goes    *)
(* out is protected.                                                       *)
EndDatagramUnkeyed ==  \* variant: the drain is for connections without keys
    /\ loop = "dispatch"
    /\ loop' = IF aborted THEN "stopped" ELSE "recv"
    /\ IF result = "none"
       THEN /\ sent' = sent \cup {m \in [call : Calls, message : Messages, protected : {FALSE}] :
                                    m.message \in unsent[m.call]}
            /\ unsent' = [c \in Calls |-> {}]
       ELSE UNCHANGED <<sent, unsent>>
    /\ UNCHANGED <<skip, call, result, adapter, served, aborted>>

EndDatagram ==
    /\ loop = "dispatch"
    /\ loop' = IF aborted THEN "stopped" ELSE "recv"
    /\ sent' = sent \cup {m \in [call : Calls, message : Messages,
                                 protected : {result # "none"}] :
                            m.message \in unsent[m.call]}
    /\ unsent' = [c \in Calls |-> {}]
    /\ UNCHANGED <<skip, call, result, adapter, served, aborted>>

-------------------------------------------------------------------------------
Run(c) == OpenStream(c) \/ Resume(c) \/ Install(c)

Next ==
    \/ \E c \in AppCalls : HandshakeCall(c)
    \/ \E c \in Calls : Run(c) \/ ServerData(c)
    \/ OtherDatagram \/ Abort \/ EndDatagram

Spec == Init /\ [][Next]_vars

(* Code that was resumed runs on, and the server answers.                  *)
Fairness ==
    /\ WF_vars(EndDatagram)
    /\ \A c \in Calls : WF_vars(Run(c)) /\ SF_vars(ServerData(c))

FairSpec == Spec /\ Fairness

(* A peer that sends something from time to time without being asked.      *)
TalkativeSpec == FairSpec /\ SF_vars(OtherDatagram)

-------------------------------------------------------------------------------
(* Properties *)

(* Between the read loop, the stream's buffer, the adapter and TLS no      *)
(* chunk of the server's flight is lost or seen twice, and a run that has  *)
(* something to read does not wait.                                        *)
ChunksAccounted ==
    \A c \in Calls : call[c] = "running" =>
        /\ got[c] + carry[c] + inbox[c] = served[c]
        /\ reader[c] = "waiting" => inbox[c] = 0

(* With a peer that sends something now and then, every run of the         *)
(* handshake ends while the connection lives.                              *)
HandshakeSettles ==
    \A c \in Calls : call[c] # "idle" ~> call[c] \in {"done", "failed"} \/ aborted

(* And what TLS wrote last goes out, although the run is over by then.     *)
FinishedLeaves ==
    \A c \in Calls : call[c] = "done" /\ "finished" \in unsent[c]
        ~> (\E m \in sent : m.call = c /\ m.message = "finished") \/ aborted

===============================================================================
