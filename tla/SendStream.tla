------------------------------- MODULE SendStream -------------------------------
(***************************************************************************)
(* What a QuicStream promises to do with what is written to it             *)
(* (src/src/types.ts, QuicStream.write and close, and the wire side of     *)
(* ManagedStream): the STREAM frames of a stream continue each other, send *)
(* no byte twice and none that was not written, and its FIN is sent once,  *)
(* when it was asked for, behind the last byte.                            *)
(*                                                                         *)
(* STOP_SENDING withdraws what has not been sent, a requested FIN included.*)
(* A stream lives until the peer resets it or the connection closes; from  *)
(* then on nothing is promised.  Streams move independently.               *)
(***************************************************************************)
EXTENDS Naturals

CONSTANT Streams

VARIABLES
    written,    \* per stream: the bytes written to it, but for those withdrawn
    ended,      \* per stream: whether its end was asked for
    sent,       \* per stream: the bytes put on the wire
    fins,       \* per stream: the FINs put on the wire
    live        \* the streams that were not cut off

vars == <<written, ended, sent, fins, live>>

Init ==
    /\ written = [s \in Streams |-> 0] /\ ended = [s \in Streams |-> FALSE]
    /\ sent = [s \in Streams |-> 0] /\ fins = [s \in Streams |-> 0]
    /\ live = Streams

Write(s) ==
    /\ fins[s] = 0
    /\ written'[s] > written[s]
    /\ ended'[s] = ended[s] /\ sent'[s] = sent[s] /\ fins'[s] = fins[s]

End(s) ==
    /\ ended'[s] = TRUE
    /\ written'[s] = written[s] /\ sent'[s] = sent[s] /\ fins'[s] = fins[s]

Withdraw(s) ==
    /\ written'[s] = sent[s] /\ ended'[s] = FALSE
    /\ sent'[s] = sent[s] /\ fins'[s] = fins[s]

SendData(s) ==
    /\ fins[s] = 0
    /\ sent[s] < sent'[s] /\ sent'[s] <= written[s]
    /\ written'[s] = written[s] /\ ended'[s] = ended[s] /\ fins'[s] = 0

SendFin(s) ==
    /\ ended[s] /\ fins[s] = 0
    /\ sent'[s] = written[s] /\ fins'[s] = 1
    /\ written'[s] = written[s] /\ ended'[s] = ended[s]

Rest(s) ==
    /\ written'[s] = written[s] /\ ended'[s] = ended[s]
    /\ sent'[s] = sent[s] /\ fins'[s] = fins[s]

Next ==
    /\ live' \subseteq live
    /\ \A s \in live' : Write(s) \/ End(s) \/ Withdraw(s) \/ SendData(s) \/ SendFin(s) \/ Rest(s)

Spec == Init /\ [][Next]_vars
===============================================================================
