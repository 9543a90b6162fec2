-------------------------------- MODULE MCCodec ---------------------------------
(* The codecs on small instances.  Bytes hold 128 values: all frame types  *)
(* still fit one byte, and TLC's integers reach into the eight-byte width. *)
(* The two share no state, so a behaviour is either the reader's or the    *)
(* connection's that takes in parameters.                                  *)
EXTENDS FrameCodec, TransportParameters

(* One frame of each kind and more of those with optional parts, numbers   *)
(* at the borders of their widths: 31 | 32, 4095 | 4096, 2^26 - 1 | 2^26.  *)
range(g, n) == [gap |-> g, ackRangeLength |-> n]
Ack(type, ranges) ==
    [type |-> type, largestAck |-> 4096, ackDelay |-> 31, ackRangeCount |-> Len(ranges),
     firstAckRange |-> 0, ackRanges |-> ranges]
Counts == [ecnCounts |-> [ect0 |-> 32, ect1 |-> 0, ce |-> 1]]
Stream(id, offset, data, fin) ==
    [type |-> "STREAM", streamId |-> id, offset |-> offset, data |-> data, fin |-> fin]
CloseFrame(type, e) == [type |-> type, errorCode |-> e, reason |-> <<2, 127>>]

SomeFrames ==
    {[type |-> t] : t \in {"PADDING", "PING", "HANDSHAKE_DONE"}}
    \cup {Ack("ACK", <<>>), Ack("ACK", <<range(0, 32)>>), Ack("ACK", <<range(1, 0), range(2, 4)>>)}
    \cup {Ack("ACK_ECN", <<range(1, 31)>>) @@ Counts, Ack("ACK_ECN", <<>>) @@ Counts,
          Ack("ACK_ECN", <<>>)}
    \cup {[type |-> "RESET_STREAM", streamId |-> 4, errorCode |-> 32, finalSize |-> 67108863],
          [type |-> "STOP_SENDING", streamId |-> 4095, errorCode |-> 8]}
    \cup {[type |-> "CRYPTO", offset |-> 67108864, data |-> <<6, 0>>],
          [type |-> "NEW_TOKEN", token |-> <<127>>]}
    \cup {Stream(0, 0, <<8>>, TRUE), Stream(1, 0, <<>>, FALSE), Stream(32, 31, <<127, 0>>, FALSE),
          Stream(4, 67108864, <<>>, TRUE)}
    \cup {[type |-> t, maximum |-> 4095] : t \in {"MAX_DATA", "MAX_STREAMS_BIDI", "MAX_STREAMS_UNI"}}
    \cup {[type |-> t, limit |-> 32] :
            t \in {"DATA_BLOCKED", "STREAMS_BLOCKED_BIDI", "STREAMS_BLOCKED_UNI"}}
    \cup {[type |-> "MAX_STREAM_DATA", streamId |-> 31, maximum |-> 67108864],
          [type |-> "STREAM_DATA_BLOCKED", streamId |-> 5, limit |-> 0]}
    \cup {[type |-> "NEW_CONNECTION_ID", sequenceNumber |-> 32, retirePriorTo |-> 1,
           connectionId |-> c, statelessResetToken |-> <<0, 64, 127>>] : c \in {<<>>, <<96, 1>>}}
    \cup {[type |-> "RETIRE_CONNECTION_ID", sequenceNumber |-> 31]}
    \cup {[type |-> t, data |-> <<2, 31>>] : t \in {"PATH_CHALLENGE", "PATH_RESPONSE"}}
    \cup {CloseFrame("CONNECTION_CLOSE", 32), CloseFrame("CONNECTION_CLOSE_APP", 0),
          CloseFrame("CONNECTION_CLOSE", 1) @@ [frameType |-> 4096]}

Followers == {Stream(32, 31, <<127, 0>>, TRUE), [type |-> "PING"]}
EachThenAnother == {<<f, g>> : f \in SomeFrames, g \in Followers}

SomeOptions ==
    {[name \in {} |-> 0],
     [initialMaxData |-> 4096, initialMaxStreamDataUni |-> 31],
     [name \in Known |-> 4 * Id[name]]}

(* Nothing, two parameters that the code does not know, and one that it    *)
(* knows with an empty value.                                              *)
SomeUnknown == {[i \in {} |-> <<>>], (2 :> <<>>) @@ (33 :> <<1, 2>>), 3 :> <<>>}

Init ==
    \/ /\ StartReader
       /\ InitParameters(<<>>)
    \/ /\ InitReader(<<>>, 0)
       /\ StartParameters

Next ==
    \/ NextReader /\ UNCHANGED pvars
    \/ written = <<>> /\ phase = "ended" /\ NextParameters /\ UNCHANGED rvars

Spec == Init /\ [][Next]_<<rvars, pvars>> /\ WF_<<rvars, pvars>>(NextReader /\ UNCHANGED pvars)

===============================================================================
