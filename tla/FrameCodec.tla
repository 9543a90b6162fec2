------------------------------- MODULE FrameCodec -------------------------------
(***************************************************************************)
(* serializeFrame, and the reader that readFrames returns with decodeFrame *)
(* (src/src/frame/frame.ts).                                               *)
(*                                                                         *)
(* A frame is a record with the fields of the code's QuicFrame (types.ts); *)
(* a field that may be missing is missing from the record.  Byte strings   *)
(* are sequences of bytes.                                                 *)
(*                                                                         *)
(* The reader pulls chunks from a source and decodes field by field, with  *)
(* an await at each.  Its buffer is what it has pulled and not consumed.   *)
(*                                                                         *)
(* Environment.  What arrives is the serialization of some frames, perhaps *)
(* cut: the connection's flush cuts where a datagram is full.  The source  *)
(* hands it out in chunks of any size (the connection's own in one).       *)
(***************************************************************************)
EXTENDS Varint, SequencesExt, TLC

CONSTANTS
    Packets,            \* bound: the sequences of frames that are written
    MaxChunk,           \* bound: the longest chunk, short of all that is left
    TokenLength,        \* 16 in the code: a stateless reset token
    PathDataLength      \* 8 in the code: PATH_CHALLENGE and PATH_RESPONSE

TypeCode ==
    [PADDING |-> 0, PING |-> 1, ACK |-> 2, ACK_ECN |-> 3, RESET_STREAM |-> 4,
     STOP_SENDING |-> 5, CRYPTO |-> 6, NEW_TOKEN |-> 7, STREAM |-> 8, MAX_DATA |-> 16,
     MAX_STREAM_DATA |-> 17, MAX_STREAMS_BIDI |-> 18, MAX_STREAMS_UNI |-> 19,
     DATA_BLOCKED |-> 20, STREAM_DATA_BLOCKED |-> 21, STREAMS_BLOCKED_BIDI |-> 22,
     STREAMS_BLOCKED_UNI |-> 23, NEW_CONNECTION_ID |-> 24, RETIRE_CONNECTION_ID |-> 25,
     PATH_CHALLENGE |-> 26, PATH_RESPONSE |-> 27, CONNECTION_CLOSE |-> 28,
     CONNECTION_CLOSE_APP |-> 29, HANDSHAKE_DONE |-> 30]

OffBit == 4
LenBit == 2
FinBit == 1

StreamCodes == TypeCode.STREAM..(TypeCode.STREAM + 7)

-------------------------------------------------------------------------------
(* QuicFrame.  An ACK has as many ranges as it says, and a reset token and *)
(* the data of path validation are as long as the reader takes them to be. *)
(* A reason is its bytes in UTF-8.                                         *)

AckRange == [gap : Number, ackRangeLength : Number]
EcnCounts == [ect0 : Number, ect1 : Number, ce : Number]

AckFrames ==
    {f \in [type : {"ACK", "ACK_ECN"}, largestAck : Number, ackDelay : Number,
            ackRangeCount : Number, firstAckRange : Number, ackRanges : Seq(AckRange)]
           \cup [type : {"ACK_ECN"}, largestAck : Number, ackDelay : Number,
                 ackRangeCount : Number, firstAckRange : Number, ackRanges : Seq(AckRange),
                 ecnCounts : EcnCounts] :
        f.ackRangeCount = Len(f.ackRanges)}

CloseFrames ==
    [type : {"CONNECTION_CLOSE", "CONNECTION_CLOSE_APP"}, errorCode : Number, reason : Data]
    \cup [type : {"CONNECTION_CLOSE", "CONNECTION_CLOSE_APP"}, errorCode : Number,
          reason : Data, frameType : Number]

QuicFrames ==
    [type : {"PADDING", "PING", "HANDSHAKE_DONE"}]
    \cup AckFrames \cup CloseFrames
    \cup [type : {"RESET_STREAM"}, streamId : Number, errorCode : Number, finalSize : Number]
    \cup [type : {"STOP_SENDING"}, streamId : Number, errorCode : Number]
    \cup [type : {"CRYPTO"}, offset : Number, data : Data]
    \cup [type : {"NEW_TOKEN"}, token : Data]
    \cup [type : {"STREAM"}, streamId : Number, offset : Number, data : Data, fin : BOOLEAN]
    \cup [type : {"MAX_DATA", "MAX_STREAMS_BIDI", "MAX_STREAMS_UNI"}, maximum : Number]
    \cup [type : {"MAX_STREAM_DATA"}, streamId : Number, maximum : Number]
    \cup [type : {"DATA_BLOCKED", "STREAMS_BLOCKED_BIDI", "STREAMS_BLOCKED_UNI"}, limit : Number]
    \cup [type : {"STREAM_DATA_BLOCKED"}, streamId : Number, limit : Number]
    \cup {f \in [type : {"NEW_CONNECTION_ID"}, sequenceNumber : Number, retirePriorTo : Number,
                 connectionId : Data, statelessResetToken : Data] :
             Len(f.statelessResetToken) = TokenLength}
    \cup [type : {"RETIRE_CONNECTION_ID"}, sequenceNumber : Number]
    \cup {f \in [type : {"PATH_CHALLENGE", "PATH_RESPONSE"}, data : Data] :
             Len(f.data) = PathDataLength}

ASSUME PacketsAssumption == Packets \subseteq Seq(QuicFrames)
ASSUME CodesAssumption == \A type \in DOMAIN TypeCode : TypeCode[type] < Quarter

-------------------------------------------------------------------------------
(* serializeFrame *)

Numbers(f, names) == FlattenSeq([i \in DOMAIN names |-> EncodeVarint(f[names[i]])])
Counted(bytes) == EncodeVarint(Len(bytes)) \o bytes

(* An ACK_ECN frame without its counts goes out as an ACK. *)
SerializeAck(f) ==
    LET ecn == f.type = "ACK_ECN" /\ "ecnCounts" \in DOMAIN f IN
      EncodeVarint(IF ecn THEN TypeCode.ACK_ECN ELSE TypeCode.ACK)
        \o Numbers(f, <<"largestAck", "ackDelay", "ackRangeCount", "firstAckRange">>)
        \o FlattenSeq([i \in DOMAIN f.ackRanges |->
                         Numbers(f.ackRanges[i], <<"gap", "ackRangeLength">>)])
        \o (IF ecn THEN Numbers(f.ecnCounts, <<"ect0", "ect1", "ce">>) ELSE <<>>)

SerializeStream(f) ==
    EncodeVarint(TypeCode.STREAM + (IF f.offset > 0 THEN OffBit ELSE 0)
                   + LenBit + (IF f.fin THEN FinBit ELSE 0))
      \o EncodeVarint(f.streamId)
      \o (IF f.offset > 0 THEN EncodeVarint(f.offset) ELSE <<>>)
      \o Counted(f.data)

SerializeClose(f) ==
    EncodeVarint(TypeCode[f.type]) \o EncodeVarint(f.errorCode)
      \o EncodeVarint(IF "frameType" \in DOMAIN f THEN f.frameType ELSE 0)
      \o Counted(f.reason)

SerializeFrame(f) ==
    LET type == EncodeVarint(TypeCode[f.type]) IN
    CASE f.type \in {"PADDING", "PING", "HANDSHAKE_DONE"} -> <<TypeCode[f.type]>>
      [] f.type \in {"ACK", "ACK_ECN"} -> SerializeAck(f)
      [] f.type = "RESET_STREAM" -> type \o Numbers(f, <<"streamId", "errorCode", "finalSize">>)
      [] f.type = "STOP_SENDING" -> type \o Numbers(f, <<"streamId", "errorCode">>)
      [] f.type = "CRYPTO" -> type \o EncodeVarint(f.offset) \o Counted(f.data)
      [] f.type = "NEW_TOKEN" -> type \o Counted(f.token)
      [] f.type = "STREAM" -> SerializeStream(f)
      [] f.type \in {"MAX_DATA", "MAX_STREAMS_BIDI", "MAX_STREAMS_UNI"} ->
           type \o EncodeVarint(f.maximum)
      [] f.type = "MAX_STREAM_DATA" -> type \o Numbers(f, <<"streamId", "maximum">>)
      [] f.type \in {"DATA_BLOCKED", "STREAMS_BLOCKED_BIDI", "STREAMS_BLOCKED_UNI"} ->
           type \o EncodeVarint(f.limit)
      [] f.type = "STREAM_DATA_BLOCKED" -> type \o Numbers(f, <<"streamId", "limit">>)
      [] f.type = "NEW_CONNECTION_ID" ->
           type \o Numbers(f, <<"sequenceNumber", "retirePriorTo">>)
                \o Counted(f.connectionId) \o f.statelessResetToken
      [] f.type = "RETIRE_CONNECTION_ID" -> type \o EncodeVarint(f.sequenceNumber)
      [] f.type \in {"PATH_CHALLENGE", "PATH_RESPONSE"} -> type \o f.data
      [] f.type \in {"CONNECTION_CLOSE", "CONNECTION_CLOSE_APP"} -> SerializeClose(f)

-------------------------------------------------------------------------------
(* decodeFrame: the fields it reads after type "code", in order, as far as *)
(* the fields "got" so far tell.                                           *)

AckFields(code, got) ==
    <<"largestAck", "ackDelay", "ackRangeCount", "firstAckRange">>
      \o FlattenSeq([i \in 1..(IF Len(got) < 3 THEN 0 ELSE got[3]) |->
                       <<"gap", "ackRangeLength">>])
      \o (IF code = TypeCode.ACK_ECN THEN <<"ect0", "ect1", "ce">> ELSE <<>>)

StreamFields(code) ==
    <<"streamId">> \o (IF (code \div OffBit) % 2 = 1 THEN <<"offset">> ELSE <<>>)
      \o <<"length", "data">>

Fields(code, got) ==
    CASE code \in {TypeCode.ACK, TypeCode.ACK_ECN} -> AckFields(code, got)
      [] code = TypeCode.RESET_STREAM -> <<"streamId", "errorCode", "finalSize">>
      [] code = TypeCode.STOP_SENDING -> <<"streamId", "errorCode">>
      [] code = TypeCode.CRYPTO -> <<"offset", "length", "data">>
      [] code = TypeCode.NEW_TOKEN -> <<"length", "token">>
      [] code \in StreamCodes -> StreamFields(code)
      [] code \in {TypeCode.MAX_DATA, TypeCode.MAX_STREAMS_BIDI, TypeCode.MAX_STREAMS_UNI} ->
           <<"maximum">>
      [] code = TypeCode.MAX_STREAM_DATA -> <<"streamId", "maximum">>
      [] code \in {TypeCode.DATA_BLOCKED, TypeCode.STREAMS_BLOCKED_BIDI,
                   TypeCode.STREAMS_BLOCKED_UNI} -> <<"limit">>
      [] code = TypeCode.STREAM_DATA_BLOCKED -> <<"streamId", "limit">>
      [] code = TypeCode.NEW_CONNECTION_ID ->
           <<"sequenceNumber", "retirePriorTo", "length", "connectionId", "statelessResetToken">>
      [] code = TypeCode.RETIRE_CONNECTION_ID -> <<"sequenceNumber">>
      [] code \in {TypeCode.PATH_CHALLENGE, TypeCode.PATH_RESPONSE} -> <<"data">>
      [] code \in {TypeCode.CONNECTION_CLOSE, TypeCode.CONNECTION_CLOSE_APP} ->
           <<"errorCode", "frameType", "length", "reason">>
      [] OTHER -> <<>>

IsBytes(name) == name \in {"data", "token", "connectionId", "reason", "statelessResetToken"}

(* The frame that decodeFrame returns.  A type it does not know becomes    *)
(* PADDING, and none of its fields is skipped.                             *)
TypeOf(code) ==
    IF code \in StreamCodes THEN "STREAM"
    ELSE IF \E t \in DOMAIN TypeCode : TypeCode[t] = code
         THEN CHOOSE t \in DOMAIN TypeCode : TypeCode[t] = code
         ELSE "PADDING"

(* { ...g, ...f } (the module TLC's @@).                                   *)
With(f, g) ==
    [name \in DOMAIN f \cup DOMAIN g |-> IF name \in DOMAIN f THEN f[name] ELSE g[name]]

Pick(names, got, from) ==
    [name \in Range(names) |-> got[from + CHOOSE i \in DOMAIN names : names[i] = name]]

AckFrame(code, got) ==
    LET count == Len(AckFields(TypeCode.ACK, got)) - 4
        acked == Pick(<<"largestAck", "ackDelay", "ackRangeCount", "firstAckRange">>, got, 0)
        ranges == [i \in 1..(count \div 2) |-> Pick(<<"gap", "ackRangeLength">>, got, 2 + 2 * i)]
        counts == Pick(<<"ect0", "ect1", "ce">>, got, 4 + count)
    IN  With(With(acked, [ackRanges |-> ranges]),
             IF code = TypeCode.ACK_ECN THEN [ecnCounts |-> counts] ELSE <<>>)

PlainFrame(code, got) ==
    LET given == Pick(Fields(code, got), got, 0)
    IN  With(Restrict(given, DOMAIN given \ {"length"}),
             IF code \in StreamCodes THEN [offset |-> 0, fin |-> code % 2 = FinBit] ELSE <<>>)

Frame(code, got) ==
    With([type |-> TypeOf(code)],
         IF code \in {TypeCode.ACK, TypeCode.ACK_ECN} THEN AckFrame(code, got)
         ELSE PlainFrame(code, got))

-------------------------------------------------------------------------------
(* readFrames *)

VARIABLES
    written,            \* the frames that were serialized
    arrived,            \* what the source holds of their bytes
    have,               \* how many of them were pulled
    at,                 \* how many of them were consumed
    done,               \* the source has reported its end
    phase,              \* what next() is at, or how the iteration ended
    code, got,          \* decodeFrame: the type and the fields read so far
    out                 \* the frames yielded

source == <<written, arrived>>
frame  == <<code, got>>
rvars  == <<source, have, at, done, phase, frame, out>>

Phases == {"next", "type", "fields", "ended", "failed"}

Wire(frames) == FlattenSeq([i \in DOMAIN frames |-> SerializeFrame(frames[i])])

InitReader(frames, length) ==
    /\ written = frames
    /\ arrived = SubSeq(Wire(frames), 1, length)
    /\ have = 0 /\ at = 0 /\ done = FALSE
    /\ phase = "next" /\ code = 0 /\ got = <<>> /\ out = <<>>

Available == have - at
Field == Fields(code, got)[Len(got) + 1]

(* The reader of any of the packets, cut anywhere. *)
StartReader == \E frames \in Packets : \E n \in 0..Len(Wire(frames)) : InitReader(frames, n)

(* How many bytes readBytes is called for. *)
Count ==
    CASE Field = "statelessResetToken" -> TokenLength
      [] code \in {TypeCode.PATH_CHALLENGE, TypeCode.PATH_RESPONSE} -> PathDataLength
      [] OTHER -> got[Len(got)]

NeededByVarint == IF Available = 0 THEN 1 ELSE LengthIn(arrived[at + 1])

(* What fill() is called for: a byte to see whether there is a frame, a    *)
(* byte and then the whole of a varint, or a number of bytes.              *)
Needed ==
    CASE phase = "next" -> 1
      [] phase = "type" -> NeededByVarint
      [] phase = "fields" -> IF IsBytes(Field) THEN Count ELSE NeededByVarint

Reading == phase \in {"next", "type", "fields"}
Enough == Reading /\ Available >= Needed
AtEnd == Reading /\ Available < Needed /\ done

(* One round of fill's loop: the source yields a chunk, or null. *)
Fill(n) ==
    /\ Reading /\ Available < Needed /\ ~done
    /\ have + n <= Len(arrived)
    /\ have' = have + n
    /\ UNCHANGED <<source, at, done, phase, frame, out>>

FillEndTwice ==  \* variant: null is taken for an empty chunk
    /\ Reading /\ Available < Needed /\ ~done
    /\ have = Len(arrived)
    /\ UNCHANGED rvars

FillEnd ==
    /\ Reading /\ Available < Needed /\ ~done
    /\ have = Len(arrived)
    /\ done' = TRUE
    /\ UNCHANGED <<source, have, at, phase, frame, out>>

(* next(): is there any data left? *)
Begin ==
    /\ phase = "next" /\ Enough
    /\ phase' = "type"
    /\ UNCHANGED <<source, have, at, done, frame, out>>

End ==
    /\ phase = "next" /\ AtEnd
    /\ phase' = "ended"
    /\ UNCHANGED <<source, have, at, done, frame, out>>

(* Take in a value: the frame is complete, or there are fields to come.    *)
Accept(c, values) ==
    IF Len(values) = Len(Fields(c, values))
    THEN /\ out' = Append(out, Frame(c, values))
         /\ phase' = "next" /\ code' = 0 /\ got' = <<>>
    ELSE /\ phase' = "fields" /\ code' = c /\ got' = values
         /\ UNCHANGED out

ReadType ==
    /\ phase = "type" /\ Enough
    /\ LET varint == DecodeVarint(arrived, at) IN
         /\ at' = at + varint.length
         /\ Accept(varint.value, <<>>)
    /\ UNCHANGED <<source, have, done>>

ReadVarint ==
    /\ phase = "fields" /\ Enough /\ ~IsBytes(Field)
    /\ LET varint == DecodeVarint(arrived, at) IN
         /\ at' = at + varint.length
         /\ Accept(code, Append(got, varint.value))
    /\ UNCHANGED <<source, have, done>>

ReadBytesEarly ==  \* variant: what is there is taken for all of it
    /\ phase = "fields" /\ IsBytes(Field) /\ Available > 0
    /\ at' = at + Count
    /\ Accept(code, Append(got, SubSeq(arrived, at + 1, have)))
    /\ UNCHANGED <<source, have, done>>

ReadBytes ==
    /\ phase = "fields" /\ Enough /\ IsBytes(Field)
    /\ at' = at + Count
    /\ Accept(code, Append(got, SubSeq(arrived, at + 1, at + Count)))
    /\ UNCHANGED <<source, have, done>>

FailQuietly ==  \* variant: the rest is dropped
    /\ phase \in {"type", "fields"} /\ AtEnd
    /\ phase' = "ended"
    /\ UNCHANGED <<source, have, at, done, frame, out>>

(* "unexpected end of frame data" *)
Fail ==
    /\ phase \in {"type", "fields"} /\ AtEnd
    /\ phase' = "failed"
    /\ UNCHANGED <<source, have, at, done, frame, out>>

Pull == FillEnd \/ \E n \in 1..Len(arrived) : (n <= MaxChunk \/ n = Len(arrived) - have) /\ Fill(n)

NextReader == Pull \/ Begin \/ End \/ ReadType \/ ReadVarint \/ ReadBytes \/ Fail

ReaderSpec == StartReader /\ [][NextReader]_rvars

-------------------------------------------------------------------------------
(* Properties *)

TypeOK ==
    /\ have \in 0..Len(arrived) /\ at \in 0..have
    /\ done \in BOOLEAN /\ phase \in Phases
    /\ code \in StreamCodes \cup {TypeCode[t] : t \in DOMAIN TypeCode}

(* What a frame means to its reader. *)
Meaning(f) ==
    CASE f.type = "ACK_ECN" /\ "ecnCounts" \notin DOMAIN f -> [f EXCEPT !.type = "ACK"]
      [] f.type \in {"CONNECTION_CLOSE", "CONNECTION_CLOSE_APP"} -> With(f, [frameType |-> 0])
      [] OTHER -> f

(* However the bytes are cut into chunks, the frames yielded so far are    *)
(* the first of those that were written, field by field.                   *)
FramesAreThoseWritten ==
    /\ Len(out) <= Len(written)
    /\ \A i \in DOMAIN out : out[i] = Meaning(written[i])

(* The source ends within a CONNECTION_CLOSE, but behind its error code.   *)
CutBehindErrorCode ==
    LET end(i) == Len(Wire(SubSeq(written, 1, i)))
        head(f) == Len(EncodeVarint(TypeCode[f.type]) \o EncodeVarint(f.errorCode))
    IN  \E i \in DOMAIN written :
          /\ written[i].type \in {"CONNECTION_CLOSE", "CONNECTION_CLOSE_APP"}
          /\ Len(arrived) \in (end(i - 1) + head(written[i]))..(end(i) - 1)

(* The iteration ends where the bytes end, and only where a frame does: of *)
(* every frame whose bytes are all there, and no other, has been told, and *)
(* a source that ends within a frame is an error.  One cut is left open:   *)
(* of CONNECTION_CLOSE a comment says "if the remaining data doesn't parse *)
(* cleanly, fall back" (frame.ts:425), while the code has no way back and  *)
(* treats it as any other.                                                 *)
CutIsNoticed ==
    ~CutBehindErrorCode =>
      LET end(i) == Len(Wire(SubSeq(written, 1, i))) IN
        /\ phase = "ended" => end(Len(out)) = Len(arrived)
        /\ phase = "failed" => /\ end(Len(out)) < Len(arrived)
                               /\ Len(arrived) < end(Len(out) + 1)

(* Whatever arrives, the reader comes to an end of one kind or the other,  *)
(* as long as the source answers.                                          *)
ReaderSettles == <>(phase \in {"ended", "failed"})

===============================================================================
