--------------------------- MODULE TransportParameters ---------------------------
(***************************************************************************)
(* Transport parameters: their wire encoding (src/src/transport-params.ts),*)
(* and a connection that takes in its peer's (connection.ts:                *)
(* receivePeerParameters, which may be called more than once).             *)
(*                                                                         *)
(* QuicTransportParameters is a function from the names of the fields that *)
(* are present to their values, the wire form one from ids to bytes.       *)
(*                                                                         *)
(* Environment.  The peer runs this code, perhaps with parameters we do    *)
(* not know added; what arrives of its encoding may be cut short.          *)
(***************************************************************************)
EXTENDS Varint, SequencesExt, FiniteSetsExt

CONSTANTS
    Options,            \* bound: the options.transportParameters of peers, a set
    Unknown,            \* bound: what a peer adds, a set of wire forms
    MaxCalls            \* bound: calls of receivePeerParameters

(* The nine parameters that are modelled, TransportParameter's ids. *)
Id == [maxIdleTimeoutMs |-> 1, maxUdpPayloadSize |-> 3, initialMaxData |-> 4,
       initialMaxStreamDataBidiLocal |-> 5, initialMaxStreamDataBidiRemote |-> 6,
       initialMaxStreamDataUni |-> 7, initialMaxStreamsBidi |-> 8,
       initialMaxStreamsUni |-> 9, activeConnectionIdLimit |-> 14]

Known == DOMAIN Id

(* The options give numbers to names that the code knows.  What is added   *)
(* has ids that the code does not know, or values it can make nothing of.  *)
ASSUME OptionsAssumption ==
    \A options \in Options :
        /\ DOMAIN options \subseteq Known
        /\ options \in [DOMAIN options -> Number]
ASSUME UnknownAssumption ==
    \A unknown \in Unknown :
        /\ IsFiniteSet(DOMAIN unknown) /\ DOMAIN unknown \subseteq Number
        /\ unknown \in [DOMAIN unknown -> Data]
        /\ \A name \in Known : Id[name] \in DOMAIN unknown => ~VarintAt(unknown[Id[name]], 0)

(* Both, where wire goes before more. *)
Together(wire, more) ==
    [id \in DOMAIN wire \cup DOMAIN more |-> IF id \in DOMAIN wire THEN wire[id] ELSE more[id]]

(* resolveLocalParameters copies the fields it knows. *)
ResolveLocalParameters(options) ==
    [name \in Known \cap DOMAIN options |-> options[name]]

ToWireParameters(params) ==
    [id \in {Id[name] : name \in DOMAIN params} |->
        EncodeVarint(params[CHOOSE name \in DOMAIN params : Id[name] = id])]

Sorted(ids) ==
    [i \in 1..Cardinality(ids) |-> CHOOSE id \in ids : Cardinality({j \in ids : j < id}) = i - 1]

EncodeTransportParameters(wire) ==
    LET ids == Sorted(DOMAIN wire)
        entry(id) == EncodeVarint(id) \o EncodeVarint(Len(wire[id])) \o wire[id]
    IN  FlattenSeq([i \in DOMAIN ids |-> entry(ids[i])])

(* The constructor's encodedLocalParameters, of a peer with these options. *)
EncodedParameters(options, unknown) ==
    EncodeTransportParameters(Together(ToWireParameters(ResolveLocalParameters(options)), unknown))

(* What a call throws, or "none". *)
Errors == {"none", "RangeError", "TransportParameterError"}

TruncatedNever(buf, end) == FALSE  \* variant: the declared length is believed

Truncated(buf, end) == end > Len(buf)

(* buf.subarray(start, end) *)
Subarray(buf, start, end) == SubSeq(buf, start + 1, IF end > Len(buf) THEN Len(buf) ELSE end)

(* decodeTransportParameters, from an offset on: what it throws, or the    *)
(* wire form.  Of two values for an id the later stays.                    *)
DecodeTransportParameters(buf) ==
    LET throws(error) == [error |-> error, wire |-> <<>>]
        from[offset \in Nat] ==
          IF offset >= Len(buf) THEN throws("none")
          ELSE IF ~VarintAt(buf, offset) THEN throws("RangeError")
          ELSE LET id == DecodeVarint(buf, offset)
                   start == offset + id.length
               IN  IF ~VarintAt(buf, start) THEN throws("RangeError")
                   ELSE LET length == DecodeVarint(buf, start)
                            value == start + length.length
                            end == value + length.value
                        IN  IF Truncated(buf, end) THEN throws("TransportParameterError")
                            ELSE [from[end] EXCEPT
                                    !.wire = Together(@, [i \in {id.value} |-> Subarray(buf, value, end)])]
    IN  from[0]

(* fromWireParameters: the first varint of each value; it throws where     *)
(* there is none.                                                          *)
Readable(wire) == \A name \in Known : Id[name] \in DOMAIN wire => VarintAt(wire[Id[name]], 0)

FromWireParameters(wire) ==
    [name \in {n \in Known : Id[n] \in DOMAIN wire} |-> DecodeVarint(wire[Id[name]], 0).value]

-------------------------------------------------------------------------------
VARIABLES
    peerParameters,     \* deps.peerParameters of the stream manager
    thrown,             \* what the last call of receivePeerParameters threw
    \* history: how many calls there were, and what the last one, and the
    \* last one that returned, was given
    calls, last, adopted

pvars == <<peerParameters, thrown, calls, last, adopted>>

NoMessage == [options |-> <<>>, unknown |-> <<>>, length |-> -1]

(* Until the first call the manager has our own options for the peer's.    *)
InitParameters(options) ==
    /\ peerParameters = options
    /\ thrown = "none" /\ calls = 0
    /\ last = NoMessage /\ adopted = NoMessage

(* What arrives: the first bytes of an encoding. *)
Message(m) == SubSeq(EncodedParameters(m.options, m.unknown), 1, m.length)

ReceiveEagerly(m) ==  \* variant: what was decoded is taken over before the error
    LET decoded == DecodeTransportParameters(Message(m)) IN
        /\ calls < MaxCalls
        /\ calls' = calls + 1 /\ last' = m /\ thrown' = decoded.error
        /\ IF Readable(decoded.wire)
           THEN peerParameters' = FromWireParameters(decoded.wire)
           ELSE UNCHANGED peerParameters
        /\ adopted' = IF decoded.error = "none" THEN m ELSE adopted

(* Decode, convert, and only then tell the stream manager. *)
ReceivePeerParameters(m) ==
    LET decoded == DecodeTransportParameters(Message(m))
        error == IF decoded.error = "none" /\ ~Readable(decoded.wire) THEN "RangeError"
                 ELSE decoded.error
    IN  /\ calls < MaxCalls
        /\ calls' = calls + 1 /\ last' = m /\ thrown' = error
        /\ IF error = "none"
           THEN peerParameters' = FromWireParameters(decoded.wire) /\ adopted' = m
           ELSE UNCHANGED <<peerParameters, adopted>>

NextParameters ==
    \E options \in Options, unknown \in Unknown :
      \E n \in 0..Len(EncodedParameters(options, unknown)) :
        ReceivePeerParameters([options |-> options, unknown |-> unknown, length |-> n])

StartParameters == \E options \in Options : InitParameters(options)

ParametersSpec == StartParameters /\ [][NextParameters]_pvars

-------------------------------------------------------------------------------
(* Properties *)

Sent(m) == Together(ToWireParameters(m.options), m.unknown)

(* Where the encoding of the parameters up to an id ends. *)
EndOf(m, id) == Len(EncodeTransportParameters(Restrict(Sent(m), {i \in DOMAIN Sent(m) : i <= id})))

(* The manager holds the parameters of the last call that returned, each   *)
(* with the value its sender gave it, and misses only those that the       *)
(* message ends before.  A call that throws has changed nothing.           *)
ParametersAreThoseSent ==
    adopted.length >= 0 =>
      peerParameters =
        Restrict(adopted.options,
                 {name \in DOMAIN adopted.options : EndOf(adopted, Id[name]) <= adopted.length})

(* The parameters whose encoding is there to its end. *)
Arrived(m) == Restrict(Sent(m), {id \in DOMAIN Sent(m) : EndOf(m, id) <= m.length})

(* A call returns exactly if the message ends where a parameter does and   *)
(* every value the connection knows begins with a number: one that is cut  *)
(* short is never taken for a smaller one.                                 *)
CutIsRefused ==
    last.length >= 0 =>
      (thrown = "none" <=> /\ Len(EncodeTransportParameters(Arrived(last))) = last.length
                           /\ Readable(Arrived(last)))

===============================================================================
