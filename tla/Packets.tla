------------------------------- MODULE Packets --------------------------------
(***************************************************************************)
(* How frames become datagrams and datagrams frames again: flush() and     *)
(* the packet wrapping of src/src/connection.ts, packet protection         *)
(* (src/src/packet/packet-protection.ts) and the packet headers            *)
(* (src/src/packet/packet.ts).  One end sends, the other receives; both    *)
(* run this code.  Each end has a connection id and secrets of its own,    *)
(* which need not go together, and installs the secrets when its own       *)
(* handshake is over, with datagrams under way and frames being handled.   *)
(*                                                                         *)
(* Data.  A header byte is the set of its bits that are 1, so that masking *)
(* is a symmetric difference; a packet number on the wire is one too, with *)
(* PnBits bits for the 32 of the code.  A frame is a sequence of bytes     *)
(* <<frame, i>>.  The mask AES-ECB makes of a ciphertext sample is chosen  *)
(* with the packet; another sample, or another key, gives another mask,    *)
(* and bytes read elsewhere are other bytes.  AEAD gives the payload back  *)
(* only for the key, the nonce and the associated data it was sealed with. *)
(*                                                                         *)
(* Environment.  The network loses, repeats and reorders datagrams.        *)
(***************************************************************************)
EXTENDS Integers, FiniteSets, SequencesExt

CONSTANTS
    Frames,        \* the frames that are ever sent, each at most once
    FrameLength,   \* their serialized lengths
    MaxPayload,    \* MAX_DATAGRAM_PAYLOAD
    MinPayload,    \* the shortest payload a header-protection sample fits into
    PnBits,        \* bits of a packet number on the wire
    Secrets,       \* QuicProtectionSecrets, as TLS derives them
    IV,            \* the static IV of each, as a set of bits
    Masks,         \* the masks that may come out
    Setups,        \* what the two ends may have been set up with
    MaxPackets,    \* bound: packet numbers
    MaxDeliveries  \* bound: datagrams handled

Phases == {"initial", "handshake", "application"}

Ends == {"sender", "receiver"}

ASSUME FramesAssumption == FrameLength \in [Frames -> Nat \ {0}]
ASSUME SizesAssumption ==
    /\ MaxPayload \in Nat /\ MinPayload \in 1..MaxPayload
    /\ PnBits \in Nat \ {0}
    /\ MaxPackets \in Nat /\ MaxDeliveries \in Nat
ASSUME MasksAssumption ==
    /\ IV \in [Secrets -> SUBSET Nat]
    /\ Masks \subseteq [first : SUBSET (0..7), pn : SUBSET (0..(PnBits - 1))]
(* The length of each end's this.dcid, the clientProtection of the sender  *)
(* and the serverProtection of the receiver.                               *)
ASSUME SetupsAssumption ==
    Setups \subseteq [dcidLength       : [Ends -> Nat],
                      clientProtection : [Phases -> Secrets],
                      serverProtection : [Phases -> Secrets]]

VARIABLES
    setup,       \* the connection ids and secrets of the ends, fixed from the start
    queue,       \* outboundFrames
    keyed,       \* per end, whether handshakeResult is there
    nextNumber,  \* nextPacketNumber.application
    wire,        \* the datagrams sent
    current,     \* <<>>, or the datagram that dispatchDatagram is handling
    handled,     \* the frames the receiver was given, with how they came
    culprit,     \* <<>>, or the datagram that was fatal and how
    deliveries,  \* datagrams dispatched, and so the number of the current one
    overtaken,   \* history: the datagram under way when the receiver's keys came, or 0
    used,        \* history: frames sent so far
    nonces,      \* history: nonces used with the application key, in order
    dropped      \* history: bytes that a flush() took and that never went out

sender   == <<queue, nextNumber, wire, used, nonces, dropped>>
receiver == <<current, handled, culprit, deliveries>>
vars     == <<setup, sender, keyed, receiver, overtaken>>

-------------------------------------------------------------------------------
(* Headers *)

(* A packet number as the set of its bits that are 1.  (constructNonce     *)
(* takes in eight bytes of it, more than any packet number has.)           *)
Bits[n \in Nat] ==
    IF n = 0 THEN {}
    ELSE (IF n % 2 = 1 THEN {0} ELSE {}) \cup {i + 1 : i \in Bits[n \div 2]}

Xor(a, b) == (a \ b) \cup (b \ a)

(* encodeBigInt: a number cut to the width it has on the wire. *)
WirePn(n) == Bits[n] \cap 0..(PnBits - 1)

FitsWire(n) == WirePn(n) = Bits[n]

IsLong(first) == 7 \in first

LongType(phase) == IF phase = "handshake" THEN {5} ELSE {}

(* The first byte of a packet whose packet number takes as many bytes as   *)
(* the bits of pnLength say: of a protected packet always 4, of an         *)
(* unprotected one always 1.                                               *)
ProtectedFirst(phase) ==
    {0, 1} \cup IF phase = "application" THEN {5} ELSE {7, 6} \cup LongType(phase)

PlainFirst(phase) ==
    IF phase = "application" THEN {} ELSE {7, 6} \cup LongType(phase)

PnLength(first) == 1 + (IF 0 \in first THEN 1 ELSE 0) + (IF 1 \in first THEN 2 ELSE 0)

(* What the sender puts before the packet number: one byte and the         *)
(* connection id, or serializeLongHeader with an empty source id.          *)
SerializedHeader(phase) ==
    LET length == setup.dcidLength["sender"]
    IN  IF phase = "application" THEN 1 + length ELSE 1 + 4 + 1 + length + 1

(* parsePacketHeader: a long header says how long its connection id is, a  *)
(* short one leaves the id to the caller, who takes its own for it.        *)
HeaderLength(p) == IF IsLong(p.first) THEN 6 + p.dcidLength + 1 ELSE 1

PnOffsetNoDcid(p) == HeaderLength(p)  \* variant: the short header's id is forgotten

PnOffset(p) ==
    HeaderLength(p) + IF IsLong(p.first) THEN 0 ELSE setup.dcidLength["receiver"]

ClassifyKeyPhase(first) ==
    IF ~IsLong(first) THEN "application"
    ELSE IF first \cap {5, 4} = {5} THEN "handshake" ELSE "initial"

-------------------------------------------------------------------------------
(* Protection *)

NonceTruncated(secrets, n) == Xor(IV[secrets], WirePn(n))  \* variant: of the wire's number

(* constructNonce *)
Nonce(secrets, n) == Xor(IV[secrets], Bits[n])

(* The bits of the first byte that header protection covers, as            *)
(* packet-protection.ts has them.                                          *)
Covered(first) == IF IsLong(first) THEN 0..3 ELSE 0..4

NoMask == [first |-> {}, pn |-> {}]

(* The packet number that is read at an offset into the datagram.          *)
PnAt(p, offset) == IF offset = p.start - 4 THEN p.pn ELSE 0..(PnBits - 1) \ p.pn

(* The mask that some secrets make of the sample at an offset.             *)
MaskAt(p, offset, secrets) ==
    IF offset = p.start + 4 /\ secrets = p.secrets
    THEN p.mask
    ELSE [first |-> (0..7) \ p.mask.first, pn |-> (0..(PnBits - 1)) \ p.mask.pn]

NoSecrets == "no secrets"  \* of a packet that is not protected

(* wrapPacketUnprotected, wrapPacketUnprotectedShort *)
WrapUnprotected(phase, payload) ==
    LET first == PlainFirst(phase)
    IN  [protected |-> FALSE, first |-> first, pn |-> {}, mask |-> NoMask,
         dcidLength |-> setup.dcidLength["sender"], secrets |-> NoSecrets,
         start |-> SerializedHeader(phase) + 1, payload |-> payload, number |-> 0,
         nonce |-> {}, aad |-> <<{}, {}, 0>>]

(* wrapPacketProtected, protectPayload, applyHeaderProtection, with the    *)
(* sender's clientProtection.  The associated data are the first byte and  *)
(* the 4 bytes of the packet number.  number is kept as a history.         *)
WrapProtected(phase, payload, n, mask) ==
    LET first   == ProtectedFirst(phase)
        secrets == setup.clientProtection[phase]
    IN  [protected |-> TRUE,
         first |-> Xor(first, mask.first \cap Covered(first)),
         pn |-> Xor(WirePn(n), mask.pn), mask |-> mask,
         dcidLength |-> setup.dcidLength["sender"], secrets |-> secrets,
         start |-> SerializedHeader(phase) + 4, payload |-> payload, number |-> n,
         nonce |-> Nonce(secrets, n), aad |-> <<first, WirePn(n), 4>>]

(* The same, as unprotectHeader has them. *)
FirstByteMaskLow4(first) == 0..3  \* variant: the long header's for every header

FirstByteMask(first) == IF IsLong(first) THEN 0..3 ELSE 0..4

(* getProtectionSecrets of the phase, and of them the serverProtection.    *)
OpeningSecrets(p) == setup.serverProtection[ClassifyKeyPhase(p.first)]

(* unprotectHeader: 4-byte packet numbers are assumed to find the sample.  *)
UnprotectHeader(p) ==
    LET mask  == MaskAt(p, PnOffset(p) + 4 + 4, OpeningSecrets(p))
        first == Xor(p.first, mask.first \cap FirstByteMask(p.first))
    IN  [first |-> first, pn |-> Xor(PnAt(p, PnOffset(p)), mask.pn), length |-> PnLength(first)]

(* unprotectPayload, removeHeaderProtection: it is given the first byte    *)
(* that unprotectHeader has unmasked, and the packet number as it came.    *)
Opens(p) ==
    LET header == UnprotectHeader(p)
        start  == PnOffset(p) + header.length
        mask   == MaskAt(p, start + 4, OpeningSecrets(p))
        first  == Xor(header.first, mask.first \cap Covered(p.first))
        pn     == Xor(PnAt(p, PnOffset(p)), mask.pn)
    IN  /\ p.protected
        /\ start = p.start /\ OpeningSecrets(p) = p.secrets
        /\ Xor(IV[p.secrets], pn) = p.nonce
        /\ <<first, pn, header.length>> = p.aad

-------------------------------------------------------------------------------
(* Frames *)

Serialize(f) == [i \in 1..FrameLength[f] |-> <<f, i>>]

PackFrames(frames) == FlattenSeq([k \in 1..Len(frames) |-> Serialize(frames[k])])

(* The payload of a flush, cut every MaxPayload bytes. *)
FragmentsOverlapping(bytes) ==  \* variant: each slice is a byte too long
    [k \in 1..((Len(bytes) + MaxPayload - 1) \div MaxPayload) |->
        SubSeq(bytes, (k - 1) * MaxPayload + 1,
                      IF k * MaxPayload < Len(bytes) THEN k * MaxPayload + 1 ELSE Len(bytes))]

Fragments(bytes) ==
    [k \in 1..((Len(bytes) + MaxPayload - 1) \div MaxPayload) |->
        SubSeq(bytes, (k - 1) * MaxPayload + 1,
                      IF k * MaxPayload < Len(bytes) THEN k * MaxPayload ELSE Len(bytes))]

StartsWithFrame(payload) == payload[1][2] = 1

EndsWithFrame(payload) == Last(payload)[2] = FrameLength[Last(payload)[1]]

(* The frames that lie in a payload from their first byte to their last.   *)
CompletesFrame(payload, k) ==
    payload[k][2] = FrameLength[payload[k][1]] /\ <<payload[k][1], 1>> \in Range(payload)

FramesIn(payload) ==
    LET upTo[k \in 0..Len(payload)] ==
          IF k = 0 THEN <<>>
          ELSE IF CompletesFrame(payload, k) THEN Append(upTo[k - 1], payload[k][1])
          ELSE upTo[k - 1]
    IN  upTo[Len(payload)]

-------------------------------------------------------------------------------
NotAFrame == "not a frame"  \* what bytes that are no frame decode to

Init ==
    /\ setup \in Setups
    /\ queue = <<>> /\ nextNumber = 0 /\ wire = {}
    /\ keyed = [e \in Ends |-> FALSE]
    /\ current = <<>> /\ handled = <<>> /\ culprit = <<>> /\ deliveries = 0 /\ overtaken = 0
    /\ used = {} /\ nonces = <<>> /\ dropped = {}

(* performHandshake ends at one end: its keys are there, for every phase.  *)
(* At the receiver this may come between two frames of one datagram: the   *)
(* first of them can be what TLS waited for.                               *)
InstallKeys(e) ==
    /\ ~keyed[e]
    /\ keyed' = [keyed EXCEPT ![e] = TRUE]
    /\ overtaken' = IF e = "receiver" /\ current # <<>> THEN deliveries ELSE overtaken
    /\ UNCHANGED <<setup, sender, receiver>>

SendFrame(f) ==
    /\ f \notin used
    /\ queue' = Append(queue, f)
    /\ used' = used \cup {f}
    /\ UNCHANGED <<setup, keyed, nextNumber, wire, nonces, dropped, receiver, overtaken>>

(* flush() without keys, or before the first frame is there. *)
FlushPlain ==
    /\ queue # <<>> /\ ~keyed["sender"]
    /\ wire' = wire \cup {WrapUnprotected("application", payload) :
                            payload \in Range(Fragments(PackFrames(queue)))}
    /\ queue' = <<>>
    /\ UNCHANGED <<setup, keyed, nextNumber, used, nonces, dropped, receiver, overtaken>>

(* flush() with keys: every fragment takes a packet number and is sealed;  *)
(* one too short for the sample then throws, and with it flush(), after    *)
(* the fragments before it have gone out.  (Only the last one can be.)     *)
FlushProtected ==
    /\ queue # <<>> /\ keyed["sender"]
    /\ LET fragments == Fragments(PackFrames(queue))
           n    == Len(fragments)
           sent == IF Len(fragments[n]) < MinPayload THEN n - 1 ELSE n
       IN  /\ nextNumber + n <= MaxPackets
           /\ nextNumber' = nextNumber + n
           /\ nonces' = nonces \o [k \in 1..n |->
                Nonce(setup.clientProtection["application"], nextNumber + k - 1)]
           /\ \E mask \in [1..n -> Masks] :
                wire' = wire \cup {WrapProtected("application", fragments[k],
                                                 nextNumber + k - 1, mask[k]) : k \in 1..sent}
           /\ dropped' = dropped \cup IF sent < n THEN Range(fragments[n]) ELSE {}
    /\ queue' = <<>>
    /\ UNCHANGED <<setup, keyed, used, receiver, overtaken>>

(* A datagram of a peer whose outboundKeyPhase has not reached             *)
(* "application": a long header, protected or not.                         *)
EarlierPhase(f, phase) ==
    /\ f \notin used /\ FrameLength[f] \in MinPayload..MaxPayload
    /\ phase # "application"
    /\ \/ wire' = wire \cup {WrapUnprotected(phase, Serialize(f))}
       \/ \E mask \in Masks : wire' = wire \cup {WrapProtected(phase, Serialize(f), 0, mask)}
    /\ used' = used \cup {f}
    /\ UNCHANGED <<setup, keyed, queue, nextNumber, nonces, dropped, receiver, overtaken>>

-------------------------------------------------------------------------------
(* dispatchDatagram *)

(* A datagram is read to its end before the next: its frames, one by one,  *)
(* and then perhaps an error.  Whether the keys were there was tested once *)
(* for all of them.  opened: whether unprotectPayload gave these bytes.    *)
Begin(p, opened, frames, fails) ==
    /\ current' = <<[packet |-> p, keyed |-> keyed["receiver"], opened |-> opened,
                     frames |-> frames, fails |-> fails]>>
    /\ UNCHANGED culprit

Fatal(p, withKeys, thrown) ==
    culprit' = <<[packet |-> p, keyed |-> withKeys, thrown |-> thrown]>>

(* Bytes that are no frame, or not from its beginning. *)
BeginGarbage(p, opened) ==
    \E frames \in {<<>>, <<NotAFrame>>}, fails \in BOOLEAN : Begin(p, opened, frames, fails)

(* readFrames: it goes wrong at the first bytes that are no whole frame;   *)
(* in a fragment that starts inside one, these are taken for a header.     *)
ReadFrames(p, opened) ==
    IF StartsWithFrame(p.payload)
    THEN Begin(p, opened, FramesIn(p.payload), ~EndsWithFrame(p.payload))
    ELSE BeginGarbage(p, opened)

(* dispatchDatagramUnprotected: the header is taken as it came. *)
DispatchUnprotected(p) ==
    IF ~p.protected /\ PnOffset(p) + PnLength(p.first) = p.start
    THEN ReadFrames(p, FALSE)
    ELSE BeginGarbage(p, FALSE)

(* getProtectionSecrets, of a handshake that is over. *)
HasSecretsLate(phase) == phase # "initial"  \* variant: phases without "initial"

HasSecrets(phase) == phase \in Phases

(* PacketProtectionError, RangeError and a failed tag are all fatal.       *)
DispatchProtected(p) ==
    IF ~HasSecrets(ClassifyKeyPhase(p.first))
    THEN DispatchUnprotected(p)
    ELSE IF Opens(p)
    THEN ReadFrames(p, TRUE)
    ELSE Fatal(p, TRUE, FALSE) /\ UNCHANGED current

(* readLoop hands over the next datagram when this one is through. *)
DispatchDatagram(p) ==
    /\ current = <<>> /\ culprit = <<>> /\ deliveries < MaxDeliveries
    /\ deliveries' = deliveries + 1
    /\ IF keyed["receiver"] THEN DispatchProtected(p) ELSE DispatchUnprotected(p)
    /\ UNCHANGED <<setup, sender, keyed, handled, overtaken>>

(* The next frame goes to handleFrame, which may throw: a stream that is   *)
(* not there, a limit that is passed.                                      *)
HandleFrame ==
    /\ current # <<>> /\ current[1].frames # <<>>
    /\ LET d == current[1] IN
         /\ handled' = Append(handled, [frame |-> Head(d.frames), datagram |-> deliveries,
                                        keyed |-> keyed["receiver"], opened |-> d.opened])
         /\ \/ /\ current' = <<[d EXCEPT !.frames = Tail(d.frames)]>>
               /\ UNCHANGED culprit
            \/ /\ current' = <<>>
               /\ Fatal(d.packet, d.keyed, TRUE)
    /\ UNCHANGED <<setup, sender, keyed, deliveries, overtaken>>

EndDatagram ==
    /\ current # <<>> /\ current[1].frames = <<>>
    /\ current' = <<>>
    /\ IF current[1].fails
       THEN Fatal(current[1].packet, current[1].keyed, FALSE)
       ELSE UNCHANGED culprit
    /\ UNCHANGED <<setup, sender, keyed, handled, deliveries, overtaken>>

-------------------------------------------------------------------------------
Next ==
    \/ \E e \in Ends : InstallKeys(e)
    \/ \E f \in Frames : SendFrame(f) \/ \E phase \in Phases : EarlierPhase(f, phase)
    \/ FlushPlain \/ FlushProtected
    \/ \E p \in wire : DispatchDatagram(p)
    \/ HandleFrame \/ EndDatagram

Spec == Init /\ [][Next]_vars

-------------------------------------------------------------------------------
(* Properties *)

(* The bytes of some frames. *)
BytesOf(fs) == {b \in fs \X Nat : b[2] \in 1..FrameLength[b[1]]}

Entries(fs) == [frame : fs \cup {NotAFrame}, datagram : 1..MaxDeliveries,
                keyed : BOOLEAN, opened : BOOLEAN]

TypeOK ==
    /\ setup \in Setups
    /\ queue \in Seq(used) /\ used \subseteq Frames
    /\ keyed \in [Ends -> BOOLEAN]
    /\ nextNumber \in 0..MaxPackets /\ deliveries \in 0..MaxDeliveries
    /\ nonces \in Seq(SUBSET Nat) /\ dropped \subseteq BytesOf(used)
    /\ \A p \in wire : /\ p.protected \in BOOLEAN
                       /\ p.payload \in Seq(BytesOf(used)) /\ Len(p.payload) \in 1..MaxPayload
    /\ current \in Seq([packet : wire, keyed : BOOLEAN, opened : BOOLEAN,
                        frames : Seq(used \cup {NotAFrame}), fails : BOOLEAN])
    /\ Len(current) <= 1
    /\ current # <<>> => deliveries # 0
    /\ handled \in Seq(Entries(used)) /\ overtaken \in 0..deliveries
    /\ culprit \in Seq([packet : wire, keyed : BOOLEAN, thrown : BOOLEAN]) /\ Len(culprit) <= 1

(* No nonce seals two payloads under the application key, also not the     *)
(* nonce of a fragment that was sealed and never sent (constructNonce,     *)
(* nextPacketNumber).                                                      *)
NonceOnce == \A j, k \in 1..Len(nonces) : nonces[j] = nonces[k] => j = k

(* The receiver's own id is as long as the one the sender wrote, where it  *)
(* matters; the receiver opens with what the sender sealed with.           *)
SameIdLength(p) == IsLong(p.first) \/ p.dcidLength = setup.dcidLength["receiver"]

SameSecrets(p) == p.secrets = OpeningSecrets(p)

(* Whatever the sample makes of the mask, the receiver finds the header    *)
(* that was sealed: unprotectHeader undoes applyHeaderProtection, for long *)
(* and short headers, without knowing the length of the packet number, if  *)
(* the two ends go together.                                               *)
HeaderRecovered ==
    \A p \in wire : p.protected /\ SameIdLength(p) /\ SameSecrets(p) =>
        UnprotectHeader(p) = [first |-> p.aad[1], pn |-> p.aad[2], length |-> p.aad[3]]

(* Every byte of a frame is in outboundFrames, in one datagram, or was     *)
(* dropped by the flush() that threw: no flush repeats what another took,  *)
(* and no fragment overlaps another or leaves a gap.                       *)
BytesAccounted ==
    \A f \in used : \A i \in 1..FrameLength[f] :
        Cardinality({p \in wire : <<f, i>> \in Range(p.payload)})
            + Cardinality({x \in {f} : x \in Range(queue)})
            + Cardinality({<<f, i>>} \cap dropped) = 1

(* Keys that come between two frames of an unsealed datagram do not stop   *)
(* it: dispatchDatagram tested for them once, before the await.  What is   *)
(* handled under keys without having been opened is of that one datagram;  *)
(* every later one is opened first, long headers of the earlier phases     *)
(* included.                                                               *)
OnlySealedFrames ==
    \A k \in 1..Len(handled) :
        handled[k].keyed /\ ~handled[k].opened => handled[k].datagram = overtaken

(* A datagram that this code wrapped is fatal to the connection only if    *)
(* the handling of a frame throws; or it is a fragment with a part of a    *)
(* frame at its edge; or only one of the two ends had its keys when it     *)
(* wrapped it or began with it; or the ends do not go together, in the     *)
(* length of a short header's connection id or in the secrets; or the mask *)
(* changes the first byte; or the packet number no longer fits its width   *)
(* on the wire.                                                            *)
WholeFrames(payload) == StartsWithFrame(payload) /\ EndsWithFrame(payload)

HasCause(p, withKeys, thrown) ==
    \/ thrown
    \/ ~WholeFrames(p.payload)
    \/ p.protected # withKeys
    \/ ~SameIdLength(p)
    \/ p.protected /\ ~SameSecrets(p)
    \/ p.mask.first \cap Covered(p.first) # {}
    \/ ~FitsWire(p.number)

FailureHasCause ==
    \A k \in 1..Len(culprit) : HasCause(culprit[k].packet, culprit[k].keyed, culprit[k].thrown)

(* Documented, and refuted by the code:                                    *)

(* "@param firstByte The first header byte (as received, still masked)."   *)
(* (packet-protection.ts:366): what flush() seals, with a number within    *)
(* the wire's width, this code opens again at an end that goes with it.    *)
SealedPacketsOpen ==
    \A p \in wire :
        p.protected /\ ~IsLong(p.first) /\ SameIdLength(p) /\ SameSecrets(p) /\ FitsWire(p.number)
            => Opens(p)

===============================================================================
