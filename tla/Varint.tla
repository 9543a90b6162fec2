--------------------------------- MODULE Varint ---------------------------------
(***************************************************************************)
(* Variable-length integers (src/src/frame/varint.ts): 1, 2, 4 or 8 bytes, *)
(* the two top bits of the first byte say which.                           *)
(*                                                                         *)
(* The code's bytes hold 256 values and the rest of the first byte 64; here*)
(* the latter is the constant Quarter, so that a model with smaller bytes  *)
(* meets all the borders.  Shifts and masks are \div and % by halves.      *)
(***************************************************************************)
EXTENDS Integers, Sequences

CONSTANT Quarter        \* 64 in the code: the values six bits hold

ASSUME QuarterAssumption == Quarter \in Nat \ {0}

Base == 4 * Quarter     \* the values of a byte, of two and of four
Pair == Base * Base
Quad == Pair * Pair

Bytes2(v) == <<v \div Base, v % Base>>
Bytes4(v) == Bytes2(v \div Pair) \o Bytes2(v % Pair)
Bytes8(v) == Bytes4(v \div Quad) \o Bytes4(v % Quad)

Number2(b, i) == b[i] * Base + b[i + 1]
Number4(b, i) == Number2(b, i) * Pair + Number2(b, i + 2)
Number8(b, i) == Number4(b, i) * Quad + Number4(b, i + 4)

(* What fits each width: 2^6, 2^14 and 2^30.  (VARINT_MAX is 2^62 - 1, past *)
(* which encodeVarint throws: nothing counts that far.)                    *)
Fits1(v) == v < Quarter
Fits2(v) == v < Quarter * Base
Fits4(v) == v < Quarter * Base * Pair
Fits8(v) == v \div Quad < Quarter * Base * Pair

Number == {v \in Nat : Fits8(v)}

(* A Uint8Array, short enough for its length to be encoded. *)
Byte == 0..(Base - 1)
Data == {b \in Seq(Byte) : Len(b) \in Number}

EncodedLengthOffByOne(v) ==  \* variant: "<=" at the first border
    IF v <= Quarter THEN 1 ELSE IF Fits2(v) THEN 2 ELSE IF Fits4(v) THEN 4 ELSE 8

EncodedLength(v) ==
    IF Fits1(v) THEN 1 ELSE IF Fits2(v) THEN 2 ELSE IF Fits4(v) THEN 4 ELSE 8

Prefix(length) ==
    Quarter * CASE length = 1 -> 0 [] length = 2 -> 1 [] length = 4 -> 2 [] length = 8 -> 3

Prefixed(length, b) == [b EXCEPT ![1] = @ + Prefix(length)]

EncodeVarint(v) ==
    CASE EncodedLength(v) = 1 -> Prefixed(1, <<v>>)
      [] EncodedLength(v) = 2 -> Prefixed(2, Bytes2(v))
      [] EncodedLength(v) = 4 -> Prefixed(4, Bytes4(v))
      [] EncodedLength(v) = 8 -> Prefixed(8, Bytes8(v))

(* The length that a first byte announces. *)
LengthIn(first) ==
    CASE first \div Quarter = 0 -> 1 [] first \div Quarter = 1 -> 2
      [] first \div Quarter = 2 -> 4 [] first \div Quarter = 3 -> 8

(* decodeVarint(buf, offset): does it find its bytes, and what do they say? *)
VarintAt(buf, offset) ==
    offset < Len(buf) /\ offset + LengthIn(buf[offset + 1]) <= Len(buf)

DecodeVarint(buf, offset) ==
    LET length == LengthIn(buf[offset + 1])
        b == [i \in 1..length |-> IF i = 1 THEN buf[offset + 1] % Quarter ELSE buf[offset + i]]
    IN  [length |-> length,
         value  |-> CASE length = 1 -> b[1] [] length = 2 -> Number2(b, 1)
                      [] length = 4 -> Number4(b, 1) [] length = 8 -> Number8(b, 1)]
===============================================================================
