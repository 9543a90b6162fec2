---------------------------- MODULE ParametersProofs ----------------------------
(***************************************************************************)
(* Theorems about variable-length integers and transport parameters, for   *)
(* every size of byte.  A number is read back as it was written, whatever  *)
(* stands before and behind it; and parameters are those that were sent or *)
(* are refused, for all options, all additions and every cut.              *)
(*                                                                         *)
(* decodeTransportParameters is a recursion whose rounds read one parameter*)
(* each (Rounds).  The encoding is made of one piece per parameter, in the *)
(* order of their ids, so a round that begins where a piece does either    *)
(* ends where the piece does, or throws because the bytes end inside it    *)
(* (EntryHere); CutDecoded goes from the last piece back to the first.     *)
(***************************************************************************)
EXTENDS TransportParameters, InductionProofs, SequenceTheorems, FiniteSetTheorems

(***************************************************************************)
(* Variable-length integers.                                               *)
(***************************************************************************)
LEMMA DivMod ==
    ASSUME NEW x \in Nat, NEW a \in Nat \ {0}
    PROVE  /\ x \div a \in Nat
           /\ x % a \in Nat /\ x % a < a
           /\ (x \div a) * a + (x % a) = x
OBVIOUS

LEMMA MulMono ==
    ASSUME NEW a \in Nat, NEW b \in Nat, NEW c \in Nat, b <= c
    PROVE  b * a <= c * a
OBVIOUS

LEMMA DivBelow ==
    ASSUME NEW x \in Nat, NEW a \in Nat \ {0}, NEW b \in Nat, x < b * a
    PROVE  x \div a < b
<1> DEFINE q == x \div a
<1>1. q \in Nat /\ q * a <= x
  BY DivMod
<1>2. SUFFICES ASSUME b <= q PROVE FALSE
  BY <1>1
<1>3. b * a <= q * a
  BY <1>1, <1>2, MulMono
<1> QED
  BY <1>1, <1>3

LEMMA DivUnique ==
    ASSUME NEW q \in Nat, NEW k \in Nat, NEW a \in Nat \ {0}, q < a
    PROVE  (q + a * k) \div a = k /\ (q + a * k) % a = q
OBVIOUS

LEMMA Sizes == Base \in Nat \ {0} /\ Pair \in Nat \ {0} /\ Quad \in Nat \ {0}
BY QuarterAssumption DEF Base, Pair, Quad

LEMMA Halves ==
    ASSUME NEW x \in Seq(Nat), NEW y \in Seq(Nat), Len(x) = Len(y)
    PROVE  /\ x \o y \in Seq(Nat) /\ Len(x \o y) = 2 * Len(x)
           /\ \A i \in 1..Len(x) : (x \o y)[i] = x[i] /\ (x \o y)[Len(x) + i] = y[i]
<1>1. /\ x \o y \in Seq(Nat) /\ Len(x \o y) = Len(x) + Len(y)
      /\ \A i \in 1..Len(x) + Len(y) :
           (x \o y)[i] = IF i <= Len(x) THEN x[i] ELSE y[i - Len(x)]
  BY ConcatProperties
<1> DEFINE n == Len(x)
<1>2. n \in Nat /\ n = Len(y)
  OBVIOUS
<1>3. Len(x \o y) = 2 * n
  BY <1>1, <1>2
<1>4. ASSUME NEW i \in 1..n
      PROVE  (x \o y)[i] = x[i] /\ (x \o y)[n + i] = y[i]
  <2>1. i \in 1..n + n /\ n + i \in 1..n + n /\ i <= n /\ ~(n + i <= n) /\ (n + i) - n = i
    BY <1>2
  <2> QED
    BY <1>1, <1>2, <2>1
<1> QED
  BY <1>1, <1>3, <1>4

LEMMA Shape2 ==
    ASSUME NEW v \in Nat
    PROVE  /\ Bytes2(v) \in Seq(Nat) /\ Len(Bytes2(v)) = 2
           /\ Bytes2(v)[1] = v \div Base /\ Bytes2(v)[2] = v % Base
<1>1. v \div Base \in Nat /\ v % Base \in Nat
  BY DivMod, Sizes
<1> QED
  BY <1>1 DEF Bytes2

LEMMA Shape4 ==
    ASSUME NEW v \in Nat
    PROVE  /\ Bytes4(v) \in Seq(Nat) /\ Len(Bytes4(v)) = 4
           /\ Bytes4(v)[1] = (v \div Pair) \div Base /\ Bytes4(v)[2] = (v \div Pair) % Base
           /\ Bytes4(v)[3] = (v % Pair) \div Base /\ Bytes4(v)[4] = (v % Pair) % Base
<1>1. v \div Pair \in Nat /\ v % Pair \in Nat
  BY DivMod, Sizes
<1>2. /\ Bytes4(v) \in Seq(Nat) /\ Len(Bytes4(v)) = 4
      /\ \A i \in 1..2 : /\ Bytes4(v)[i] = Bytes2(v \div Pair)[i]
                         /\ Bytes4(v)[2 + i] = Bytes2(v % Pair)[i]
  <2> DEFINE high == Bytes2(v \div Pair)
             low  == Bytes2(v % Pair)
  <2>1. high \in Seq(Nat) /\ low \in Seq(Nat) /\ Len(high) = 2 /\ Len(low) = 2
    BY <1>1, Shape2
  <2> HIDE DEF high, low
  <2>2. /\ high \o low \in Seq(Nat) /\ Len(high \o low) = 2 * Len(high)
        /\ \A i \in 1..Len(high) : /\ (high \o low)[i] = high[i]
                                   /\ (high \o low)[Len(high) + i] = low[i]
    <3>1. Len(high) = Len(low)
      BY <2>1
    <3> QED
      BY <2>1, <3>1, Halves
  <2>3. /\ high \o low \in Seq(Nat) /\ Len(high \o low) = 4
        /\ \A i \in 1..2 : (high \o low)[i] = high[i] /\ (high \o low)[2 + i] = low[i]
    BY <2>1, <2>2
  <2> QED
    BY <2>3 DEF Bytes4, high, low
<1> QED
  BY <1>1, <1>2, Shape2

LEMMA Shape8 ==
    ASSUME NEW v \in Nat
    PROVE  /\ Bytes8(v) \in Seq(Nat) /\ Len(Bytes8(v)) = 8
           /\ \A i \in 1..4 : /\ Bytes8(v)[i] = Bytes4(v \div Quad)[i]
                              /\ Bytes8(v)[4 + i] = Bytes4(v % Quad)[i]
<1>1. v \div Quad \in Nat /\ v % Quad \in Nat
  BY DivMod, Sizes
<1>2. /\ Bytes8(v) \in Seq(Nat) /\ Len(Bytes8(v)) = 8
      /\ \A i \in 1..4 : /\ Bytes8(v)[i] = Bytes4(v \div Quad)[i]
                         /\ Bytes8(v)[4 + i] = Bytes4(v % Quad)[i]
  <2> DEFINE high == Bytes4(v \div Quad)
             low  == Bytes4(v % Quad)
  <2>1. high \in Seq(Nat) /\ low \in Seq(Nat) /\ Len(high) = 4 /\ Len(low) = 4
    BY <1>1, Shape4
  <2> HIDE DEF high, low
  <2>2. /\ high \o low \in Seq(Nat) /\ Len(high \o low) = 2 * Len(high)
        /\ \A i \in 1..Len(high) : /\ (high \o low)[i] = high[i]
                                   /\ (high \o low)[Len(high) + i] = low[i]
    <3>1. Len(high) = Len(low)
      BY <2>1
    <3> QED
      BY <2>1, <3>1, Halves
  <2>3. /\ high \o low \in Seq(Nat) /\ Len(high \o low) = 8
        /\ \A i \in 1..4 : (high \o low)[i] = high[i] /\ (high \o low)[4 + i] = low[i]
    BY <2>1, <2>2, SMTT(30)
  <2> QED
    BY <2>3 DEF Bytes8, high, low
<1> QED
  BY <1>2

(* Two halves make the whole again. *)
LEMMA Join2 ==
    ASSUME NEW v \in Nat, NEW b, NEW i \in Nat, b[i] = v \div Base, b[i + 1] = v % Base
    PROVE  Number2(b, i) = v
BY DivMod, Sizes DEF Number2

LEMMA Join4 ==
    ASSUME NEW v \in Nat, NEW b, NEW i \in Nat,
           Number2(b, i) = v \div Pair, Number2(b, i + 2) = v % Pair
    PROVE  Number4(b, i) = v
BY DivMod, Sizes DEF Number4

LEMMA Join8 ==
    ASSUME NEW v \in Nat, NEW b, NEW i \in Nat,
           Number4(b, i) = v \div Quad, Number4(b, i + 4) = v % Quad
    PROVE  Number8(b, i) = v
BY DivMod, Sizes DEF Number8
(* A number that fits a width leaves the two top bits of its first byte.   *)
LEMMA Top ==
    ASSUME NEW v \in Nat
    PROVE  /\ Fits2(v) => v \div Base < Quarter
           /\ Fits4(v) => (v \div Pair) \div Base < Quarter
           /\ Fits8(v) => ((v \div Quad) \div Pair) \div Base < Quarter
<1>1. /\ v \div Pair \in Nat /\ v \div Quad \in Nat /\ (v \div Quad) \div Pair \in Nat
      /\ Quarter \in Nat /\ Quarter * Base \in Nat /\ Quarter * Base * Pair \in Nat
  BY DivMod, Sizes, QuarterAssumption
<1>2. ASSUME NEW x \in Nat, x < Quarter * Base
      PROVE  x \div Base < Quarter
  BY <1>1, <1>2, Sizes, DivBelow
<1>3. ASSUME NEW x \in Nat, x < Quarter * Base * Pair
      PROVE  x \div Pair < Quarter * Base
  BY <1>1, <1>3, Sizes, DivBelow
<1> QED
  BY <1>1, <1>2, <1>3 DEF Fits2, Fits4, Fits8

LEMMA FirstByte ==
    ASSUME NEW q \in Nat, q < Quarter, NEW n \in {1, 2, 4, 8}
    PROVE  /\ LengthIn(q + Prefix(n)) = n
           /\ (q + Prefix(n)) % Quarter = q
           /\ q + Prefix(n) \in Nat
<1> DEFINE k == CASE n = 1 -> 0 [] n = 2 -> 1 [] n = 4 -> 2 [] n = 8 -> 3
<1>1. k \in Nat /\ Prefix(n) = Quarter * k
  BY DEF Prefix
<1>2. (n = 1 => k = 0) /\ (n = 2 => k = 1) /\ (n = 4 => k = 2) /\ (n = 8 => k = 3)
  OBVIOUS
<1> HIDE DEF k
<1>3. (q + Quarter * k) \div Quarter = k /\ (q + Quarter * k) % Quarter = q
  BY <1>1, DivUnique, QuarterAssumption
<1>4. q + Quarter * k \in Nat
  BY <1>1, QuarterAssumption
<1> QED
  BY <1>1, <1>2, <1>3, <1>4 DEF LengthIn

(* The bytes of an encoding: those of the number, the first one marked.    *)
LEMMA Marked ==
    ASSUME NEW n \in {1, 2, 4, 8}, NEW b \in Seq(Nat), Len(b) = n, b[1] < Quarter
    PROVE  /\ Prefixed(n, b) \in Seq(Nat) /\ Len(Prefixed(n, b)) = n
           /\ LengthIn(Prefixed(n, b)[1]) = n
           /\ Prefixed(n, b)[1] % Quarter = b[1]
           /\ \A i \in 2..n : Prefixed(n, b)[i] = b[i]
<1>1. 1 \in DOMAIN b /\ b[1] \in Nat
  OBVIOUS
<1>2. Prefixed(n, b)[1] = b[1] + Prefix(n)
  BY <1>1 DEF Prefixed
<1>3. \A i \in 2..n : Prefixed(n, b)[i] = b[i]
  BY DEF Prefixed
<1>4. b[1] + Prefix(n) \in Nat
  BY <1>1, FirstByte
<1>5. Prefixed(n, b) \in Seq(Nat) /\ Len(Prefixed(n, b)) = n
  BY <1>1, <1>4 DEF Prefixed
<1> QED
  BY <1>1, <1>2, <1>3, <1>5, FirstByte

(* buf holds s at an offset; byte i of a varint there, without the mark.   *)
Holds(buf, offset, s) ==
    offset + Len(s) <= Len(buf) /\ \A i \in 1..Len(s) : buf[offset + i] = s[i]
Bare(buf, offset, i) == IF i = 1 THEN buf[offset + 1] % Quarter ELSE buf[offset + i]

(* A buffer that holds a marked sequence at an offset gives back its bytes.*)
LEMMA Unmarked ==
    ASSUME NEW n \in {1, 2, 4, 8}, NEW b \in Seq(Nat), Len(b) = n, b[1] < Quarter,
           NEW buf \in Seq(Nat), NEW offset \in Nat, Holds(buf, offset, Prefixed(n, b))
    PROVE  /\ VarintAt(buf, offset) /\ LengthIn(buf[offset + 1]) = n
           /\ \A i \in 1..n : b[i] = Bare(buf, offset, i)
<1>1. /\ LengthIn(Prefixed(n, b)[1]) = n /\ Prefixed(n, b)[1] % Quarter = b[1]
      /\ \A i \in 2..n : Prefixed(n, b)[i] = b[i]
      /\ Len(Prefixed(n, b)) = n
  BY Marked
<1>2. offset + n <= Len(buf) /\ \A i \in 1..n : buf[offset + i] = Prefixed(n, b)[i]
  BY <1>1 DEF Holds
<1>3. buf[offset + 1] = Prefixed(n, b)[1]
  BY <1>2
<1>4. LengthIn(buf[offset + 1]) = n
  BY <1>1, <1>3, Zenon
<1>5. offset < Len(buf)
  BY <1>2
<1>6. VarintAt(buf, offset)
  BY <1>2, <1>4, <1>5 DEF VarintAt
<1>7. ASSUME NEW i \in 1..n
      PROVE  b[i] = Bare(buf, offset, i)
  <2>1. CASE i = 1
    BY <1>1, <1>3, <2>1, Zenon DEF Bare
  <2>2. CASE i # 1
    <3>1. i \in 2..n
      BY <2>2
    <3> QED
      BY <1>1, <1>2, <2>2, <3>1 DEF Bare
  <2> QED
    BY <2>1, <2>2
<1> QED
  BY <1>4, <1>6, <1>7

(* The bytes before the mark. *)
LEMMA Encoding ==
    ASSUME NEW v \in Nat, Fits8(v)
    PROVE  \E n \in {1, 2, 4, 8} : \E b \in Seq(Nat) :
             Len(b) = n /\ b[1] < Quarter /\ EncodeVarint(v) = Prefixed(n, b)
<1> DEFINE n == EncodedLength(v)
           plain == CASE n = 1 -> <<v>> [] n = 2 -> Bytes2(v)
                      [] n = 4 -> Bytes4(v) [] n = 8 -> Bytes8(v)
<1>1. n \in {1, 2, 4, 8}
  BY DEF EncodedLength
<1>2. /\ n = 1 => Fits1(v) /\ plain = <<v>>
      /\ n = 2 => Fits2(v) /\ plain = Bytes2(v)
      /\ n = 4 => Fits4(v) /\ plain = Bytes4(v)
      /\ n = 8 => plain = Bytes8(v)
  BY DEF EncodedLength
<1>3. EncodeVarint(v) = Prefixed(n, plain)
  BY <1>1 DEF EncodeVarint
<1>4. plain \in Seq(Nat) /\ Len(plain) = n /\ plain[1] < Quarter
  <2>1. CASE n = 1
    BY <1>2, <2>1 DEF Fits1
  <2>2. CASE n = 2
    BY <1>2, <2>2, Shape2, Top
  <2>3. CASE n = 4
    BY <1>2, <2>3, Shape4, Top
  <2>4. CASE n = 8
    <3>1. v \div Quad \in Nat
      BY DivMod, Sizes
    <3>2. Bytes8(v)[1] = Bytes4(v \div Quad)[1]
      BY Shape8
    <3>3. Bytes4(v \div Quad)[1] = ((v \div Quad) \div Pair) \div Base
      BY <3>1, Shape4
    <3> QED
      BY <1>2, <2>4, <3>2, <3>3, Shape8, Top
  <2> QED
    BY <1>1, <2>1, <2>2, <2>3, <2>4
<1> QED
  BY <1>1, <1>3, <1>4

(* An encoding is never empty, and its first byte says how long it is.     *)
LEMMA EncodingShape ==
    ASSUME NEW v \in Number
    PROVE  /\ EncodeVarint(v) \in Seq(Nat) /\ Len(EncodeVarint(v)) \in Nat \ {0}
           /\ LengthIn(EncodeVarint(v)[1]) = Len(EncodeVarint(v))
<1>1. PICK n \in {1, 2, 4, 8}, b \in Seq(Nat) :
        Len(b) = n /\ b[1] < Quarter /\ EncodeVarint(v) = Prefixed(n, b)
  BY Encoding DEF Number
<1>2. /\ Prefixed(n, b) \in Seq(Nat) /\ Len(Prefixed(n, b)) = n
      /\ LengthIn(Prefixed(n, b)[1]) = n
  BY <1>1, Marked
<1> QED
  BY <1>1, <1>2

(* A small number is its own encoding. *)
LEMMA SmallEncoding ==
    ASSUME NEW v \in Nat, v < Quarter
    PROVE  EncodeVarint(v) = <<v>>
<1>1. EncodedLength(v) = 1
  BY DEF EncodedLength, Fits1
<1>2. Prefix(1) = 0
  BY QuarterAssumption DEF Prefix
<1>3. Prefixed(1, <<v>>) = <<v + 0>>
  BY <1>2 DEF Prefixed
<1> QED
  BY <1>1, <1>3 DEF EncodeVarint

LEMMA SmallNumber ==
    ASSUME NEW v \in Nat, v < Quarter
    PROVE  v \in Number
<1>1. v \div Quad \in Nat /\ v \div Quad <= v
  BY Sizes
<1>2. Base >= 1 /\ Pair >= 1 /\ Base \in Nat /\ Pair \in Nat /\ Quarter \in Nat
  BY Sizes, QuarterAssumption
<1>3. Quarter <= Quarter * Base /\ Quarter * Base \in Nat
  BY <1>2
<1>4. Quarter * Base <= (Quarter * Base) * Pair
  BY <1>2, <1>3
<1> QED
  BY <1>1, <1>2, <1>3, <1>4 DEF Number, Fits8

LEMMA ByteSizes ==
    /\ Quarter <= Base /\ Quarter * Base <= Pair /\ Quarter * Base * Pair <= Quad
    /\ Quarter * Base \in Nat /\ Quarter * Base * Pair \in Nat
<1>1. Quarter \in Nat \ {0} /\ Base \in Nat \ {0} /\ Pair \in Nat \ {0} /\ Quad \in Nat \ {0}
  BY Sizes, QuarterAssumption
<1>2. Quarter <= Base
  BY <1>1 DEF Base
<1>3. Quarter * Base <= Pair /\ Quarter * Base \in Nat
  <2>1. Quarter * Base <= Base * Base
    BY <1>1, <1>2, MulMono
  <2> QED
    BY <1>1, <2>1 DEF Pair
<1>4. (Quarter * Base) * Pair <= Quad /\ (Quarter * Base) * Pair \in Nat
  <2>1. (Quarter * Base) * Pair <= Pair * Pair
    BY <1>1, <1>3, MulMono
  <2> QED
    BY <1>1, <1>3, <2>1 DEF Quad
<1> QED
  BY <1>2, <1>3, <1>4

LEMMA TwoFit ==
    ASSUME NEW v \in Nat, v < Pair
    PROVE  \A i \in 1..2 : Bytes2(v)[i] \in Byte
<1>1. v \div Base < Base /\ v \div Base \in Nat /\ v % Base < Base /\ v % Base \in Nat
  BY Sizes, DivBelow, DivMod DEF Pair
<1>2. v \div Base \in Byte /\ v % Base \in Byte
  BY <1>1, Sizes DEF Byte
<1>3. \A i \in 1..2 : i = 1 \/ i = 2
  OBVIOUS
<1>4. Bytes2(v)[1] \in Byte /\ Bytes2(v)[2] \in Byte
  BY <1>2, Shape2
<1> QED
  BY <1>3, <1>4

LEMMA FourFit ==
    ASSUME NEW v \in Nat, v < Quad
    PROVE  \A i \in 1..4 : Bytes4(v)[i] \in Byte
<1>1. v \div Pair < Pair /\ v \div Pair \in Nat /\ v % Pair < Pair /\ v % Pair \in Nat
  BY Sizes, DivBelow, DivMod DEF Quad
<1>2. /\ \A i \in 1..2 : Bytes2(v \div Pair)[i] \in Byte
      /\ \A i \in 1..2 : Bytes2(v % Pair)[i] \in Byte
  BY <1>1, TwoFit
<1>3. /\ Bytes4(v)[1] = Bytes2(v \div Pair)[1] /\ Bytes4(v)[2] = Bytes2(v \div Pair)[2]
      /\ Bytes4(v)[3] = Bytes2(v % Pair)[1] /\ Bytes4(v)[4] = Bytes2(v % Pair)[2]
  BY <1>1, Shape2, Shape4
<1> QED
  BY <1>2, <1>3

LEMMA EightFit ==
    ASSUME NEW v \in Nat, Fits8(v)
    PROVE  \A i \in 1..8 : Bytes8(v)[i] \in Byte
<1>1. v \div Quad < Quad /\ v \div Quad \in Nat /\ v % Quad < Quad /\ v % Quad \in Nat
  BY Sizes, ByteSizes, DivMod DEF Fits8
<1>2. /\ \A i \in 1..4 : Bytes4(v \div Quad)[i] \in Byte
      /\ \A i \in 1..4 : Bytes4(v % Quad)[i] \in Byte
  BY <1>1, FourFit
<1>3. \A i \in 1..4 : Bytes8(v)[i] \in Byte /\ Bytes8(v)[4 + i] \in Byte
  BY <1>2, Shape8
<1>4. \A i \in 1..8 : i \in 1..4 \/ (i - 4 \in 1..4 /\ i = 4 + (i - 4))
  OBVIOUS
<1> QED
  BY <1>3, <1>4

(* What is encoded is bytes, eight at most. *)
LEMMA EncodingBytes ==
    ASSUME NEW v \in Number
    PROVE  EncodeVarint(v) \in Seq(Byte) /\ Len(EncodeVarint(v)) \in 1..8
<1> DEFINE n == EncodedLength(v)
           plain == CASE n = 1 -> <<v>> [] n = 2 -> Bytes2(v)
                      [] n = 4 -> Bytes4(v) [] n = 8 -> Bytes8(v)
<1>0. v \in Nat /\ Fits8(v)
  BY DEF Number
<1>1. n \in {1, 2, 4, 8}
  BY DEF EncodedLength
<1>2. /\ n = 1 => Fits1(v) /\ plain = <<v>>
      /\ n = 2 => Fits2(v) /\ plain = Bytes2(v)
      /\ n = 4 => Fits4(v) /\ plain = Bytes4(v)
      /\ n = 8 => plain = Bytes8(v)
  BY DEF EncodedLength
<1>3. EncodeVarint(v) = Prefixed(n, plain)
  BY <1>1 DEF EncodeVarint
<1>4. /\ plain \in Seq(Nat) /\ Len(plain) = n /\ plain[1] < Quarter
      /\ \A i \in 1..n : plain[i] \in Byte
  <2>1. CASE n = 1
    BY <1>0, <1>2, <2>1, ByteSizes, Sizes, QuarterAssumption DEF Fits1, Byte
  <2>2. CASE n = 2
    <3>1. v < Pair
      BY <1>0, <1>2, <2>2, ByteSizes, Sizes DEF Fits2
    <3> QED
      BY <1>0, <1>2, <2>2, <3>1, Shape2, Top, TwoFit
  <2>3. CASE n = 4
    <3>1. v < Quad
      BY <1>0, <1>2, <2>3, ByteSizes, Sizes DEF Fits4
    <3> QED
      BY <1>0, <1>2, <2>3, <3>1, Shape4, Top, FourFit
  <2>4. CASE n = 8
    <3>1. v \div Quad \in Nat
      BY <1>0, DivMod, Sizes
    <3>2. Bytes8(v)[1] = Bytes4(v \div Quad)[1]
      BY <1>0, Shape8
    <3>3. Bytes4(v \div Quad)[1] = ((v \div Quad) \div Pair) \div Base
      BY <3>1, Shape4
    <3> QED
      BY <1>0, <1>2, <2>4, <3>2, <3>3, Shape8, Top, EightFit
  <2> QED
    BY <1>1, <2>1, <2>2, <2>3, <2>4
<1> DEFINE e == Prefixed(n, plain)
<1>5. /\ e \in Seq(Nat) /\ Len(e) = n /\ \A i \in 2..n : e[i] = plain[i]
      /\ e[1] = plain[1] + Prefix(n)
  <2> HIDE DEF n, plain
  <2>1. e \in Seq(Nat) /\ Len(e) = n /\ \A i \in 2..n : e[i] = plain[i]
    BY <1>1, <1>4, Marked
  <2>2. 1 \in DOMAIN plain
    BY <1>1, <1>4
  <2> QED
    BY <2>1, <2>2 DEF Prefixed
<1>6. e[1] \in Byte
  <2>1. Prefix(n) \in {0, Quarter, 2 * Quarter, 3 * Quarter}
    BY <1>1, QuarterAssumption DEF Prefix
  <2>2. 1 \in 1..n /\ plain[1] \in Nat
    BY <1>1, <1>4
  <2> HIDE DEF plain
  <2> QED
    BY <1>4, <1>5, <2>1, <2>2, QuarterAssumption DEF Byte, Base
<1> HIDE DEF e, plain
<1>7. \A i \in 1..n : e[i] \in Byte
  <2>1. \A i \in 1..n : i = 1 \/ i \in 2..n
    BY <1>1
  <2> QED
    BY <1>4, <1>5, <1>6, <2>1
<1>8. e \in Seq(Byte)
  BY <1>1, <1>5, <1>7
<1>9. Len(e) \in 1..8
  BY <1>1, <1>5
<1> QED
  BY <1>3, <1>8, <1>9 DEF e, plain

LEMMA DigitsType ==
    ASSUME NEW b
    PROVE  /\ b[1] \in Nat /\ b[2] \in Nat => Number2(b, 1) \in Nat
           /\ (\A i \in 1..4 : b[i] \in Nat) => Number4(b, 1) \in Nat
           /\ (\A i \in 1..8 : b[i] \in Nat) => Number8(b, 1) \in Nat
<1>1. ASSUME NEW x \in Nat, NEW y \in Nat, NEW z \in Nat
      PROVE  x * y + z \in Nat
  OBVIOUS
<1>2. ASSUME NEW i \in Nat, b[i] \in Nat, b[i + 1] \in Nat
      PROVE  Number2(b, i) \in Nat
  BY <1>1, <1>2, Sizes DEF Number2
<1>3. ASSUME NEW i \in Nat, \A j \in 0..3 : b[i + j] \in Nat
      PROVE  Number4(b, i) \in Nat
  <2>1. b[i] \in Nat /\ b[i + 1] \in Nat /\ b[i + 2] \in Nat /\ b[(i + 2) + 1] \in Nat
    <3>1. i + 0 = i /\ (i + 2) + 1 = i + 3
      OBVIOUS
    <3> QED
      BY <1>3, <3>1
  <2>2. Number2(b, i) \in Nat /\ Number2(b, i + 2) \in Nat
    BY <1>2, <2>1
  <2> QED
    BY <1>1, <2>2, Sizes DEF Number4
<1>4. ASSUME \A i \in 1..8 : b[i] \in Nat
      PROVE  Number8(b, 1) \in Nat
  <2>1. /\ \A j \in 0..3 : 1 + j \in 1..8 /\ 5 + j \in 1..8
        /\ 1 + 4 = 5
    OBVIOUS
  <2>2. Number4(b, 1) \in Nat /\ Number4(b, 5) \in Nat
    BY <1>3, <1>4, <2>1
  <2> QED
    BY <1>1, <2>1, <2>2, Sizes DEF Number8
<1>5. /\ b[1] \in Nat /\ b[2] \in Nat => Number2(b, 1) \in Nat
      /\ (\A i \in 1..4 : b[i] \in Nat) => Number4(b, 1) \in Nat
  <2>1. 1 + 1 = 2 /\ \A j \in 0..3 : 1 + j \in 1..4
    OBVIOUS
  <2> QED
    BY <1>2, <1>3, <2>1
<1> QED
  BY <1>4, <1>5

(* Wherever decodeVarint finds its bytes, it reads some number. *)
LEMMA DecodingType ==
    ASSUME NEW buf \in Seq(Byte), NEW offset \in Nat, VarintAt(buf, offset)
    PROVE  /\ DecodeVarint(buf, offset).length \in Nat \ {0}
           /\ DecodeVarint(buf, offset).length = LengthIn(buf[offset + 1])
           /\ DecodeVarint(buf, offset).value \in Nat
<1> DEFINE f == buf[offset + 1]
           n == LengthIn(f)
           b == [i \in 1..n |-> IF i = 1 THEN buf[offset + 1] % Quarter ELSE buf[offset + i]]
<1>1. offset + 1 \in 1..Len(buf) /\ f \in Byte /\ Len(buf) \in Nat
  BY DEF VarintAt
<1>2. f \in Nat /\ f < 4 * Quarter /\ Quarter \in Nat \ {0}
  BY <1>1, QuarterAssumption DEF Byte, Base
<1>3. f \div Quarter \in Nat /\ f \div Quarter < 4 /\ f % Quarter \in Nat
  BY <1>2, DivBelow, DivMod
<1>4. n \in {1, 2, 4, 8}
  <2>1. f \div Quarter \in 0..3
    BY <1>3
  <2> HIDE DEF f
  <2> QED
    BY <2>1 DEF LengthIn
<1>5. offset + n <= Len(buf)
  BY DEF VarintAt
<1>6. \A i \in 1..n : offset + i \in 1..Len(buf) /\ buf[offset + i] \in Nat
  <2> HIDE DEF n
  <2>1. \A i \in 1..n : offset + i \in 1..Len(buf)
    BY <1>1, <1>4, <1>5
  <2> QED
    BY <2>1, Sizes DEF Byte
<1> DEFINE value == CASE n = 1 -> b[1] [] n = 2 -> Number2(b, 1)
                      [] n = 4 -> Number4(b, 1) [] n = 8 -> Number8(b, 1)
<1>7. DecodeVarint(buf, offset) = [length |-> n, value |-> value]
  BY DEF DecodeVarint
<1> HIDE DEF f
<1>8. \A i \in 1..n : b[i] \in Nat
  BY <1>3, <1>6 DEF f
<1> HIDE DEF n, b
<1>9. value \in Nat
  <2>1. CASE n = 1
    BY <1>8, <2>1
  <2>2. CASE n = 2
    BY <1>8, <2>2, DigitsType
  <2>3. CASE n = 4
    <3>1. Number4(b, 1) \in Nat
      BY <1>8, <2>3, DigitsType
    <3> QED
      BY <2>3, <3>1
  <2>4. CASE n = 8
    <3>1. Number8(b, 1) \in Nat
      BY <1>8, <2>4, DigitsType
    <3> QED
      BY <2>4, <3>1
  <2> QED
    BY <1>4, <2>1, <2>2, <2>3, <2>4
<1> QED
  BY <1>4, <1>7, <1>9 DEF n, f

(* Whatever a number's width, and whatever the buffer holds around it:     *)
(* decodeVarint finds at the offset just the bytes that encodeVarint wrote *)
(* there, and reads the number they were written for.                      *)
THEOREM VarintRoundTrip ==
    ASSUME NEW v \in Nat, Fits8(v),
           NEW buf \in Seq(Nat), NEW offset \in Nat, Holds(buf, offset, EncodeVarint(v))
    PROVE  /\ VarintAt(buf, offset)
           /\ DecodeVarint(buf, offset) = [length |-> Len(EncodeVarint(v)), value |-> v]
<1> DEFINE n == EncodedLength(v)
           plain == CASE n = 1 -> <<v>> [] n = 2 -> Bytes2(v)
                      [] n = 4 -> Bytes4(v) [] n = 8 -> Bytes8(v)
           read == [i \in 1..n |-> Bare(buf, offset, i)]
<1>1. n \in {1, 2, 4, 8}
  BY DEF EncodedLength
<1>2. /\ n = 1 => Fits1(v) /\ plain = <<v>>
      /\ n = 2 => Fits2(v) /\ plain = Bytes2(v)
      /\ n = 4 => Fits4(v) /\ plain = Bytes4(v)
      /\ n = 8 => plain = Bytes8(v)
  BY DEF EncodedLength
<1>3. EncodeVarint(v) = Prefixed(n, plain)
  BY <1>1 DEF EncodeVarint
<1>4. plain \in Seq(Nat) /\ Len(plain) = n /\ plain[1] < Quarter
  <2>1. CASE n = 1
    BY <1>2, <2>1 DEF Fits1
  <2>2. CASE n = 2
    BY <1>2, <2>2, Shape2, Top
  <2>3. CASE n = 4
    BY <1>2, <2>3, Shape4, Top
  <2>4. CASE n = 8
    <3>1. v \div Quad \in Nat
      BY DivMod, Sizes
    <3>2. Bytes8(v)[1] = Bytes4(v \div Quad)[1]
      BY Shape8
    <3>3. Bytes4(v \div Quad)[1] = ((v \div Quad) \div Pair) \div Base
      BY <3>1, Shape4
    <3> QED
      BY <1>2, <2>4, <3>2, <3>3, Shape8, Top
  <2> QED
    BY <1>1, <2>1, <2>2, <2>3, <2>4
<1> HIDE DEF n, plain
<1>5. Len(EncodeVarint(v)) = n
  <2>1. Len(Prefixed(n, plain)) = n
    BY <1>1, <1>4, Marked, Zenon
  <2> QED
    BY <1>3, <2>1
<1>6. /\ VarintAt(buf, offset) /\ LengthIn(buf[offset + 1]) = n
      /\ \A i \in 1..n : plain[i] = Bare(buf, offset, i)
  BY <1>1, <1>3, <1>4, Unmarked, ZenonT(30)
<1>7. \A i \in 1..n : read[i] = plain[i]
  BY <1>6
<1>8. DecodeVarint(buf, offset) =
        [length |-> n,
         value  |-> CASE n = 1 -> read[1] [] n = 2 -> Number2(read, 1)
                      [] n = 4 -> Number4(read, 1) [] n = 8 -> Number8(read, 1)]
  BY <1>6, Zenon DEF DecodeVarint, Bare
<1> HIDE DEF read
<1>9. CASE n = 1
  <2>1. read[1] = v
    BY <1>2, <1>7, <1>9
  <2> QED
    BY <1>5, <1>6, <1>8, <1>9, <2>1
<1>10. CASE n = 2
  <2>1. read[1] = v \div Base /\ read[1 + 1] = v % Base
    BY <1>2, <1>7, <1>10, Shape2
  <2>2. Number2(read, 1) = v
    BY <2>1, Join2
  <2> QED
    BY <1>5, <1>6, <1>8, <1>10, <2>2
<1> DEFINE Half(x, i) == /\ read[i] = (x \div Pair) \div Base /\ read[i + 1] = (x \div Pair) % Base
                         /\ read[i + 2] = (x % Pair) \div Base
                         /\ read[(i + 2) + 1] = (x % Pair) % Base
<1>11. ASSUME NEW x \in Nat, NEW i \in Nat, Half(x, i)
       PROVE  Number4(read, i) = x
  <2>1. x \div Pair \in Nat /\ x % Pair \in Nat
    BY DivMod, Sizes
  <2>2. Number2(read, i) = x \div Pair
    BY <1>11, <2>1, Join2
  <2>3. Number2(read, i + 2) = x % Pair
    <3>1. i + 2 \in Nat
      OBVIOUS
    <3>2. read[i + 2] = (x % Pair) \div Base /\ read[(i + 2) + 1] = (x % Pair) % Base
      BY <1>11
    <3> QED
      BY <2>1, <3>1, <3>2, Join2
  <2> QED
    BY <2>2, <2>3, Join4
<1>12. CASE n = 4
  <2>1. Half(v, 1)
    BY <1>2, <1>7, <1>12, Shape4
  <2>2. Number4(read, 1) = v
    BY <1>11, <2>1
  <2> QED
    BY <1>5, <1>6, <1>8, <1>12, <2>2
<1>13. CASE n = 8
  <2>1. v \div Quad \in Nat /\ v % Quad \in Nat
    BY DivMod, Sizes
  <2>2. \A i \in 1..4 : /\ read[i] = Bytes4(v \div Quad)[i]
                        /\ read[4 + i] = Bytes4(v % Quad)[i]
    <3>1. \A i \in 1..8 : read[i] = Bytes8(v)[i]
      BY <1>2, <1>7, <1>13
    <3>2. ASSUME NEW i \in 1..4
          PROVE  read[i] = Bytes4(v \div Quad)[i] /\ read[4 + i] = Bytes4(v % Quad)[i]
      <4>1. i \in 1..8 /\ 4 + i \in 1..8
        OBVIOUS
      <4>2. Bytes8(v)[i] = Bytes4(v \div Quad)[i] /\ Bytes8(v)[4 + i] = Bytes4(v % Quad)[i]
        BY Shape8
      <4> QED
        BY <3>1, <4>1, <4>2
    <3> QED
      BY <3>2
  <2>3. Half(v \div Quad, 1)
    BY <2>1, <2>2, Shape4
  <2>4. Half(v % Quad, 5)
    BY <2>1, <2>2, Shape4
  <2>5. Number4(read, 1) = v \div Quad /\ Number4(read, 1 + 4) = v % Quad
    BY <1>11, <2>1, <2>3, <2>4
  <2>6. Number8(read, 1) = v
    BY <2>5, Join8
  <2> QED
    BY <1>5, <1>6, <1>8, <1>13, <2>6
<1> QED
  BY <1>1, <1>9, <1>10, <1>12, <1>13

-------------------------------------------------------------------------------
(***************************************************************************)
(* The ids in their order.                                                 *)
(***************************************************************************)
Rank(ids, id) == Cardinality({j \in ids : j < id})

LEMMA RankType ==
    ASSUME NEW ids \in SUBSET Nat, IsFiniteSet(ids), NEW id \in ids
    PROVE  /\ Cardinality(ids) \in Nat /\ Rank(ids, id) \in 0..(Cardinality(ids) - 1)
           /\ IsFiniteSet({j \in ids : j < id})
           /\ Rank(ids, id) \in Nat
  <1> DEFINE T == {j \in ids : j < id}
  <1>1. T \in SUBSET (ids \ {id}) /\ T \in SUBSET ids
    OBVIOUS
  <1>2. IsFiniteSet(ids \ {id}) /\ Cardinality(ids \ {id}) = Cardinality(ids) - 1
    BY FS_RemoveElement
  <1>3. IsFiniteSet(T) /\ Cardinality(T) <= Cardinality(ids \ {id})
    BY <1>1, <1>2, FS_Subset
  <1>4. Cardinality(ids) \in Nat /\ Cardinality(T) \in Nat
    BY <1>3, FS_CardinalityType
  <1> QED  BY <1>2, <1>3, <1>4 DEF Rank

LEMMA RankGrows ==
    ASSUME NEW ids \in SUBSET Nat, IsFiniteSet(ids), NEW x \in ids, NEW y \in ids, x < y
    PROVE  Rank(ids, x) < Rank(ids, y)
  <1> DEFINE S == {j \in ids : j < x}
             T == {j \in ids : j < y}
  <1>1. IsFiniteSet(S) /\ IsFiniteSet(T)
    BY RankType
  <1>2. x \notin S /\ x \in T /\ S \cup {x} \in SUBSET T
    <2>1. x \in Nat /\ y \in Nat /\ ~(x < x) /\ \A j \in ids : j \in Nat /\ (j < x => j < y)
      OBVIOUS
    <2> QED  BY <2>1
  <1>3. IsFiniteSet(S \cup {x}) /\ Cardinality(S \cup {x}) = Cardinality(S) + 1
    BY <1>1, <1>2, FS_AddElement
  <1>4. Cardinality(S \cup {x}) <= Cardinality(T)
    BY <1>1, <1>2, FS_Subset
  <1>5. Cardinality(S) \in Nat /\ Cardinality(T) \in Nat
    BY <1>1, FS_CardinalityType
  <1> QED  BY <1>3, <1>4, <1>5 DEF Rank

LEMMA RankOnce ==
    ASSUME NEW ids \in SUBSET Nat, IsFiniteSet(ids), NEW x \in ids, NEW y \in ids,
           Rank(ids, x) = Rank(ids, y)
    PROVE  x = y
  <1>1. Rank(ids, x) \in Nat /\ Rank(ids, y) \in Nat
    BY RankType, Zenon
  <1>2. x < y \/ y < x \/ x = y
    OBVIOUS
  <1> QED  BY <1>1, <1>2, RankGrows

LEMMA RankReached ==
    ASSUME NEW ids \in SUBSET Nat, IsFiniteSet(ids), NEW r \in 0..(Cardinality(ids) - 1)
    PROVE  \E x \in ids : Rank(ids, x) = r
  <1> DEFINE n == Cardinality(ids)
             T == 0..(n - 1)
             f == [x \in ids |-> Rank(ids, x)]
  <1>1. n \in Nat
    BY FS_CardinalityType
  <1>2. f \in [ids -> T]
    BY RankType
  <1>3. \A x, y \in ids : f[x] = f[y] => x = y
    BY RankOnce
  <1>4. f \in Injection(ids, T)
    BY <1>2, <1>3 DEF Injection, IsInjective
  <1>5. IsFiniteSet(T) /\ Cardinality(T) = n
    BY <1>1, FS_Interval
  <1>6. f \in Surjection(ids, T)
    BY <1>4, <1>5, FS_Injection
  <1>7. \E x \in ids : f[x] = r
    BY <1>6 DEF Surjection
  <1> QED  BY <1>7

(* Every id is at its place. *)
LEMMA SortedPlaces ==
    ASSUME NEW ids \in SUBSET Nat, IsFiniteSet(ids)
    PROVE  /\ Sorted(ids) \in Seq(ids) /\ Cardinality(ids) \in Nat
           /\ Len(Sorted(ids)) = Cardinality(ids)
           /\ \A i \in 1..Cardinality(ids) :
                Sorted(ids)[i] \in ids /\ Rank(ids, Sorted(ids)[i]) = i - 1
           /\ \A x \in ids : /\ Rank(ids, x) + 1 \in 1..Cardinality(ids)
                             /\ Sorted(ids)[Rank(ids, x) + 1] = x
  <1> DEFINE n == Cardinality(ids)
             s == Sorted(ids)
             pick(i) == CHOOSE id \in ids : Cardinality({j \in ids : j < id}) = i - 1
  <1>1. n \in Nat
    BY FS_CardinalityType
  <1>2. s = [i \in 1..n |-> pick(i)]
    BY DEF Sorted
  <1>3. ASSUME NEW i \in 1..n PROVE s[i] \in ids /\ Rank(ids, s[i]) = i - 1
    <2>1. i - 1 \in 0..(n - 1)
      BY <1>1
    <2>2. \E x \in ids : Cardinality({j \in ids : j < x}) = i - 1
      BY <2>1, RankReached DEF Rank
    <2>3. pick(i) \in ids /\ Cardinality({j \in ids : j < pick(i)}) = i - 1
      BY <2>2
    <2>4. s[i] = pick(i)
      BY <1>2
    <2> HIDE DEF pick
    <2> QED  BY <2>3, <2>4 DEF Rank
  <1> HIDE DEF s
  <1>4. s \in Seq(ids) /\ Len(s) = n
    <2> HIDE DEF n, pick
    <2>1. DOMAIN s = 1..n /\ s \in [1..n -> ids]
      BY <1>2, <1>3
    <2> QED  BY <1>1, <2>1
  <1>5. ASSUME NEW x \in ids PROVE Rank(ids, x) + 1 \in 1..n /\ s[Rank(ids, x) + 1] = x
    <2>1. PICK r : r = Rank(ids, x)
      OBVIOUS
    <2>2. r \in 0..(n - 1)
      BY <2>1, RankType
    <2>3. r + 1 \in 1..n /\ (r + 1) - 1 = r
      BY <1>1, <2>2
    <2>4. s[r + 1] \in ids /\ Rank(ids, s[r + 1]) = r
      BY <1>3, <2>3
    <2> QED  BY <2>1, <2>3, <2>4, RankOnce
  <1> QED  BY <1>1, <1>3, <1>4, <1>5 DEF s

(* The ids that come first. *)
FirstIds(ids, k) == {x \in ids : Rank(ids, x) < k}

LEMMA SortedFirst ==
    ASSUME NEW ids \in SUBSET Nat, IsFiniteSet(ids), NEW k \in 0..Cardinality(ids)
    PROVE  /\ FirstIds(ids, k) \in SUBSET Nat /\ IsFiniteSet(FirstIds(ids, k))
           /\ Cardinality(FirstIds(ids, k)) = k
           /\ \A i \in 1..k : Sorted(FirstIds(ids, k))[i] = Sorted(ids)[i]
  <1> DEFINE S == FirstIds(ids, k)
             n == Cardinality(ids)
             s == Sorted(ids)
             t == Sorted(S)
             f == [i \in 1..k |-> s[i]]
  <1>1. n \in Nat /\ k \in Nat /\ k <= n
    BY FS_CardinalityType
  <1>2. S \in SUBSET ids /\ S \in SUBSET Nat
    BY DEF FirstIds
  <1>3. IsFiniteSet(S)
    BY <1>2, FS_Subset
  <1>4. /\ \A i \in 1..n : s[i] \in ids /\ Rank(ids, s[i]) = i - 1
        /\ \A x \in ids : Rank(ids, x) + 1 \in 1..n /\ s[Rank(ids, x) + 1] = x
    BY SortedPlaces
  <1>5. \A x \in ids : Rank(ids, x) \in Nat
    BY RankType, Zenon
  <1>6. Cardinality(S) = k
    <2>0. \A i \in 1..k : i \in 1..n /\ i - 1 < k
      BY <1>1
    <2>1. ASSUME NEW i \in 1..k PROVE f[i] \in S
      <3>1. s[i] \in ids /\ Rank(ids, s[i]) < k
        BY <1>4, <2>0
      <3> QED  BY <3>1 DEF FirstIds
    <2>2. f \in [1..k -> S]
      BY <2>1
    <2>3. ASSUME NEW i \in 1..k, NEW j \in 1..k, f[i] = f[j] PROVE i = j
      <3>1. Rank(ids, s[i]) = i - 1 /\ Rank(ids, s[j]) = j - 1 /\ s[i] = s[j]
        BY <1>4, <2>0, <2>3
      <3>2. i - 1 = j - 1
        BY <3>1
      <3> QED  BY <3>2
    <2>4. ASSUME NEW x \in S PROVE \E i \in 1..k : f[i] = x
      <3>1. x \in ids /\ Rank(ids, x) < k /\ Rank(ids, x) \in Nat
        BY <1>5 DEF FirstIds
      <3>2. PICK i : i = Rank(ids, x) + 1
        OBVIOUS
      <3>3. i \in 1..k
        BY <1>1, <3>1, <3>2
      <3> QED  BY <1>4, <3>1, <3>2, <3>3
    <2>5. f \in Bijection(1..k, S)
      BY <2>2, <2>3, <2>4 DEF Bijection, Injection, Surjection, IsInjective
    <2>6. IsFiniteSet(1..k) /\ Cardinality(1..k) = k
      BY <1>1, FS_Interval
    <2> QED  BY <2>5, <2>6, FS_Bijection DEF ExistsBijection
  <1>7. ASSUME NEW x \in S PROVE Rank(S, x) = Rank(ids, x)
    <2>1. ASSUME NEW j \in ids, j < x PROVE j \in S
      <3>1. x \in ids /\ Rank(ids, x) < k
        BY DEF FirstIds
      <3>2. Rank(ids, j) < Rank(ids, x)
        BY <2>1, <3>1, RankGrows
      <3>3. Rank(ids, j) < k
        BY <1>1, <1>5, <3>1, <3>2
      <3> QED  BY <3>3 DEF FirstIds
    <2>2. {j \in ids : j < x} = {j \in S : j < x}
      BY <1>2, <2>1
    <2> QED  BY <2>2 DEF Rank
  <1>8. ASSUME NEW i \in 1..k PROVE t[i] = s[i]
    <2>1. t[i] \in S /\ Rank(S, t[i]) = i - 1
      BY <1>2, <1>3, <1>6, SortedPlaces
    <2>2. Rank(ids, t[i]) = i - 1 /\ t[i] \in ids
      BY <1>2, <1>7, <2>1
    <2>3. i \in 1..n /\ Rank(ids, s[i]) = i - 1 /\ s[i] \in ids
      BY <1>1, <1>4
    <2> HIDE DEF t, s
    <2>4. PICK x \in ids, y \in ids : x = t[i] /\ y = s[i]
      BY <2>2, <2>3
    <2>5. Rank(ids, x) = Rank(ids, y)
      BY <2>2, <2>3, <2>4
    <2>6. x = y
      BY <2>5, RankOnce, Zenon
    <2> QED  BY <2>4, <2>6
  <1> QED  BY <1>2, <1>3, <1>6, <1>8

-------------------------------------------------------------------------------
(***************************************************************************)
(* The decoder's loop: a round at an offset either stops or leads to a     *)
(* round further on.                                                       *)
(***************************************************************************)
Start(buf, offset) == offset + DecodeVarint(buf, offset).length
Value(buf, offset) == Start(buf, offset) + DecodeVarint(buf, Start(buf, offset)).length
EndAt(buf, offset) == Value(buf, offset) + DecodeVarint(buf, Start(buf, offset)).value

GoesOn(buf, offset) ==
    /\ offset < Len(buf) /\ VarintAt(buf, offset) /\ VarintAt(buf, Start(buf, offset))
    /\ EndAt(buf, offset) <= Len(buf)

Stop(buf, offset) ==
    [error |-> IF offset >= Len(buf) THEN "none"
               ELSE IF ~VarintAt(buf, offset) \/ ~VarintAt(buf, Start(buf, offset)) THEN "RangeError"
               ELSE "TransportParameterError",
     wire  |-> <<>>]

Found(buf, offset) ==
    [id \in {DecodeVarint(buf, offset).value} |->
        Subarray(buf, Value(buf, offset), EndAt(buf, offset))]

Extend(buf, offset, rest) == [rest EXCEPT !.wire = Together(@, Found(buf, offset))]

Rounds(buf, from) ==
    \A offset \in Nat :
        from[offset] = IF GoesOn(buf, offset) THEN Extend(buf, offset, from[EndAt(buf, offset)])
                       ELSE Stop(buf, offset)

Wires == UNION {[T -> Seq(Nat)] : T \in SUBSET Nat}
Results == [error : Errors, wire : Wires]

LEMMA RoundEnds ==
    ASSUME NEW buf \in Seq(Byte), NEW offset \in Nat, GoesOn(buf, offset)
    PROVE  /\ Start(buf, offset) \in Nat /\ Value(buf, offset) \in Nat
           /\ EndAt(buf, offset) \in Nat /\ offset < EndAt(buf, offset)
           /\ EndAt(buf, offset) <= Len(buf) /\ DecodeVarint(buf, offset).value \in Nat
  <1>1. DecodeVarint(buf, offset).length \in Nat \ {0} /\ DecodeVarint(buf, offset).value \in Nat
    BY DecodingType DEF GoesOn
  <1>2. Start(buf, offset) \in Nat /\ offset < Start(buf, offset)
    BY <1>1 DEF Start
  <1> DEFINE start == Start(buf, offset)
  <1>3. VarintAt(buf, start) /\ EndAt(buf, offset) <= Len(buf)
    BY DEF GoesOn
  <1>4. DecodeVarint(buf, start).length \in Nat \ {0} /\ DecodeVarint(buf, start).value \in Nat
    BY <1>2, <1>3, DecodingType
  <1>5. Value(buf, offset) = start + DecodeVarint(buf, start).length
    BY DEF Value
  <1>6. EndAt(buf, offset) = Value(buf, offset) + DecodeVarint(buf, start).value
    BY DEF EndAt
  <1> HIDE DEF start
  <1>7. start \in Nat /\ offset < start
    BY <1>2 DEF start
  <1>8. Value(buf, offset) \in Nat /\ start < Value(buf, offset)
    BY <1>4, <1>5, <1>7
  <1>9. EndAt(buf, offset) \in Nat /\ offset < EndAt(buf, offset)
    BY <1>4, <1>6, <1>7, <1>8
  <1> QED  BY <1>1, <1>2, <1>3, <1>8, <1>9

LEMMA StopType ==
    ASSUME NEW buf, NEW offset
    PROVE  Stop(buf, offset) \in Results
  <1>1. <<>> \in Wires
    <2>1. <<>> \in [{} -> Seq(Nat)]
      OBVIOUS
    <2>2. {} \in SUBSET Nat
      OBVIOUS
    <2> QED  BY <2>1, <2>2 DEF Wires
  <1> QED  BY <1>1 DEF Stop, Results, Errors

LEMMA ExtendType ==
    ASSUME NEW buf \in Seq(Byte), NEW offset \in Nat, GoesOn(buf, offset), NEW r \in Results
    PROVE  Extend(buf, offset, r) \in Results
  <1> DEFINE more == Found(buf, offset)
             all  == Together(r.wire, more)
             id   == DecodeVarint(buf, offset).value
  <1>1. id \in Nat /\ Value(buf, offset) \in Nat /\ EndAt(buf, offset) \in Nat
    BY RoundEnds
  <1>2. Subarray(buf, Value(buf, offset), EndAt(buf, offset)) \in Seq(Nat)
    <2>1. buf \in Seq(Nat) /\ Len(buf) \in Nat
      <3>1. \A x \in Byte : x \in Nat
        BY Sizes DEF Byte
      <3> QED  BY <3>1
    <2>2. ASSUME NEW a \in Nat, NEW b \in Nat PROVE Subarray(buf, a, b) \in Seq(Nat)
      <3>1. ASSUME NEW c \in Nat, c <= Len(buf) PROVE SubSeq(buf, a + 1, c) \in Seq(Nat)
        BY <2>1, <3>1
      <3> QED  BY <2>1, <3>1 DEF Subarray
    <2> QED  BY <1>1, <2>2
  <1>3. DOMAIN more = {id} /\ more[id] \in Seq(Nat)
    BY <1>2 DEF Found
  <1>4. PICK T \in SUBSET Nat : r.wire \in [T -> Seq(Nat)]
    BY DEF Results, Wires
  <1> HIDE DEF more, id
  <1>5. all \in [T \cup {id} -> Seq(Nat)]
    BY <1>3, <1>4 DEF Together
  <1>6. T \cup {id} \in SUBSET Nat
    BY <1>1 DEF id
  <1>7. all \in Wires
    BY <1>5, <1>6 DEF Wires
  <1> HIDE DEF all
  <1>8. Extend(buf, offset, r) = [r EXCEPT !.wire = all]
    BY DEF Extend, all, more
  <1> QED  BY <1>7, <1>8 DEF Results

LEMMA DecodingExists ==
    ASSUME NEW buf \in Seq(Byte)
    PROVE  \E from : Rounds(buf, from) /\ from[0] = DecodeTransportParameters(buf)
  <1> DEFINE L == Len(buf)
             D == 0..L
             B == {k \in D : ~GoesOn(buf, L - k)}
             base == [k \in D |-> Stop(buf, L - k)]
             prev == [k \in D |-> L - EndAt(buf, L - k)]
             step == [x \in D \X Results |-> Extend(buf, L - x[1], x[2])]
  <1>1. L \in Nat /\ D \in SUBSET Nat /\ \A k \in D : L - k \in Nat /\ L - k <= L /\ L - (L - k) = k
    OBVIOUS
  <1>2. ASSUME NEW k \in D \ B PROVE prev[k] \in D /\ prev[k] < k
    <2>1. k \in D /\ GoesOn(buf, L - k) /\ L - k \in Nat
      BY <1>1
    <2>2. PICK e : e = EndAt(buf, L - k)
      OBVIOUS
    <2>3. e \in Nat /\ L - k < e /\ e <= L
      BY <2>1, <2>2, RoundEnds
    <2>4. prev[k] = L - e
      BY <2>1, <2>2
    <2> QED  BY <1>1, <2>1, <2>3, <2>4
  <1>3. Descends(D, B, prev)
    BY <1>2 DEF Descends
  <1>4. StaysIn(Results, D, B, base, step)
    <2>1. ASSUME NEW k \in B PROVE base[k] \in Results
      BY StopType
    <2>2. ASSUME NEW k \in D \ B, NEW r \in Results PROVE step[<<k, r>>] \in Results
      <3>1. k \in D /\ GoesOn(buf, L - k) /\ L - k \in Nat
        BY <1>1
      <3>2. step[<<k, r>>] = Extend(buf, L - k, r)
        BY <3>1
      <3> QED  BY <3>1, <3>2, ExtendType
    <2> QED  BY <2>1, <2>2 DEF StaysIn
  <1>5. PICK f \in [D -> Results] : Computes(f, D, B, base, prev, step)
    <2> HIDE DEF D, B, base, prev, step
    <2> QED  BY <1>1, <1>3, <1>4, RecursionExists
  <1> DEFINE g == [o \in Nat |-> IF o >= L THEN Stop(buf, o) ELSE f[L - o]]
  <1>6. ASSUME NEW o \in Nat
        PROVE  g[o] = IF GoesOn(buf, o) THEN Extend(buf, o, g[EndAt(buf, o)]) ELSE Stop(buf, o)
    <2>1. CASE o >= L
      <3>1. ~GoesOn(buf, o)
        BY <1>1, <2>1 DEF GoesOn
      <3>2. g[o] = Stop(buf, o)
        BY <2>1
      <3> QED  BY <3>1, <3>2
    <2>2. CASE ~(o >= L)
      <3>1. PICK k : k = L - o
        OBVIOUS
      <3>2. k \in D /\ L - k = o /\ g[o] = f[k]
        BY <1>1, <2>2, <3>1
      <3>3. f[k] = IF k \in B THEN base[k] ELSE step[<<k, f[prev[k]]>>]
        BY <1>5, <3>2 DEF Computes
      <3>4. CASE ~GoesOn(buf, o)
        <4>1. k \in B /\ base[k] = Stop(buf, o)
          BY <3>2, <3>4
        <4> QED  BY <3>2, <3>3, <3>4, <4>1
      <3>5. CASE GoesOn(buf, o)
        <4>1. k \notin B
          BY <3>2, <3>5
        <4>2. PICK e : e = EndAt(buf, o)
          OBVIOUS
        <4>3. e \in Nat /\ e <= L /\ prev[k] = L - e /\ prev[k] \in D
          BY <1>2, <3>2, <3>5, <4>1, <4>2, RoundEnds
        <4>4. f[prev[k]] = g[e]
          <5>1. CASE e = L
            <6>1. prev[k] = 0 /\ 0 \in B /\ L - 0 = L
              <7>1. ~(L < L)
                BY <1>1
              <7> QED  BY <1>1, <4>3, <5>1, <7>1 DEF GoesOn
            <6>2. f[0] = base[0]
              BY <1>5, <6>1 DEF Computes
            <6>3. base[0] = Stop(buf, L)
              BY <6>1
            <6>4. g[L] = Stop(buf, L)
              BY <1>1
            <6> QED  BY <5>1, <6>1, <6>2, <6>3, <6>4
          <5>2. CASE e # L
            <6>1. ~(e >= L)
              BY <1>1, <4>3, <5>2
            <6> QED  BY <4>3, <6>1
          <5> QED  BY <5>1, <5>2
        <4>5. f[prev[k]] \in Results
          BY <4>3
        <4>6. step[<<k, f[prev[k]]>>] = Extend(buf, L - k, f[prev[k]])
          BY <3>2, <4>5
        <4>7. g[o] = Extend(buf, o, g[e])
          BY <3>2, <3>3, <4>1, <4>4, <4>6
        <4> QED  BY <3>5, <4>2, <4>7
      <3> QED  BY <3>4, <3>5
    <2> QED  BY <2>1, <2>2
  <1> DEFINE throws(error) == [error |-> error, wire |-> <<>>]
             body(h, offset) ==
               IF offset >= Len(buf) THEN throws("none")
               ELSE IF ~VarintAt(buf, offset) THEN throws("RangeError")
               ELSE LET id == DecodeVarint(buf, offset)
                        start == offset + id.length
                    IN  IF ~VarintAt(buf, start) THEN throws("RangeError")
                        ELSE LET length == DecodeVarint(buf, start)
                                 value == start + length.length
                                 end == value + length.value
                             IN  IF Truncated(buf, end) THEN throws("TransportParameterError")
                                 ELSE [h[end] EXCEPT
                                         !.wire = Together(@, [i \in {id.value} |-> Subarray(buf, value, end)])]
             from == CHOOSE h : h = [offset \in Nat |-> body(h, offset)]
  <1>7. ASSUME NEW h, NEW o \in Nat
        PROVE  body(h, o) = IF GoesOn(buf, o) THEN Extend(buf, o, h[EndAt(buf, o)]) ELSE Stop(buf, o)
    <2>1. Len(buf) \in Nat
      OBVIOUS
    <2>2. CASE o >= Len(buf)
      BY <2>1, <2>2 DEF GoesOn, Stop
    <2>3. CASE ~(o >= Len(buf)) /\ ~VarintAt(buf, o)
      BY <2>3 DEF GoesOn, Stop
    <2>4. CASE ~(o >= Len(buf)) /\ VarintAt(buf, o) /\ ~VarintAt(buf, Start(buf, o))
      BY <2>4 DEF GoesOn, Stop, Start
    <2>5. CASE /\ ~(o >= Len(buf)) /\ VarintAt(buf, o) /\ VarintAt(buf, Start(buf, o))
               /\ EndAt(buf, o) > Len(buf)
      <3>1. ~GoesOn(buf, o)
        <4>1. DecodeVarint(buf, o).length \in Nat \ {0}
          BY <2>5, DecodingType
        <4>2. Start(buf, o) \in Nat
          BY <4>1 DEF Start
        <4>3. /\ DecodeVarint(buf, Start(buf, o)).length \in Nat
              /\ DecodeVarint(buf, Start(buf, o)).value \in Nat
          BY <2>5, <4>2, DecodingType
        <4>4. EndAt(buf, o) \in Nat
          BY <4>2, <4>3 DEF EndAt, Value
        <4> QED  BY <2>1, <2>5, <4>4 DEF GoesOn
      <3>2. Truncated(buf, EndAt(buf, o))
        BY <2>5 DEF Truncated
      <3>3. body(h, o) = throws("TransportParameterError")
        BY <2>5, <3>2, Zenon DEF Start, Value, EndAt
      <3> QED  BY <2>5, <3>1, <3>3 DEF Stop
    <2>6. CASE /\ ~(o >= Len(buf)) /\ VarintAt(buf, o) /\ VarintAt(buf, Start(buf, o))
               /\ ~(EndAt(buf, o) > Len(buf))
      <3>1. GoesOn(buf, o)
        <4>1. DecodeVarint(buf, o).length \in Nat \ {0}
          BY <2>6, DecodingType
        <4>2. Start(buf, o) \in Nat
          BY <4>1 DEF Start
        <4>3. /\ DecodeVarint(buf, Start(buf, o)).length \in Nat
              /\ DecodeVarint(buf, Start(buf, o)).value \in Nat
          BY <2>6, <4>2, DecodingType
        <4>4. EndAt(buf, o) \in Nat
          BY <4>2, <4>3 DEF EndAt, Value
        <4> QED  BY <2>1, <2>6, <4>4 DEF GoesOn
      <3>2. ~Truncated(buf, EndAt(buf, o))
        BY <2>6 DEF Truncated
      <3>3. body(h, o) = Extend(buf, o, h[EndAt(buf, o)])
        BY <2>6, <3>2, Zenon DEF Start, Value, EndAt, Extend, Found
      <3> QED  BY <3>1, <3>3
    <2> QED  BY <2>2, <2>3, <2>4, <2>5, <2>6
  <1>8. DecodeTransportParameters(buf) = from[0]
    BY DEF DecodeTransportParameters
  <1> HIDE DEF body
  <1>9. g = [offset \in Nat |-> body(g, offset)]
    <2>1. \A o \in Nat : g[o] = body(g, o)
      <3> HIDE DEF g
      <3> QED  BY <1>6, <1>7
    <2> QED  BY <2>1
  <1>10. from = [offset \in Nat |-> body(from, offset)]
    <2> HIDE DEF g
    <2> QED  BY <1>9
  <1> HIDE DEF from
  <1>11. Rounds(buf, from)
    <2>1. \A o \in Nat : from[o] = body(from, o)
      BY <1>10
    <2> QED  BY <1>7, <2>1 DEF Rounds
  <1> QED  BY <1>8, <1>11

-------------------------------------------------------------------------------
(***************************************************************************)
(* What is encoded, and what of it is there when it is cut.                *)
(***************************************************************************)
(* Bytes that stand at a place of others. *)
Ahead(w, a, b) ==
    /\ a \in Nat /\ b \in Seq(Nat) /\ a + Len(b) <= Len(w)
    /\ \A j \in 1..Len(b) : w[a + j] = b[j]

Begins(buf, whole) ==
    /\ buf \in Seq(Byte) /\ whole \in Seq(Byte) /\ Len(buf) <= Len(whole)
    /\ \A x \in 1..Len(buf) : buf[x] = whole[x]

LEMMA BytesAreNumbers ==
    ASSUME NEW b \in Seq(Byte)
    PROVE  b \in Seq(Nat) /\ Len(b) \in Nat
  <1>1. \A x \in Byte : x \in Nat
    BY Sizes DEF Byte
  <1> QED  BY <1>1

LEMMA NumberHere ==
    ASSUME NEW buf, NEW whole, Begins(buf, whole), NEW k \in Number, NEW offset \in Nat,
           offset < Len(buf), Ahead(whole, offset, EncodeVarint(k))
    PROVE  /\ VarintAt(buf, offset) <=> offset + Len(EncodeVarint(k)) <= Len(buf)
           /\ VarintAt(buf, offset) =>
                DecodeVarint(buf, offset) = [length |-> Len(EncodeVarint(k)), value |-> k]
  <1> DEFINE e == EncodeVarint(k)
  <1>1. e \in Seq(Nat) /\ Len(e) \in Nat \ {0} /\ LengthIn(e[1]) = Len(e)
    BY EncodingShape
  <1>2. buf \in Seq(Nat) /\ Len(buf) \in Nat
    BY BytesAreNumbers DEF Begins
  <1>3. offset + 1 \in 1..Len(buf) /\ 1 \in 1..Len(e)
    BY <1>1, <1>2
  <1>4. buf[offset + 1] = e[1]
    BY <1>3 DEF Begins, Ahead
  <1> HIDE DEF e
  <1>5. VarintAt(buf, offset) <=> offset + Len(e) <= Len(buf)
    BY <1>1, <1>4 DEF VarintAt
  <1>6. ASSUME offset + Len(e) <= Len(buf)
        PROVE  DecodeVarint(buf, offset) = [length |-> Len(e), value |-> k]
    <2>1. ASSUME NEW i \in 1..Len(e) PROVE buf[offset + i] = e[i]
      <3>1. offset + i \in 1..Len(buf)
        BY <1>1, <1>2, <1>6
      <3> QED  BY <3>1 DEF Begins, Ahead, e
    <2>2. Holds(buf, offset, EncodeVarint(k))
      BY <1>6, <2>1 DEF Holds, e
    <2>3. k \in Nat /\ Fits8(k)
      BY DEF Number
    <2> QED  BY <1>2, <2>2, <2>3, VarintRoundTrip DEF e
  <1> QED  BY <1>5, <1>6 DEF e

IsWire(w) ==
    /\ IsFiniteSet(DOMAIN w) /\ DOMAIN w \in SUBSET Number
    /\ w = [id \in DOMAIN w |-> w[id]] /\ \A id \in DOMAIN w : w[id] \in Data

Entry(w, id) == EncodeVarint(id) \o EncodeVarint(Len(w[id])) \o w[id]

LEMMA EntryType ==
    ASSUME NEW w, IsWire(w), NEW id \in DOMAIN w
    PROVE  /\ EncodeVarint(id) \in Seq(Byte) /\ Len(EncodeVarint(id)) \in Nat \ {0}
           /\ EncodeVarint(Len(w[id])) \in Seq(Byte) /\ Len(EncodeVarint(Len(w[id]))) \in Nat \ {0}
           /\ w[id] \in Seq(Byte) /\ Len(w[id]) \in Nat
           /\ id \in Number /\ Len(w[id]) \in Number
           /\ Entry(w, id) \in Seq(Byte)
           /\ Len(Entry(w, id)) =
                (Len(EncodeVarint(id)) + Len(EncodeVarint(Len(w[id])))) + Len(w[id])
  <1>1. id \in Number /\ w[id] \in Seq(Byte) /\ Len(w[id]) \in Number
    BY DEF IsWire, Data
  <1> DEFINE a == EncodeVarint(id)
             l == EncodeVarint(Len(w[id]))
             v == w[id]
  <1>2. a \in Seq(Byte) /\ Len(a) \in 1..8 /\ l \in Seq(Byte) /\ Len(l) \in 1..8
    BY <1>1, EncodingBytes
  <1>3. v \in Seq(Byte) /\ Len(v) \in Nat /\ Entry(w, id) = (a \o l) \o v
    BY <1>1, BytesAreNumbers DEF Entry
  <1> HIDE DEF a, l, v
  <1>4. (a \o l) \o v \in Seq(Byte) /\ Len((a \o l) \o v) = (Len(a) + Len(l)) + Len(v)
    BY <1>2, <1>3
  <1>5. Entry(w, id) \in Seq(Byte) /\ Len(Entry(w, id)) = (Len(a) + Len(l)) + Len(v)
    BY <1>3, <1>4
  <1>6. Len(a) \in Nat \ {0} /\ Len(l) \in Nat \ {0}
    <2>1. \A n \in 1..8 : n \in Nat \ {0}
      OBVIOUS
    <2> QED  BY <1>2, <2>1, Zenon
  <1> QED  BY <1>1, <1>2, <1>3, <1>5, <1>6, Zenon DEF a, l, v

LEMMA EntryParts ==
    ASSUME NEW w, IsWire(w), NEW id \in DOMAIN w, NEW whole \in Seq(Byte), NEW offset \in Nat,
           Ahead(whole, offset, Entry(w, id))
    PROVE  LET a == EncodeVarint(id)
               l == EncodeVarint(Len(w[id]))
           IN  /\ Ahead(whole, offset, a) /\ Ahead(whole, offset + Len(a), l)
               /\ Ahead(whole, (offset + Len(a)) + Len(l), w[id])
  <1> DEFINE a == EncodeVarint(id)
             l == EncodeVarint(Len(w[id]))
             v == w[id]
             e == (a \o l) \o v
  <1>1. /\ a \in Seq(Byte) /\ Len(a) \in Nat /\ l \in Seq(Byte) /\ Len(l) \in Nat
        /\ v \in Seq(Byte) /\ Len(v) \in Nat
    BY EntryType
  <1>2. a \in Seq(Nat) /\ l \in Seq(Nat) /\ v \in Seq(Nat) /\ Len(whole) \in Nat
    BY <1>1, BytesAreNumbers
  <1>3. e = Entry(w, id)
    BY DEF Entry
  <1>4. Ahead(whole, offset, e)
    BY <1>3
  <1> HIDE DEF a, l, v
  <1>5. /\ Len(e) = (Len(a) + Len(l)) + Len(v)
        /\ \A j \in 1..Len(a) : j \in 1..Len(e) /\ e[j] = a[j]
        /\ \A j \in 1..Len(l) : Len(a) + j \in 1..Len(e) /\ e[Len(a) + j] = l[j]
        /\ \A j \in 1..Len(v) :
             (Len(a) + Len(l)) + j \in 1..Len(e) /\ e[(Len(a) + Len(l)) + j] = v[j]
    BY <1>2
  <1> HIDE DEF e
  <1>6. /\ offset + Len(e) <= Len(whole)
        /\ \A j \in 1..Len(e) : whole[offset + j] = e[j]
    BY <1>4 DEF Ahead
  <1>7. Ahead(whole, offset, a)
    <2>1. \A j \in 1..Len(a) : whole[offset + j] = a[j]
      BY <1>5, <1>6
    <2> QED  BY <1>1, <1>2, <1>5, <1>6, <2>1 DEF Ahead
  <1>8. Ahead(whole, offset + Len(a), l)
    <2>1. ASSUME NEW j \in 1..Len(l) PROVE whole[(offset + Len(a)) + j] = l[j]
      <3>1. (offset + Len(a)) + j = offset + (Len(a) + j)
        BY <1>1
      <3> QED  BY <1>5, <1>6, <3>1
    <2> QED  BY <1>1, <1>2, <1>5, <1>6, <2>1 DEF Ahead
  <1>9. Ahead(whole, (offset + Len(a)) + Len(l), v)
    <2>1. ASSUME NEW j \in 1..Len(v) PROVE whole[((offset + Len(a)) + Len(l)) + j] = v[j]
      <3>1. ((offset + Len(a)) + Len(l)) + j = offset + ((Len(a) + Len(l)) + j)
        BY <1>1
      <3> QED  BY <1>5, <1>6, <3>1
    <2> QED  BY <1>1, <1>2, <1>5, <1>6, <2>1 DEF Ahead
  <1> QED  BY <1>7, <1>8, <1>9 DEF a, l, v

(* A round where a parameter begins reads it if all of it is there, and    *)
(* throws otherwise.                                                       *)
ReadsEntry(w, id, buf, offset) ==
    /\ GoesOn(buf, offset) <=> offset + Len(Entry(w, id)) <= Len(buf)
    /\ GoesOn(buf, offset) => /\ EndAt(buf, offset) = offset + Len(Entry(w, id))
                              /\ Found(buf, offset) = [x \in {id} |-> w[id]]

LEMMA EntryHere ==
    ASSUME NEW w, IsWire(w), NEW id \in DOMAIN w, NEW buf, NEW whole, Begins(buf, whole),
           NEW offset \in Nat, offset < Len(buf), Ahead(whole, offset, Entry(w, id))
    PROVE  ReadsEntry(w, id, buf, offset)
  <1> DEFINE a == EncodeVarint(id)
             l == EncodeVarint(Len(w[id]))
             v == w[id]
             start == offset + Len(a)
             value == start + Len(l)
             end == offset + Len(Entry(w, id))
  <1>1. /\ Len(a) \in Nat \ {0} /\ Len(l) \in Nat \ {0} /\ Len(v) \in Nat /\ v \in Seq(Byte)
        /\ Len(Entry(w, id)) = (Len(a) + Len(l)) + Len(v)
        /\ id \in Number /\ Len(v) \in Number
    BY EntryType
  <1>2. Ahead(whole, offset, a) /\ Ahead(whole, start, l) /\ Ahead(whole, value, v)
    BY EntryParts DEF Begins
  <1>3. buf \in Seq(Byte) /\ Len(buf) \in Nat
    BY BytesAreNumbers DEF Begins
  <1>4. /\ VarintAt(buf, offset) <=> start <= Len(buf)
        /\ VarintAt(buf, offset) => DecodeVarint(buf, offset) = [length |-> Len(a), value |-> id]
    BY <1>1, <1>2, NumberHere
  <1>5. start < Len(buf) =>
          /\ VarintAt(buf, start) <=> value <= Len(buf)
          /\ VarintAt(buf, start) => DecodeVarint(buf, start) = [length |-> Len(l), value |-> Len(v)]
    BY <1>1, <1>2, NumberHere
  <1>6. VarintAt(buf, offset) => Start(buf, offset) = start
    BY <1>4 DEF Start
  <1>7. VarintAt(buf, start) => start < Len(buf)
    BY DEF VarintAt
  <1> HIDE DEF a, l, v
  <1>8. start \in Nat /\ value \in Nat /\ end = value + Len(v) /\ start < value /\ value <= end
    BY <1>1
  <1>9. ASSUME VarintAt(buf, offset), VarintAt(buf, start)
        PROVE  Value(buf, offset) = value /\ EndAt(buf, offset) = end
    <2>1. DecodeVarint(buf, start) = [length |-> Len(l), value |-> Len(v)]
      BY <1>5, <1>7, <1>9
    <2>2. Start(buf, offset) = start
      BY <1>6, <1>9
    <2> HIDE DEF start, end
    <2>3. Value(buf, offset) = start + Len(l)
      BY <2>1, <2>2 DEF Value
    <2>4. EndAt(buf, offset) = value + Len(v)
      BY <2>1, <2>2, <2>3 DEF EndAt
    <2> QED  BY <1>8, <2>3, <2>4
  <1>10. ASSUME GoesOn(buf, offset)
         PROVE  /\ VarintAt(buf, offset) /\ VarintAt(buf, start) /\ end <= Len(buf)
                /\ EndAt(buf, offset) = end /\ Value(buf, offset) = value
    <2>1. VarintAt(buf, offset) /\ VarintAt(buf, start) /\ EndAt(buf, offset) <= Len(buf)
      BY <1>6, <1>10 DEF GoesOn
    <2> QED  BY <1>9, <2>1
  <1>11. ASSUME end <= Len(buf) PROVE GoesOn(buf, offset)
    <2>1. start <= Len(buf) /\ start < Len(buf) /\ value <= Len(buf)
      BY <1>3, <1>8, <1>11
    <2>2. VarintAt(buf, offset) /\ VarintAt(buf, start)
      BY <1>4, <1>5, <2>1
    <2> QED  BY <1>6, <1>9, <1>11, <2>2 DEF GoesOn
  <1>12. ASSUME GoesOn(buf, offset) PROVE Found(buf, offset) = [x \in {id} |-> w[id]]
    <2>1. DecodeVarint(buf, offset).value = id
      BY <1>4, <1>10, <1>12
    <2>2. Value(buf, offset) = value /\ EndAt(buf, offset) = end /\ end <= Len(buf)
      BY <1>10, <1>12
    <2>3. Subarray(buf, value, end) = v
      <3>1. Subarray(buf, value, end) = SubSeq(buf, value + 1, end)
        BY <1>3, <1>8, <2>2 DEF Subarray
      <3>2. ASSUME NEW j \in 1..Len(v) PROVE buf[value + j] = v[j]
        <4>1. value + j \in 1..Len(buf)
          BY <1>1, <1>3, <1>8, <2>2
        <4> QED  BY <1>2, <4>1 DEF Ahead, Begins
      <3> HIDE DEF value, end
      <3>3. SubSeq(buf, value + 1, value + Len(v)) = v
        <4>1. /\ Len(SubSeq(buf, value + 1, value + Len(v))) = Len(v)
              /\ SubSeq(buf, value + 1, value + Len(v)) \in Seq(Byte)
              /\ \A j \in 1..Len(v) : SubSeq(buf, value + 1, value + Len(v))[j] = buf[value + j]
          BY <1>1, <1>3, <1>8, <2>2
        <4>2. PICK u : u = SubSeq(buf, value + 1, value + Len(v))
          OBVIOUS
        <4>3. Len(u) = Len(v) /\ u \in Seq(Byte) /\ \A j \in 1..Len(v) : u[j] = v[j]
          BY <3>2, <4>1, <4>2
        <4>4. u = v
          BY <1>1, <4>3
        <4> QED  BY <4>2, <4>4
      <3> QED  BY <1>8, <3>1, <3>3
    <2> QED  BY <2>1, <2>2, <2>3, Zenon DEF Found, v
  <1> QED  BY <1>10, <1>11, <1>12 DEF ReadsEntry

-------------------------------------------------------------------------------
(* The entries of an encoding, in their order. *)
Entries(w) == [i \in 1..Cardinality(DOMAIN w) |-> Entry(w, Sorted(DOMAIN w)[i])]

LEMMA WireIds ==
    ASSUME NEW w, IsWire(w)
    PROVE  DOMAIN w \in SUBSET Nat /\ IsFiniteSet(DOMAIN w) /\ Cardinality(DOMAIN w) \in Nat
  <1>1. DOMAIN w \in SUBSET Nat /\ IsFiniteSet(DOMAIN w)
    BY DEF IsWire, Number
  <1> QED  BY <1>1, FS_CardinalityType

LEMMA EncodingMadeOf ==
    ASSUME NEW w, IsWire(w)
    PROVE  /\ EncodeTransportParameters(w) \in Seq(Byte)
           /\ Entries(w) \in ByteStrings /\ Len(Entries(w)) = Cardinality(DOMAIN w)
           /\ MadeOf(EncodeTransportParameters(w), Entries(w))
  <1> DEFINE ids == Sorted(DOMAIN w)
             n == Cardinality(DOMAIN w)
             ss == Entries(w)
  <1>1. n \in Nat /\ ids \in Seq(DOMAIN w) /\ Len(ids) = n /\ \A i \in 1..n : ids[i] \in DOMAIN w
    BY WireIds, SortedPlaces
  <1>2. \A i \in 1..n : Entry(w, ids[i]) \in Seq(Byte)
    BY <1>1, EntryType
  <1>3. DOMAIN ids = 1..n
    BY <1>1
  <1>4. EncodeTransportParameters(w) = FlattenSeq(ss)
    BY <1>3 DEF EncodeTransportParameters, Entries, Entry
  <1>5. ss \in Seq(Seq(Byte)) /\ Len(ss) = n
    <2>1. ss \in [1..n -> Seq(Byte)]
      BY <1>2 DEF Entries
    <2> HIDE DEF ss, n
    <2> QED  BY <1>1, <2>1
  <1> HIDE DEF ss
  <1>6. FlattenSeq(ss) \in Seq(Byte)
    BY <1>5, FlattenPlaces
  <1>7. ss \in ByteStrings
    <2>1. \A b \in Seq(Byte) : b \in Seq(Nat)
      BY BytesAreNumbers
    <2> QED  BY <1>5, <2>1 DEF ByteStrings
  <1> QED  BY <1>4, <1>5, <1>6, <1>7, FlattenMadeOf DEF ss

(* The first parameters, and where they end. *)
FirstOf(w, k) == Restrict(w, FirstIds(DOMAIN w, k))
Ends(w, k) == Len(EncodeTransportParameters(FirstOf(w, k)))

LEMMA FirstIsWire ==
    ASSUME NEW w, IsWire(w), NEW k \in 0..Cardinality(DOMAIN w)
    PROVE  /\ IsWire(FirstOf(w, k)) /\ DOMAIN FirstOf(w, k) = FirstIds(DOMAIN w, k)
           /\ Len(Entries(FirstOf(w, k))) = k
           /\ \A i \in 1..k : Entries(FirstOf(w, k))[i] = Entries(w)[i]
  <1> DEFINE u == FirstOf(w, k)
             S == DOMAIN w
             T == FirstIds(S, k)
  <1>1. /\ T \in SUBSET Nat /\ IsFiniteSet(T) /\ Cardinality(T) = k
        /\ \A i \in 1..k : Sorted(T)[i] = Sorted(S)[i]
    BY WireIds, SortedFirst
  <1>2. T \in SUBSET S
    BY DEF FirstIds
  <1>3. u = [x \in T |-> w[x]]
    BY DEF FirstOf, Restrict
  <1> HIDE DEF u
  <1>4. DOMAIN u = T /\ \A x \in T : u[x] = w[x]
    BY <1>3
  <1> HIDE DEF T
  <1>5. IsWire(u)
    BY <1>1, <1>2, <1>3, <1>4 DEF IsWire
  <1>6. Len(Entries(u)) = k
    BY <1>1, <1>4, <1>5, EncodingMadeOf
  <1>7. ASSUME NEW i \in 1..k PROVE Entries(u)[i] = Entries(w)[i]
    <2>1. i \in 1..Cardinality(S) /\ i \in 1..Cardinality(T)
      BY <1>1, WireIds
    <2>2. Sorted(T)[i] \in T
      BY <1>1, <2>1, SortedPlaces
    <2>3. PICK x : x = Sorted(T)[i] /\ x = Sorted(S)[i]
      BY <1>1
    <2>4. Entries(u)[i] = Entry(u, x)
      BY <1>4, <2>1, <2>3 DEF Entries
    <2>5. Entries(w)[i] = Entry(w, x)
      BY <2>1, <2>3 DEF Entries
    <2>6. u[x] = w[x]
      BY <1>4, <2>2, <2>3
    <2>7. Entry(u, x) = Entry(w, x)
      BY <2>6 DEF Entry
    <2> QED  BY <2>4, <2>5, <2>7
  <1> QED  BY <1>4, <1>5, <1>6, <1>7 DEF u, T

LEMMA EndsArePlaces ==
    ASSUME NEW w, IsWire(w), NEW q, Pieces(EncodeTransportParameters(w), Entries(w), q),
           NEW k \in 0..Cardinality(DOMAIN w)
    PROVE  q[k] = Ends(w, k)
  <1> DEFINE u == FirstOf(w, k)
             s == Entries(w)
             t == Entries(u)
  <1>1. IsWire(u) /\ Len(t) = k /\ \A i \in 1..k : t[i] = s[i]
    BY FirstIsWire
  <1>2. /\ s \in ByteStrings /\ Len(s) = Cardinality(DOMAIN w) /\ k \in Nat /\ k <= Len(s)
    BY WireIds, EncodingMadeOf
  <1>3. t \in ByteStrings /\ MadeOf(EncodeTransportParameters(u), t)
    BY <1>1, EncodingMadeOf
  <1>4. PICK r : Pieces(EncodeTransportParameters(u), t, r)
    BY <1>3 DEF MadeOf
  <1> HIDE DEF s, t, u
  <1>5. Pieces(EncodeTransportParameters(w), s, q) /\ k <= Len(t) /\ \A i \in 1..k : s[i] = t[i]
    BY <1>1, <1>2 DEF s
  <1>6. q[k] = r[k]
    <2>1. Agree(s, t, k)
      BY <1>2, <1>5 DEF Agree
    <2>2. s \in ByteStrings /\ t \in ByteStrings
      BY <1>2, <1>3
    <2>3. Pieces(EncodeTransportParameters(w), s, q)
      BY <1>5
    <2> QED  BY <1>4, <2>1, <2>2, <2>3, SamePlaces
  <1>7. k \in 0..k /\ r[k] = Len(EncodeTransportParameters(u))
    BY <1>1, <1>2, <1>4 DEF Pieces
  <1> QED  BY <1>6, <1>7 DEF Ends, u

(* Where the parameters stand in their encoding. *)
LEMMA EncodingPlaces ==
    ASSUME NEW w, IsWire(w)
    PROVE  LET n == Cardinality(DOMAIN w)
               whole == EncodeTransportParameters(w)
           IN  /\ Ends(w, 0) = 0 /\ Ends(w, n) = Len(whole)
               /\ \A k \in 0..n : Ends(w, k) \in Nat
               /\ \A k \in 1..n :
                    LET id == Sorted(DOMAIN w)[k] IN
                      /\ Ends(w, k) = Ends(w, k - 1) + Len(Entry(w, id))
                      /\ Len(Entry(w, id)) \in Nat \ {0}
                      /\ Ahead(whole, Ends(w, k - 1), Entry(w, id))
               /\ \A i, j \in 0..n : i <= j => Ends(w, i) <= Ends(w, j)
  <1> DEFINE n == Cardinality(DOMAIN w)
             whole == EncodeTransportParameters(w)
             s == Entries(w)
  <1>1. n \in Nat /\ whole \in Seq(Byte) /\ s \in ByteStrings /\ Len(s) = n /\ MadeOf(whole, s)
    BY WireIds, EncodingMadeOf
  <1>2. PICK q : Pieces(whole, s, q)
    BY <1>1 DEF MadeOf
  <1>3. \A k \in 0..n : q[k] = Ends(w, k)
    BY <1>2, EndsArePlaces
  <1>4. /\ \A k \in 0..n : q[k] \in Nat
        /\ q[0] = 0 /\ q[n] = Len(whole) /\ \A i, j \in 0..n : i <= j => q[i] <= q[j]
        /\ \A i \in 1..n : q[i] = q[i - 1] + Len(s[i])
        /\ \A i \in 1..n : \A j \in 1..Len(s[i]) : whole[q[i - 1] + j] = s[i][j]
    BY <1>1, <1>2 DEF Pieces
  <1>5. 0 \in 0..n /\ n \in 0..n /\ \A k \in 1..n : k - 1 \in 0..n /\ k \in 0..n /\ k <= n
    BY <1>1
  <1>6. ASSUME NEW k \in 1..n
        PROVE  LET id == Sorted(DOMAIN w)[k] IN
                 /\ Ends(w, k) = Ends(w, k - 1) + Len(Entry(w, id))
                 /\ Len(Entry(w, id)) \in Nat \ {0}
                 /\ Ahead(whole, Ends(w, k - 1), Entry(w, id))
    <2> DEFINE id == Sorted(DOMAIN w)[k]
               e == Entry(w, id)
    <2>1. id \in DOMAIN w
      BY WireIds, SortedPlaces
    <2>2. s[k] = e
      BY DEF Entries
    <2>3. e \in Seq(Byte) /\ Len(e) \in Nat \ {0}
      <3>1. PICK x \in DOMAIN w : x = id
        BY <2>1
      <3>2. Entry(w, x) \in Seq(Byte) /\ Len(Entry(w, x)) \in Nat \ {0}
        <4>1. /\ Entry(w, x) \in Seq(Byte) /\ Len(EncodeVarint(x)) \in Nat \ {0}
              /\ Len(EncodeVarint(Len(w[x]))) \in Nat \ {0} /\ Len(w[x]) \in Nat
              /\ Len(Entry(w, x)) =
                   (Len(EncodeVarint(x)) + Len(EncodeVarint(Len(w[x])))) + Len(w[x])
          BY EntryType
        <4>2. \A a, b \in Nat \ {0} : \A c \in Nat : (a + b) + c \in Nat \ {0}
          OBVIOUS
        <4> QED  BY <4>1, <4>2
      <3> QED  BY <3>1, <3>2
    <2>4. e \in Seq(Nat)
      BY <2>3, BytesAreNumbers
    <2> HIDE DEF e, id, s, whole, n
    <2>5. /\ q[k] = q[k - 1] + Len(e) /\ q[k - 1] \in Nat /\ q[k] <= q[n]
          /\ q[n] = Len(whole) /\ \A j \in 1..Len(e) : whole[q[k - 1] + j] = e[j]
      BY <1>4, <1>5, <2>2
    <2>6. Ahead(whole, q[k - 1], e)
      BY <2>4, <2>5 DEF Ahead
    <2> QED  BY <1>3, <1>5, <2>3, <2>5, <2>6 DEF e, id
  <1> HIDE DEF whole, s, n
  <1>7. /\ Ends(w, 0) = 0 /\ Ends(w, n) = Len(whole)
        /\ \A k \in 0..n : Ends(w, k) \in Nat
        /\ \A i, j \in 0..n : i <= j => Ends(w, i) <= Ends(w, j)
    BY <1>3, <1>4, <1>5
  <1> QED  BY <1>6, <1>7 DEF n, whole

(* The parameters from one to another. *)
Slice(w, i, k) == [id \in {Sorted(DOMAIN w)[l] : l \in (i + 1)..k} |-> w[id]]

LEMMA SliceGrows ==
    ASSUME NEW w, NEW i \in Nat, NEW k \in Nat, i < k
    PROVE  LET id == Sorted(DOMAIN w)[i + 1] IN
             Together(Slice(w, i + 1, k), [x \in {id} |-> w[id]]) = Slice(w, i, k)
  <1> DEFINE s == Sorted(DOMAIN w)
             id == s[i + 1]
             f == Slice(w, i + 1, k)
             g == [x \in {id} |-> w[id]]
             h == Slice(w, i, k)
             T == {s[l] : l \in ((i + 1) + 1)..k}
             U == {s[l] : l \in (i + 1)..k}
  <1>1. (i + 1)..k = {i + 1} \cup (((i + 1) + 1)..k)
    OBVIOUS
  <1>2. U = {id} \cup T
    BY <1>1
  <1>3. DOMAIN f = T /\ DOMAIN h = U /\ DOMAIN g = {id}
    BY DEF Slice
  <1>4. /\ \A x \in T : f[x] = w[x]
        /\ \A x \in U : h[x] = w[x]
        /\ g[id] = w[id]
    BY DEF Slice
  <1>5. h = [x \in U |-> h[x]]
    BY DEF Slice
  <1> HIDE DEF f, g, h, T, U, id
  <1>6. Together(f, g) = [x \in U |-> IF x \in T THEN f[x] ELSE g[x]]
    <2>1. T \cup {id} = U
      BY <1>2
    <2> QED  BY <1>3, <2>1 DEF Together
  <1>7. ASSUME NEW x \in U PROVE (IF x \in T THEN f[x] ELSE g[x]) = h[x]
    <2>1. x \in T \/ x = id
      BY <1>2
    <2> QED  BY <1>4, <2>1
  <1>8. [x \in U |-> IF x \in T THEN f[x] ELSE g[x]] = [x \in U |-> h[x]]
    BY <1>7
  <1> QED  BY <1>5, <1>6, <1>8 DEF f, g, h, id

LEMMA SliceEmpty ==
    ASSUME NEW w, NEW k \in Nat
    PROVE  Slice(w, k, k) = <<>>
  <1>1. (k + 1)..k = {}
    OBVIOUS
  <1> QED  BY <1>1 DEF Slice

LEMMA SliceFirst ==
    ASSUME NEW w, IsWire(w), NEW k \in 0..Cardinality(DOMAIN w)
    PROVE  Slice(w, 0, k) = FirstOf(w, k)
  <1> DEFINE S == DOMAIN w
             s == Sorted(S)
             n == Cardinality(S)
             T == {s[l] : l \in (0 + 1)..k}
  <1>1. /\ n \in Nat /\ \A i \in 1..n : s[i] \in S /\ Rank(S, s[i]) = i - 1
        /\ \A x \in S : Rank(S, x) + 1 \in 1..n /\ s[Rank(S, x) + 1] = x
    BY WireIds, SortedPlaces
  <1>2. \A x \in S : Rank(S, x) \in Nat
    BY WireIds, RankType
  <1>3. ASSUME NEW l \in 1..k PROVE s[l] \in FirstIds(S, k)
    <2>1. l \in 1..n /\ l - 1 < k
      BY <1>1
    <2>2. s[l] \in S /\ Rank(S, s[l]) < k
      BY <1>1, <2>1
    <2> QED  BY <2>2 DEF FirstIds
  <1>4. ASSUME NEW x \in FirstIds(S, k) PROVE \E l \in 1..k : x = s[l]
    <2>1. x \in S /\ Rank(S, x) < k
      BY DEF FirstIds
    <2>2. PICK r : r = Rank(S, x)
      OBVIOUS
    <2>3. r \in Nat /\ r < k /\ s[r + 1] = x
      BY <1>1, <1>2, <2>1, <2>2
    <2>4. r + 1 \in 1..k
      BY <1>1, <2>3
    <2> QED  BY <2>3, <2>4
  <1>5. T = FirstIds(S, k)
    <2>1. (0 + 1)..k = 1..k
      OBVIOUS
    <2> HIDE DEF s
    <2> QED  BY <1>3, <1>4, <2>1
  <1>6. Slice(w, 0, k) = [id \in T |-> w[id]]
    BY DEF Slice
  <1> HIDE DEF T
  <1> QED  BY <1>5, <1>6 DEF FirstOf, Restrict

(* How many parameters the first bytes hold. *)
Holding(w, length, k) ==
    /\ k \in 0..Cardinality(DOMAIN w)
    /\ \A i \in 0..Cardinality(DOMAIN w) : Ends(w, i) <= length <=> i <= k

LEMMA SomeHeld ==
    ASSUME NEW w, IsWire(w), NEW length \in 0..Len(EncodeTransportParameters(w))
    PROVE  \E k : Holding(w, length, k)
  <1> DEFINE n == Cardinality(DOMAIN w)
             T == {k \in 0..n : ~(Ends(w, n - k) > length)}
             m == Len(EncodeTransportParameters(w))
  <1>1. /\ n \in Nat /\ Ends(w, 0) = 0 /\ Ends(w, n) = m
        /\ \A k \in 0..n : Ends(w, k) \in Nat
        /\ \A i, j \in 0..n : i <= j => Ends(w, i) <= Ends(w, j)
    BY WireIds, EncodingPlaces
  <1>2. m \in Nat /\ length \in Nat
    BY <1>1
  <1> HIDE DEF n, m
  <1>3. n \in T /\ T \subseteq Nat
    <2>1. n - n = 0 /\ n \in 0..n
      BY <1>1
    <2> QED  BY <1>1, <1>2, <2>1
  <1>4. PICK x \in T : \A y \in T : x <= y
    BY <1>3, LeastElement
  <1> DEFINE k == n - x
  <1>5. x \in 0..n /\ k \in 0..n /\ Ends(w, k) <= length
    BY <1>1, <1>2, <1>4
  <1>6. ASSUME NEW i \in 0..n, Ends(w, i) <= length PROVE i <= k
    <2>1. n - i \in 0..n /\ n - (n - i) = i
      BY <1>1
    <2>2. n - i \in T
      BY <1>1, <1>2, <1>6, <2>1
    <2>3. x <= n - i
      BY <1>4, <2>2
    <2> QED  BY <1>1, <1>5, <2>1, <2>3
  <1>7. ASSUME NEW i \in 0..n, i <= k PROVE Ends(w, i) <= length
    <2>1. Ends(w, i) <= Ends(w, k) /\ Ends(w, i) \in Nat /\ Ends(w, k) \in Nat
      BY <1>1, <1>5, <1>7
    <2> QED  BY <1>2, <1>5, <2>1
  <1> HIDE DEF k
  <1>8. Holding(w, length, k)
    BY <1>5, <1>6, <1>7 DEF Holding, n
  <1> QED  BY <1>8

(* The first bytes of an encoding are decoded to the parameters they hold, *)
(* if they end with one of them, and to an error otherwise.                *)
LEMMA CutDecoded ==
    ASSUME NEW w, IsWire(w), NEW length \in 0..Len(EncodeTransportParameters(w)),
           NEW k, Holding(w, length, k)
    PROVE  LET decoded == DecodeTransportParameters(SubSeq(EncodeTransportParameters(w), 1, length))
           IN  IF Ends(w, k) = length
               THEN decoded = [error |-> "none", wire |-> FirstOf(w, k)]
               ELSE \E error \in Errors \ {"none"} : \E wire : decoded = [error |-> error, wire |-> wire]
  <1> DEFINE n == Cardinality(DOMAIN w)
             whole == EncodeTransportParameters(w)
             buf == SubSeq(whole, 1, length)
             s == Sorted(DOMAIN w)
  <1>1. /\ n \in Nat /\ Ends(w, 0) = 0 /\ Ends(w, n) = Len(whole) /\ \A i \in 0..n : Ends(w, i) \in Nat
        /\ \A i \in 1..n : /\ Ends(w, i) = Ends(w, i - 1) + Len(Entry(w, s[i]))
                           /\ Len(Entry(w, s[i])) \in Nat \ {0}
                           /\ Ahead(whole, Ends(w, i - 1), Entry(w, s[i]))
                           /\ s[i] \in DOMAIN w
    BY WireIds, EncodingPlaces, SortedPlaces
  <1>2. whole \in Seq(Byte) /\ Len(whole) \in Nat /\ length \in Nat /\ length <= Len(whole)
    BY EncodingMadeOf, BytesAreNumbers
  <1>3. k \in 0..n /\ \A i \in 0..n : Ends(w, i) <= length <=> i <= k
    BY DEF Holding
  <1> HIDE DEF n, whole
  <1>4. buf \in Seq(Byte) /\ Len(buf) = length /\ \A x \in 1..length : buf[x] = whole[x]
    BY <1>2
  <1> HIDE DEF buf
  <1>5. Begins(buf, whole)
    BY <1>2, <1>4 DEF Begins
  <1>6. PICK from : Rounds(buf, from) /\ from[0] = DecodeTransportParameters(buf)
    BY <1>4, DecodingExists
  <1> DEFINE Fine(i) == IF Ends(w, k) = length
                        THEN from[Ends(w, i)] = [error |-> "none", wire |-> Slice(w, i, k)]
                        ELSE \E error \in Errors \ {"none"} : \E wire :
                               from[Ends(w, i)] = [error |-> error, wire |-> wire]
             T == {i \in 0..k : ~Fine(k - i)}
  <1>7. k \in Nat /\ k <= n
    BY <1>1, <1>3
  (* Where the last of them ends. *)
  <1>8. Fine(k)
    <2> DEFINE e == Ends(w, k)
    <2>1. e \in Nat /\ e <= length
      BY <1>1, <1>3, <1>7
    <2>2. from[e] = IF GoesOn(buf, e) THEN Extend(buf, e, from[EndAt(buf, e)]) ELSE Stop(buf, e)
      BY <1>6, <2>1 DEF Rounds
    <2>3. ~GoesOn(buf, e)
      <3>1. CASE e = length
        <4>1. ~(e < Len(buf))
          BY <1>2, <1>4, <3>1
        <4> QED  BY <4>1 DEF GoesOn
      <3>2. CASE e # length
        <4>1. k # n
          <5>1. k = n => e = Len(whole)
            BY <1>1
          <5> QED  BY <1>2, <2>1, <3>2, <5>1
        <4>2. k + 1 \in 1..n /\ k + 1 \in 0..n /\ (k + 1) - 1 = k /\ ~(k + 1 <= k)
          BY <1>1, <1>7, <4>1
        <4>3. PICK id \in DOMAIN w : id = s[k + 1]
          BY <1>1, <4>2
        <4>4. /\ Ends(w, k + 1) = e + Len(Entry(w, id)) /\ ~(Ends(w, k + 1) <= length)
              /\ Ahead(whole, e, Entry(w, id))
          BY <1>1, <1>3, <4>2, <4>3
        <4>5. e < Len(buf)
          BY <1>2, <1>4, <2>1, <3>2
        <4> HIDE DEF e
        <4>6. ReadsEntry(w, id, buf, e)
          BY <1>5, <2>1, <4>4, <4>5, EntryHere
        <4> QED  BY <1>4, <4>4, <4>6 DEF ReadsEntry
      <3> QED  BY <3>1, <3>2
    <2>4. from[e] = Stop(buf, e)
      BY <2>2, <2>3
    <2> HIDE DEF e
    <2>5. CASE e = length
      <3>1. Stop(buf, e) = [error |-> "none", wire |-> <<>>]
        BY <1>2, <1>4, <2>5 DEF Stop
      <3> QED  BY <1>7, <2>4, <2>5, <3>1, SliceEmpty DEF e
    <2>6. CASE e # length
      <3>1. ~(e >= Len(buf))
        BY <1>2, <1>4, <2>1, <2>6
      <3>2. \E error \in Errors \ {"none"} : \E wire : Stop(buf, e) = [error |-> error, wire |-> wire]
        <4>1. PICK error : error = Stop(buf, e).error
          OBVIOUS
        <4>2. Stop(buf, e) = [error |-> error, wire |-> <<>>]
          BY <4>1 DEF Stop
        <4>3. error \in Errors \ {"none"}
          BY <3>1, <4>1 DEF Stop, Errors
        <4> QED  BY <4>2, <4>3
      <3> QED  BY <2>4, <2>6, <3>2 DEF e
    <2> QED  BY <2>5, <2>6
  (* From where one ends to where the one before does. *)
  <1>9. ASSUME NEW i \in Nat, i < k, Fine(i + 1) PROVE Fine(i)
    <2>1. i + 1 \in 1..n /\ i + 1 \in 0..n /\ i \in 0..n /\ (i + 1) - 1 = i /\ i + 1 <= k
      BY <1>1, <1>7, <1>9
    <2>2. PICK id \in DOMAIN w : id = s[i + 1]
      BY <1>1, <2>1
    <2> DEFINE e == Ends(w, i)
               d == Ends(w, i + 1)
    <2>3. /\ e \in Nat /\ d \in Nat /\ d = e + Len(Entry(w, id)) /\ d <= length
          /\ Len(Entry(w, id)) \in Nat \ {0} /\ Ahead(whole, e, Entry(w, id))
      BY <1>1, <1>3, <2>1, <2>2
    <2> HIDE DEF e, d
    <2>4. e < Len(buf)
      BY <1>2, <1>4, <2>3
    <2>5. /\ GoesOn(buf, e) <=> d <= Len(buf)
          /\ GoesOn(buf, e) => EndAt(buf, e) = d /\ Found(buf, e) = [x \in {id} |-> w[id]]
      <3>1. ReadsEntry(w, id, buf, e)
        <4>1. Ahead(whole, e, Entry(w, id))
          BY <2>3
        <4>2. e \in Nat
          BY <2>3
        <4> QED  BY <1>5, <2>4, <4>1, <4>2, EntryHere
      <3> QED  BY <2>3, <3>1 DEF ReadsEntry
    <2>6. GoesOn(buf, e) /\ EndAt(buf, e) = d /\ Found(buf, e) = [x \in {id} |-> w[id]]
      BY <1>4, <2>3, <2>5
    <2>7. from[e] = Extend(buf, e, from[d])
      BY <1>6, <2>3, <2>6 DEF Rounds
    <2> DEFINE longer(r) == Together(r, [x \in {id} |-> w[id]])
    <2>8. \A error, wire : from[d] = [error |-> error, wire |-> wire] =>
            from[e] = [error |-> error, wire |-> longer(wire)]
      <3>1. ASSUME NEW error, NEW wire, from[d] = [error |-> error, wire |-> wire]
            PROVE  from[e] = [error |-> error, wire |-> longer(wire)]
        <4>1. PICK r : r = from[d]
          OBVIOUS
        <4>2. from[e] = [r EXCEPT !.wire = Together(@, Found(buf, e))]
          BY <2>7, <4>1 DEF Extend
        <4>3. from[e] = [r EXCEPT !.wire = longer(@)]
          BY <2>6, <4>2
        <4> HIDE DEF longer
        <4> QED  BY <3>1, <4>1, <4>3
      <3> QED  BY <3>1
    <2>9. longer(Slice(w, i + 1, k)) = Slice(w, i, k)
      BY <1>7, <1>9, <2>2, SliceGrows
    <2> HIDE DEF longer
    <2> QED  BY <1>9, <2>8, <2>9 DEF e, d
  <1>10. T = {}
    <2>1. SUFFICES ASSUME T # {} PROVE FALSE
      OBVIOUS
    <2> HIDE DEF Fine
    <2>2. T \subseteq Nat
      BY <1>7
    <2>3. PICK x \in T : \A y \in T : x <= y
      BY <2>1, <2>2, LeastElement
    <2>4. x \in 0..k /\ x \in Nat /\ ~Fine(k - x)
      BY <1>7
    <2>5. x # 0
      <3>1. k - 0 = k
        BY <1>7
      <3> QED  BY <1>8, <2>4, <3>1
    <2>6. x - 1 \in 0..k /\ ~(x <= x - 1)
      BY <1>7, <2>4, <2>5
    <2>7. Fine(k - (x - 1))
      BY <2>3, <2>6
    <2>8. PICK i : i = k - x
      OBVIOUS
    <2>9. i \in Nat /\ i < k /\ k - (x - 1) = i + 1
      BY <1>7, <2>4, <2>5, <2>8
    <2> QED  BY <1>9, <2>4, <2>7, <2>8, <2>9
  <1>11. Fine(0)
    <2> HIDE DEF Fine
    <2>1. k \in 0..k /\ k - k = 0
      BY <1>7
    <2> QED  BY <1>10, <2>1
  <1>12. Slice(w, 0, k) = FirstOf(w, k)
    BY <1>3, SliceFirst DEF n
  <1> QED  BY <1>1, <1>6, <1>11, <1>12 DEF buf, whole

-------------------------------------------------------------------------------
(***************************************************************************)
(* What a peer sends is such an encoding.                                  *)
(***************************************************************************)
LEMMA LowNumber ==
    ASSUME NEW v \in 0..14
    PROVE  v \in Number
  <1>1. Quarter >= 1 /\ Quarter \in Nat /\ Base = 4 * Quarter /\ Base >= 4 /\ Base \in Nat
    BY QuarterAssumption DEF Base
  <1>2. Pair >= 16 /\ Pair \in Nat
    <2>1. 4 * 4 <= Base * Base
      <3>1. 4 * 4 <= Base * 4
        BY <1>1
      <3>2. Base * 4 <= Base * Base
        BY <1>1, MulMono
      <3> QED  BY <1>1, <3>1, <3>2
    <2> QED  BY <1>1, <2>1, Sizes DEF Pair
  <1>3. Quad >= 16 /\ Quad \in Nat
    <2>1. Pair * 1 <= Pair * Pair
      BY <1>2, MulMono
    <2> QED  BY <1>2, <2>1, Sizes DEF Quad
  <1>4. v \div Quad = 0
    BY <1>3
  <1>5. Quarter * Base * Pair > 0
    <2>1. \A a, b, c \in Nat \ {0} : a * b * c > 0
      OBVIOUS
    <2> QED  BY <2>1, Sizes, QuarterAssumption
  <1> QED  BY <1>4, <1>5 DEF Number, Fits8

LEMMA Ids ==
    /\ \A name \in Known : Id[name] \in 1..14
    /\ \A x, y \in Known : Id[x] = Id[y] => x = y
  BY DEF Known, Id

LEMMA OptionsAreWire ==
    ASSUME NEW options, DOMAIN options \subseteq Known, options \in [DOMAIN options -> Number]
    PROVE  /\ ResolveLocalParameters(options) = options
           /\ LET w == ToWireParameters(options)
                  ids == {Id[name] : name \in DOMAIN options}
              IN  /\ DOMAIN w = ids /\ IsWire(w)
                  /\ \A name \in DOMAIN options : w[Id[name]] = EncodeVarint(options[name])
  <1> DEFINE D == DOMAIN options
             w == ToWireParameters(options)
             ids == {Id[name] : name \in D}
             who(id) == CHOOSE name \in D : Id[name] = id
  <1>1. ResolveLocalParameters(options) = options
    <2>1. Known \cap D = D
      OBVIOUS
    <2>2. ResolveLocalParameters(options) = [name \in D |-> options[name]]
      BY <2>1 DEF ResolveLocalParameters
    <2> QED  BY <2>2
  <1>2. w = [id \in ids |-> EncodeVarint(options[who(id)])]
    BY DEF ToWireParameters
  <1>3. ASSUME NEW name \in D PROVE who(Id[name]) = name
    <2>1. who(Id[name]) \in D /\ Id[who(Id[name])] = Id[name]
      OBVIOUS
    <2>2. PICK x \in D : x = who(Id[name]) /\ Id[x] = Id[name]
      BY <2>1
    <2> HIDE DEF who
    <2>3. x \in Known /\ name \in Known
      OBVIOUS
    <2>4. x = name
      BY <2>2, <2>3, Ids
    <2> QED  BY <2>2, <2>4
  <1> HIDE DEF who, w
  <1>4. DOMAIN w = ids
    BY <1>2
  <1>5. ASSUME NEW name \in D PROVE w[Id[name]] = EncodeVarint(options[name])
    BY <1>2, <1>3
  <1>6. \A id \in ids : w[id] \in Data
    <2>1. ASSUME NEW name \in D PROVE w[Id[name]] \in Data
      <3>1. options[name] \in Number
        OBVIOUS
      <3>2. PICK b : b = EncodeVarint(options[name])
        OBVIOUS
      <3>3. b \in Seq(Byte) /\ Len(b) \in 1..8
        BY <3>1, <3>2, EncodingBytes
      <3>4. Len(b) \in 0..14
        BY <3>3
      <3> QED  BY <1>5, <3>2, <3>3, <3>4, LowNumber DEF Data
    <2> QED  BY <2>1
  <1>7. IsFiniteSet(ids) /\ ids \in SUBSET Number
    <2>1. ids \in SUBSET (1..14)
      BY Ids
    <2>2. IsFiniteSet(1..14)
      <3>1. PICK a \in Int, b \in Int : a = 1 /\ b = 14
        OBVIOUS
      <3>2. IsFiniteSet(a..b)
        BY FS_Interval
      <3> QED  BY <3>1, <3>2
    <2>3. \A x \in 1..14 : x \in 0..14
      OBVIOUS
    <2> HIDE DEF ids
    <2>4. IsFiniteSet(ids)
      BY <2>1, <2>2, FS_Subset
    <2>5. ids \in SUBSET Number
      BY <2>1, <2>3, LowNumber
    <2> QED  BY <2>4, <2>5
  <1>8. w = [id \in DOMAIN w |-> w[id]]
    BY <1>2
  <1> HIDE DEF ids
  <1>9. IsWire(w)
    BY <1>4, <1>6, <1>7, <1>8 DEF IsWire
  <1> QED  BY <1>1, <1>4, <1>5, <1>9 DEF w, ids

(* A message as the environment makes it. *)
Sound(m) ==
    /\ m.options \in Options /\ m.unknown \in Unknown
    /\ m.length \in 0..Len(EncodedParameters(m.options, m.unknown))

LEMMA SentIsWire ==
    ASSUME NEW m, Sound(m)
    PROVE  /\ IsWire(Sent(m)) /\ EncodedParameters(m.options, m.unknown) = EncodeTransportParameters(Sent(m))
           /\ DOMAIN Sent(m) = {Id[name] : name \in DOMAIN m.options} \cup DOMAIN m.unknown
           /\ \A name \in DOMAIN m.options : Sent(m)[Id[name]] = EncodeVarint(m.options[name])
           /\ \A name \in Known \ DOMAIN m.options :
                Id[name] \in DOMAIN Sent(m) => ~VarintAt(Sent(m)[Id[name]], 0)
           /\ DOMAIN m.options \subseteq Known /\ m.options \in [DOMAIN m.options -> Number]
  <1>1. PICK options \in Options, unknown \in Unknown : options = m.options /\ unknown = m.unknown
    BY DEF Sound
  <1>2. DOMAIN options \subseteq Known /\ options \in [DOMAIN options -> Number]
    BY OptionsAssumption
  <1>3. /\ IsFiniteSet(DOMAIN unknown) /\ DOMAIN unknown \subseteq Number
        /\ unknown \in [DOMAIN unknown -> Data]
        /\ \A name \in Known : Id[name] \in DOMAIN unknown => ~VarintAt(unknown[Id[name]], 0)
    BY UnknownAssumption
  <1> DEFINE w == ToWireParameters(options)
             ids == {Id[name] : name \in DOMAIN options}
             all == Together(w, unknown)
  <1>4. /\ ResolveLocalParameters(options) = options /\ DOMAIN w = ids /\ IsWire(w)
        /\ \A name \in DOMAIN options : w[Id[name]] = EncodeVarint(options[name])
    BY <1>2, OptionsAreWire
  <1>5. Sent(m) = all
    BY <1>1 DEF Sent
  <1>6. EncodedParameters(options, unknown) = EncodeTransportParameters(all)
    BY <1>4 DEF EncodedParameters
  <1> HIDE DEF w, ids
  <1>7. all = [id \in ids \cup DOMAIN unknown |-> IF id \in ids THEN w[id] ELSE unknown[id]]
    BY <1>4 DEF Together
  <1> HIDE DEF all
  <1>8. /\ DOMAIN all = ids \cup DOMAIN unknown /\ all = [id \in DOMAIN all |-> all[id]]
        /\ \A id \in ids : all[id] = w[id]
        /\ \A id \in DOMAIN unknown : id \notin ids => all[id] = unknown[id]
    BY <1>7
  <1>9. IsWire(all)
    <2>1. IsFiniteSet(ids) /\ ids \in SUBSET Number /\ \A id \in ids : w[id] \in Data
      BY <1>4 DEF IsWire
    <2>2. IsFiniteSet(DOMAIN all)
      <3>1. PICK T : T = DOMAIN unknown
        OBVIOUS
      <3>2. IsFiniteSet(ids) /\ IsFiniteSet(T) /\ DOMAIN all = ids \cup T
        BY <1>3, <1>8, <2>1, <3>1
      <3>3. IsFiniteSet(ids \cup T)
        BY <3>2, FS_Union
      <3> QED  BY <3>2, <3>3
    <2>3. DOMAIN all \in SUBSET Number
      BY <1>3, <1>8, <2>1
    <2>4. \A id \in DOMAIN all : all[id] \in Data
      BY <1>3, <1>8, <2>1
    <2> QED  BY <1>8, <2>2, <2>3, <2>4 DEF IsWire
  <1>10. ASSUME NEW name \in DOMAIN options PROVE all[Id[name]] = EncodeVarint(options[name])
    <2>1. Id[name] \in ids
      BY DEF ids
    <2> QED  BY <1>4, <1>8, <2>1
  <1>11. ASSUME NEW name \in Known \ DOMAIN options, Id[name] \in DOMAIN all
         PROVE  ~VarintAt(all[Id[name]], 0)
    <2>1. Id[name] \notin ids
      <3>1. SUFFICES ASSUME NEW x \in DOMAIN options, Id[x] = Id[name] PROVE FALSE
        BY DEF ids
      <3>2. x \in Known
        BY <1>2
      <3> QED  BY <3>1, <3>2, Ids
    <2>2. Id[name] \in DOMAIN unknown /\ all[Id[name]] = unknown[Id[name]]
      BY <1>8, <1>11, <2>1
    <2> QED  BY <1>3, <2>2
  <1> QED  BY <1>1, <1>2, <1>5, <1>6, <1>8, <1>9, <1>10, <1>11 DEF ids

LEMMA EndOfIsEnds ==
    ASSUME NEW m, Sound(m), NEW id \in DOMAIN Sent(m)
    PROVE  EndOf(m, id) = Ends(Sent(m), Rank(DOMAIN Sent(m), id) + 1)
  <1> DEFINE D == DOMAIN Sent(m)
  <1>1. D \in SUBSET Nat /\ IsFiniteSet(D)
    BY SentIsWire, WireIds
  <1> HIDE DEF D
  <1>2. id \in D
    BY DEF D
  <1>3. \A x \in D : Rank(D, x) \in Nat
    BY <1>1, RankType, Zenon
  <1>4. ASSUME NEW x \in D PROVE x <= id <=> Rank(D, x) < Rank(D, id) + 1
    <2>1. x < id => Rank(D, x) < Rank(D, id)
      BY <1>1, <1>2, RankGrows
    <2>2. id < x => Rank(D, id) < Rank(D, x)
      BY <1>1, <1>2, RankGrows
    <2>3. PICK r, s : r = Rank(D, x) /\ s = Rank(D, id)
      OBVIOUS
    <2>4. r \in Nat /\ s \in Nat /\ x \in Nat /\ id \in Nat
      BY <1>1, <1>2, <1>3, <2>3
    <2> QED  BY <2>1, <2>2, <2>3, <2>4
  <1>5. {i \in D : i <= id} = FirstIds(D, Rank(D, id) + 1)
    BY <1>4 DEF FirstIds
  <1> QED  BY <1>5 DEF EndOf, Ends, FirstOf, D

LEMMA ArrivedIsFirst ==
    ASSUME NEW m, Sound(m), NEW k, Holding(Sent(m), m.length, k)
    PROVE  Arrived(m) = FirstOf(Sent(m), k)
  <1> DEFINE w == Sent(m)
             D == DOMAIN w
             n == Cardinality(D)
  <1>1. D \in SUBSET Nat /\ IsFiniteSet(D) /\ n \in Nat
    BY SentIsWire, WireIds
  <1>2. ASSUME NEW id \in D PROVE EndOf(m, id) <= m.length <=> Rank(D, id) < k
    <2>1. PICK r : r = Rank(D, id)
      OBVIOUS
    <2>2. r \in 0..(n - 1)
      BY <1>1, <2>1, RankType
    <2>3. EndOf(m, id) = Ends(w, r + 1)
      BY <2>1, EndOfIsEnds
    <2>4. r + 1 \in 0..n
      BY <1>1, <2>2
    <2>5. k \in 0..n /\ (Ends(w, r + 1) <= m.length <=> r + 1 <= k)
      BY <2>4 DEF Holding
    <2> QED  BY <1>1, <2>1, <2>2, <2>3, <2>5
  <1>3. {id \in D : EndOf(m, id) <= m.length} = FirstIds(D, k)
    BY <1>2 DEF FirstIds
  <1> QED  BY <1>3 DEF Arrived, FirstOf

(* A message is decoded exactly if it ends where a parameter does, and then*)
(* to the parameters that arrived.                                         *)
Decodes(m, decoded) ==
    /\ decoded.error = "none" <=> Len(EncodeTransportParameters(Arrived(m))) = m.length
    /\ decoded.error = "none" => decoded.wire = Arrived(m)

LEMMA MessageDecoded ==
    ASSUME NEW m, Sound(m)
    PROVE  Decodes(m, DecodeTransportParameters(Message(m)))
  <1> DEFINE w == Sent(m)
             decoded == DecodeTransportParameters(SubSeq(EncodeTransportParameters(w), 1, m.length))
  <1>1. IsWire(w) /\ EncodedParameters(m.options, m.unknown) = EncodeTransportParameters(w)
    BY SentIsWire
  <1>2. m.length \in 0..Len(EncodeTransportParameters(w))
    BY <1>1 DEF Sound
  <1> HIDE DEF w, decoded
  <1>3. PICK length : length = m.length
    OBVIOUS
  <1>4. length \in 0..Len(EncodeTransportParameters(w))
    BY <1>2, <1>3
  <1>5. PICK k : Holding(w, length, k)
    BY <1>1, <1>4, SomeHeld
  <1>6. IF Ends(w, k) = length
        THEN decoded = [error |-> "none", wire |-> FirstOf(w, k)]
        ELSE \E error \in Errors \ {"none"} : \E wire : decoded = [error |-> error, wire |-> wire]
    BY <1>1, <1>3, <1>4, <1>5, CutDecoded DEF decoded
  <1>7. Arrived(m) = FirstOf(w, k)
    BY <1>3, <1>5, ArrivedIsFirst DEF w
  <1>8. Ends(w, k) = Len(EncodeTransportParameters(Arrived(m)))
    BY <1>7 DEF Ends
  <1>9. decoded.error = "none" <=> Ends(w, k) = length
    <2>1. CASE Ends(w, k) = length
      BY <1>6, <2>1
    <2>2. CASE Ends(w, k) # length
      <3>1. PICK error \in Errors \ {"none"} : \E wire : decoded = [error |-> error, wire |-> wire]
        BY <1>6, <2>2
      <3>2. decoded.error = error
        BY <3>1
      <3> QED  BY <2>2, <3>2
    <2> QED  BY <2>1, <2>2
  <1>10. Ends(w, k) = length => decoded.wire = Arrived(m)
    BY <1>6, <1>7
  <1>11. decoded = DecodeTransportParameters(Message(m))
    BY <1>1 DEF decoded, Message
  <1> QED  BY <1>3, <1>8, <1>9, <1>10, <1>11 DEF Decodes

(* What arrived is converted to what was sent of it. *)
LEMMA ArrivedConverted ==
    ASSUME NEW m, Sound(m), Readable(Arrived(m))
    PROVE  FromWireParameters(Arrived(m)) =
             Restrict(m.options, {name \in DOMAIN m.options : EndOf(m, Id[name]) <= m.length})
  <1> DEFINE w == Sent(m)
             a == Arrived(m)
             names == {name \in Known : Id[name] \in DOMAIN a}
             kept == {name \in DOMAIN m.options : EndOf(m, Id[name]) <= m.length}
  <1>1. /\ DOMAIN w = {Id[name] : name \in DOMAIN m.options} \cup DOMAIN m.unknown
        /\ \A name \in DOMAIN m.options : w[Id[name]] = EncodeVarint(m.options[name])
        /\ \A name \in Known \ DOMAIN m.options :
             Id[name] \in DOMAIN w => ~VarintAt(w[Id[name]], 0)
        /\ DOMAIN m.options \subseteq Known /\ m.options \in [DOMAIN m.options -> Number]
    BY SentIsWire
  <1> HIDE DEF w
  <1>2. /\ DOMAIN a = {id \in DOMAIN w : EndOf(m, id) <= m.length}
        /\ \A id \in DOMAIN a : a[id] = w[id]
    BY DEF Arrived, Restrict, w
  <1> HIDE DEF a
  <1>3. ASSUME NEW name \in names PROVE name \in kept
    <2>1. name \in Known /\ Id[name] \in DOMAIN w /\ EndOf(m, Id[name]) <= m.length
      BY <1>2
    <2>2. VarintAt(w[Id[name]], 0)
      BY <1>2, <2>1 DEF Readable, a
    <2>3. name \in DOMAIN m.options
      BY <1>1, <2>1, <2>2
    <2> QED  BY <2>1, <2>3
  <1>4. ASSUME NEW name \in kept PROVE name \in names
    <2>1. name \in Known /\ Id[name] \in DOMAIN w
      BY <1>1
    <2> QED  BY <1>2, <2>1
  <1>5. names = kept
    BY <1>3, <1>4
  <1>6. ASSUME NEW name \in names PROVE DecodeVarint(a[Id[name]], 0).value = m.options[name]
    <2>1. name \in DOMAIN m.options /\ Id[name] \in DOMAIN a
      BY <1>5
    <2>2. PICK v : v = m.options[name]
      OBVIOUS
    <2>3. v \in Number /\ a[Id[name]] = EncodeVarint(v)
      BY <1>1, <1>2, <2>1, <2>2
    <2>4. PICK b : b = EncodeVarint(v)
      OBVIOUS
    <2>5. b \in Seq(Nat) /\ Len(b) \in Nat
      BY <2>3, <2>4, EncodingShape
    <2>6. Holds(b, 0, EncodeVarint(v))
      BY <2>4, <2>5 DEF Holds
    <2>7. v \in Nat /\ Fits8(v)
      BY <2>3 DEF Number
    <2>8. DecodeVarint(b, 0) = [length |-> Len(EncodeVarint(v)), value |-> v]
      BY <2>5, <2>6, <2>7, VarintRoundTrip
    <2> QED  BY <2>2, <2>3, <2>4, <2>8
  <1> HIDE DEF names, kept
  <1>7. FromWireParameters(a) = [name \in names |-> m.options[name]]
    <2>1. FromWireParameters(a) = [name \in names |-> DecodeVarint(a[Id[name]], 0).value]
      BY DEF FromWireParameters, names
    <2> QED  BY <1>6, <2>1
  <1>8. Restrict(m.options, kept) = [name \in kept |-> m.options[name]]
    BY DEF Restrict
  <1> QED  BY <1>5, <1>7, <1>8 DEF a, kept

LEMMA CallIsSound ==
    ASSUME NextParameters
    PROVE  \E m : Sound(m) /\ ReceivePeerParameters(m)
  <1>0. PICK options \in Options, unknown \in Unknown :
          \E n \in 0..Len(EncodedParameters(options, unknown)) :
            ReceivePeerParameters([options |-> options, unknown |-> unknown, length |-> n])
    BY DEF NextParameters
  <1>1. PICK n \in 0..Len(EncodedParameters(options, unknown)) :
          ReceivePeerParameters([options |-> options, unknown |-> unknown, length |-> n])
    BY <1>0
  <1>2. PICK m : m = [options |-> options, unknown |-> unknown, length |-> n]
    OBVIOUS
  <1>3. m.options = options /\ m.unknown = unknown /\ m.length = n
    BY <1>2
  <1>4. Sound(m)
    BY <1>3 DEF Sound
  <1> QED  BY <1>1, <1>2, <1>4

LEMMA CallReturns ==
    ASSUME NEW m, Sound(m), ReceivePeerParameters(m)
    PROVE  /\ last' = m
           /\ thrown' = "none" <=> /\ Len(EncodeTransportParameters(Arrived(m))) = m.length
                                   /\ Readable(Arrived(m))
           /\ thrown' = "none" =>
                peerParameters' = FromWireParameters(Arrived(m)) /\ adopted' = m
           /\ thrown' # "none" => UNCHANGED <<peerParameters, adopted>>
  <1>1. PICK decoded : decoded = DecodeTransportParameters(Message(m))
    OBVIOUS
  <1>2. Decodes(m, decoded)
    BY <1>1, MessageDecoded
  <1> DEFINE error == IF decoded.error = "none" /\ ~Readable(decoded.wire) THEN "RangeError"
                      ELSE decoded.error
  <1>3. /\ last' = m /\ thrown' = error
        /\ IF error = "none"
           THEN peerParameters' = FromWireParameters(decoded.wire) /\ adopted' = m
           ELSE UNCHANGED <<peerParameters, adopted>>
    BY <1>1, Zenon DEF ReceivePeerParameters
  <1>4. error = "none" <=> decoded.error = "none" /\ Readable(decoded.wire)
    OBVIOUS
  <1> HIDE DEF error
  <1>5. error = "none" => decoded.wire = Arrived(m)
    BY <1>2, <1>4 DEF Decodes
  <1>6. error = "none" <=> /\ Len(EncodeTransportParameters(Arrived(m))) = m.length
                           /\ Readable(Arrived(m))
    BY <1>2, <1>4, <1>5 DEF Decodes
  <1> QED  BY <1>3, <1>5, <1>6

(* receivePeerParameters returns exactly if the buffer ends where a        *)
(* parameter does and every value it knows begins with a number.           *)
THEOREM CutsAreRefused ==
    ParametersSpec => []CutIsRefused
<1>1. StartParameters => CutIsRefused
  BY DEF StartParameters, InitParameters, NoMessage, CutIsRefused
<1>2. CutIsRefused /\ [NextParameters]_pvars => CutIsRefused'
  <2>1. ASSUME NextParameters PROVE CutIsRefused'
    <3>1. PICK m : Sound(m) /\ ReceivePeerParameters(m)
      BY <2>1, CallIsSound
    <3>2. /\ last' = m
          /\ thrown' = "none" <=> /\ Len(EncodeTransportParameters(Arrived(m))) = m.length
                                  /\ Readable(Arrived(m))
      BY <3>1, CallReturns
    <3> QED  BY <3>2 DEF CutIsRefused
  <2>2. ASSUME CutIsRefused, UNCHANGED pvars PROVE CutIsRefused'
    BY <2>2 DEF CutIsRefused, pvars
  <2> QED  BY <2>1, <2>2
<1> QED
  BY <1>1, <1>2, PTL DEF ParametersSpec

(* The stream manager's peer parameters are those that the last message    *)
(* that was not refused carried.                                           *)
THEOREM ParametersSurvive ==
    ParametersSpec => []ParametersAreThoseSent
<1>1. StartParameters => ParametersAreThoseSent
  BY DEF StartParameters, InitParameters, NoMessage, ParametersAreThoseSent
<1>2. ParametersAreThoseSent /\ [NextParameters]_pvars => ParametersAreThoseSent'
  <2>1. ASSUME ParametersAreThoseSent, NextParameters PROVE ParametersAreThoseSent'
    <3>1. PICK m : Sound(m) /\ ReceivePeerParameters(m)
      BY <2>1, CallIsSound
    <3>2. CASE thrown' = "none"
      <4>1. /\ peerParameters' = FromWireParameters(Arrived(m)) /\ adopted' = m
            /\ Readable(Arrived(m))
        BY <3>1, <3>2, CallReturns
      <4>2. FromWireParameters(Arrived(m)) =
              Restrict(m.options, {name \in DOMAIN m.options : EndOf(m, Id[name]) <= m.length})
        BY <3>1, <4>1, ArrivedConverted
      <4> QED  BY <4>1, <4>2 DEF ParametersAreThoseSent
    <3>3. CASE thrown' # "none"
      <4>1. UNCHANGED <<peerParameters, adopted>>
        BY <3>1, <3>3, CallReturns
      <4> QED  BY <2>1, <4>1 DEF ParametersAreThoseSent
    <3> QED  BY <3>2, <3>3
  <2>2. ASSUME ParametersAreThoseSent, UNCHANGED pvars PROVE ParametersAreThoseSent'
    BY <2>2 DEF ParametersAreThoseSent, pvars
  <2> QED  BY <2>1, <2>2
<1> QED
  BY <1>1, <1>2, PTL DEF ParametersSpec

===============================================================================
