----------------------------- MODULE CodecProofs ------------------------------
(***************************************************************************)
(* Theorems about the frame codec, for every sequence of frames, every size*)
(* of byte in which the frame types fit, and every way the bytes are cut   *)
(* and handed to the reader.                                               *)
(*                                                                         *)
(* A byte string is made of pieces (MadeOf).  The bytes of a frame spell   *)
(* it (Spells): they are made of its type and of one value for each field  *)
(* that the type and the values before announce, and decodeFrame makes the *)
(* frame of them.  The reader is always at the end of such a piece         *)
(* (ReaderInv), so the next thing it reads is the next piece, or the bytes *)
(* end inside it.                                                          *)
(***************************************************************************)
EXTENDS FrameCodec, ParametersProofs

(***************************************************************************)
(* What the bytes of a frame are to their reader: a type, and a value for  *)
(* each of the fields that the type and the values before it announce.     *)
(***************************************************************************)
Codes == StreamCodes \cup {TypeCode[t] : t \in DOMAIN TypeCode}
Values == Nat \cup Seq(Nat)

First(v, k) == SubSeq(v, 1, k)
Name(c, v, i) == Fields(c, First(v, i - 1))[i]
Complete(c, v) == Len(v) = Len(Fields(c, v))

(* Count, of any field. *)
CountOf(name, c, before) ==
    CASE name = "statelessResetToken" -> TokenLength
      [] c \in {TypeCode.PATH_CHALLENGE, TypeCode.PATH_RESPONSE} -> PathDataLength
      [] OTHER -> before[Len(before)]

Item(name, x) == IF IsBytes(name) THEN x ELSE EncodeVarint(x)
Items(c, v) == [i \in 1..(Len(v) + 1) |->
                  IF i = 1 THEN EncodeVarint(c) ELSE Item(Name(c, v, i - 1), v[i - 1])]

Expected(c, v, i) ==
    IF IsBytes(Name(c, v, i))
    THEN v[i] \in Seq(Nat) /\ Len(v[i]) = CountOf(Name(c, v, i), c, First(v, i - 1))
    ELSE v[i] \in Number

Spells(w, c, v, meaning) ==
    /\ c \in Codes /\ c \in Number /\ v \in Seq(Values)
    /\ Complete(c, v) /\ \A k \in 0..(Len(v) - 1) : ~Complete(c, First(v, k))
    /\ \A i \in 1..Len(v) : Expected(c, v, i)
    /\ MadeOf(w, Items(c, v))
    /\ Frame(c, v) = meaning

IsList(names) == Len(names) \in Nat /\ DOMAIN names = 1..Len(names)

(* A frame whose type fixes its fields.                                    *)
Suits(c, names, v, i) ==
    IF IsBytes(names[i])
    THEN v[i] \in Seq(Nat) /\ Len(v[i]) = CountOf(names[i], c, First(v, i - 1))
    ELSE v[i] \in Number

Listed(c, names, v, s) ==
    /\ Len(s) = Len(v) + 1 /\ s[1] = EncodeVarint(c)
    /\ \A i \in 1..Len(v) : s[i + 1] = Item(names[i], v[i]) /\ Suits(c, names, v, i)

LEMMA Spelling ==
    ASSUME NEW c \in Codes, c \in Number, NEW names, IsList(names), \A b : Fields(c, b) = names,
           NEW v \in Seq(Values), Len(v) = Len(names),
           NEW w, NEW s, MadeOf(w, s), Listed(c, names, v, s)
    PROVE  Spells(w, c, v, Frame(c, v))
  <1>1. Len(v) \in Nat /\ s \in ByteStrings
    BY DEF MadeOf
  <1>2. Len(s) = Len(v) + 1 /\ s[1] = EncodeVarint(c)
    BY DEF Listed
  <1>3. \A i : Name(c, v, i) = names[i]
    BY DEF Name
  <1>4. ASSUME NEW i \in 1..(Len(v) + 1) PROVE s[i] = Items(c, v)[i]
    <2>1. CASE i = 1
      BY <1>2, <2>1 DEF Items
    <2>2. CASE i # 1
      <3>1. PICK k \in 1..Len(v) : k = i - 1
        BY <1>1, <2>2
      <3>2. i = k + 1
        BY <1>1, <3>1
      <3>3. s[i] = Item(names[k], v[k])
        BY <3>2 DEF Listed
      <3> QED  BY <1>3, <2>2, <3>1, <3>3 DEF Items
    <2> QED  BY <2>1, <2>2
  <1>5. s = Items(c, v)
    <2>1. s = [i \in 1..(Len(v) + 1) |-> s[i]]
      BY <1>1, <1>2 DEF ByteStrings
    <2>2. Items(c, v) = [i \in 1..(Len(v) + 1) |-> Items(c, v)[i]]
      BY DEF Items
    <2> QED  BY <1>4, <2>1, <2>2
  <1>6. \A i \in 1..Len(v) : Expected(c, v, i)
    BY <1>3 DEF Expected, Listed, Suits
  <1>7. Complete(c, v)
    BY DEF Complete
  <1>8. ASSUME NEW k \in 0..(Len(v) - 1) PROVE ~Complete(c, First(v, k))
    <2>1. Len(First(v, k)) = k
      BY <1>1 DEF First
    <2> QED  BY <1>1, <2>1 DEF Complete
  <1> QED  BY <1>5, <1>6, <1>7, <1>8 DEF Spells

(* The frame that its values make.                                         *)
Distinct(names) == \A i, j \in DOMAIN names : names[i] = names[j] => i = j

LEMMA Picked ==
    ASSUME NEW names, IsList(names), Distinct(names), NEW v, NEW from \in Nat
    PROVE  /\ DOMAIN Pick(names, v, from) = {names[j] : j \in DOMAIN names}
           /\ \A i \in 1..Len(names) : Pick(names, v, from)[names[i]] = v[from + i]
  <1>1. DOMAIN Pick(names, v, from) = {names[j] : j \in DOMAIN names}
    BY DEF Pick, Range
  <1>2. ASSUME NEW i \in 1..Len(names) PROVE Pick(names, v, from)[names[i]] = v[from + i]
    <2> DEFINE k == CHOOSE j \in DOMAIN names : names[j] = names[i]
    <2>0. i \in DOMAIN names
      BY DEF IsList
    <2>1. k \in DOMAIN names /\ names[k] = names[i]
      BY <2>0
    <2>2. k = i
      BY <2>0, <2>1 DEF Distinct
    <2>3. names[i] \in Range(names)
      BY <2>0 DEF Range
    <2>4. Pick(names, v, from)[names[i]] = v[from + k]
      BY <2>3 DEF Pick
    <2> QED  BY <2>2, <2>4
  <1> QED  BY <1>1, <1>2

Acks == {TypeCode.ACK, TypeCode.ACK_ECN}

(* The frame has the fields that were read, but for the length, and what   *)
(* the type says of a STREAM frame.                                        *)
IsFrame(f, c, names, v) ==
    /\ f = [x \in DOMAIN f |-> f[x]]
    /\ \A i \in DOMAIN names : names[i] # "type"
    /\ DOMAIN f = {"type"} \cup {names[i] : i \in {j \in DOMAIN names : names[j] # "length"}}
                 \cup (IF c \in StreamCodes THEN {"offset", "fin"} ELSE {})
    /\ f["type"] = TypeOf(c)
    /\ \A i \in DOMAIN names : names[i] # "length" => f[names[i]] = v[i]
    /\ c \in StreamCodes =>
         /\ "offset" \notin {names[i] : i \in DOMAIN names} => f["offset"] = 0
         /\ "fin" \notin {names[i] : i \in DOMAIN names} /\ f["fin"] = (c % 2 = FinBit)

LEMMA FrameFound ==
    ASSUME NEW c, c \notin Acks, NEW names, IsList(names), \A b : Fields(c, b) = names,
           Distinct(names), NEW v \in Seq(Values), NEW f, IsFrame(f, c, names, v)
    PROVE  Frame(c, v) = f
  <1> DEFINE given == Pick(names, v, 0)
             kept == Restrict(given, DOMAIN given \ {"length"})
             bits == IF c \in StreamCodes THEN [offset |-> 0, fin |-> c % 2 = FinBit] ELSE <<>>
             N == {names[j] : j \in DOMAIN names}
             g == With([type |-> TypeOf(c)], With(kept, bits))
  <1>1. Frame(c, v) = g
    BY DEF Frame, PlainFrame, Acks
  <1>2. DOMAIN given = N
    BY DEF Pick, Range
  <1>3. \A i \in DOMAIN names : given[names[i]] = v[i]
    <2>1. PICK z \in Nat : z = 0
      OBVIOUS
    <2>2. \A i \in 1..Len(names) : Pick(names, v, z)[names[i]] = v[z + i]
      BY Picked, ZenonT(30)
    <2>3. \A i \in 1..Len(names) : z + i = i
      BY <2>1 DEF IsList
    <2>4. given = Pick(names, v, z)
      BY <2>1
    <2> HIDE DEF given
    <2> QED  BY <2>2, <2>3, <2>4 DEF IsList
  <1>4. DOMAIN bits = IF c \in StreamCodes THEN {"offset", "fin"} ELSE {}
    OBVIOUS
  <1>5. c \in StreamCodes => bits["offset"] = 0 /\ bits["fin"] = (c % 2 = FinBit)
    OBVIOUS
  <1> HIDE DEF given, bits
  <1>6. DOMAIN kept = N \ {"length"} /\ \A x \in N \ {"length"} : kept[x] = given[x]
    BY <1>2 DEF Restrict
  <1> HIDE DEF kept
  <1> DEFINE h == With(kept, bits)
  <1>7. /\ DOMAIN h = (N \ {"length"}) \cup DOMAIN bits
        /\ \A x \in N \ {"length"} : h[x] = given[x]
        /\ \A x \in DOMAIN bits : x \notin N \ {"length"} => h[x] = bits[x]
    BY <1>6 DEF With
  <1> HIDE DEF h
  <1>8. /\ DOMAIN g = {"type"} \cup DOMAIN h /\ g = [x \in DOMAIN g |-> g[x]]
        /\ g["type"] = TypeOf(c) /\ \A x \in DOMAIN h : x # "type" => g[x] = h[x]
    BY DEF With, h
  <1> HIDE DEF g
  <1>9. DOMAIN f = DOMAIN g
    <2>1. {names[i] : i \in {j \in DOMAIN names : names[j] # "length"}} = N \ {"length"}
      OBVIOUS
    <2> QED  BY <1>4, <1>7, <1>8, <2>1 DEF IsFrame
  <1>10. ASSUME NEW x \in DOMAIN g PROVE g[x] = f[x]
    <2>1. CASE x = "type"
      BY <1>8, <2>1 DEF IsFrame
    <2>2. CASE x \in N \ {"length"}
      <3>1. PICK i \in DOMAIN names : x = names[i]
        BY <2>2
      <3>2. x # "type" /\ f[x] = v[i]
        BY <2>2, <3>1 DEF IsFrame
      <3>3. g[x] = given[x]
        BY <1>7, <1>8, <2>2, <3>2
      <3> QED  BY <1>3, <3>1, <3>2, <3>3
    <2>3. CASE x # "type" /\ x \notin N \ {"length"}
      <3>1. x \in DOMAIN bits /\ c \in StreamCodes /\ x \in {"offset", "fin"}
        BY <1>4, <1>7, <1>8, <2>3
      <3>2. g[x] = bits[x]
        BY <1>7, <1>8, <2>3, <3>1
      <3>3. x \notin N
        BY <2>3, <3>1
      <3>4. CASE x = "offset"
        BY <1>5, <3>1, <3>2, <3>3, <3>4 DEF IsFrame
      <3>5. CASE x = "fin"
        <4>1. f["fin"] = (c % 2 = FinBit) /\ bits["fin"] = (c % 2 = FinBit)
          BY <1>5, <3>1, Zenon DEF IsFrame
        <4> QED  BY <3>2, <3>5, <4>1, Zenon
      <3> QED  BY <3>1, <3>4, <3>5
    <2> QED  BY <1>7, <1>8, <2>1, <2>2, <2>3
  <1>11. f = [x \in DOMAIN f |-> f[x]]
    BY DEF IsFrame
  <1>12. f = g
    BY <1>8, <1>9, <1>10, <1>11
  <1> QED  BY <1>1, <1>12

(* The codes are one byte each. *)
LEMMA SmallCode ==
    ASSUME NEW c \in 0..30
    PROVE  c \in Number /\ c \in Nat /\ EncodeVarint(c) = <<c>> /\ EncodeVarint(c) \in Seq(Nat)
  <1>1. Quarter > 30 /\ Quarter \in Nat
    <2>1. TypeCode["HANDSHAKE_DONE"] < Quarter
      BY CodesAssumption DEF TypeCode
    <2>2. TypeCode["HANDSHAKE_DONE"] = 30
      BY DEF TypeCode
    <2> QED  BY <2>1, <2>2, QuarterAssumption
  <1>2. c \in Nat /\ c < Quarter
    BY <1>1
  <1>3. <<c>> \in Seq(Nat)
    BY <1>2
  <1> QED  BY <1>2, <1>3, SmallNumber, SmallEncoding

LEMMA NumberBytes ==
    ASSUME NEW x \in Number
    PROVE  EncodeVarint(x) \in Seq(Nat) /\ x \in Nat /\ x \in Values
  BY EncodingShape DEF Number, Values

LEMMA NumbersMadeOf ==
    ASSUME NEW names, IsList(names), NEW f, \A i \in DOMAIN names : f[names[i]] \in Number
    PROVE  MadeOf(Numbers(f, names), [i \in DOMAIN names |-> EncodeVarint(f[names[i]])])
  <1> DEFINE ss == [i \in DOMAIN names |-> EncodeVarint(f[names[i]])]
  <1>1. ss \in ByteStrings
    <2>1. \A i \in 1..Len(names) : EncodeVarint(f[names[i]]) \in Seq(Nat)
      BY NumberBytes
    <2> QED  BY <2>1 DEF ByteStrings
  <1> HIDE DEF ss
  <1>2. MadeOf(FlattenSeq(ss), ss)
    BY <1>1, FlattenMadeOf
  <1> QED  BY <1>2 DEF Numbers, ss

(* Frames of a type and a number for each field. *)
Plain(f, c, names) ==
    /\ c \in Codes /\ c \in 0..30 /\ c \notin Acks /\ c \notin StreamCodes
    /\ IsList(names) /\ Distinct(names)
    /\ \A i \in DOMAIN names : ~IsBytes(names[i]) /\ names[i] \notin {"length", "type"}
    /\ f = [x \in DOMAIN f |-> f[x]] /\ f["type"] = TypeOf(c)
    /\ DOMAIN f = {"type"} \cup {names[i] : i \in DOMAIN names}
    /\ \A i \in DOMAIN names : f[names[i]] \in Number

LEMMA NumbersSpelled ==
    ASSUME NEW f, NEW c, NEW names, Plain(f, c, names), \A b : Fields(c, b) = names
    PROVE  \E v : Spells(EncodeVarint(c) \o Numbers(f, names), c, v, f)
  <1> DEFINE v == [i \in DOMAIN names |-> f[names[i]]]
             t == [i \in DOMAIN names |-> EncodeVarint(f[names[i]])]
             s == <<EncodeVarint(c)>> \o t
             w == EncodeVarint(c) \o Numbers(f, names)
  <1>1. /\ IsList(names) /\ Distinct(names) /\ c \in Codes /\ c \notin Acks
        /\ \A i \in DOMAIN names : f[names[i]] \in Number
    BY DEF Plain
  <1>2. c \in Number /\ EncodeVarint(c) \in Seq(Nat)
    BY SmallCode DEF Plain
  <1>3. v \in Seq(Values) /\ Len(v) = Len(names) /\ Len(v) \in Nat
    <2>1. \A i \in 1..Len(names) : f[names[i]] \in Values
      BY <1>1, NumberBytes
    <2> QED  BY <1>1, <2>1
  <1>4. MadeOf(w, s)
    <2>1. MadeOf(EncodeVarint(c), <<EncodeVarint(c)>>)
      BY <1>2, MadeOfOne
    <2>2. MadeOf(Numbers(f, names), t)
      BY <1>1, NumbersMadeOf
    <2> HIDE DEF t
    <2> QED  BY <2>1, <2>2, MadeOfBoth
  <1>5. t \in Seq(Seq(Nat)) /\ Len(t) = Len(names) /\ \A i \in 1..Len(v) : t[i] = EncodeVarint(v[i])
    <2>1. \A i \in 1..Len(names) : EncodeVarint(f[names[i]]) \in Seq(Nat)
      BY <1>1, NumberBytes
    <2>2. t \in Seq(Seq(Nat)) /\ Len(t) = Len(names)
      BY <1>1, <2>1
    <2> QED  BY <1>1, <1>3, <2>2
  <1>6. /\ \A i \in 1..Len(v) : i \in DOMAIN names
        /\ \A i \in DOMAIN names : v[i] = f[names[i]]
    BY <1>1, <1>3
  <1>7. Listed(c, names, v, s)
    <2> DEFINE e == EncodeVarint(c)
    <2>1. e \in Seq(Nat) /\ \A i \in DOMAIN names : ~IsBytes(names[i])
      BY <1>2 DEF Plain
    <2> HIDE DEF t, v, e
    <2>2. Len(<<e>> \o t) = Len(v) + 1 /\ (<<e>> \o t)[1] = e
      BY <1>3, <1>5, <2>1
    <2>3. ASSUME NEW i \in 1..Len(v)
          PROVE  (<<e>> \o t)[i + 1] = Item(names[i], v[i]) /\ Suits(c, names, v, i)
      <3>1. i \in DOMAIN names /\ t[i] = EncodeVarint(v[i]) /\ v[i] \in Number /\ ~IsBytes(names[i])
        BY <1>1, <1>5, <1>6, <2>1
      <3>2. (<<e>> \o t)[i + 1] = t[i]
        BY <1>3, <1>5, <2>1
      <3> QED  BY <3>1, <3>2 DEF Item, Suits
    <2> QED  BY <2>2, <2>3 DEF Listed, e
  <1>8. IsFrame(f, c, names, v)
    <2>1. {i \in DOMAIN names : names[i] # "length"} = DOMAIN names
      BY DEF Plain
    <2> HIDE DEF v
    <2> QED  BY <1>6, <2>1 DEF Plain, IsFrame
  <1> HIDE DEF v, s, w
  <1>9. Frame(c, v) = f
    BY <1>1, <1>3, <1>8, FrameFound
  <1>10. Spells(w, c, v, Frame(c, v))
    BY <1>1, <1>2, <1>3, <1>4, <1>7, Spelling
  <1> QED  BY <1>9, <1>10 DEF w

LEMMA NumbersOne ==
    ASSUME NEW f, NEW name, f[name] \in Number
    PROVE  Numbers(f, <<name>>) = EncodeVarint(f[name])
  <1> DEFINE ss == [i \in DOMAIN <<name>> |-> EncodeVarint(f[<<name>>[i]])]
  <1>1. EncodeVarint(f[name]) \in Seq(Nat)
    BY NumberBytes
  <1>2. DOMAIN <<name>> = 1..1 /\ \A i \in 1..1 : <<name>>[i] = name
    OBVIOUS
  <1>3. ss = [i \in 1..1 |-> EncodeVarint(f[name])]
    BY <1>2
  <1> HIDE DEF ss
  <1>4. ss \in Seq(Seq(Nat)) /\ Len(ss) = 1 /\ 1 \in 1..Len(ss) /\ ss[1] = EncodeVarint(f[name])
    <2> DEFINE e == EncodeVarint(f[name])
    <2>1. e \in Seq(Nat)
      BY <1>1
    <2> HIDE DEF e
    <2>2. ss = [i \in 1..1 |-> e]
      BY <1>3 DEF e
    <2>3. ss = <<e>>
      BY <2>2
    <2>4. ss \in Seq(Seq(Nat)) /\ Len(ss) = 1 /\ ss[1] = e
      BY <2>1, <2>3
    <2> QED  BY <2>4 DEF e
  <1>5. ss # <<>>
    <2>1. Len(<<>>) = 0
      OBVIOUS
    <2> QED  BY <1>4, <2>1
  <1>6. PICK F \in [1..Len(ss) -> Seq(Nat)] : Concatenates(F, ss) /\ FlattenSeq(ss) = F[Len(ss)]
    BY <1>4, <1>5, FlattenIsConcatenation
  <1>7. FlattenSeq(ss) = ss[1]
    BY <1>4, <1>6 DEF Concatenates
  <1> QED  BY <1>4, <1>7 DEF Numbers, ss

LEMMA NumbersNone ==
    ASSUME NEW f
    PROVE  Numbers(f, <<>>) = <<>>
  <1>1. [i \in DOMAIN <<>> |-> EncodeVarint(f[<<>>[i]])] = <<>>
    OBVIOUS
  <1> QED  BY <1>1 DEF Numbers, FlattenSeq

LEMMA OneName ==
    ASSUME NEW a, NEW n, n = <<a>>
    PROVE  /\ IsList(n) /\ Distinct(n) /\ n[1] = a /\ Len(n) = 1
           /\ DOMAIN n = {1} /\ {n[i] : i \in DOMAIN n} = {a}
  <1>1. Len(n) = 1 /\ DOMAIN n = {1} /\ n[1] = a /\ 1..1 = {1}
    OBVIOUS
  <1>2. IsList(n)
    BY <1>1 DEF IsList
  <1>3. Distinct(n)
    BY <1>1 DEF Distinct
  <1>4. {n[i] : i \in DOMAIN n} = {a}
    BY <1>1
  <1> QED  BY <1>1, <1>2, <1>3, <1>4

LEMMA TwoNames ==
    ASSUME NEW a, NEW b, a # b, NEW n, n = <<a, b>>
    PROVE  /\ IsList(n) /\ Distinct(n) /\ n[1] = a /\ n[2] = b /\ Len(n) = 2
           /\ DOMAIN n = {1, 2} /\ {n[i] : i \in DOMAIN n} = {a, b}
  <1>1. Len(n) = 2 /\ DOMAIN n = {1, 2} /\ n[1] = a /\ n[2] = b /\ 1..2 = {1, 2}
    OBVIOUS
  <1>2. IsList(n)
    BY <1>1 DEF IsList
  <1>3. Distinct(n)
    BY <1>1 DEF Distinct
  <1>4. {n[i] : i \in DOMAIN n} = {a, b}
    BY <1>1
  <1> QED  BY <1>1, <1>2, <1>3, <1>4

LEMMA ThreeNames ==
    ASSUME NEW a, NEW b, NEW c, a # b, a # c, b # c, NEW n, n = <<a, b, c>>
    PROVE  /\ IsList(n) /\ Distinct(n) /\ n[1] = a /\ n[2] = b /\ n[3] = c /\ Len(n) = 3
           /\ DOMAIN n = {1, 2, 3} /\ {n[i] : i \in DOMAIN n} = {a, b, c}
  <1>1. Len(n) = 3 /\ DOMAIN n = {1, 2, 3} /\ n[1] = a /\ n[2] = b /\ n[3] = c /\ 1..3 = {1, 2, 3}
    OBVIOUS
  <1>2. IsList(n)
    BY <1>1 DEF IsList
  <1>3. Distinct(n)
    BY <1>1 DEF Distinct
  <1>4. {n[i] : i \in DOMAIN n} = {a, b, c}
    BY <1>1
  <1> QED  BY <1>1, <1>2, <1>3, <1>4

Spelled(f) == \E c, v : Spells(SerializeFrame(f), c, v, Meaning(f))

Types == DOMAIN TypeCode

LEMMA TypesAre ==
    /\ Types = {"PADDING", "PING", "ACK", "ACK_ECN", "RESET_STREAM", "STOP_SENDING", "CRYPTO",
                "NEW_TOKEN", "STREAM", "MAX_DATA", "MAX_STREAM_DATA", "MAX_STREAMS_BIDI",
                "MAX_STREAMS_UNI", "DATA_BLOCKED", "STREAM_DATA_BLOCKED", "STREAMS_BLOCKED_BIDI",
                "STREAMS_BLOCKED_UNI", "NEW_CONNECTION_ID", "RETIRE_CONNECTION_ID",
                "PATH_CHALLENGE", "PATH_RESPONSE", "CONNECTION_CLOSE", "CONNECTION_CLOSE_APP",
                "HANDSHAKE_DONE"}
    /\ \A t \in Types : TypeCode[t] \in 0..30
  BY DEF Types, TypeCode

LEMMA OneTypeEach ==
    ASSUME NEW t \in Types, NEW u \in Types, TypeCode[t] = TypeCode[u]
    PROVE  t = u
  BY DEF Types, TypeCode

Kind(c, t) ==
    /\ c \in Codes /\ c \in 0..30 /\ c \notin Acks /\ c \notin StreamCodes
    /\ TypeOf(c) = t

LEMMA Kinds ==
    ASSUME NEW t \in Types \ {"ACK", "ACK_ECN", "STREAM"}
    PROVE  Kind(TypeCode[t], t)
  <1>1. TypeCode[t] \in Codes /\ TypeCode[t] \in 0..30
    BY TypesAre DEF Codes, Types
  <1>2. TypeCode[t] \notin Acks /\ TypeCode[t] \notin StreamCodes
    BY DEF Types, TypeCode, Acks, StreamCodes
  <1>3. TypeOf(TypeCode[t]) = t
    <2> DEFINE x == CHOOSE u \in DOMAIN TypeCode : TypeCode[u] = TypeCode[t]
    <2>1. x \in Types /\ TypeCode[x] = TypeCode[t]
      BY DEF Types
    <2>2. x = t
      BY <2>1, OneTypeEach
    <2> QED  BY <1>2, <2>1, <2>2 DEF TypeOf, Types
  <1> QED  BY <1>1, <1>2, <1>3 DEF Kind

LEMMA FieldLists ==
    ASSUME NEW t \in Types, NEW b
    PROVE  /\ t \in {"PADDING", "PING", "HANDSHAKE_DONE"} =>
                Fields(TypeCode[t], b) = <<>>
           /\ t = "RESET_STREAM" =>
                Fields(TypeCode[t], b) = <<"streamId", "errorCode", "finalSize">>
           /\ t = "STOP_SENDING" =>
                Fields(TypeCode[t], b) = <<"streamId", "errorCode">>
           /\ t = "CRYPTO" =>
                Fields(TypeCode[t], b) = <<"offset", "length", "data">>
           /\ t = "NEW_TOKEN" =>
                Fields(TypeCode[t], b) = <<"length", "token">>
           /\ t \in {"MAX_DATA", "MAX_STREAMS_BIDI", "MAX_STREAMS_UNI"} =>
                Fields(TypeCode[t], b) = <<"maximum">>
           /\ t = "MAX_STREAM_DATA" =>
                Fields(TypeCode[t], b) = <<"streamId", "maximum">>
           /\ t \in {"DATA_BLOCKED", "STREAMS_BLOCKED_BIDI", "STREAMS_BLOCKED_UNI"} =>
                Fields(TypeCode[t], b) = <<"limit">>
           /\ t = "STREAM_DATA_BLOCKED" =>
                Fields(TypeCode[t], b) = <<"streamId", "limit">>
           /\ t = "NEW_CONNECTION_ID" =>
                Fields(TypeCode[t], b) = <<"sequenceNumber", "retirePriorTo", "length", "connectionId", "statelessResetToken">>
           /\ t = "RETIRE_CONNECTION_ID" =>
                Fields(TypeCode[t], b) = <<"sequenceNumber">>
           /\ t \in {"PATH_CHALLENGE", "PATH_RESPONSE"} =>
                Fields(TypeCode[t], b) = <<"data">>
           /\ t \in {"CONNECTION_CLOSE", "CONNECTION_CLOSE_APP"} =>
                Fields(TypeCode[t], b) = <<"errorCode", "frameType", "length", "reason">>
  <1>1. ASSUME t \in {"PADDING", "PING", "HANDSHAKE_DONE"} PROVE Fields(TypeCode[t], b) = <<>>
    BY <1>1, SMTT(30) DEF Types, TypeCode, Fields, StreamCodes
  <1>2. ASSUME t = "RESET_STREAM" PROVE Fields(TypeCode[t], b) = <<"streamId", "errorCode", "finalSize">>
    BY <1>2 DEF Types, TypeCode, Fields, StreamCodes
  <1>3. ASSUME t = "STOP_SENDING" PROVE Fields(TypeCode[t], b) = <<"streamId", "errorCode">>
    BY <1>3 DEF Types, TypeCode, Fields, StreamCodes
  <1>4. ASSUME t = "CRYPTO" PROVE Fields(TypeCode[t], b) = <<"offset", "length", "data">>
    BY <1>4 DEF Types, TypeCode, Fields, StreamCodes
  <1>5. ASSUME t = "NEW_TOKEN" PROVE Fields(TypeCode[t], b) = <<"length", "token">>
    BY <1>5 DEF Types, TypeCode, Fields, StreamCodes
  <1>6. ASSUME t \in {"MAX_DATA", "MAX_STREAMS_BIDI", "MAX_STREAMS_UNI"} PROVE Fields(TypeCode[t], b) = <<"maximum">>
    BY <1>6 DEF Types, TypeCode, Fields, StreamCodes
  <1>7. ASSUME t = "MAX_STREAM_DATA" PROVE Fields(TypeCode[t], b) = <<"streamId", "maximum">>
    BY <1>7 DEF Types, TypeCode, Fields, StreamCodes
  <1>8. ASSUME t \in {"DATA_BLOCKED", "STREAMS_BLOCKED_BIDI", "STREAMS_BLOCKED_UNI"} PROVE Fields(TypeCode[t], b) = <<"limit">>
    BY <1>8, SMTT(30) DEF Types, TypeCode, Fields, StreamCodes
  <1>9. ASSUME t = "STREAM_DATA_BLOCKED" PROVE Fields(TypeCode[t], b) = <<"streamId", "limit">>
    BY <1>9 DEF Types, TypeCode, Fields, StreamCodes
  <1>10. ASSUME t = "NEW_CONNECTION_ID" PROVE Fields(TypeCode[t], b) = <<"sequenceNumber", "retirePriorTo", "length", "connectionId", "statelessResetToken">>
    BY <1>10 DEF Types, TypeCode, Fields, StreamCodes
  <1>11. ASSUME t = "RETIRE_CONNECTION_ID" PROVE Fields(TypeCode[t], b) = <<"sequenceNumber">>
    BY <1>11 DEF Types, TypeCode, Fields, StreamCodes
  <1>12. ASSUME t \in {"PATH_CHALLENGE", "PATH_RESPONSE"} PROVE Fields(TypeCode[t], b) = <<"data">>
    BY <1>12 DEF Types, TypeCode, Fields, StreamCodes
  <1>13. ASSUME t \in {"CONNECTION_CLOSE", "CONNECTION_CLOSE_APP"} PROVE Fields(TypeCode[t], b) = <<"errorCode", "frameType", "length", "reason">>
    BY <1>13 DEF Types, TypeCode, Fields, StreamCodes
  <1> QED  BY <1>1, <1>2, <1>3, <1>4, <1>5, <1>6, <1>7, <1>8, <1>9, <1>10, <1>11, <1>12, <1>13

(* Frames of numbers alone. *)
LEMMA NumberFrames ==
    ASSUME NEW f, NEW t \in Types \ {"ACK", "ACK_ECN", "STREAM"}, NEW names, IsList(names), Distinct(names),
           \A i \in DOMAIN names : ~IsBytes(names[i]) /\ names[i] \notin {"length", "type"},
           f = [x \in DOMAIN f |-> f[x]], f["type"] = t,
           DOMAIN f = {"type"} \cup {names[i] : i \in DOMAIN names},
           \A i \in DOMAIN names : f[names[i]] \in Number,
           \A b : Fields(TypeCode[t], b) = names,
           SerializeFrame(f) = EncodeVarint(TypeCode[t]) \o Numbers(f, names), Meaning(f) = f
    PROVE  Spelled(f)
  <1> DEFINE c == TypeCode[t]
  <1>1. Kind(c, t)
    BY Kinds
  <1> HIDE DEF c
  <1>2. Plain(f, c, names)
    BY <1>1 DEF Kind, Plain
  <1>3. \E v : Spells(EncodeVarint(c) \o Numbers(f, names), c, v, f)
    BY <1>2, NumbersSpelled DEF c
  <1> QED  BY <1>3 DEF Spelled, c

LEMMA BareSpelled ==
    ASSUME NEW f \in [type : {"PADDING", "PING", "HANDSHAKE_DONE"}]
    PROVE  Spelled(f)
  <1> DEFINE t == f.type
             names == <<>>
  <1>1. t \in {"PADDING", "PING", "HANDSHAKE_DONE"} /\ t \in Types \ {"ACK", "ACK_ECN", "STREAM"}
    BY TypesAre
  <1>2. IsList(names) /\ Distinct(names) /\ DOMAIN names = {}
    BY DEF IsList, Distinct
  <1>3. DOMAIN f = {"type"} /\ f = [x \in DOMAIN f |-> f[x]] /\ f["type"] = t
    OBVIOUS
  <1>4. TypeCode[t] \in 0..30
    BY <1>1, TypesAre
  <1>5. SerializeFrame(f) = <<TypeCode[t]>> /\ Meaning(f) = f
    BY <1>1 DEF SerializeFrame, Meaning
  <1>6. EncodeVarint(TypeCode[t]) = <<TypeCode[t]>> /\ <<TypeCode[t]>> \in Seq(Nat) /\ Numbers(f, names) = <<>>
    BY <1>4, SmallCode, NumbersNone
  <1>7. SerializeFrame(f) = EncodeVarint(TypeCode[t]) \o Numbers(f, names)
    BY <1>5, <1>6
  <1>8. \A b : Fields(TypeCode[t], b) = names
    BY <1>1, FieldLists
  <1> HIDE DEF t, names
  <1> QED  BY <1>1, <1>2, <1>3, <1>5, <1>7, <1>8, NumberFrames, SMTT(30)

LEMMA ResetSpelled ==
    ASSUME NEW f \in [type : {"RESET_STREAM"}, streamId : Number, errorCode : Number, finalSize : Number]
    PROVE  Spelled(f)
  <1> DEFINE t == f.type
             names == <<"streamId", "errorCode", "finalSize">>
  <1>1. t = "RESET_STREAM" /\ t \in Types \ {"ACK", "ACK_ECN", "STREAM"}
    BY TypesAre
  <1>2. \A a, b, c : a # b /\ a # c /\ b # c /\ names = <<a, b, c>> =>
          /\ IsList(names) /\ Distinct(names) /\ DOMAIN names = {1, 2, 3}
          /\ names[1] = a /\ names[2] = b /\ names[3] = c
          /\ {names[i] : i \in DOMAIN names} = {a, b, c}
    BY ThreeNames
  <1>3. /\ IsList(names) /\ Distinct(names) /\ DOMAIN names = {1, 2, 3}
        /\ names[1] = "streamId" /\ names[2] = "errorCode" /\ names[3] = "finalSize"
        /\ {names[i] : i \in DOMAIN names} = {"streamId", "errorCode", "finalSize"}
    BY <1>2
  <1>4. /\ DOMAIN f = {"type", "streamId", "errorCode", "finalSize"} /\ f = [x \in DOMAIN f |-> f[x]]
        /\ f["streamId"] \in Number /\ f["errorCode"] \in Number /\ f["finalSize"] \in Number
    OBVIOUS
  <1>5. SerializeFrame(f) = EncodeVarint(TypeCode[t]) \o Numbers(f, names) /\ Meaning(f) = f
    BY <1>1 DEF SerializeFrame, Meaning
  <1>6. \A b : Fields(TypeCode[t], b) = names
    BY <1>1, FieldLists
  <1> HIDE DEF names, t
  <1>7. /\ \A i \in DOMAIN names : ~IsBytes(names[i]) /\ names[i] \notin {"length", "type"}
        /\ \A i \in DOMAIN names : f[names[i]] \in Number
        /\ DOMAIN f = {"type"} \cup {names[i] : i \in DOMAIN names}
    BY <1>3, <1>4 DEF IsBytes
  <1>8. f["type"] = t
    BY DEF t
  <1> QED  BY <1>1, <1>3, <1>4, <1>5, <1>6, <1>7, <1>8, NumberFrames

LEMMA TwoNumbers ==
    ASSUME NEW f, NEW t \in Types \ {"ACK", "ACK_ECN", "STREAM"}, NEW a, NEW b, a # b,
           ~IsBytes(a), ~IsBytes(b), a \notin {"length", "type"}, b \notin {"length", "type"},
           f = [x \in DOMAIN f |-> f[x]], f["type"] = t, DOMAIN f = {"type", a, b},
           f[a] \in Number, f[b] \in Number, \A g : Fields(TypeCode[t], g) = <<a, b>>,
           SerializeFrame(f) = EncodeVarint(TypeCode[t]) \o Numbers(f, <<a, b>>), Meaning(f) = f
    PROVE  Spelled(f)
  <1> DEFINE names == <<a, b>>
  <1>1. /\ IsList(names) /\ Distinct(names) /\ DOMAIN names = {1, 2}
        /\ names[1] = a /\ names[2] = b /\ {names[i] : i \in DOMAIN names} = {a, b}
    BY TwoNames
  <1>2. \A g : Fields(TypeCode[t], g) = names
    OBVIOUS
  <1>3. SerializeFrame(f) = EncodeVarint(TypeCode[t]) \o Numbers(f, names)
    OBVIOUS
  <1> HIDE DEF names
  <1>4. /\ \A i \in DOMAIN names : ~IsBytes(names[i]) /\ names[i] \notin {"length", "type"}
        /\ \A i \in DOMAIN names : f[names[i]] \in Number
        /\ DOMAIN f = {"type"} \cup {names[i] : i \in DOMAIN names}
    BY <1>1
  <1> QED  BY <1>1, <1>2, <1>3, <1>4, NumberFrames

LEMMA OneNumber ==
    ASSUME NEW f, NEW t \in Types \ {"ACK", "ACK_ECN", "STREAM"}, NEW a,
           ~IsBytes(a), a \notin {"length", "type"},
           f = [x \in DOMAIN f |-> f[x]], f["type"] = t, DOMAIN f = {"type", a},
           f[a] \in Number, \A g : Fields(TypeCode[t], g) = <<a>>,
           SerializeFrame(f) = EncodeVarint(TypeCode[t]) \o EncodeVarint(f[a]), Meaning(f) = f
    PROVE  Spelled(f)
  <1> DEFINE names == <<a>>
  <1>1. /\ IsList(names) /\ Distinct(names) /\ DOMAIN names = {1}
        /\ names[1] = a /\ {names[i] : i \in DOMAIN names} = {a}
    BY OneName
  <1>2. \A g : Fields(TypeCode[t], g) = names
    OBVIOUS
  <1>3. Numbers(f, names) = EncodeVarint(f[a])
    BY NumbersOne
  <1>4. SerializeFrame(f) = EncodeVarint(TypeCode[t]) \o Numbers(f, names)
    BY <1>3
  <1> HIDE DEF names
  <1>5. /\ \A i \in DOMAIN names : ~IsBytes(names[i]) /\ names[i] \notin {"length", "type"}
        /\ \A i \in DOMAIN names : f[names[i]] \in Number
        /\ DOMAIN f = {"type"} \cup {names[i] : i \in DOMAIN names}
    BY <1>1
  <1> QED  BY <1>1, <1>2, <1>4, <1>5, NumberFrames

LEMMA StopSpelled ==
    ASSUME NEW f \in [type : {"STOP_SENDING"}, streamId : Number, errorCode : Number]
    PROVE  Spelled(f)
  <1> DEFINE t == f.type
             a == "streamId"
             b == "errorCode"
  <1>1. t = "STOP_SENDING" /\ t \in Types \ {"ACK", "ACK_ECN", "STREAM"}
    BY TypesAre
  <1>2. \A g : Fields(TypeCode[t], g) = <<a, b>>
    BY <1>1, FieldLists
  <1>3. SerializeFrame(f) = EncodeVarint(TypeCode[t]) \o Numbers(f, <<a, b>>) /\ Meaning(f) = f
    BY <1>1 DEF SerializeFrame, Meaning
  <1>4. /\ f = [x \in DOMAIN f |-> f[x]] /\ f["type"] = t /\ DOMAIN f = {"type", a, b}
        /\ f[a] \in Number /\ f[b] \in Number /\ a # b
        /\ ~IsBytes(a) /\ ~IsBytes(b) /\ a \notin {"length", "type"} /\ b \notin {"length", "type"}
    BY DEF IsBytes
  <1> HIDE DEF t, a, b
  <1> QED  BY <1>1, <1>2, <1>3, <1>4, TwoNumbers

LEMMA MaxStreamSpelled ==
    ASSUME NEW f \in [type : {"MAX_STREAM_DATA"}, streamId : Number, maximum : Number]
    PROVE  Spelled(f)
  <1> DEFINE t == f.type
             a == "streamId"
             b == "maximum"
  <1>1. t = "MAX_STREAM_DATA" /\ t \in Types \ {"ACK", "ACK_ECN", "STREAM"}
    BY TypesAre
  <1>2. \A g : Fields(TypeCode[t], g) = <<a, b>>
    BY <1>1, FieldLists
  <1>3. SerializeFrame(f) = EncodeVarint(TypeCode[t]) \o Numbers(f, <<a, b>>) /\ Meaning(f) = f
    BY <1>1 DEF SerializeFrame, Meaning
  <1>4. /\ f = [x \in DOMAIN f |-> f[x]] /\ f["type"] = t /\ DOMAIN f = {"type", a, b}
        /\ f[a] \in Number /\ f[b] \in Number /\ a # b
        /\ ~IsBytes(a) /\ ~IsBytes(b) /\ a \notin {"length", "type"} /\ b \notin {"length", "type"}
    BY DEF IsBytes
  <1> HIDE DEF t, a, b
  <1> QED  BY <1>1, <1>2, <1>3, <1>4, TwoNumbers

LEMMA StreamBlockedSpelled ==
    ASSUME NEW f \in [type : {"STREAM_DATA_BLOCKED"}, streamId : Number, limit : Number]
    PROVE  Spelled(f)
  <1> DEFINE t == f.type
             a == "streamId"
             b == "limit"
  <1>1. t = "STREAM_DATA_BLOCKED" /\ t \in Types \ {"ACK", "ACK_ECN", "STREAM"}
    BY TypesAre
  <1>2. \A g : Fields(TypeCode[t], g) = <<a, b>>
    BY <1>1, FieldLists
  <1>3. SerializeFrame(f) = EncodeVarint(TypeCode[t]) \o Numbers(f, <<a, b>>) /\ Meaning(f) = f
    BY <1>1 DEF SerializeFrame, Meaning
  <1>4. /\ f = [x \in DOMAIN f |-> f[x]] /\ f["type"] = t /\ DOMAIN f = {"type", a, b}
        /\ f[a] \in Number /\ f[b] \in Number /\ a # b
        /\ ~IsBytes(a) /\ ~IsBytes(b) /\ a \notin {"length", "type"} /\ b \notin {"length", "type"}
    BY DEF IsBytes
  <1> HIDE DEF t, a, b
  <1> QED  BY <1>1, <1>2, <1>3, <1>4, TwoNumbers

LEMMA MaximumSpelled ==
    ASSUME NEW f \in [type : {"MAX_DATA", "MAX_STREAMS_BIDI", "MAX_STREAMS_UNI"}, maximum : Number]
    PROVE  Spelled(f)
  <1> DEFINE t == f.type
             a == "maximum"
  <1>1. /\ t \in {"MAX_DATA", "MAX_STREAMS_BIDI", "MAX_STREAMS_UNI"}
        /\ t \in Types \ {"ACK", "ACK_ECN", "STREAM"}
    BY TypesAre
  <1>2. \A g : Fields(TypeCode[t], g) = <<a>>
    BY <1>1, FieldLists
  <1>3. SerializeFrame(f) = EncodeVarint(TypeCode[t]) \o EncodeVarint(f[a]) /\ Meaning(f) = f
    BY <1>1 DEF SerializeFrame, Meaning
  <1>4. /\ f = [x \in DOMAIN f |-> f[x]] /\ f["type"] = t /\ DOMAIN f = {"type", a}
        /\ f[a] \in Number /\ ~IsBytes(a) /\ a \notin {"length", "type"}
    BY DEF IsBytes
  <1> HIDE DEF t, a
  <1> QED  BY <1>1, <1>2, <1>3, <1>4, OneNumber

LEMMA LimitSpelled ==
    ASSUME NEW f \in [type : {"DATA_BLOCKED", "STREAMS_BLOCKED_BIDI", "STREAMS_BLOCKED_UNI"}, limit : Number]
    PROVE  Spelled(f)
  <1> DEFINE t == f.type
             a == "limit"
  <1>1. /\ t \in {"DATA_BLOCKED", "STREAMS_BLOCKED_BIDI", "STREAMS_BLOCKED_UNI"}
        /\ t \in Types \ {"ACK", "ACK_ECN", "STREAM"}
    BY TypesAre
  <1>2. \A g : Fields(TypeCode[t], g) = <<a>>
    BY <1>1, FieldLists
  <1>3. SerializeFrame(f) = EncodeVarint(TypeCode[t]) \o EncodeVarint(f[a]) /\ Meaning(f) = f
    BY <1>1 DEF SerializeFrame, Meaning
  <1>4. /\ f = [x \in DOMAIN f |-> f[x]] /\ f["type"] = t /\ DOMAIN f = {"type", a}
        /\ f[a] \in Number /\ ~IsBytes(a) /\ a \notin {"length", "type"}
    BY DEF IsBytes
  <1> HIDE DEF t, a
  <1> QED  BY <1>1, <1>2, <1>3, <1>4, OneNumber

LEMMA RetireSpelled ==
    ASSUME NEW f \in [type : {"RETIRE_CONNECTION_ID"}, sequenceNumber : Number]
    PROVE  Spelled(f)
  <1> DEFINE t == f.type
             a == "sequenceNumber"
  <1>1. t = "RETIRE_CONNECTION_ID" /\ t \in Types \ {"ACK", "ACK_ECN", "STREAM"}
    BY TypesAre
  <1>2. \A g : Fields(TypeCode[t], g) = <<a>>
    BY <1>1, FieldLists
  <1>3. SerializeFrame(f) = EncodeVarint(TypeCode[t]) \o EncodeVarint(f[a]) /\ Meaning(f) = f
    BY <1>1 DEF SerializeFrame, Meaning
  <1>4. /\ f = [x \in DOMAIN f |-> f[x]] /\ f["type"] = t /\ DOMAIN f = {"type", a}
        /\ f[a] \in Number /\ ~IsBytes(a) /\ a \notin {"length", "type"}
    BY DEF IsBytes
  <1> HIDE DEF t, a
  <1> QED  BY <1>1, <1>2, <1>3, <1>4, OneNumber

(* Frames with byte strings: each is behind its length, or of a length that*)
(* is known.                                                               *)
LEMMA BytesType ==
    ASSUME NEW d \in Data
    PROVE  d \in Seq(Nat) /\ d \in Values /\ Len(d) \in Number
  BY Sizes DEF Data, Byte, Values

LEMMA CountedMadeOf ==
    ASSUME NEW d \in Data
    PROVE  MadeOf(Counted(d), <<EncodeVarint(Len(d))>> \o <<d>>)
  <1>1. EncodeVarint(Len(d)) \in Seq(Nat) /\ d \in Seq(Nat)
    BY BytesType, NumberBytes
  <1>2. MadeOf(EncodeVarint(Len(d)), <<EncodeVarint(Len(d))>>) /\ MadeOf(d, <<d>>)
    BY <1>1, MadeOfOne
  <1> QED  BY <1>2, MadeOfBoth DEF Counted

LEMMA CountBefore ==
    ASSUME NEW v \in Seq(Values), NEW i \in 2..Len(v), NEW name, name # "statelessResetToken",
           NEW c, c \notin {TypeCode.PATH_CHALLENGE, TypeCode.PATH_RESPONSE}
    PROVE  CountOf(name, c, First(v, i - 1)) = v[i - 1]
  <1> DEFINE b == First(v, i - 1)
  <1>1. Len(b) = i - 1 /\ b[i - 1] = v[i - 1]
    BY DEF First
  <1> HIDE DEF b
  <1>2. CountOf(name, c, b) = b[Len(b)]
    BY DEF CountOf
  <1> QED  BY <1>1, <1>2 DEF b

LEMMA PlainSpelled ==
    ASSUME NEW f, NEW c \in Codes, c \in Number, c \notin Acks, NEW names, IsList(names), Distinct(names),
           \A b : Fields(c, b) = names, NEW v \in Seq(Values), Len(v) = Len(names),
           NEW s, MadeOf(SerializeFrame(f), s), Listed(c, names, v, s),
           IsFrame(Meaning(f), c, names, v)
    PROVE  Spelled(f)
  <1>1. Frame(c, v) = Meaning(f)
    BY FrameFound
  <1>2. Spells(SerializeFrame(f), c, v, Frame(c, v))
    BY Spelling
  <1> QED  BY <1>1, <1>2 DEF Spelled

LEMMA CryptoSpelled ==
    ASSUME NEW f \in [type : {"CRYPTO"}, offset : Number, data : Data]
    PROVE  Spelled(f)
  <1> DEFINE c == TypeCode["CRYPTO"]
             names == <<"offset", "length", "data">>
             v == <<f.offset, Len(f.data), f.data>>
             e0 == EncodeVarint(c)
             e1 == EncodeVarint(f.offset)
             e2 == EncodeVarint(Len(f.data))
             d == f.data
             s == (<<e0>> \o <<e1>>) \o (<<e2>> \o <<d>>)
  <1>1. Kind(c, "CRYPTO")
    BY Kinds, TypesAre
  <1>2. /\ f.type = "CRYPTO" /\ f.offset \in Number /\ f.data \in Data
        /\ DOMAIN f = {"type", "offset", "data"} /\ f = [x \in DOMAIN f |-> f[x]]
    OBVIOUS
  <1>3. SerializeFrame(f) = (EncodeVarint(c) \o EncodeVarint(f.offset)) \o Counted(f.data) /\ Meaning(f) = f
    BY <1>2 DEF SerializeFrame, Meaning
  <1>4. \A b : Fields(c, b) = names
    BY FieldLists, TypesAre
  <1>5. c \notin {TypeCode.PATH_CHALLENGE, TypeCode.PATH_RESPONSE}
    BY DEF TypeCode
  <1> HIDE DEF c
  <1>6. /\ c \in Codes /\ c \in Number /\ c \notin Acks /\ c \notin StreamCodes /\ TypeOf(c) = "CRYPTO"
        /\ e0 \in Seq(Nat)
    BY <1>1, SmallCode DEF Kind
  <1>7. /\ e1 \in Seq(Nat) /\ e2 \in Seq(Nat) /\ d \in Seq(Nat)
        /\ f.offset \in Values /\ Len(f.data) \in Values /\ f.data \in Values /\ Len(f.data) \in Number
    BY <1>2, BytesType, NumberBytes
  <1>8. MadeOf(SerializeFrame(f), s)
    <2>1. MadeOf(e0, <<e0>>) /\ MadeOf(e1, <<e1>>)
      BY <1>6, <1>7, MadeOfOne
    <2>2. MadeOf(Counted(f.data), <<e2>> \o <<d>>)
      BY <1>2, CountedMadeOf
    <2> HIDE DEF e0, e1, e2, d
    <2>3. MadeOf(e0 \o e1, <<e0>> \o <<e1>>)
      BY <2>1, MadeOfBoth
    <2>4. MadeOf((e0 \o e1) \o Counted(f.data), (<<e0>> \o <<e1>>) \o (<<e2>> \o <<d>>))
      BY <2>2, <2>3, MadeOfBoth
    <2> QED  BY <1>3, <2>4 DEF e0, e1
  <1>9. v \in Seq(Values) /\ Len(v) = 3 /\ v[1] = f.offset /\ v[2] = Len(f.data) /\ v[3] = d
    BY <1>7
  <1>10. Len(s) = 4 /\ s[1] = e0 /\ s[2] = e1 /\ s[3] = e2 /\ s[4] = d
    BY <1>6, <1>7
  <1>11. /\ IsList(names) /\ Distinct(names) /\ DOMAIN names = {1, 2, 3} /\ Len(names) = 3
         /\ names[1] = "offset" /\ names[2] = "length" /\ names[3] = "data"
    BY DEF IsList, Distinct
  <1> HIDE DEF names, v, s, d
  <1>12. CountOf("data", c, First(v, 3 - 1)) = v[3 - 1]
    <2>1. 3 \in 2..Len(v)
      BY <1>9
    <2>2. \A i \in 2..Len(v) : \A name : name # "statelessResetToken" => CountOf(name, c, First(v, i - 1)) = v[i - 1]
      BY <1>5, <1>9, CountBefore
    <2> QED  BY <2>1, <2>2
  <1>13. Suits(c, names, v, 1) /\ Suits(c, names, v, 2) /\ Suits(c, names, v, 3)
    BY <1>2, <1>7, <1>9, <1>11, <1>12 DEF Suits, IsBytes, d
  <1>14. s[1 + 1] = Item(names[1], v[1]) /\ s[2 + 1] = Item(names[2], v[2]) /\ s[3 + 1] = Item(names[3], v[3])
    BY <1>9, <1>10, <1>11 DEF Item, IsBytes
  <1>15. Listed(c, names, v, s)
    <2>1. 1..3 = {1, 2, 3}
      OBVIOUS
    <2> HIDE DEF e0, e1, e2
    <2> QED  BY <1>9, <1>10, <1>13, <1>14, <2>1 DEF Listed, e0
  <1>16. IsFrame(f, c, names, v)
    <2>1. {names[i] : i \in {j \in DOMAIN names : names[j] # "length"}} = {"offset", "data"}
      BY <1>11
    <2> QED  BY <1>2, <1>6, <1>9, <1>11, <2>1 DEF IsFrame, d
  <1> QED  BY <1>3, <1>4, <1>6, <1>8, <1>9, <1>11, <1>15, <1>16, PlainSpelled

LEMMA TokenSpelled ==
    ASSUME NEW f \in [type : {"NEW_TOKEN"}, token : Data]
    PROVE  Spelled(f)
  <1> DEFINE c == TypeCode["NEW_TOKEN"]
             names == <<"length", "token">>
             v == <<Len(f.token), f.token>>
             e0 == EncodeVarint(c)
             e1 == EncodeVarint(Len(f.token))
             d == f.token
             s == <<e0>> \o (<<e1>> \o <<d>>)
  <1>1. Kind(c, "NEW_TOKEN")
    BY Kinds, TypesAre
  <1>2. /\ f.type = "NEW_TOKEN" /\ f.token \in Data
        /\ DOMAIN f = {"type", "token"} /\ f = [x \in DOMAIN f |-> f[x]]
    OBVIOUS
  <1>3. SerializeFrame(f) = EncodeVarint(c) \o Counted(f.token) /\ Meaning(f) = f
    BY <1>2 DEF SerializeFrame, Meaning
  <1>4. \A b : Fields(c, b) = names
    BY FieldLists, TypesAre
  <1>5. c \notin {TypeCode.PATH_CHALLENGE, TypeCode.PATH_RESPONSE}
    BY DEF TypeCode
  <1> HIDE DEF c
  <1>6. /\ c \in Codes /\ c \in Number /\ c \notin Acks /\ c \notin StreamCodes /\ TypeOf(c) = "NEW_TOKEN"
        /\ e0 \in Seq(Nat)
    BY <1>1, SmallCode DEF Kind
  <1>7. /\ e1 \in Seq(Nat) /\ d \in Seq(Nat)
        /\ Len(f.token) \in Values /\ f.token \in Values /\ Len(f.token) \in Number
    BY <1>2, BytesType, NumberBytes
  <1>8. MadeOf(SerializeFrame(f), s)
    <2>1. MadeOf(e0, <<e0>>)
      BY <1>6, MadeOfOne
    <2>2. MadeOf(Counted(f.token), <<e1>> \o <<d>>)
      BY <1>2, CountedMadeOf
    <2> HIDE DEF e0, e1, d
    <2>3. MadeOf(e0 \o Counted(f.token), <<e0>> \o (<<e1>> \o <<d>>))
      BY <2>1, <2>2, MadeOfBoth
    <2> QED  BY <1>3, <2>3 DEF e0
  <1>9. v \in Seq(Values) /\ Len(v) = 2 /\ v[1] = Len(f.token) /\ v[2] = d
    BY <1>7
  <1>10. Len(s) = 3 /\ s[1] = e0 /\ s[2] = e1 /\ s[3] = d
    BY <1>6, <1>7
  <1>11. /\ IsList(names) /\ Distinct(names) /\ DOMAIN names = {1, 2} /\ Len(names) = 2
         /\ names[1] = "length" /\ names[2] = "token"
    BY DEF IsList, Distinct
  <1> HIDE DEF names, v, s, d
  <1>12. CountOf("token", c, First(v, 2 - 1)) = v[2 - 1]
    <2>1. 2 \in 2..Len(v)
      BY <1>9
    <2>2. \A i \in 2..Len(v) : \A name : name # "statelessResetToken" => CountOf(name, c, First(v, i - 1)) = v[i - 1]
      BY <1>5, <1>9, CountBefore
    <2> QED  BY <2>1, <2>2
  <1>13. Suits(c, names, v, 1) /\ Suits(c, names, v, 2)
    BY <1>2, <1>7, <1>9, <1>11, <1>12 DEF Suits, IsBytes, d
  <1>14. s[1 + 1] = Item(names[1], v[1]) /\ s[2 + 1] = Item(names[2], v[2])
    BY <1>9, <1>10, <1>11 DEF Item, IsBytes
  <1>15. Listed(c, names, v, s)
    <2>1. 1..2 = {1, 2}
      OBVIOUS
    <2> HIDE DEF e0, e1
    <2> QED  BY <1>9, <1>10, <1>13, <1>14, <2>1 DEF Listed, e0
  <1>16. IsFrame(f, c, names, v)
    <2>1. {names[i] : i \in {j \in DOMAIN names : names[j] # "length"}} = {"token"}
      BY <1>11
    <2> QED  BY <1>2, <1>6, <1>9, <1>11, <2>1 DEF IsFrame, d
  <1> QED  BY <1>3, <1>4, <1>6, <1>8, <1>9, <1>11, <1>15, <1>16, PlainSpelled

LEMMA PathSpelled ==
    ASSUME NEW f \in {g \in [type : {"PATH_CHALLENGE", "PATH_RESPONSE"}, data : Data] :
                      Len(g.data) = PathDataLength}
    PROVE  Spelled(f)
  <1> DEFINE t == f.type
             c == TypeCode[t]
             names == <<"data">>
             v == <<f.data>>
             e0 == EncodeVarint(c)
             d == f.data
             s == <<e0>> \o <<d>>
  <1>1. t \in {"PATH_CHALLENGE", "PATH_RESPONSE"} /\ t \in Types \ {"ACK", "ACK_ECN", "STREAM"}
    BY TypesAre
  <1>2. /\ f.data \in Data /\ Len(f.data) = PathDataLength
        /\ DOMAIN f = {"type", "data"} /\ f = [x \in DOMAIN f |-> f[x]]
    OBVIOUS
  <1>3. SerializeFrame(f) = EncodeVarint(c) \o f.data /\ Meaning(f) = f
    BY <1>1 DEF SerializeFrame, Meaning
  <1>4. \A b : Fields(c, b) = names
    BY <1>1, FieldLists
  <1>5. c \in {TypeCode.PATH_CHALLENGE, TypeCode.PATH_RESPONSE} /\ Kind(c, t)
    BY <1>1, Kinds
  <1> HIDE DEF c
  <1>6. /\ c \in Codes /\ c \in Number /\ c \notin Acks /\ c \notin StreamCodes /\ TypeOf(c) = t
        /\ e0 \in Seq(Nat)
    BY <1>5, SmallCode DEF Kind
  <1>7. d \in Seq(Nat) /\ f.data \in Values
    BY <1>2, BytesType
  <1>8. MadeOf(SerializeFrame(f), s)
    <2>1. MadeOf(e0, <<e0>>) /\ MadeOf(d, <<d>>)
      BY <1>6, <1>7, MadeOfOne
    <2> HIDE DEF e0, d
    <2>2. MadeOf(e0 \o d, <<e0>> \o <<d>>)
      BY <2>1, MadeOfBoth
    <2> QED  BY <1>3, <2>2 DEF e0, d
  <1>9. v \in Seq(Values) /\ Len(v) = 1 /\ v[1] = d
    BY <1>7
  <1>10. Len(s) = 2 /\ s[1] = e0 /\ s[2] = d
    BY <1>6, <1>7
  <1>11. /\ IsList(names) /\ Distinct(names) /\ DOMAIN names = {1} /\ Len(names) = 1
         /\ names[1] = "data"
    BY DEF IsList, Distinct
  <1> HIDE DEF names, v, s, d, t
  <1>12. \A b : CountOf("data", c, b) = PathDataLength
    BY <1>5 DEF CountOf
  <1>13. Suits(c, names, v, 1)
    BY <1>2, <1>7, <1>9, <1>11, <1>12 DEF Suits, IsBytes, d
  <1>14. s[1 + 1] = Item(names[1], v[1])
    BY <1>9, <1>10, <1>11 DEF Item, IsBytes
  <1>15. Listed(c, names, v, s)
    <2>1. 1..1 = {1}
      OBVIOUS
    <2> HIDE DEF e0
    <2> QED  BY <1>9, <1>10, <1>13, <1>14, <2>1 DEF Listed, e0
  <1>16. IsFrame(f, c, names, v)
    <2>1. {names[i] : i \in {j \in DOMAIN names : names[j] # "length"}} = {"data"}
      BY <1>11
    <2> QED  BY <1>2, <1>6, <1>9, <1>11, <2>1 DEF IsFrame, d, t
  <1> QED  BY <1>3, <1>4, <1>6, <1>8, <1>9, <1>11, <1>15, <1>16, PlainSpelled

LEMMA ConnectionIdSpelled ==
    ASSUME NEW f \in {g \in [type : {"NEW_CONNECTION_ID"}, sequenceNumber : Number, retirePriorTo : Number,
                             connectionId : Data, statelessResetToken : Data] :
                      Len(g.statelessResetToken) = TokenLength}
    PROVE  Spelled(f)
  <1> DEFINE c == TypeCode["NEW_CONNECTION_ID"]
             names == <<"sequenceNumber", "retirePriorTo", "length", "connectionId", "statelessResetToken">>
             id == f.connectionId
             token == f.statelessResetToken
             v == <<f.sequenceNumber, f.retirePriorTo, Len(id), id, token>>
             two == <<"sequenceNumber", "retirePriorTo">>
             e0 == EncodeVarint(c)
             e1 == EncodeVarint(f.sequenceNumber)
             e2 == EncodeVarint(f.retirePriorTo)
             e3 == EncodeVarint(Len(id))
             s == ((<<e0>> \o <<e1, e2>>) \o (<<e3>> \o <<id>>)) \o <<token>>
  <1>1. Kind(c, "NEW_CONNECTION_ID")
    BY Kinds, TypesAre
  <1>2. /\ f.type = "NEW_CONNECTION_ID" /\ f.sequenceNumber \in Number /\ f.retirePriorTo \in Number
        /\ id \in Data /\ token \in Data /\ Len(token) = TokenLength
        /\ DOMAIN f = {"type", "sequenceNumber", "retirePriorTo", "connectionId", "statelessResetToken"}
        /\ f = [x \in DOMAIN f |-> f[x]]
    OBVIOUS
  <1>3. /\ SerializeFrame(f) = ((EncodeVarint(c) \o Numbers(f, two)) \o Counted(id)) \o token
        /\ Meaning(f) = f
    BY <1>2 DEF SerializeFrame, Meaning
  <1>4. \A b : Fields(c, b) = names
    BY FieldLists, TypesAre
  <1>5. c \notin {TypeCode.PATH_CHALLENGE, TypeCode.PATH_RESPONSE}
    BY DEF TypeCode
  <1> HIDE DEF c
  <1>6. /\ c \in Codes /\ c \in Number /\ c \notin Acks /\ c \notin StreamCodes
        /\ TypeOf(c) = "NEW_CONNECTION_ID" /\ e0 \in Seq(Nat)
    BY <1>1, SmallCode DEF Kind
  <1>7. /\ e1 \in Seq(Nat) /\ e2 \in Seq(Nat) /\ e3 \in Seq(Nat) /\ id \in Seq(Nat) /\ token \in Seq(Nat)
        /\ f.sequenceNumber \in Values /\ f.retirePriorTo \in Values /\ Len(id) \in Values
        /\ id \in Values /\ token \in Values /\ Len(id) \in Number
    BY <1>2, BytesType, NumberBytes
  <1>8. MadeOf(Numbers(f, two), <<e1, e2>>)
    <2>1. two[1] = "sequenceNumber" /\ two[2] = "retirePriorTo" /\ DOMAIN two = 1..2 /\ Len(two) = 2
          /\ 1..2 = {1, 2}
      OBVIOUS
    <2>2. <<e1, e2>> = [i \in 1..2 |-> IF i = 1 THEN e1 ELSE e2]
      BY <1>7
    <2> HIDE DEF two
    <2>3. IsList(two) /\ \A i \in DOMAIN two : f[two[i]] \in Number
      BY <1>2, <2>1 DEF IsList
    <2>4. MadeOf(Numbers(f, two), [i \in DOMAIN two |-> EncodeVarint(f[two[i]])])
      BY <2>3, NumbersMadeOf
    <2>5. [i \in DOMAIN two |-> EncodeVarint(f[two[i]])] = <<e1, e2>>
      BY <2>1, <2>2
    <2> QED  BY <2>4, <2>5
  <1>9. MadeOf(SerializeFrame(f), s)
    <2>1. MadeOf(e0, <<e0>>) /\ MadeOf(token, <<token>>)
      BY <1>6, <1>7, MadeOfOne
    <2>2. MadeOf(Counted(id), <<e3>> \o <<id>>)
      BY <1>2, CountedMadeOf
    <2> HIDE DEF e0, e1, e2, e3, id, token, two
    <2>3. MadeOf(e0 \o Numbers(f, two), <<e0>> \o <<e1, e2>>)
      BY <1>8, <2>1, MadeOfBoth
    <2>4. MadeOf((e0 \o Numbers(f, two)) \o Counted(id), (<<e0>> \o <<e1, e2>>) \o (<<e3>> \o <<id>>))
      BY <2>2, <2>3, MadeOfBoth
    <2>5. MadeOf(((e0 \o Numbers(f, two)) \o Counted(id)) \o token, s)
      BY <2>1, <2>4, MadeOfBoth
    <2> HIDE DEF s
    <2> QED  BY <1>3, <2>5 DEF e0
  <1>10. /\ v \in Seq(Values) /\ Len(v) = 5 /\ v[1] = f.sequenceNumber /\ v[2] = f.retirePriorTo
         /\ v[3] = Len(id) /\ v[4] = id /\ v[5] = token
    BY <1>7
  <1>11. Len(s) = 6 /\ s[1] = e0 /\ s[2] = e1 /\ s[3] = e2 /\ s[4] = e3 /\ s[5] = id /\ s[6] = token
    <2> HIDE DEF e0, e1, e2, e3, id, token
    <2> QED  BY <1>6, <1>7
  <1>12. /\ Len(names) = 5 /\ DOMAIN names = 1..5 /\ 1..5 = {1, 2, 3, 4, 5}
         /\ names[1] = "sequenceNumber" /\ names[2] = "retirePriorTo" /\ names[3] = "length"
         /\ names[4] = "connectionId" /\ names[5] = "statelessResetToken"
    OBVIOUS
  <1> HIDE DEF names, v, s, id, token
  <1>13. IsList(names) /\ Distinct(names)
    BY <1>12 DEF IsList, Distinct
  <1>14. CountOf("connectionId", c, First(v, 4 - 1)) = v[4 - 1]
    <2>1. 4 \in 2..Len(v)
      BY <1>10
    <2>2. \A i \in 2..Len(v) : \A name : name # "statelessResetToken" => CountOf(name, c, First(v, i - 1)) = v[i - 1]
      BY <1>5, <1>10, CountBefore, ZenonT(30)
    <2> QED  BY <2>1, <2>2
  <1>15. \A b : CountOf("statelessResetToken", c, b) = TokenLength
    BY <1>5, Zenon DEF CountOf
  <1>16. /\ Suits(c, names, v, 1) /\ Suits(c, names, v, 2) /\ Suits(c, names, v, 3)
         /\ Suits(c, names, v, 4) /\ Suits(c, names, v, 5)
    BY <1>2, <1>7, <1>10, <1>12, <1>14, <1>15 DEF Suits, IsBytes
  <1>17. /\ s[1 + 1] = Item(names[1], v[1]) /\ s[2 + 1] = Item(names[2], v[2]) /\ s[3 + 1] = Item(names[3], v[3])
         /\ s[4 + 1] = Item(names[4], v[4]) /\ s[5 + 1] = Item(names[5], v[5])
    BY <1>10, <1>11, <1>12 DEF Item, IsBytes
  <1>18. Listed(c, names, v, s)
    <2> HIDE DEF e0, e1, e2, e3
    <2> QED  BY <1>10, <1>11, <1>12, <1>16, <1>17 DEF Listed, e0
  <1>19. IsFrame(f, c, names, v)
    <2>1. {names[i] : i \in {j \in DOMAIN names : names[j] # "length"}}
            = {"sequenceNumber", "retirePriorTo", "connectionId", "statelessResetToken"}
      BY <1>12
    <2> QED  BY <1>2, <1>6, <1>10, <1>12, <2>1 DEF IsFrame, id, token
  <1> QED  BY <1>3, <1>4, <1>6, <1>9, <1>10, <1>12, <1>13, <1>18, <1>19, PlainSpelled

LEMMA CloseSpelled ==
    ASSUME NEW f \in CloseFrames
    PROVE  Spelled(f)
  <1> DEFINE t == f.type
             c == TypeCode[t]
             m == Meaning(f)
             names == <<"errorCode", "frameType", "length", "reason">>
             ft == IF "frameType" \in DOMAIN f THEN f.frameType ELSE 0
             d == f.reason
             v == <<f.errorCode, ft, Len(d), d>>
             e0 == EncodeVarint(c)
             e1 == EncodeVarint(f.errorCode)
             e2 == EncodeVarint(ft)
             e3 == EncodeVarint(Len(d))
             s == ((<<e0>> \o <<e1>>) \o <<e2>>) \o (<<e3>> \o <<d>>)
  <1>1. t \in {"CONNECTION_CLOSE", "CONNECTION_CLOSE_APP"} /\ t \in Types \ {"ACK", "ACK_ECN", "STREAM"}
    BY TypesAre DEF CloseFrames
  <1>2. f.errorCode \in Number /\ d \in Data /\ f = [x \in DOMAIN f |-> f[x]] /\ f["type"] = t
    BY DEF CloseFrames
  <1>3. \/ DOMAIN f = {"type", "errorCode", "reason"}
        \/ DOMAIN f = {"type", "errorCode", "reason", "frameType"} /\ f.frameType \in Number
    BY DEF CloseFrames
  <1>4. ft \in Number
    <2>1. 0 \in Number
      BY SmallCode
    <2> QED  BY <1>3, <2>1
  <1>5. SerializeFrame(f) = ((EncodeVarint(c) \o EncodeVarint(f.errorCode)) \o EncodeVarint(ft)) \o Counted(d)
    BY <1>1 DEF SerializeFrame, SerializeClose
  <1>6. m = With(f, [frameType |-> 0])
    BY <1>1 DEF Meaning
  <1>7. /\ DOMAIN m = {"type", "errorCode", "reason", "frameType"} /\ m = [x \in DOMAIN m |-> m[x]]
        /\ m["type"] = t /\ m["errorCode"] = f.errorCode /\ m["reason"] = d /\ m["frameType"] = ft
    <2>1. DOMAIN m = DOMAIN f \cup {"frameType"} /\ m = [x \in DOMAIN m |-> m[x]]
      BY <1>6 DEF With
    <2>2. /\ \A x \in DOMAIN f : m[x] = f[x]
          /\ "frameType" \notin DOMAIN f => m["frameType"] = 0
      BY <1>6 DEF With
    <2>3. DOMAIN m = {"type", "errorCode", "reason", "frameType"}
      BY <1>3, <2>1
    <2>4. m["type"] = t /\ m["errorCode"] = f.errorCode /\ m["reason"] = d
      BY <1>3, <2>2
    <2>5. m["frameType"] = ft
      BY <1>3, <2>2
    <2> QED  BY <2>1, <2>3, <2>4, <2>5
  <1>8. \A b : Fields(c, b) = names
    BY <1>1, FieldLists
  <1>9. Kind(c, t) /\ c \notin {TypeCode.PATH_CHALLENGE, TypeCode.PATH_RESPONSE}
    BY <1>1, Kinds DEF TypeCode
  <1> HIDE DEF c, m, t, ft
  <1>10. /\ c \in Codes /\ c \in Number /\ c \notin Acks /\ c \notin StreamCodes
         /\ TypeOf(c) = t /\ e0 \in Seq(Nat)
    BY <1>9, SmallCode DEF Kind
  <1>11. /\ e1 \in Seq(Nat) /\ e2 \in Seq(Nat) /\ e3 \in Seq(Nat) /\ d \in Seq(Nat)
         /\ f.errorCode \in Values /\ ft \in Values /\ Len(d) \in Values
         /\ d \in Values /\ Len(d) \in Number
    BY <1>2, <1>4, BytesType, NumberBytes
  <1>12. MadeOf(SerializeFrame(f), s)
    <2>1. MadeOf(e0, <<e0>>) /\ MadeOf(e1, <<e1>>) /\ MadeOf(e2, <<e2>>)
      BY <1>10, <1>11, MadeOfOne
    <2>2. MadeOf(Counted(d), <<e3>> \o <<d>>)
      BY <1>2, CountedMadeOf
    <2> HIDE DEF e0, e1, e2, e3, d
    <2>3. MadeOf(e0 \o e1, <<e0>> \o <<e1>>)
      BY <2>1, MadeOfBoth
    <2>4. MadeOf((e0 \o e1) \o e2, (<<e0>> \o <<e1>>) \o <<e2>>)
      BY <2>1, <2>3, MadeOfBoth
    <2>5. MadeOf(((e0 \o e1) \o e2) \o Counted(d), s)
      BY <2>2, <2>4, MadeOfBoth
    <2> HIDE DEF s
    <2> QED  BY <1>5, <2>5 DEF e0, e1, e2
  <1>13. /\ v \in Seq(Values) /\ Len(v) = 4 /\ v[1] = f.errorCode /\ v[2] = ft
         /\ v[3] = Len(d) /\ v[4] = d
    BY <1>11
  <1>14. Len(s) = 5 /\ s[1] = e0 /\ s[2] = e1 /\ s[3] = e2 /\ s[4] = e3 /\ s[5] = d
    <2> HIDE DEF e0, e1, e2, e3, d
    <2> QED  BY <1>10, <1>11
  <1>15. /\ Len(names) = 4 /\ DOMAIN names = 1..4 /\ 1..4 = {1, 2, 3, 4}
         /\ names[1] = "errorCode" /\ names[2] = "frameType" /\ names[3] = "length"
         /\ names[4] = "reason"
    OBVIOUS
  <1> HIDE DEF names, v, s, d
  <1>16. IsList(names) /\ Distinct(names)
    BY <1>15 DEF IsList, Distinct
  <1>17. CountOf("reason", c, First(v, 4 - 1)) = v[4 - 1]
    <2>1. 4 \in 2..Len(v)
      BY <1>13
    <2>2. \A i \in 2..Len(v) : \A name : name # "statelessResetToken" => CountOf(name, c, First(v, i - 1)) = v[i - 1]
      BY <1>9, <1>13, CountBefore
    <2> QED  BY <2>1, <2>2
  <1>18. /\ Suits(c, names, v, 1) /\ Suits(c, names, v, 2) /\ Suits(c, names, v, 3)
         /\ Suits(c, names, v, 4)
    BY <1>2, <1>4, <1>11, <1>13, <1>15, <1>17 DEF Suits, IsBytes
  <1>19. /\ s[1 + 1] = Item(names[1], v[1]) /\ s[2 + 1] = Item(names[2], v[2]) /\ s[3 + 1] = Item(names[3], v[3])
         /\ s[4 + 1] = Item(names[4], v[4])
    BY <1>13, <1>14, <1>15 DEF Item, IsBytes
  <1>20. Listed(c, names, v, s)
    <2> HIDE DEF e0, e1, e2, e3
    <2> QED  BY <1>13, <1>14, <1>15, <1>18, <1>19 DEF Listed, e0
  <1>21. IsFrame(m, c, names, v)
    <2>1. {names[i] : i \in {j \in DOMAIN names : names[j] # "length"}} = {"errorCode", "frameType", "reason"}
      BY <1>15
    <2> QED  BY <1>7, <1>10, <1>13, <1>15, <2>1 DEF IsFrame
  <1>22. IsFrame(Meaning(f), c, names, v)
    BY <1>21 DEF m
  <1> QED  BY <1>8, <1>10, <1>12, <1>13, <1>15, <1>16, <1>20, <1>22, PlainSpelled

LEMMA JoinedNames ==
    ASSUME NEW a, NEW b, NEW c, NEW d
    PROVE  /\ (<<a>> \o <<b>>) \o <<c, d>> = <<a, b, c, d>>
           /\ (<<a>> \o <<>>) \o <<c, d>> = <<a, c, d>>
  <1> DEFINE S == {a, b, c, d}
  <1>1. a \in S /\ b \in S /\ c \in S /\ d \in S
    OBVIOUS
  <1> HIDE DEF S
  <1>2. ASSUME NEW u, u = (<<a>> \o <<b>>) \o <<c, d>> PROVE u = <<a, b, c, d>>
    <2>1. u \in Seq(S) /\ Len(u) = 4 /\ u[1] = a /\ u[2] = b /\ u[3] = c /\ u[4] = d
      BY <1>1, <1>2
    <2> QED  BY <2>1
  <1>3. ASSUME NEW u, u = (<<a>> \o <<>>) \o <<c, d>> PROVE u = <<a, c, d>>
    <2>1. u \in Seq(S) /\ Len(u) = 3 /\ u[1] = a /\ u[2] = c /\ u[3] = d
      BY <1>1, <1>3
    <2> QED  BY <2>1
  <1> QED  BY <1>2, <1>3

(* A STREAM frame's type says whether it has an offset and whether it ends *)
(* the stream.                                                             *)
LEMMA StreamCode ==
    ASSUME NEW o \in BOOLEAN, NEW e \in BOOLEAN,
           NEW c, c = TypeCode.STREAM + (IF o THEN OffBit ELSE 0) + LenBit + (IF e THEN FinBit ELSE 0)
    PROVE  /\ c \in StreamCodes /\ c \in Codes /\ c \in 0..30 /\ c \notin Acks
           /\ c \notin {TypeCode.PATH_CHALLENGE, TypeCode.PATH_RESPONSE}
           /\ (c \div OffBit) % 2 = 1 <=> o
           /\ c % 2 = FinBit <=> e
           /\ TypeOf(c) = "STREAM"
           /\ \A b : Fields(c, b) = IF o THEN <<"streamId", "offset", "length", "data">>
                                   ELSE <<"streamId", "length", "data">>
  <1>1. /\ TypeCode.STREAM = 8 /\ OffBit = 4 /\ LenBit = 2 /\ FinBit = 1
        /\ StreamCodes = 8..15
    BY DEF TypeCode, OffBit, LenBit, FinBit, StreamCodes
  <1>2. \/ o /\ e /\ c = 15
        \/ o /\ ~e /\ c = 14
        \/ ~o /\ e /\ c = 11
        \/ ~o /\ ~e /\ c = 10
    BY <1>1
  <1>3. c \in {10, 11, 14, 15}
    BY <1>2
  <1>4. c \in StreamCodes /\ c \in Codes /\ c \in 0..30
    BY <1>1, <1>3 DEF Codes
  <1>5. c \notin Acks /\ c \notin {TypeCode.PATH_CHALLENGE, TypeCode.PATH_RESPONSE}
    BY <1>3 DEF Acks, TypeCode
  <1>6. (c \div OffBit) % 2 = 1 <=> o
    BY <1>1, <1>2
  <1>7. c % 2 = FinBit <=> e
    BY <1>1, <1>2
  <1>8. TypeOf(c) = "STREAM"
    BY <1>4 DEF TypeOf
  <1>9. \A b : Fields(c, b) = StreamFields(c)
    <2>1. /\ c \notin {TypeCode.ACK, TypeCode.ACK_ECN} /\ c # TypeCode.RESET_STREAM
          /\ c # TypeCode.STOP_SENDING /\ c # TypeCode.CRYPTO /\ c # TypeCode.NEW_TOKEN
      BY <1>3 DEF TypeCode
    <2>2. /\ c \notin {TypeCode.MAX_DATA, TypeCode.MAX_STREAMS_BIDI, TypeCode.MAX_STREAMS_UNI}
          /\ c # TypeCode.MAX_STREAM_DATA
          /\ c \notin {TypeCode.DATA_BLOCKED, TypeCode.STREAMS_BLOCKED_BIDI,
                       TypeCode.STREAMS_BLOCKED_UNI}
          /\ c # TypeCode.STREAM_DATA_BLOCKED
      BY <1>3 DEF TypeCode
    <2>3. /\ c # TypeCode.NEW_CONNECTION_ID /\ c # TypeCode.RETIRE_CONNECTION_ID
          /\ c \notin {TypeCode.PATH_CHALLENGE, TypeCode.PATH_RESPONSE}
          /\ c \notin {TypeCode.CONNECTION_CLOSE, TypeCode.CONNECTION_CLOSE_APP}
      BY <1>3 DEF TypeCode
    <2> QED  BY <1>4, <2>1, <2>2, <2>3 DEF Fields
  <1>10. StreamFields(c) = IF o THEN <<"streamId", "offset", "length", "data">>
                           ELSE <<"streamId", "length", "data">>
    <2>1. StreamFields(c) = (<<"streamId">> \o (IF o THEN <<"offset">> ELSE <<>>)) \o <<"length", "data">>
      BY <1>6, Zenon DEF StreamFields
    <2> QED  BY <2>1, JoinedNames
  <1> QED  BY <1>4, <1>5, <1>6, <1>7, <1>8, <1>9, <1>10

LEMMA StreamBits ==
    ASSUME NEW f \in [type : {"STREAM"}, streamId : Number, offset : Number, data : Data,
                      fin : BOOLEAN]
    PROVE  \E c \in Codes :
             /\ c \in Number /\ c \notin Acks /\ c \in StreamCodes
             /\ c \notin {TypeCode.PATH_CHALLENGE, TypeCode.PATH_RESPONSE}
             /\ TypeOf(c) = "STREAM" /\ f["fin"] = (c % 2 = FinBit)
             /\ EncodeVarint(c) \in Seq(Nat) /\ Meaning(f) = f
             /\ f.offset > 0 =>
                  /\ \A b : Fields(c, b) = <<"streamId", "offset", "length", "data">>
                  /\ SerializeFrame(f) = ((EncodeVarint(c) \o EncodeVarint(f.streamId))
                                            \o EncodeVarint(f.offset)) \o Counted(f.data)
             /\ ~(f.offset > 0) =>
                  /\ \A b : Fields(c, b) = <<"streamId", "length", "data">>
                  /\ SerializeFrame(f) = ((EncodeVarint(c) \o EncodeVarint(f.streamId))
                                            \o <<>>) \o Counted(f.data)
  <1> DEFINE o == f.offset > 0
             e == f.fin
             c == TypeCode.STREAM + (IF o THEN OffBit ELSE 0) + LenBit + (IF e THEN FinBit ELSE 0)
  <1>1. f.type = "STREAM" /\ o \in BOOLEAN /\ e \in BOOLEAN /\ f["fin"] = e
    OBVIOUS
  <1>2. SerializeFrame(f) = ((EncodeVarint(c) \o EncodeVarint(f.streamId))
                              \o (IF o THEN EncodeVarint(f.offset) ELSE <<>>)) \o Counted(f.data)
    BY <1>1, Zenon DEF SerializeFrame, SerializeStream
  <1>3. Meaning(f) = f
    BY <1>1 DEF Meaning
  <1> HIDE DEF o, e
  <1>4. /\ c \in StreamCodes /\ c \in Codes /\ c \in 0..30 /\ c \notin Acks
        /\ c \notin {TypeCode.PATH_CHALLENGE, TypeCode.PATH_RESPONSE}
        /\ c % 2 = FinBit <=> e
        /\ TypeOf(c) = "STREAM"
        /\ \A b : Fields(c, b) = IF o THEN <<"streamId", "offset", "length", "data">>
                                ELSE <<"streamId", "length", "data">>
    BY <1>1, StreamCode
  <1> HIDE DEF c
  <1>5. c \in Number /\ EncodeVarint(c) \in Seq(Nat)
    BY <1>4, SmallCode
  <1>6. f["fin"] = (c % 2 = FinBit)
    <2>1. e = (c % 2 = FinBit)
      BY <1>1, <1>4, Zenon
    <2> QED  BY <1>1, <2>1, Zenon
  <1>7. ASSUME f.offset > 0
        PROVE  /\ \A b : Fields(c, b) = <<"streamId", "offset", "length", "data">>
               /\ SerializeFrame(f) = ((EncodeVarint(c) \o EncodeVarint(f.streamId))
                                         \o EncodeVarint(f.offset)) \o Counted(f.data)
    BY <1>2, <1>4, <1>7, Zenon DEF o
  <1>8. ASSUME ~(f.offset > 0)
        PROVE  /\ \A b : Fields(c, b) = <<"streamId", "length", "data">>
               /\ SerializeFrame(f) = ((EncodeVarint(c) \o EncodeVarint(f.streamId))
                                         \o <<>>) \o Counted(f.data)
    BY <1>2, <1>4, <1>8, Zenon DEF o
  <1> QED  BY <1>3, <1>4, <1>5, <1>6, <1>7, <1>8, Zenon

LEMMA StreamSpelled ==
    ASSUME NEW f \in [type : {"STREAM"}, streamId : Number, offset : Number, data : Data,
                      fin : BOOLEAN]
    PROVE  Spelled(f)
  <1>1. PICK c \in Codes :
             /\ c \in Number /\ c \notin Acks /\ c \in StreamCodes
             /\ c \notin {TypeCode.PATH_CHALLENGE, TypeCode.PATH_RESPONSE}
             /\ TypeOf(c) = "STREAM" /\ f["fin"] = (c % 2 = FinBit)
             /\ EncodeVarint(c) \in Seq(Nat) /\ Meaning(f) = f
             /\ f.offset > 0 =>
                  /\ \A b : Fields(c, b) = <<"streamId", "offset", "length", "data">>
                  /\ SerializeFrame(f) = ((EncodeVarint(c) \o EncodeVarint(f.streamId))
                                            \o EncodeVarint(f.offset)) \o Counted(f.data)
             /\ ~(f.offset > 0) =>
                  /\ \A b : Fields(c, b) = <<"streamId", "length", "data">>
                  /\ SerializeFrame(f) = ((EncodeVarint(c) \o EncodeVarint(f.streamId))
                                            \o <<>>) \o Counted(f.data)
    BY StreamBits
  <1> DEFINE d == f.data
             e0 == EncodeVarint(c)
             e1 == EncodeVarint(f.streamId)
             e2 == EncodeVarint(f.offset)
             e3 == EncodeVarint(Len(d))
  <1>2. /\ f.streamId \in Number /\ f.offset \in Number /\ d \in Data
        /\ DOMAIN f = {"type", "streamId", "offset", "data", "fin"} /\ f = [x \in DOMAIN f |-> f[x]]
        /\ f["type"] = "STREAM"
    OBVIOUS
  <1>3. /\ e0 \in Seq(Nat) /\ e1 \in Seq(Nat) /\ e2 \in Seq(Nat) /\ e3 \in Seq(Nat) /\ d \in Seq(Nat)
        /\ f.streamId \in Values /\ f.offset \in Values /\ Len(d) \in Values
        /\ d \in Values /\ Len(d) \in Number /\ f.offset \in Nat
    BY <1>1, <1>2, BytesType, NumberBytes
  <1>4. /\ MadeOf(e0 \o e1, <<e0>> \o <<e1>>) /\ MadeOf(e2, <<e2>>)
        /\ MadeOf(Counted(d), <<e3>> \o <<d>>)
    <2>1. MadeOf(e0, <<e0>>) /\ MadeOf(e1, <<e1>>) /\ MadeOf(e2, <<e2>>)
      BY <1>3, MadeOfOne
    <2>2. MadeOf(Counted(d), <<e3>> \o <<d>>)
      BY <1>2, CountedMadeOf
    <2> HIDE DEF e0, e1, e2, e3, d
    <2>3. MadeOf(e0 \o e1, <<e0>> \o <<e1>>)
      BY <2>1, MadeOfBoth
    <2> QED  BY <2>1, <2>2, <2>3
  <1>5. CASE f.offset > 0
    <2> DEFINE names == <<"streamId", "offset", "length", "data">>
               v == <<f.streamId, f.offset, Len(d), d>>
               s == ((<<e0>> \o <<e1>>) \o <<e2>>) \o (<<e3>> \o <<d>>)
    <2>1. MadeOf(SerializeFrame(f), s)
      <3>1. SerializeFrame(f) = ((e0 \o e1) \o e2) \o Counted(d)
        BY <1>1, <1>5, Zenon
      <3> HIDE DEF e0, e1, e2, e3, d
      <3>2. MadeOf((e0 \o e1) \o e2, (<<e0>> \o <<e1>>) \o <<e2>>)
        BY <1>4, MadeOfBoth
      <3>3. MadeOf(((e0 \o e1) \o e2) \o Counted(d), s)
        BY <1>4, <3>2, MadeOfBoth
      <3> HIDE DEF s
      <3> QED  BY <3>1, <3>3
    <2>2. /\ v \in Seq(Values) /\ Len(v) = 4 /\ v[1] = f.streamId /\ v[2] = f.offset
          /\ v[3] = Len(d) /\ v[4] = d
      BY <1>3
    <2>3. Len(s) = 5 /\ s[1] = e0 /\ s[2] = e1 /\ s[3] = e2 /\ s[4] = e3 /\ s[5] = d
      <3> HIDE DEF e0, e1, e2, e3, d
      <3> QED  BY <1>3
    <2>4. /\ Len(names) = 4 /\ DOMAIN names = 1..4 /\ 1..4 = {1, 2, 3, 4}
          /\ names[1] = "streamId" /\ names[2] = "offset" /\ names[3] = "length"
          /\ names[4] = "data"
      OBVIOUS
    <2>5. \A b : Fields(c, b) = names
      BY <1>1, <1>5, Zenon
    <2> HIDE DEF names, v, s, d
    <2>6. IsList(names) /\ Distinct(names)
      BY <2>4 DEF IsList, Distinct
    <2>7. CountOf("data", c, First(v, 4 - 1)) = v[4 - 1]
      <3>1. 4 \in 2..Len(v)
        BY <2>2
      <3>2. \A i \in 2..Len(v) : \A name : name # "statelessResetToken" => CountOf(name, c, First(v, i - 1)) = v[i - 1]
        BY <1>1, <2>2, CountBefore, ZenonT(30)
      <3> QED  BY <3>1, <3>2
    <2>8. /\ Suits(c, names, v, 1) /\ Suits(c, names, v, 2) /\ Suits(c, names, v, 3)
          /\ Suits(c, names, v, 4)
      BY <1>2, <1>3, <2>2, <2>4, <2>7 DEF Suits, IsBytes
    <2>9. /\ s[1 + 1] = Item(names[1], v[1]) /\ s[2 + 1] = Item(names[2], v[2])
          /\ s[3 + 1] = Item(names[3], v[3]) /\ s[4 + 1] = Item(names[4], v[4])
      BY <2>2, <2>3, <2>4 DEF Item, IsBytes
    <2>10. Listed(c, names, v, s)
      <3> HIDE DEF e0, e1, e2, e3
      <3> QED  BY <2>2, <2>3, <2>4, <2>8, <2>9 DEF Listed, e0
    <2>11. IsFrame(f, c, names, v)
      <3>1. {names[i] : i \in {j \in DOMAIN names : names[j] # "length"}} = {"streamId", "offset", "data"}
        BY <2>4
      <3>2. {names[i] : i \in DOMAIN names} = {"streamId", "offset", "length", "data"}
        BY <2>4
      <3>3. DOMAIN f = {"type"} \cup {"streamId", "offset", "data"} \cup {"offset", "fin"}
        BY <1>2
      <3>4. \A i \in DOMAIN names : names[i] # "type"
        BY <2>4
      <3>5. \A i \in DOMAIN names : names[i] # "length" => f[names[i]] = v[i]
        BY <2>2, <2>4 DEF d
      <3>6. /\ "offset" \in {names[i] : i \in DOMAIN names}
            /\ "fin" \notin {names[i] : i \in DOMAIN names}
        BY <3>2
      <3> HIDE DEF names
      <3> QED  BY <1>1, <1>2, <3>1, <3>3, <3>4, <3>5, <3>6, Zenon DEF IsFrame
    <2>12. IsFrame(Meaning(f), c, names, v)
      BY <1>1, <2>11, Zenon
    <2> QED  BY <1>1, <2>1, <2>2, <2>4, <2>5, <2>6, <2>10, <2>12, PlainSpelled
  <1>6. CASE ~(f.offset > 0)
    <2> DEFINE names == <<"streamId", "length", "data">>
               v == <<f.streamId, Len(d), d>>
               s == ((<<e0>> \o <<e1>>) \o <<>>) \o (<<e3>> \o <<d>>)
    <2>1. MadeOf(SerializeFrame(f), s)
      <3>1. SerializeFrame(f) = ((e0 \o e1) \o <<>>) \o Counted(d)
        BY <1>1, <1>6, Zenon
      <3> HIDE DEF e0, e1, e2, e3, d
      <3>2. MadeOf((e0 \o e1) \o <<>>, (<<e0>> \o <<e1>>) \o <<>>)
        BY <1>4, MadeOfNothing, MadeOfBoth
      <3>3. MadeOf(((e0 \o e1) \o <<>>) \o Counted(d), s)
        BY <1>4, <3>2, MadeOfBoth
      <3> HIDE DEF s
      <3> QED  BY <3>1, <3>3
    <2>2. /\ v \in Seq(Values) /\ Len(v) = 3 /\ v[1] = f.streamId
          /\ v[2] = Len(d) /\ v[3] = d
      BY <1>3
    <2>3. Len(s) = 4 /\ s[1] = e0 /\ s[2] = e1 /\ s[3] = e3 /\ s[4] = d
      <3> HIDE DEF e0, e1, e2, e3, d
      <3> QED  BY <1>3
    <2>4. /\ Len(names) = 3 /\ DOMAIN names = 1..3 /\ 1..3 = {1, 2, 3}
          /\ names[1] = "streamId" /\ names[2] = "length" /\ names[3] = "data"
      OBVIOUS
    <2>5. \A b : Fields(c, b) = names
      BY <1>1, <1>6, Zenon
    <2> HIDE DEF names, v, s, d
    <2>6. IsList(names) /\ Distinct(names)
      BY <2>4 DEF IsList, Distinct
    <2>7. CountOf("data", c, First(v, 3 - 1)) = v[3 - 1]
      <3>1. 3 \in 2..Len(v)
        BY <2>2
      <3>2. \A i \in 2..Len(v) : \A name : name # "statelessResetToken" => CountOf(name, c, First(v, i - 1)) = v[i - 1]
        BY <1>1, <2>2, CountBefore, ZenonT(30)
      <3> QED  BY <3>1, <3>2
    <2>8. Suits(c, names, v, 1) /\ Suits(c, names, v, 2) /\ Suits(c, names, v, 3)
      BY <1>2, <1>3, <2>2, <2>4, <2>7 DEF Suits, IsBytes
    <2>9. /\ s[1 + 1] = Item(names[1], v[1]) /\ s[2 + 1] = Item(names[2], v[2])
          /\ s[3 + 1] = Item(names[3], v[3])
      BY <2>2, <2>3, <2>4 DEF Item, IsBytes
    <2>10. Listed(c, names, v, s)
      <3> HIDE DEF e0, e1, e2, e3
      <3> QED  BY <2>2, <2>3, <2>4, <2>8, <2>9 DEF Listed, e0
    <2>11. IsFrame(f, c, names, v)
      <3>1. {names[i] : i \in {j \in DOMAIN names : names[j] # "length"}} = {"streamId", "data"}
        BY <2>4
      <3>2. {names[i] : i \in DOMAIN names} = {"streamId", "length", "data"}
        BY <2>4
      <3>3. DOMAIN f = {"type"} \cup {"streamId", "data"} \cup {"offset", "fin"}
        BY <1>2
      <3>4. \A i \in DOMAIN names : names[i] # "type"
        BY <2>4
      <3>5. \A i \in DOMAIN names : names[i] # "length" => f[names[i]] = v[i]
        BY <2>2, <2>4 DEF d
      <3>6. "fin" \notin {names[i] : i \in DOMAIN names}
        BY <3>2
      <3>7. f["offset"] = 0
        BY <1>3, <1>6
      <3> HIDE DEF names
      <3> QED  BY <1>1, <1>2, <3>1, <3>3, <3>4, <3>5, <3>6, <3>7, Zenon DEF IsFrame
    <2>12. IsFrame(Meaning(f), c, names, v)
      BY <1>1, <2>11, Zenon
    <2> QED  BY <1>1, <2>1, <2>2, <2>4, <2>5, <2>6, <2>10, <2>12, PlainSpelled
  <1> QED  BY <1>5, <1>6

-------------------------------------------------------------------------------
(***************************************************************************)
(* ACK frames: how many numbers they hold depends on one of them.          *)
(***************************************************************************)

(* The bytes w are those of the numbers v, one after the other. *)
EachEncoded(t, v) ==
    /\ v \in Seq(Number) /\ t \in ByteStrings /\ Len(t) = Len(v)
    /\ \A i \in 1..Len(v) : t[i] = EncodeVarint(v[i])

Encodes(w, v) == \E t : MadeOf(w, t) /\ EachEncoded(t, v)

LEMMA EncodesNothing == Encodes(<<>>, <<>>)
  <1>1. EachEncoded(<<>>, <<>>)
    BY DEF EachEncoded, ByteStrings
  <1> QED  BY <1>1, MadeOfNothing DEF Encodes

LEMMA EncodesBoth ==
    ASSUME NEW w, NEW v, NEW y, NEW x, Encodes(w, v), Encodes(y, x)
    PROVE  Encodes(w \o y, v \o x)
  <1>1. PICK t : MadeOf(w, t) /\ EachEncoded(t, v)
    BY DEF Encodes
  <1>2. PICK u : MadeOf(y, u) /\ EachEncoded(u, x)
    BY DEF Encodes
  <1>3. MadeOf(w \o y, t \o u)
    BY <1>1, <1>2, MadeOfBoth
  <1>4. /\ t \in Seq(Seq(Nat)) /\ u \in Seq(Seq(Nat)) /\ v \in Seq(Number) /\ x \in Seq(Number)
        /\ Len(t) = Len(v) /\ Len(u) = Len(x)
    BY <1>1, <1>2 DEF EachEncoded, ByteStrings
  <1>5. /\ t \o u \in Seq(Seq(Nat)) /\ v \o x \in Seq(Number)
        /\ Len(t \o u) = Len(v) + Len(x) /\ Len(v \o x) = Len(v) + Len(x)
    <2>1. t \o u \in Seq(Seq(Nat)) /\ Len(t \o u) = Len(t) + Len(u)
      BY <1>4, ConcatProperties
    <2>2. v \o x \in Seq(Number) /\ Len(v \o x) = Len(v) + Len(x)
      BY <1>4, ConcatProperties
    <2> QED  BY <1>4, <2>1, <2>2
  <1>6. ASSUME NEW i \in 1..Len(v \o x)
        PROVE  (t \o u)[i] = EncodeVarint((v \o x)[i])
    <2>1. Len(v) \in Nat /\ Len(x) \in Nat
      BY <1>4
    <2>2. CASE i <= Len(v)
      <3>1. i \in 1..Len(v) /\ i \in 1..Len(t)
        BY <1>4, <1>5, <2>1, <2>2
      <3>2. (t \o u)[i] = t[i] /\ (v \o x)[i] = v[i]
        BY <1>4, <3>1, ConcatPlaces
      <3> QED  BY <1>1, <3>1, <3>2 DEF EachEncoded
    <2>3. CASE ~(i <= Len(v))
      <3>1. PICK j \in 1..Len(x) : i = Len(v) + j
        <4>1. i \in 1..(Len(v) + Len(x))
          BY <1>5
        <4>2. i - Len(v) \in 1..Len(x) /\ i = Len(v) + (i - Len(v))
          BY <2>1, <2>3, <4>1
        <4> QED  BY <4>2
      <3>2. (t \o u)[Len(t) + j] = u[j] /\ (v \o x)[Len(v) + j] = x[j]
        BY <1>4, ConcatPlaces
      <3> QED  BY <1>2, <1>4, <3>1, <3>2 DEF EachEncoded
    <2> QED  BY <2>2, <2>3
  <1>7. EachEncoded(t \o u, v \o x)
    BY <1>5, <1>6 DEF EachEncoded, ByteStrings
  <1> QED  BY <1>3, <1>7 DEF Encodes

LEMMA NumbersEncode ==
    ASSUME NEW names, IsList(names), NEW f, \A i \in DOMAIN names : f[names[i]] \in Number
    PROVE  Encodes(Numbers(f, names), [i \in DOMAIN names |-> f[names[i]]])
  <1> DEFINE t == [i \in DOMAIN names |-> EncodeVarint(f[names[i]])]
             v == [i \in DOMAIN names |-> f[names[i]]]
  <1>1. MadeOf(Numbers(f, names), t)
    BY NumbersMadeOf
  <1>2. \A i \in 1..Len(names) : f[names[i]] \in Number /\ EncodeVarint(f[names[i]]) \in Seq(Nat)
    BY NumberBytes DEF IsList
  <1>3. t \in Seq(Seq(Nat)) /\ v \in Seq(Number) /\ Len(t) = Len(names) /\ Len(v) = Len(names)
    BY <1>2 DEF IsList
  <1>4. \A i \in 1..Len(names) : t[i] = EncodeVarint(v[i])
    BY DEF IsList
  <1> HIDE DEF t, v
  <1>5. EachEncoded(t, v)
    BY <1>3, <1>4 DEF EachEncoded, ByteStrings
  <1>6. Encodes(Numbers(f, names), v)
    BY <1>1, <1>5 DEF Encodes
  <1> QED  BY <1>6 DEF v

LEMMA Joined ==
    ASSUME NEW S, NEW ss \in Seq(Seq(S)), ss # <<>>, NEW F, Concatenates(F, ss),
           NEW m \in 1..Len(ss)
    PROVE  F[m] = IF m = 1 THEN ss[1] ELSE F[m - 1] \o ss[m]
  BY DEF Concatenates

LEMMA FlattenEncodes ==
    ASSUME NEW ss \in Seq(Seq(Nat)), NEW vv \in Seq(Seq(Number)), Len(ss) = Len(vv),
           \A i \in 1..Len(ss) : Encodes(ss[i], vv[i])
    PROVE  Encodes(FlattenSeq(ss), FlattenSeq(vv))
  <1> DEFINE n == Len(ss)
  <1>1. n \in Nat
    OBVIOUS
  <1>2. CASE n = 0
    <2>1. ss = <<>>
      BY <1>2, EmptySeq
    <2>2. vv = <<>>
      BY <1>2, EmptySeq
    <2>3. FlattenSeq(ss) = <<>> /\ FlattenSeq(vv) = <<>>
      BY <2>1, <2>2 DEF FlattenSeq
    <2> QED  BY <2>3, EncodesNothing
  <1>3. CASE n # 0
    <2>1. ss # <<>> /\ vv # <<>> /\ n \in 1..n /\ 1 \in 1..n
      BY <1>1, <1>3
    <2>2. PICK F \in [1..n -> Seq(Nat)] : Concatenates(F, ss) /\ FlattenSeq(ss) = F[n]
      BY <2>1, FlattenIsConcatenation
    <2>3. PICK G \in [1..n -> Seq(Number)] : Concatenates(G, vv) /\ FlattenSeq(vv) = G[n]
      BY <2>1, FlattenIsConcatenation
    <2> DEFINE T == {m \in 1..n : ~Encodes(F[m], G[m])}
    <2>4. T = {}
      <3>1. SUFFICES ASSUME T # {} PROVE FALSE
        OBVIOUS
      <3>2. T \subseteq Nat
        BY <1>1
      <3>3. PICK m \in T : \A y \in T : m <= y
        BY <3>1, <3>2, LeastElement
      <3>4. m \in 1..n /\ ~Encodes(F[m], G[m]) /\ Encodes(ss[m], vv[m])
        OBVIOUS
      <3>5. F[m] = (IF m = 1 THEN ss[1] ELSE F[m - 1] \o ss[m])
        BY <2>1, <2>2, <3>4, Joined
      <3>6. G[m] = (IF m = 1 THEN vv[1] ELSE G[m - 1] \o vv[m])
        <4>1. m \in 1..Len(vv)
          BY <3>4
        <4> QED  BY <2>1, <2>3, <4>1, Joined
      <3>7. m # 1
        BY <3>4, <3>5, <3>6
      <3>8. m - 1 \in 1..n /\ ~(m <= m - 1)
        BY <1>1, <3>4, <3>7
      <3>9. Encodes(F[m - 1], G[m - 1])
        BY <3>3, <3>8
      <3> QED  BY <3>4, <3>5, <3>6, <3>7, <3>9, EncodesBoth
    <2> QED  BY <2>1, <2>2, <2>3, <2>4
  <1> QED  BY <1>2, <1>3

(* Pairs one after the other. *)
Paired(u, S, ss, m) ==
    /\ u \in Seq(S) /\ Len(u) = 2 * m
    /\ \A i \in 1..m : u[2 * i - 1] = ss[i][1] /\ u[2 * i] = ss[i][2]

TwoMore(c, a, b, S) ==
    /\ c \in Seq(S) /\ Len(c) = Len(a) + 2
    /\ \A x \in 1..Len(a) : c[x] = a[x]
    /\ c[Len(a) + 1] = b[1] /\ c[Len(a) + 2] = b[2]

LEMMA ConcatTwo ==
    ASSUME NEW S, NEW a \in Seq(S), NEW b \in Seq(S)
    PROVE  Len(b) = 2 => TwoMore(a \o b, a, b, S)
  <1> DEFINE m == Len(a)
             l == Len(b)
             c == a \o b
  <1>1. c \in Seq(S) /\ Len(c) = m + l
    BY ConcatProperties
  <1>2. \A i \in 1..(m + l) : c[i] = IF i <= m THEN a[i] ELSE b[i - m]
    BY ConcatProperties
  <1>3. m \in Nat
    OBVIOUS
  <1> HIDE DEF m, l, c
  <1>4. ASSUME l = 2
        PROVE  /\ Len(c) = m + 2 /\ \A x \in 1..m : c[x] = a[x]
               /\ c[m + 1] = b[1] /\ c[m + 2] = b[2]
    <2>1. /\ m + 1 \in 1..(m + l) /\ ~(m + 1 <= m) /\ (m + 1) - m = 1
          /\ m + 2 \in 1..(m + l) /\ ~(m + 2 <= m) /\ (m + 2) - m = 2
          /\ \A x \in 1..m : x \in 1..(m + l) /\ x <= m
      BY <1>3, <1>4
    <2> QED  BY <1>1, <1>2, <1>4, <2>1
  <1> QED  BY <1>1, <1>4 DEF m, l, c, TwoMore

LEMMA PairedMore ==
    ASSUME NEW S, NEW ss, NEW m \in Nat, NEW a, Paired(a, S, ss, m),
           NEW b \in Seq(S), Len(b) = 2, ss[m + 1] = b
    PROVE  Paired(a \o b, S, ss, m + 1)
  <1>1. /\ a \in Seq(S) /\ Len(a) = 2 * m
        /\ \A i \in 1..m : a[2 * i - 1] = ss[i][1] /\ a[2 * i] = ss[i][2]
    BY DEF Paired
  <1>2. /\ a \o b \in Seq(S) /\ Len(a \o b) = 2 * m + 2
        /\ \A x \in 1..(2 * m) : (a \o b)[x] = a[x]
        /\ (a \o b)[2 * m + 1] = b[1] /\ (a \o b)[2 * m + 2] = b[2]
    <2>1. TwoMore(a \o b, a, b, S)
      BY <1>1, ConcatTwo
    <2> QED  BY <1>1, <2>1 DEF TwoMore
  <1>3. Len(a \o b) = 2 * (m + 1)
    BY <1>2
  <1>4. ASSUME NEW i \in 1..(m + 1)
        PROVE  (a \o b)[2 * i - 1] = ss[i][1] /\ (a \o b)[2 * i] = ss[i][2]
    <2>1. CASE i = m + 1
      <3>1. 2 * i - 1 = 2 * m + 1 /\ 2 * i = 2 * m + 2
        BY <2>1
      <3> QED  BY <1>2, <2>1, <3>1
    <2>2. CASE i # m + 1
      <3>1. i \in 1..m
        BY <2>2
      <3>2. 2 * i - 1 \in 1..(2 * m) /\ 2 * i \in 1..(2 * m)
        BY <3>1
      <3> QED  BY <1>1, <1>2, <3>1, <3>2
    <2> QED  BY <2>1, <2>2
  <1> QED  BY <1>2, <1>3, <1>4 DEF Paired

LEMMA FlattenPairs ==
    ASSUME NEW S, NEW ss \in Seq(Seq(S)), \A i \in 1..Len(ss) : Len(ss[i]) = 2
    PROVE  Paired(FlattenSeq(ss), S, ss, Len(ss))
  <1> DEFINE n == Len(ss)
  <1>1. n \in Nat /\ \A i \in 1..n : ss[i] \in Seq(S)
    OBVIOUS
  <1>2. CASE n = 0
    <2>1. ss = <<>>
      BY <1>2
    <2>2. FlattenSeq(ss) = <<>>
      BY <2>1 DEF FlattenSeq
    <2> QED  BY <1>2, <2>2 DEF Paired
  <1>3. CASE n # 0
    <2>1. ss # <<>> /\ n \in 1..n /\ 1 \in 1..n
      BY <1>1, <1>3
    <2>2. PICK F \in [1..n -> Seq(S)] : Concatenates(F, ss) /\ FlattenSeq(ss) = F[n]
      BY <2>1, FlattenIsConcatenation
    <2> DEFINE T == {m \in 1..n : ~Paired(F[m], S, ss, m)}
    <2>3. T = {}
      <3>1. SUFFICES ASSUME T # {} PROVE FALSE
        OBVIOUS
      <3>2. T \subseteq Nat
        BY <1>1
      <3>3. PICK m \in T : \A y \in T : m <= y
        BY <3>1, <3>2, LeastElement
      <3>4. m \in 1..n /\ ~Paired(F[m], S, ss, m) /\ ss[m] \in Seq(S) /\ Len(ss[m]) = 2
        BY <1>1
      <3>5. F[m] = (IF m = 1 THEN ss[1] ELSE F[m - 1] \o ss[m])
        BY <2>1, <2>2, <3>4, Joined
      <3>6. CASE m = 1
        <4>1. /\ F[m] \in Seq(S) /\ Len(F[m]) = 2 * m /\ F[m] = ss[m]
              /\ \A i \in 1..m : i = m /\ 2 * i - 1 = 1 /\ 2 * i = 2
          BY <3>4, <3>5, <3>6
        <4>2. Paired(F[m], S, ss, m)
          BY <4>1 DEF Paired
        <4> QED  BY <3>4, <4>2
      <3>7. CASE m # 1
        <4>1. m - 1 \in 1..n /\ ~(m <= m - 1) /\ m - 1 \in Nat /\ (m - 1) + 1 = m
          BY <1>1, <3>4, <3>7
        <4>2. Paired(F[m - 1], S, ss, m - 1)
          BY <3>3, <4>1
        <4>3. PICK p \in Nat : p = m - 1
          BY <4>1
        <4>4. ss[p + 1] = ss[m] /\ Paired(F[p], S, ss, p)
          BY <4>1, <4>2, <4>3
        <4>5. Paired(F[p] \o ss[m], S, ss, p + 1)
          BY <3>4, <4>4, PairedMore
        <4> QED  BY <3>4, <3>5, <3>7, <4>1, <4>3, <4>5
      <3> QED  BY <3>6, <3>7
    <2> QED  BY <2>1, <2>2, <2>3
  <1> QED  BY <1>2, <1>3

(* What is read of a type and of numbers.                                  *)
LEMMA NumbersRead ==
    ASSUME NEW c \in Codes, c \in Number, EncodeVarint(c) \in Seq(Nat),
           NEW v \in Seq(Number), Complete(c, v),
           \A k \in 0..(Len(v) - 1) : ~Complete(c, First(v, k)),
           \A i \in 1..Len(v) : ~IsBytes(Name(c, v, i)),
           NEW w, NEW y, w = EncodeVarint(c) \o y, Encodes(y, v)
    PROVE  Spells(w, c, v, Frame(c, v))
  <1> DEFINE e == EncodeVarint(c)
  <1>1. PICK t : MadeOf(y, t) /\ EachEncoded(t, v)
    BY DEF Encodes
  <1>2. t \in Seq(Seq(Nat)) /\ Len(t) = Len(v) /\ \A i \in 1..Len(v) : t[i] = EncodeVarint(v[i])
    BY <1>1 DEF EachEncoded, ByteStrings
  <1>3. MadeOf(w, <<e>> \o t)
    <2>1. MadeOf(e, <<e>>)
      BY MadeOfOne
    <2> HIDE DEF e
    <2>2. MadeOf(e \o y, <<e>> \o t)
      BY <1>1, <2>1, MadeOfBoth
    <2> QED  BY <2>2 DEF e
  <1>4. <<e>> \o t = Items(c, v)
    <2> DEFINE s == <<e>> \o t
    <2>0. e \in Seq(Nat) /\ Len(v) \in Nat
      OBVIOUS
    <2> HIDE DEF e
    <2>1. /\ s = [i \in 1..(Len(v) + 1) |-> s[i]] /\ s[1] = e
          /\ \A i \in 1..Len(v) : s[i + 1] = t[i]
      BY <1>2, <2>0
    <2> HIDE DEF s
    <2>2. ASSUME NEW i \in 1..(Len(v) + 1) PROVE s[i] = Items(c, v)[i]
      <3>1. CASE i = 1
        BY <2>1, <3>1 DEF Items, e
      <3>2. CASE i # 1
        <4>1. PICK k \in 1..Len(v) : k = i - 1
          BY <2>0, <3>2
        <4>2. i = k + 1
          BY <4>1
        <4>3. s[i] = EncodeVarint(v[k])
          BY <1>2, <2>1, <4>2
        <4>4. ~IsBytes(Name(c, v, k))
          OBVIOUS
        <4>5. Items(c, v)[i] = Item(Name(c, v, i - 1), v[i - 1])
          BY <3>2 DEF Items
        <4> QED  BY <4>1, <4>3, <4>4, <4>5 DEF Item
      <3> QED  BY <3>1, <3>2
    <2>3. Items(c, v) = [i \in 1..(Len(v) + 1) |-> Items(c, v)[i]]
      BY DEF Items
    <2>4. s = Items(c, v)
      BY <2>1, <2>2, <2>3
    <2> QED  BY <2>4 DEF s
  <1>5. \A i \in 1..Len(v) : Expected(c, v, i)
    BY DEF Expected
  <1>6. v \in Seq(Values)
    <2>1. \A i \in 1..Len(v) : v[i] \in Values
      BY NumberBytes
    <2> QED  BY <2>1
  <1> QED  BY <1>3, <1>4, <1>5, <1>6 DEF Spells

AckNames == {"largestAck", "ackDelay", "ackRangeCount", "firstAckRange", "gap",
             "ackRangeLength", "ect0", "ect1", "ce"}

AckList(n, ecn) ==
    <<"largestAck", "ackDelay", "ackRangeCount", "firstAckRange">>
      \o FlattenSeq([i \in 1..n |-> <<"gap", "ackRangeLength">>])
      \o (IF ecn THEN <<"ect0", "ect1", "ce">> ELSE <<>>)

AckLength(n, ecn) == 4 + 2 * n + (IF ecn THEN 3 ELSE 0)

LEMMA AckListLength ==
    ASSUME NEW n \in Nat, NEW ecn \in BOOLEAN
    PROVE  AckList(n, ecn) \in Seq(AckNames) /\ Len(AckList(n, ecn)) = AckLength(n, ecn)
  <1> DEFINE h == <<"largestAck", "ackDelay", "ackRangeCount", "firstAckRange">>
             pair == <<"gap", "ackRangeLength">>
             ss == [i \in 1..n |-> pair]
             m == FlattenSeq(ss)
             t == IF ecn THEN <<"ect0", "ect1", "ce">> ELSE <<>>
  <1>1. pair \in Seq(AckNames) /\ Len(pair) = 2
    BY DEF AckNames
  <1>2. h \in Seq(AckNames) /\ Len(h) = 4
    BY DEF AckNames
  <1>3. t \in Seq(AckNames) /\ Len(t) = IF ecn THEN 3 ELSE 0
    <2>1. <<"ect0", "ect1", "ce">> \in Seq(AckNames) /\ Len(<<"ect0", "ect1", "ce">>) = 3
      BY DEF AckNames
    <2>2. <<>> \in Seq(AckNames) /\ Len(<<>>) = 0
      OBVIOUS
    <2> QED  BY <2>1, <2>2
  <1> HIDE DEF pair
  <1>4. ss \in Seq(Seq(AckNames)) /\ Len(ss) = n /\ \A i \in 1..Len(ss) : Len(ss[i]) = 2
    <2>1. ss \in Seq(Seq(AckNames)) /\ Len(ss) = n
      BY <1>1
    <2>2. \A i \in 1..n : ss[i] = pair
      OBVIOUS
    <2> QED  BY <1>1, <2>1, <2>2
  <1> HIDE DEF ss
  <1>5. Paired(m, AckNames, ss, Len(ss))
    BY <1>4, FlattenPairs
  <1>6. m \in Seq(AckNames) /\ Len(m) = 2 * n
    BY <1>4, <1>5 DEF Paired
  <1>7. AckList(n, ecn) = (h \o m) \o t
    BY DEF AckList, ss, pair
  <1> HIDE DEF h, m, t
  <1>8. h \o m \in Seq(AckNames) /\ Len(h \o m) = 4 + 2 * n
    <2>1. h \o m \in Seq(AckNames) /\ Len(h \o m) = Len(h) + Len(m)
      BY <1>2, <1>6, ConcatProperties
    <2> QED  BY <1>2, <1>6, <2>1
  <1>9. (h \o m) \o t \in Seq(AckNames) /\ Len((h \o m) \o t) = Len(h \o m) + Len(t)
    BY <1>3, <1>8, ConcatProperties
  <1> QED  BY <1>3, <1>7, <1>8, <1>9 DEF AckLength

LEMMA AckFieldsAre ==
    ASSUME NEW c \in Acks, NEW b
    PROVE  Fields(c, b) = AckList(IF Len(b) < 3 THEN 0 ELSE b[3], c = TypeCode.ACK_ECN)
  <1>1. c \in {2, 3}
    BY DEF Acks, TypeCode
  <1>2. /\ c # TypeCode.RESET_STREAM /\ c # TypeCode.STOP_SENDING /\ c # TypeCode.CRYPTO
        /\ c # TypeCode.NEW_TOKEN /\ c \notin StreamCodes
    BY <1>1 DEF TypeCode, StreamCodes
  <1>3. /\ c \notin {TypeCode.MAX_DATA, TypeCode.MAX_STREAMS_BIDI, TypeCode.MAX_STREAMS_UNI}
        /\ c # TypeCode.MAX_STREAM_DATA
        /\ c \notin {TypeCode.DATA_BLOCKED, TypeCode.STREAMS_BLOCKED_BIDI,
                     TypeCode.STREAMS_BLOCKED_UNI}
        /\ c # TypeCode.STREAM_DATA_BLOCKED
    BY <1>1 DEF TypeCode
  <1>4. /\ c # TypeCode.NEW_CONNECTION_ID /\ c # TypeCode.RETIRE_CONNECTION_ID
        /\ c \notin {TypeCode.PATH_CHALLENGE, TypeCode.PATH_RESPONSE}
        /\ c \notin {TypeCode.CONNECTION_CLOSE, TypeCode.CONNECTION_CLOSE_APP}
    BY <1>1 DEF TypeCode
  <1>5. Fields(c, b) = AckFields(c, b)
    BY <1>2, <1>3, <1>4 DEF Fields, Acks
  <1>6. AckFields(c, b) = AckList(IF Len(b) < 3 THEN 0 ELSE b[3], c = TypeCode.ACK_ECN)
    BY Zenon DEF AckFields, AckList
  <1> QED  BY <1>5, <1>6

LEMMA AckComplete ==
    ASSUME NEW c \in Acks, NEW n \in Nat, NEW v \in Seq(Number),
           Len(v) = AckLength(n, c = TypeCode.ACK_ECN), v[3] = n
    PROVE  /\ Complete(c, v) /\ \A k \in 0..(Len(v) - 1) : ~Complete(c, First(v, k))
           /\ \A i \in 1..Len(v) : ~IsBytes(Name(c, v, i))
  <1> DEFINE ecn == c = TypeCode.ACK_ECN
             told(b) == IF Len(b) < 3 THEN 0 ELSE b[3]
  <1>1. ecn \in BOOLEAN
    OBVIOUS
  <1>2. Len(v) = AckLength(n, ecn)
    OBVIOUS
  <1>3. \A b : Fields(c, b) = AckList(told(b), ecn)
    BY AckFieldsAre
  <1> HIDE DEF ecn
  <1>4. Len(v) = 4 + 2 * n + (IF ecn THEN 3 ELSE 0) /\ Len(v) \in Nat /\ Len(v) >= 4 /\ ~(Len(v) < 3)
    BY <1>1, <1>2 DEF AckLength
  <1>5. Complete(c, v)
    <2>1. Fields(c, v) = AckList(n, ecn)
      BY <1>3, <1>4
    <2>2. Len(AckList(n, ecn)) = AckLength(n, ecn)
      BY <1>1, AckListLength
    <2> QED  BY <1>2, <2>1, <2>2 DEF Complete
  <1>6. ASSUME NEW k \in 0..(Len(v) - 1)
        PROVE  /\ Len(First(v, k)) = k
               /\ told(First(v, k)) = IF k < 3 THEN 0 ELSE n
    <2>1. Len(First(v, k)) = k
      BY <1>4 DEF First
    <2>2. k >= 3 => First(v, k)[3] = v[3]
      BY <1>4 DEF First
    <2> QED  BY <2>1, <2>2
  <1> HIDE DEF told
  <1>7. ASSUME NEW k \in 0..(Len(v) - 1) PROVE ~Complete(c, First(v, k))
    <2> DEFINE m == told(First(v, k))
    <2>1. m \in Nat /\ m = (IF k < 3 THEN 0 ELSE n) /\ k \in Nat /\ k < Len(v) /\ Len(First(v, k)) = k
      BY <1>4, <1>6
    <2> HIDE DEF m
    <2>2. Len(AckList(m, ecn)) = AckLength(m, ecn)
      BY <1>1, <2>1, AckListLength
    <2>3. AckLength(m, ecn) # k
      BY <1>1, <1>4, <2>1 DEF AckLength
    <2>4. Fields(c, First(v, k)) = AckList(m, ecn)
      BY <1>3 DEF m
    <2> QED  BY <2>1, <2>2, <2>3, <2>4 DEF Complete
  <1>8. ASSUME NEW i \in 1..Len(v) PROVE ~IsBytes(Name(c, v, i))
    <2> DEFINE m == told(First(v, i - 1))
    <2>0. i - 1 \in 0..(Len(v) - 1) /\ i \in Nat /\ i >= 1 /\ i <= Len(v)
      BY <1>4
    <2>1. m \in Nat /\ m = (IF i - 1 < 3 THEN 0 ELSE n)
      BY <1>6, <2>0
    <2> HIDE DEF m
    <2>2. AckList(m, ecn) \in Seq(AckNames) /\ Len(AckList(m, ecn)) = AckLength(m, ecn)
      BY <1>1, <2>1, AckListLength
    <2>3. AckLength(m, ecn) \in Nat /\ i <= AckLength(m, ecn)
      BY <1>1, <1>4, <2>0, <2>1 DEF AckLength
    <2>4. AckList(m, ecn)[i] \in AckNames
      BY <2>0, <2>2, <2>3
    <2>5. Name(c, v, i) = AckList(m, ecn)[i]
      BY <1>3 DEF Name, m
    <2> QED  BY <2>4, <2>5 DEF IsBytes, AckNames
  <1> QED  BY <1>5, <1>7, <1>8

WithCounts(f) == f.type = "ACK_ECN" /\ "ecnCounts" \in DOMAIN f

LEMMA AckParts ==
    ASSUME NEW f \in AckFrames
    PROVE  /\ f.type \in {"ACK", "ACK_ECN"} /\ f = [x \in DOMAIN f |-> f[x]]
           /\ f.largestAck \in Number /\ f.ackDelay \in Number /\ f.firstAckRange \in Number
           /\ f.ackRangeCount \in Number /\ f.ackRangeCount = Len(f.ackRanges)
           /\ f.ackRanges \in Seq(AckRange)
           /\ WithCounts(f) => f.ecnCounts \in EcnCounts
           /\ DOMAIN f = {"type", "largestAck", "ackDelay", "ackRangeCount", "firstAckRange",
                          "ackRanges"} \cup (IF WithCounts(f) THEN {"ecnCounts"} ELSE {})
  <1>1. f.ackRangeCount = Len(f.ackRanges)
    BY DEF AckFrames
  <1>2. CASE f \in [type : {"ACK", "ACK_ECN"}, largestAck : Number, ackDelay : Number,
                    ackRangeCount : Number, firstAckRange : Number, ackRanges : Seq(AckRange)]
    <2>1. ~WithCounts(f)
      BY <1>2 DEF WithCounts
    <2> HIDE DEF WithCounts
    <2>2. /\ f.type \in {"ACK", "ACK_ECN"} /\ f = [x \in DOMAIN f |-> f[x]]
          /\ f.largestAck \in Number /\ f.ackDelay \in Number /\ f.firstAckRange \in Number
          /\ f.ackRangeCount \in Number /\ f.ackRanges \in Seq(AckRange)
          /\ DOMAIN f = {"type", "largestAck", "ackDelay", "ackRangeCount", "firstAckRange",
                         "ackRanges"}
      BY <1>2
    <2> QED  BY <1>1, <2>1, <2>2
  <1>3. CASE f \in [type : {"ACK_ECN"}, largestAck : Number, ackDelay : Number,
                    ackRangeCount : Number, firstAckRange : Number, ackRanges : Seq(AckRange),
                    ecnCounts : EcnCounts]
    <2>1. WithCounts(f)
      BY <1>3 DEF WithCounts
    <2>2. /\ f.type \in {"ACK", "ACK_ECN"} /\ f = [x \in DOMAIN f |-> f[x]]
          /\ f.largestAck \in Number /\ f.ackDelay \in Number /\ f.firstAckRange \in Number
          /\ f.ackRangeCount \in Number /\ f.ackRanges \in Seq(AckRange) /\ f.ecnCounts \in EcnCounts
          /\ DOMAIN f = {"type", "largestAck", "ackDelay", "ackRangeCount", "firstAckRange",
                         "ackRanges", "ecnCounts"}
      BY <1>3
    <2> QED  BY <1>1, <2>1, <2>2
  <1> QED  BY <1>2, <1>3 DEF AckFrames

(* Where the numbers of an ACK frame are.                                  *)
AckNumbers(f, v) ==
    LET n == Len(f.ackRanges) IN
    /\ v \in Seq(Number) /\ Len(v) = AckLength(n, WithCounts(f))
    /\ v[1] = f["largestAck"] /\ v[2] = f["ackDelay"]
    /\ v[3] = f["ackRangeCount"] /\ v[4] = f["firstAckRange"]
    /\ \A i \in 1..n : v[2 + 2 * i + 1] = f.ackRanges[i]["gap"] /\ v[2 + 2 * i + 2] = f.ackRanges[i]["ackRangeLength"]
    /\ WithCounts(f) => /\ v[4 + 2 * n + 1] = f.ecnCounts["ect0"]
                        /\ v[4 + 2 * n + 2] = f.ecnCounts["ect1"]
                        /\ v[4 + 2 * n + 3] = f.ecnCounts["ce"]

Parts(h, n, m, t, l) ==
    /\ h \in Seq(Number) /\ Len(h) = 4 /\ n \in Nat /\ m \in Seq(Number) /\ Len(m) = 2 * n
    /\ t \in Seq(Number) /\ l \in {0, 3} /\ Len(t) = l

PartsJoined(v, h, n, m, t, l) ==
    /\ v \in Seq(Number) /\ Len(v) = 4 + 2 * n + l
    /\ \A i \in 1..4 : v[i] = h[i]
    /\ \A i \in 1..(2 * n) : v[4 + i] = m[i]
    /\ \A i \in 1..l : v[4 + 2 * n + i] = t[i]

LEMMA AckPlaces ==
    ASSUME NEW h, NEW n, NEW m, NEW t, NEW l, Parts(h, n, m, t, l)
    PROVE  PartsJoined(h \o (m \o t), h, n, m, t, l)
  <1> DEFINE v == h \o (m \o t)
  <1>0. /\ h \in Seq(Number) /\ Len(h) = 4 /\ n \in Nat /\ m \in Seq(Number) /\ Len(m) = 2 * n
        /\ t \in Seq(Number) /\ l \in {0, 3} /\ Len(t) = l
    BY DEF Parts
  <1>1. m \o t \in Seq(Number) /\ Len(m \o t) = 2 * n + l
    <2>1. m \o t \in Seq(Number) /\ Len(m \o t) = Len(m) + Len(t)
      BY <1>0, ConcatProperties
    <2> QED  BY <1>0, <2>1
  <1>2. v \in Seq(Number) /\ Len(v) = 4 + 2 * n + l
    <2>1. h \o (m \o t) \in Seq(Number) /\ Len(h \o (m \o t)) = Len(h) + Len(m \o t)
      BY <1>0, <1>1, ConcatProperties
    <2> QED  BY <1>0, <1>1, <2>1
  <1>3. /\ \A i \in 1..4 : v[i] = h[i]
        /\ \A i \in 1..(2 * n + l) : v[4 + i] = (m \o t)[i]
    <2> DEFINE u == m \o t
               k == 2 * n + l
    <2>1. u \in Seq(Number) /\ Len(u) = k /\ v = h \o u /\ k \in Nat
      BY <1>0, <1>1
    <2> HIDE DEF u, k, v
    <2>2. \A i \in 1..(4 + k) : v[i] = IF i <= 4 THEN h[i] ELSE u[i - 4]
      <3>1. \A i \in 1..(Len(h) + Len(u)) : (h \o u)[i] = IF i <= Len(h) THEN h[i] ELSE u[i - Len(h)]
        BY <1>0, <2>1, ConcatProperties
      <3> QED  BY <1>0, <2>1, <3>1
    <2>3. /\ \A i \in 1..4 : i \in 1..(4 + k) /\ i <= 4
          /\ \A i \in 1..k : 4 + i \in 1..(4 + k) /\ ~(4 + i <= 4) /\ (4 + i) - 4 = i
      BY <2>1
    <2>4. (\A i \in 1..4 : v[i] = h[i]) /\ \A i \in 1..k : v[4 + i] = u[i]
      BY <2>2, <2>3
    <2> QED  BY <2>4 DEF u, k
  <1>5. ASSUME NEW i \in 1..(2 * n) PROVE (m \o t)[i] = m[i] /\ i \in 1..(2 * n + l)
    BY <1>0
  <1>6. ASSUME NEW i \in 1..l PROVE (m \o t)[2 * n + i] = t[i] /\ 2 * n + i \in 1..(2 * n + l)
                                    /\ 4 + (2 * n + i) = 4 + 2 * n + i
    BY <1>0
  <1>7. ASSUME NEW i \in 1..(2 * n) PROVE v[4 + i] = m[i]
    BY <1>3, <1>5
  <1>8. ASSUME NEW i \in 1..l PROVE v[4 + 2 * n + i] = t[i]
    BY <1>3, <1>6
  <1> QED  BY <1>2, <1>3, <1>7, <1>8 DEF PartsJoined

Regroups(a, b, c) == (a \o b) \o c = a \o (b \o c)
RegroupsFour(a, b, c, d) == ((a \o b) \o c) \o d = a \o (b \o (c \o d))

LEMMA ConcatThree == \A a, b, c \in Seq(Nat) : Regroups(a, b, c)
  BY DEF Regroups

LEMMA ConcatFour ==
    ASSUME NEW a \in Seq(Nat), NEW b \in Seq(Nat), NEW c \in Seq(Nat), NEW d \in Seq(Nat)
    PROVE  RegroupsFour(a, b, c, d)
  <1>1. a \o b \in Seq(Nat) /\ c \o d \in Seq(Nat)
    BY ConcatProperties
  <1>2. Regroups(a \o b, c, d)
    BY <1>1, ConcatThree
  <1>3. Regroups(a, b, c \o d)
    BY <1>1, ConcatThree
  <1> QED  BY <1>2, <1>3, Zenon DEF Regroups, RegroupsFour

LEMMA AckEncoded ==
    ASSUME NEW f \in AckFrames, NEW c,
           c = (IF WithCounts(f) THEN TypeCode.ACK_ECN ELSE TypeCode.ACK),
           EncodeVarint(c) \in Seq(Nat)
    PROVE  \E v, y : SerializeAck(f) = EncodeVarint(c) \o y /\ Encodes(y, v) /\ AckNumbers(f, v)
  <1> DEFINE four == <<"largestAck", "ackDelay", "ackRangeCount", "firstAckRange">>
             pair == <<"gap", "ackRangeLength">>
             three == <<"ect0", "ect1", "ce">>
             rs == f.ackRanges
             n == Len(rs)
             ecn == WithCounts(f)
             h == [i \in DOMAIN four |-> f[four[i]]]
             ss == [i \in DOMAIN rs |-> Numbers(rs[i], pair)]
             vv == [i \in DOMAIN rs |-> [j \in DOMAIN pair |-> rs[i][pair[j]]]]
             m == FlattenSeq(vv)
             counts == [i \in DOMAIN three |-> f.ecnCounts[three[i]]]
             t == IF ecn THEN counts ELSE <<>>
             e == EncodeVarint(c)
             y1 == Numbers(f, four)
             y2 == FlattenSeq(ss)
             y3 == IF ecn THEN Numbers(f.ecnCounts, three) ELSE <<>>
  <1>1. /\ f["largestAck"] \in Number /\ f["ackDelay"] \in Number /\ f["firstAckRange"] \in Number
        /\ f["ackRangeCount"] \in Number /\ rs \in Seq(AckRange) /\ n \in Nat /\ DOMAIN rs = 1..n
        /\ ecn => f.ecnCounts \in EcnCounts
    <2>1. /\ f["largestAck"] \in Number /\ f["ackDelay"] \in Number /\ f["firstAckRange"] \in Number
          /\ f["ackRangeCount"] \in Number /\ rs \in Seq(AckRange)
          /\ ecn => f.ecnCounts \in EcnCounts
      BY AckParts
    <2>2. n \in Nat /\ DOMAIN rs = 1..n
      BY <2>1
    <2> QED  BY <2>1, <2>2
  <1>2. ecn \in BOOLEAN
    BY DEF WithCounts
  <1>3. SerializeAck(f) = ((e \o y1) \o y2) \o y3
    BY Zenon DEF SerializeAck, WithCounts
  <1>4. /\ IsList(four) /\ DOMAIN four = {1, 2, 3, 4} /\ Len(four) = 4 /\ 1..4 = {1, 2, 3, 4}
        /\ four[1] = "largestAck" /\ four[2] = "ackDelay" /\ four[3] = "ackRangeCount"
        /\ four[4] = "firstAckRange"
    BY DEF IsList
  <1>5. /\ IsList(pair) /\ DOMAIN pair = {1, 2} /\ Len(pair) = 2 /\ 1..2 = {1, 2}
        /\ pair[1] = "gap" /\ pair[2] = "ackRangeLength"
    BY DEF IsList
  <1>6. /\ IsList(three) /\ DOMAIN three = {1, 2, 3} /\ Len(three) = 3 /\ 1..3 = {1, 2, 3}
        /\ three[1] = "ect0" /\ three[2] = "ect1" /\ three[3] = "ce"
    BY DEF IsList
  <1> HIDE DEF four, pair, three, ecn, rs
  <1>7. /\ Encodes(y1, h) /\ h \in Seq(Number) /\ Len(h) = 4
        /\ h[1] = f["largestAck"] /\ h[2] = f["ackDelay"]
        /\ h[3] = f["ackRangeCount"] /\ h[4] = f["firstAckRange"]
    <2>1. \A i \in DOMAIN four : f[four[i]] \in Number
      BY <1>1, <1>4
    <2>2. Encodes(y1, h)
      BY <1>4, <2>1, NumbersEncode
    <2>3. DOMAIN h = 1..4 /\ \A i \in 1..4 : h[i] \in Number
      BY <1>4, <2>1
    <2>4. h = [i \in 1..4 |-> h[i]]
      BY <1>4
    <2>5. h[1] = f["largestAck"] /\ h[2] = f["ackDelay"] /\ h[3] = f["ackRangeCount"] /\ h[4] = f["firstAckRange"]
      BY <1>4
    <2> HIDE DEF h
    <2>6. h \in Seq(Number) /\ Len(h) = 4
      BY <2>3, <2>4
    <2> QED  BY <2>2, <2>5, <2>6
  <1>8. ASSUME NEW r \in AckRange
        PROVE  /\ [j \in DOMAIN pair |-> r[pair[j]]] \in Seq(Number)
               /\ Len([j \in DOMAIN pair |-> r[pair[j]]]) = 2
               /\ [j \in DOMAIN pair |-> r[pair[j]]][1] = r["gap"]
               /\ [j \in DOMAIN pair |-> r[pair[j]]][2] = r["ackRangeLength"]
               /\ Encodes(Numbers(r, pair), [j \in DOMAIN pair |-> r[pair[j]]])
               /\ Numbers(r, pair) \in Seq(Nat)
    <2> DEFINE g == [j \in DOMAIN pair |-> r[pair[j]]]
    <2>1. r["gap"] \in Number /\ r["ackRangeLength"] \in Number
      BY DEF AckRange
    <2>2. \A j \in DOMAIN pair : r[pair[j]] \in Number
      BY <1>5, <2>1
    <2>3. Encodes(Numbers(r, pair), g)
      BY <1>5, <2>2, NumbersEncode
    <2>4. Numbers(r, pair) \in Seq(Nat)
      BY <2>3 DEF Encodes, MadeOf
    <2>5. DOMAIN g = 1..2 /\ (\A i \in 1..2 : g[i] \in Number) /\ g = [i \in 1..2 |-> g[i]]
      BY <1>5, <2>2
    <2>6. g[1] = r["gap"] /\ g[2] = r["ackRangeLength"]
      BY <1>5
    <2> HIDE DEF g
    <2>7. g \in Seq(Number) /\ Len(g) = 2
      BY <2>5
    <2>8. /\ g \in Seq(Number) /\ Len(g) = 2 /\ g[1] = r["gap"] /\ g[2] = r["ackRangeLength"]
          /\ Encodes(Numbers(r, pair), g) /\ Numbers(r, pair) \in Seq(Nat)
      BY <2>3, <2>4, <2>6, <2>7
    <2> QED  BY <2>8 DEF g
  <1>9. \A i \in 1..n : rs[i] \in AckRange
    BY <1>1
  <1>10. /\ ss = [i \in 1..n |-> ss[i]] /\ vv = [i \in 1..n |-> vv[i]]
         /\ \A i \in 1..n : /\ ss[i] \in Seq(Nat) /\ vv[i] \in Seq(Number) /\ Len(vv[i]) = 2
                            /\ vv[i][1] = rs[i]["gap"] /\ vv[i][2] = rs[i]["ackRangeLength"]
                            /\ Encodes(ss[i], vv[i])
    <2>1. ss = [i \in 1..n |-> ss[i]] /\ vv = [i \in 1..n |-> vv[i]]
      BY <1>1
    <2>2. ASSUME NEW i \in 1..n
          PROVE  /\ ss[i] = Numbers(rs[i], pair) /\ vv[i] = [j \in DOMAIN pair |-> rs[i][pair[j]]]
                 /\ rs[i] \in AckRange
      BY <1>1, <1>9
    <2> HIDE DEF ss, vv, n
    <2>3. ASSUME NEW i \in 1..n
          PROVE  /\ ss[i] \in Seq(Nat) /\ vv[i] \in Seq(Number) /\ Len(vv[i]) = 2
                 /\ vv[i][1] = rs[i]["gap"] /\ vv[i][2] = rs[i]["ackRangeLength"]
                 /\ Encodes(ss[i], vv[i])
      <3>1. PICK q \in AckRange : q = rs[i]
        BY <2>2
      <3> DEFINE g == [j \in DOMAIN pair |-> q[pair[j]]]
      <3>2. /\ g \in Seq(Number) /\ Len(g) = 2 /\ g[1] = q["gap"] /\ g[2] = q["ackRangeLength"]
            /\ Encodes(Numbers(q, pair), g) /\ Numbers(q, pair) \in Seq(Nat)
        BY <1>8
      <3>3. ss[i] = Numbers(q, pair) /\ vv[i] = g
        BY <2>2, <3>1
      <3> HIDE DEF g
      <3> QED  BY <3>1, <3>2, <3>3
    <2> QED  BY <2>1, <2>3
  <1> HIDE DEF ss, vv, h, n
  <1>11. ss \in Seq(Seq(Nat)) /\ vv \in Seq(Seq(Number)) /\ Len(ss) = n /\ Len(vv) = n
    <2>1. n \in Nat
      BY <1>1 DEF n
    <2>4. /\ ss = [i \in 1..n |-> ss[i]] /\ \A i \in 1..n : ss[i] \in Seq(Nat)
      BY <1>10
    <2>5. /\ vv = [i \in 1..n |-> vv[i]] /\ \A i \in 1..n : vv[i] \in Seq(Number)
      BY <1>10
    <2>2. ss \in Seq(Seq(Nat)) /\ Len(ss) = n
      BY <2>1, <2>4, SMTT(30)
    <2>3. vv \in Seq(Seq(Number)) /\ Len(vv) = n
      BY <2>1, <2>5
    <2> QED  BY <2>2, <2>3
  <1>12. Encodes(y2, m)
    BY <1>10, <1>11, FlattenEncodes
  <1>13. Paired(m, Number, vv, n)
    BY <1>10, <1>11, FlattenPairs
  <1> HIDE DEF m
  <1>14. /\ m \in Seq(Number) /\ Len(m) = 2 * n
         /\ \A i \in 1..n : m[2 * i - 1] = rs[i]["gap"] /\ m[2 * i] = rs[i]["ackRangeLength"]
    BY <1>10, <1>13 DEF Paired
  <1>15. /\ Encodes(y3, t) /\ t \in Seq(Number) /\ Len(t) = (IF ecn THEN 3 ELSE 0)
         /\ ecn => /\ t[1] = f.ecnCounts["ect0"] /\ t[2] = f.ecnCounts["ect1"]
                   /\ t[3] = f.ecnCounts["ce"]
    <2>1. CASE ecn
      <3>1. /\ f.ecnCounts["ect0"] \in Number /\ f.ecnCounts["ect1"] \in Number
            /\ f.ecnCounts["ce"] \in Number
        BY <1>1, <2>1 DEF EcnCounts
      <3>2. \A i \in DOMAIN three : f.ecnCounts[three[i]] \in Number
        BY <1>6, <3>1
      <3>3. Encodes(Numbers(f.ecnCounts, three), counts)
        BY <1>6, <3>2, NumbersEncode
      <3>4. DOMAIN counts = 1..3 /\ (\A i \in 1..3 : counts[i] \in Number) /\ counts = [i \in 1..3 |-> counts[i]]
        BY <1>6, <3>2
      <3>5. /\ counts[1] = f.ecnCounts["ect0"] /\ counts[2] = f.ecnCounts["ect1"]
            /\ counts[3] = f.ecnCounts["ce"]
        BY <1>6
      <3> HIDE DEF counts
      <3>6. counts \in Seq(Number) /\ Len(counts) = 3
        BY <3>4
      <3> QED  BY <2>1, <3>3, <3>5, <3>6
    <2>2. CASE ~ecn
      <3>1. <<>> \in Seq(Number) /\ Len(<<>>) = 0
        OBVIOUS
      <3> QED  BY <2>2, <3>1, EncodesNothing
    <2> QED  BY <2>1, <2>2
  <1> HIDE DEF y1, y2, y3, t, e
  <1> DEFINE v == h \o (m \o t)
             y == y1 \o (y2 \o y3)
  <1>16. Encodes(y, v)
    <2>1. Encodes(y2 \o y3, m \o t)
      BY <1>12, <1>15, EncodesBoth
    <2> QED  BY <1>7, <2>1, EncodesBoth
  <1>17. SerializeAck(f) = e \o y
    <2>1. e \in Seq(Nat) /\ y1 \in Seq(Nat) /\ y2 \in Seq(Nat) /\ y3 \in Seq(Nat)
      BY <1>7, <1>12, <1>15 DEF Encodes, MadeOf, e
    <2>2. RegroupsFour(e, y1, y2, y3)
      BY <2>1, ConcatFour
    <2> QED  BY <1>3, <2>2, Zenon DEF RegroupsFour
  <1>18. AckNumbers(f, v)
    <2> DEFINE l == Len(t)
    <2>1. l \in {0, 3} /\ l = (IF ecn THEN 3 ELSE 0) /\ n \in Nat
      BY <1>1, <1>2, <1>15 DEF n
    <2> HIDE DEF l
    <2>0. Parts(h, n, m, t, l)
      BY <1>7, <1>14, <1>15, <2>1 DEF Parts, l
    <2>7. PartsJoined(v, h, n, m, t, l)
      BY <2>0, AckPlaces
    <2> HIDE DEF v
    <2>2. /\ v \in Seq(Number) /\ Len(v) = 4 + 2 * n + l
          /\ \A i \in 1..4 : v[i] = h[i]
          /\ \A i \in 1..(2 * n) : v[4 + i] = m[i]
          /\ \A i \in 1..l : v[4 + 2 * n + i] = t[i]
      BY <2>7 DEF PartsJoined
    <2>3. /\ v[1] = f["largestAck"] /\ v[2] = f["ackDelay"]
          /\ v[3] = f["ackRangeCount"] /\ v[4] = f["firstAckRange"]
      BY <1>7, <2>2
    <2>4. ASSUME NEW i \in 1..n
          PROVE  v[2 + 2 * i + 1] = rs[i]["gap"] /\ v[2 + 2 * i + 2] = rs[i]["ackRangeLength"]
      <3>1. /\ 2 * i - 1 \in 1..(2 * n) /\ 2 * i \in 1..(2 * n)
            /\ 2 + 2 * i + 1 = 4 + (2 * i - 1) /\ 2 + 2 * i + 2 = 4 + 2 * i
        BY <2>1
      <3> QED  BY <1>14, <2>2, <3>1
    <2>5. ASSUME ecn
          PROVE  /\ v[4 + 2 * n + 1] = f.ecnCounts["ect0"] /\ v[4 + 2 * n + 2] = f.ecnCounts["ect1"]
                 /\ v[4 + 2 * n + 3] = f.ecnCounts["ce"]
      <3>1. 1 \in 1..l /\ 2 \in 1..l /\ 3 \in 1..l
        BY <2>1, <2>5
      <3> QED  BY <1>15, <2>2, <2>5, <3>1
    <2>6. Len(v) = AckLength(n, ecn)
      BY <2>1, <2>2 DEF AckLength
    <2> QED  BY <2>2, <2>3, <2>4, <2>5, <2>6 DEF AckNumbers, n, rs, ecn
  <1> QED  BY <1>16, <1>17, <1>18 DEF e

IsPicked(r, names, v, from) ==
    /\ r = [x \in DOMAIN r |-> r[x]] /\ DOMAIN r = {names[j] : j \in DOMAIN names}
    /\ \A i \in 1..Len(names) : r[names[i]] = v[from + i]

LEMMA PickIs ==
    ASSUME NEW names, IsList(names), Distinct(names), NEW v, NEW from \in Nat,
           NEW r, IsPicked(r, names, v, from)
    PROVE  Pick(names, v, from) = r
  <1> DEFINE p == Pick(names, v, from)
  <1>1. /\ DOMAIN p = {names[j] : j \in DOMAIN names}
        /\ \A i \in 1..Len(names) : p[names[i]] = v[from + i]
    BY Picked
  <1>2. p = [x \in DOMAIN p |-> p[x]]
    BY DEF Pick
  <1> HIDE DEF p
  <1>3. ASSUME NEW x \in DOMAIN r PROVE r[x] = p[x]
    <2>1. PICK i \in DOMAIN names : x = names[i]
      BY DEF IsPicked
    <2>2. i \in 1..Len(names)
      BY DEF IsList
    <2>3. r[names[i]] = v[from + i] /\ p[names[i]] = v[from + i]
      BY <1>1, <2>2 DEF IsPicked
    <2> QED  BY <2>1, <2>3
  <1>4. p = r
    BY <1>1, <1>2, <1>3 DEF IsPicked
  <1> QED  BY <1>4 DEF p

LEMMA AckMeaning ==
    ASSUME NEW f \in AckFrames
    PROVE  /\ Meaning(f) = [x \in DOMAIN Meaning(f) |-> Meaning(f)[x]]
           /\ DOMAIN Meaning(f) = DOMAIN f
           /\ Meaning(f)["type"] = IF WithCounts(f) THEN "ACK_ECN" ELSE "ACK"
           /\ \A x \in DOMAIN f : x # "type" => Meaning(f)[x] = f[x]
  <1>1. f = [x \in DOMAIN f |-> f[x]] /\ "type" \in DOMAIN f /\ f.type \in {"ACK", "ACK_ECN"}
    BY AckParts
  <1>2. CASE f.type = "ACK_ECN" /\ "ecnCounts" \notin DOMAIN f
    <2>1. Meaning(f) = [f EXCEPT !.type = "ACK"]
      BY <1>2 DEF Meaning
    <2> QED  BY <1>1, <1>2, <2>1 DEF WithCounts
  <1>3. CASE ~(f.type = "ACK_ECN" /\ "ecnCounts" \notin DOMAIN f)
    <2>1. Meaning(f) = f
      BY <1>1, <1>3 DEF Meaning
    <2> QED  BY <1>1, <1>3, <2>1 DEF WithCounts
  <1> QED  BY <1>2, <1>3

LEMMA AckCode ==
    ASSUME NEW ecn \in BOOLEAN, NEW c, c = IF ecn THEN TypeCode.ACK_ECN ELSE TypeCode.ACK
    PROVE  /\ c \in Acks /\ c \in Codes /\ c \in Number /\ EncodeVarint(c) \in Seq(Nat)
           /\ c = TypeCode.ACK_ECN <=> ecn
           /\ TypeOf(c) = IF ecn THEN "ACK_ECN" ELSE "ACK"
  <1> DEFINE t == IF ecn THEN "ACK_ECN" ELSE "ACK"
  <1>1. t \in Types /\ c = TypeCode[t] /\ c \in 0..30
    BY TypesAre DEF TypeCode
  <1>2. c \in Acks /\ (c = TypeCode.ACK_ECN <=> ecn) /\ c \notin StreamCodes
    BY DEF Acks, TypeCode, StreamCodes
  <1>3. c \in Codes
    BY <1>1 DEF Codes, Types
  <1>4. TypeOf(c) = t
    <2> HIDE DEF t
    <2> DEFINE x == CHOOSE u \in DOMAIN TypeCode : TypeCode[u] = c
    <2>1. x \in Types /\ TypeCode[x] = c
      BY <1>1 DEF Types
    <2>2. x = t
      BY <1>1, <2>1, OneTypeEach
    <2> QED  BY <1>1, <1>2, <2>1, <2>2 DEF TypeOf, Types
  <1> QED  BY <1>1, <1>2, <1>3, <1>4, SmallCode

(* The parts of an ACK frame are found where its numbers are.              *)
AckedOf(v) == Pick(<<"largestAck", "ackDelay", "ackRangeCount", "firstAckRange">>, v, 0)
RangesOf(v, n) == [i \in 1..n |-> Pick(<<"gap", "ackRangeLength">>, v, 2 + 2 * i)]
CountsOf(v, n) == Pick(<<"ect0", "ect1", "ce">>, v, 4 + 2 * n)
AckedNames == {"largestAck", "ackDelay", "ackRangeCount", "firstAckRange"}

LEMMA AckPicked ==
    ASSUME NEW f \in AckFrames, NEW v, AckNumbers(f, v), NEW n, n = Len(f.ackRanges)
    PROVE  /\ DOMAIN AckedOf(v) = AckedNames
           /\ \A x \in AckedNames : AckedOf(v)[x] = f[x]
           /\ RangesOf(v, n) = f.ackRanges
           /\ WithCounts(f) => CountsOf(v, n) = f.ecnCounts
  <1> DEFINE four == <<"largestAck", "ackDelay", "ackRangeCount", "firstAckRange">>
             pair == <<"gap", "ackRangeLength">>
             three == <<"ect0", "ect1", "ce">>
             rs == f.ackRanges
             acked == Pick(four, v, 0)
  <1>1. /\ rs \in Seq(AckRange)
        /\ WithCounts(f) => f.ecnCounts \in EcnCounts
    BY AckParts
  <1>2. n \in Nat /\ rs = [i \in 1..n |-> rs[i]] /\ \A i \in 1..n : rs[i] \in AckRange
    BY <1>1
  <1>3. /\ v[1] = f["largestAck"] /\ v[2] = f["ackDelay"]
        /\ v[3] = f["ackRangeCount"] /\ v[4] = f["firstAckRange"]
        /\ \A i \in 1..n : v[2 + 2 * i + 1] = rs[i]["gap"] /\ v[2 + 2 * i + 2] = rs[i]["ackRangeLength"]
        /\ WithCounts(f) => /\ v[4 + 2 * n + 1] = f.ecnCounts["ect0"]
                            /\ v[4 + 2 * n + 2] = f.ecnCounts["ect1"]
                            /\ v[4 + 2 * n + 3] = f.ecnCounts["ce"]
    BY DEF AckNumbers
  <1>4. /\ Len(four) = 4 /\ DOMAIN four = 1..4 /\ 1..4 = {1, 2, 3, 4}
        /\ four[1] = "largestAck" /\ four[2] = "ackDelay" /\ four[3] = "ackRangeCount"
        /\ four[4] = "firstAckRange"
    OBVIOUS
  <1>5. /\ IsList(pair) /\ Distinct(pair) /\ Len(pair) = 2 /\ 1..2 = {1, 2}
        /\ pair[1] = "gap" /\ pair[2] = "ackRangeLength"
        /\ {pair[j] : j \in DOMAIN pair} = {"gap", "ackRangeLength"}
    BY DEF IsList, Distinct
  <1>6. /\ IsList(three) /\ Distinct(three) /\ Len(three) = 3 /\ 1..3 = {1, 2, 3}
        /\ three[1] = "ect0" /\ three[2] = "ect1" /\ three[3] = "ce"
        /\ {three[j] : j \in DOMAIN three} = {"ect0", "ect1", "ce"}
    BY DEF IsList, Distinct
  <1> HIDE DEF four, pair, three
  <1>7. IsList(four) /\ Distinct(four)
    BY <1>4 DEF IsList, Distinct
  <1>8. /\ DOMAIN acked = AckedNames /\ \A x \in AckedNames : acked[x] = f[x]
    <2>1. PICK z \in Nat : z = 0
      OBVIOUS
    <2>2. /\ DOMAIN Pick(four, v, z) = {four[j] : j \in DOMAIN four}
          /\ \A i \in 1..Len(four) : Pick(four, v, z)[four[i]] = v[z + i]
      BY <1>7, Picked
    <2>3. Pick(four, v, z) = acked
      BY <2>1
    <2>4. z + 1 = 1 /\ z + 2 = 2 /\ z + 3 = 3 /\ z + 4 = 4
      BY <2>1
    <2> HIDE DEF acked
    <2>5. DOMAIN acked = AckedNames
      BY <1>4, <2>2, <2>3 DEF AckedNames
    <2>6. /\ acked["largestAck"] = v[1] /\ acked["ackDelay"] = v[2]
          /\ acked["ackRangeCount"] = v[3] /\ acked["firstAckRange"] = v[4]
      BY <1>4, <2>2, <2>3, <2>4
    <2> QED  BY <1>3, <2>5, <2>6 DEF AckedNames
  <1>9. ASSUME NEW i \in 1..n PROVE Pick(pair, v, 2 + 2 * i) = rs[i]
    <2>1. PICK r \in AckRange : r = rs[i]
      BY <1>2
    <2>2. r = [x \in DOMAIN r |-> r[x]] /\ DOMAIN r = {"gap", "ackRangeLength"}
      BY DEF AckRange
    <2>3. PICK from \in Nat : from = 2 + 2 * i
      BY <1>2
    <2>4. v[from + 1] = r["gap"] /\ v[from + 2] = r["ackRangeLength"]
      BY <1>3, <2>1, <2>3
    <2>5. \A j \in 1..Len(pair) : r[pair[j]] = v[from + j]
      BY <1>5, <2>4
    <2>6. IsPicked(r, pair, v, from)
      BY <1>5, <2>2, <2>5 DEF IsPicked
    <2>7. Pick(pair, v, from) = r
      BY <1>5, <2>6, PickIs
    <2> QED  BY <2>1, <2>3, <2>7
  <1>10. ASSUME WithCounts(f) PROVE Pick(three, v, 4 + 2 * n) = f.ecnCounts
    <2>1. PICK r \in EcnCounts : r = f.ecnCounts
      BY <1>1, <1>10
    <2>2. r = [x \in DOMAIN r |-> r[x]] /\ DOMAIN r = {"ect0", "ect1", "ce"}
      BY DEF EcnCounts
    <2>3. PICK from \in Nat : from = 4 + 2 * n
      BY <1>2
    <2>4. v[from + 1] = r["ect0"] /\ v[from + 2] = r["ect1"] /\ v[from + 3] = r["ce"]
      BY <1>3, <1>10, <2>1, <2>3
    <2>5. \A j \in 1..Len(three) : r[three[j]] = v[from + j]
      BY <1>6, <2>4
    <2>6. IsPicked(r, three, v, from)
      BY <1>6, <2>2, <2>5 DEF IsPicked
    <2>7. Pick(three, v, from) = r
      BY <1>6, <2>6, PickIs
    <2> QED  BY <2>1, <2>3, <2>7
  <1>11. [i \in 1..n |-> Pick(pair, v, 2 + 2 * i)] = rs
    BY <1>2, <1>9
  <1>12. AckedOf(v) = acked /\ CountsOf(v, n) = Pick(three, v, 4 + 2 * n)
    BY DEF AckedOf, CountsOf, four, three
  <1>13. RangesOf(v, n) = [i \in 1..n |-> Pick(pair, v, 2 + 2 * i)]
    BY DEF RangesOf, pair
  <1> HIDE DEF acked
  <1> QED  BY <1>8, <1>10, <1>11, <1>12, <1>13

LEMMA AckSpelled ==
    ASSUME NEW f \in AckFrames
    PROVE  Spelled(f)
  <1> DEFINE ecn == WithCounts(f)
             c == IF ecn THEN TypeCode.ACK_ECN ELSE TypeCode.ACK
             n == Len(f.ackRanges)
             m == Meaning(f)
  <1>1. ecn \in BOOLEAN
    BY DEF WithCounts
  <1>2. f.type \in {"ACK", "ACK_ECN"}
    BY AckParts
  <1>3. SerializeFrame(f) = SerializeAck(f)
    BY <1>2 DEF SerializeFrame
  <1> HIDE DEF ecn
  <1>4. /\ c \in Acks /\ c \in Codes /\ c \in Number /\ EncodeVarint(c) \in Seq(Nat)
        /\ c = TypeCode.ACK_ECN <=> ecn
        /\ TypeOf(c) = IF ecn THEN "ACK_ECN" ELSE "ACK"
    BY <1>1, AckCode
  <1>5. PICK v, y : SerializeAck(f) = EncodeVarint(c) \o y /\ Encodes(y, v) /\ AckNumbers(f, v)
    BY <1>4, AckEncoded DEF ecn
  <1>6. n \in Nat /\ f.ackRangeCount = n
    <2>1. f.ackRanges \in Seq(AckRange) /\ f.ackRangeCount = n
      BY AckParts
    <2>2. n \in Nat
      BY <2>1
    <2> QED  BY <2>1, <2>2
  <1> HIDE DEF c, n
  <1>7. v \in Seq(Number) /\ Len(v) = AckLength(n, ecn) /\ v[3] = n
    BY <1>5, <1>6 DEF AckNumbers, n, ecn
  <1>8. (c = TypeCode.ACK_ECN) = ecn
    BY <1>1, <1>4
  <1>9. /\ Complete(c, v) /\ \A k \in 0..(Len(v) - 1) : ~Complete(c, First(v, k))
        /\ \A i \in 1..Len(v) : ~IsBytes(Name(c, v, i))
    BY <1>4, <1>6, <1>7, <1>8, AckComplete
  <1>10. Spells(SerializeFrame(f), c, v, Frame(c, v))
    BY <1>3, <1>4, <1>5, <1>7, <1>9, NumbersRead
  <1>11. Frame(c, v) = m
    <2> DEFINE acked == AckedOf(v)
               ranges == RangesOf(v, n)
               counts == CountsOf(v, n)
               four == AckedNames
               g1 == With(acked, [ackRanges |-> ranges])
               tail == IF ecn THEN [ecnCounts |-> counts] ELSE <<>>
               g2 == With(g1, tail)
               g3 == With([type |-> TypeOf(c)], g2)
               count == Len(AckFields(TypeCode.ACK, v)) - 4
    <2>1. /\ DOMAIN acked = four /\ \A x \in four : acked[x] = f[x]
          /\ ranges = f.ackRanges
          /\ ecn => counts = f.ecnCounts
      BY <1>5, AckPicked DEF n, ecn
    <2>2. count = 2 * n /\ count \div 2 = n
      <3>1. PICK a \in Acks : a = TypeCode.ACK
        BY DEF Acks
      <3>2. (a = TypeCode.ACK_ECN) = FALSE
        BY <3>1 DEF TypeCode
      <3>3. AckFields(a, v) = AckList(IF Len(v) < 3 THEN 0 ELSE v[3], FALSE)
        BY <3>2, Zenon DEF AckFields, AckList
      <3>4. ~(Len(v) < 3)
        BY <1>1, <1>6, <1>7 DEF AckLength
      <3>5. AckFields(TypeCode.ACK, v) = AckList(n, FALSE)
        BY <1>7, <3>1, <3>3, <3>4
      <3>6. PICK b \in BOOLEAN : b = FALSE
        OBVIOUS
      <3>7. Len(AckList(n, b)) = AckLength(n, b)
        BY <1>6, AckListLength
      <3>8. AckLength(n, b) = 4 + 2 * n
        BY <1>6, <3>6 DEF AckLength
      <3>9. Len(AckList(n, FALSE)) = 4 + 2 * n
        BY <3>6, <3>7, <3>8
      <3>10. Len(AckFields(TypeCode.ACK, v)) = 4 + 2 * n
        BY <3>5, <3>9, Zenon
      <3> QED  BY <1>6, <3>10
    <2>3. AckFrame(c, v) = g2
      <3>1. AckFrame(c, v) =
              With(With(acked, [ackRanges |-> RangesOf(v, count \div 2)]),
                   IF c = TypeCode.ACK_ECN
                   THEN [ecnCounts |-> Pick(<<"ect0", "ect1", "ce">>, v, 4 + count)] ELSE <<>>)
        BY Zenon DEF AckFrame, AckedOf, RangesOf
      <3> HIDE DEF count
      <3>2. Pick(<<"ect0", "ect1", "ce">>, v, 4 + count) = counts
        BY <2>2 DEF CountsOf
      <3> QED  BY <1>8, <2>2, <3>1, <3>2, Zenon
    <2>4. Frame(c, v) = g3
      <3>1. Frame(c, v) = With([type |-> TypeOf(c)], AckFrame(c, v))
        BY <1>4 DEF Frame, Acks
      <3> QED  BY <2>3, <3>1, Zenon
    <2> HIDE DEF acked, ranges, counts
    <2>5. /\ DOMAIN g1 = four \cup {"ackRanges"} /\ \A x \in four : g1[x] = f[x]
          /\ g1["ackRanges"] = f["ackRanges"]
      BY <2>1 DEF With, AckedNames
    <2>6. /\ DOMAIN tail = (IF ecn THEN {"ecnCounts"} ELSE {})
          /\ ecn => tail["ecnCounts"] = f["ecnCounts"]
      BY <1>1, <2>1
    <2> HIDE DEF g1, tail
    <2>7. /\ DOMAIN g2 = four \cup {"ackRanges"} \cup (IF ecn THEN {"ecnCounts"} ELSE {})
          /\ \A x \in DOMAIN g2 : g2[x] = f[x]
      <3>1. DOMAIN g2 = four \cup {"ackRanges"} \cup (IF ecn THEN {"ecnCounts"} ELSE {})
        BY <2>5, <2>6 DEF With
      <3>2. ASSUME NEW x \in DOMAIN g2 PROVE g2[x] = f[x]
        <4>1. CASE x \in DOMAIN g1
          <5>1. g2[x] = g1[x]
            BY <4>1 DEF With
          <5> QED  BY <2>5, <4>1, <5>1
        <4>2. CASE x \notin DOMAIN g1
          <5>1. x \in DOMAIN tail /\ g2[x] = tail[x]
            BY <4>2 DEF With
          <5>2. ecn /\ x = "ecnCounts"
            BY <1>1, <2>6, <5>1
          <5> QED  BY <2>6, <5>1, <5>2
        <4> QED  BY <4>1, <4>2
      <3> QED  BY <3>1, <3>2
    <2> HIDE DEF g2
    <2>8. /\ DOMAIN g3 = {"type"} \cup DOMAIN g2 /\ g3 = [x \in DOMAIN g3 |-> g3[x]]
          /\ g3["type"] = TypeOf(c) /\ \A x \in DOMAIN g2 : x # "type" => g3[x] = g2[x]
      BY DEF With
    <2> HIDE DEF g3
    <2>9. /\ m = [x \in DOMAIN m |-> m[x]] /\ DOMAIN m = DOMAIN f
          /\ m["type"] = (IF ecn THEN "ACK_ECN" ELSE "ACK")
          /\ \A x \in DOMAIN f : x # "type" => m[x] = f[x]
      BY AckMeaning DEF ecn
    <2>10. DOMAIN f = {"type", "ackRanges"} \cup four \cup (IF ecn THEN {"ecnCounts"} ELSE {})
      BY AckParts DEF ecn, AckedNames
    <2> HIDE DEF m
    <2>11. DOMAIN g3 = DOMAIN m
      BY <2>7, <2>8, <2>9, <2>10
    <2>12. ASSUME NEW x \in DOMAIN m PROVE g3[x] = m[x]
      <3>1. CASE x = "type"
        BY <1>4, <2>8, <2>9, <3>1
      <3>2. CASE x # "type"
        <4>1. x \in DOMAIN g2 /\ x \in DOMAIN f
          BY <2>8, <2>9, <2>11, <3>2
        <4> QED  BY <2>7, <2>8, <2>9, <3>2, <4>1
      <3> QED  BY <3>1, <3>2
    <2>13. g3 = m
      BY <2>8, <2>9, <2>11, <2>12
    <2> QED  BY <2>4, <2>13
  <1> QED  BY <1>10, <1>11 DEF Spelled

(* Every frame is spelled by its bytes. *)
LEMMA FrameSpelled ==
    ASSUME NEW f \in QuicFrames
    PROVE  \E c, v : Spells(SerializeFrame(f), c, v, Meaning(f))
  <1>1. CASE f \in [type : {"PADDING", "PING", "HANDSHAKE_DONE"}]
    BY <1>1, BareSpelled DEF Spelled
  <1>2. CASE f \in AckFrames
    BY <1>2, AckSpelled DEF Spelled
  <1>3. CASE f \in CloseFrames
    BY <1>3, CloseSpelled DEF Spelled
  <1>4. CASE f \in [type : {"RESET_STREAM"}, streamId : Number, errorCode : Number,
                    finalSize : Number]
    BY <1>4, ResetSpelled DEF Spelled
  <1>5. CASE f \in [type : {"STOP_SENDING"}, streamId : Number, errorCode : Number]
    BY <1>5, StopSpelled DEF Spelled
  <1>6. CASE f \in [type : {"CRYPTO"}, offset : Number, data : Data]
    BY <1>6, CryptoSpelled DEF Spelled
  <1>7. CASE f \in [type : {"NEW_TOKEN"}, token : Data]
    BY <1>7, TokenSpelled DEF Spelled
  <1>8. CASE f \in [type : {"STREAM"}, streamId : Number, offset : Number, data : Data,
                    fin : BOOLEAN]
    BY <1>8, StreamSpelled DEF Spelled
  <1>9. CASE f \in [type : {"MAX_DATA", "MAX_STREAMS_BIDI", "MAX_STREAMS_UNI"},
                    maximum : Number]
    BY <1>9, MaximumSpelled DEF Spelled
  <1>10. CASE f \in [type : {"MAX_STREAM_DATA"}, streamId : Number, maximum : Number]
    BY <1>10, MaxStreamSpelled DEF Spelled
  <1>11. CASE f \in [type : {"DATA_BLOCKED", "STREAMS_BLOCKED_BIDI", "STREAMS_BLOCKED_UNI"},
                    limit : Number]
    BY <1>11, LimitSpelled DEF Spelled
  <1>12. CASE f \in [type : {"STREAM_DATA_BLOCKED"}, streamId : Number, limit : Number]
    BY <1>12, StreamBlockedSpelled DEF Spelled
  <1>13. CASE f \in {g \in [type : {"NEW_CONNECTION_ID"}, sequenceNumber : Number,
                          retirePriorTo : Number, connectionId : Data,
                          statelessResetToken : Data] :
                    Len(g.statelessResetToken) = TokenLength}
    BY <1>13, ConnectionIdSpelled DEF Spelled
  <1>14. CASE f \in [type : {"RETIRE_CONNECTION_ID"}, sequenceNumber : Number]
    BY <1>14, RetireSpelled DEF Spelled
  <1>15. CASE f \in {g \in [type : {"PATH_CHALLENGE", "PATH_RESPONSE"}, data : Data] :
                    Len(g.data) = PathDataLength}
    BY <1>15, PathSpelled DEF Spelled
  <1> QED
    BY <1>1, <1>2, <1>3, <1>4, <1>5, <1>6, <1>7, <1>8, <1>9, <1>10, <1>11, <1>12, <1>13, <1>14, <1>15 DEF QuicFrames

-------------------------------------------------------------------------------
(* Where the frames of a packet end. *)
FrameEnd(frames, i) == Len(Wire(First(frames, i)))

LEMMA SerializeType ==
    ASSUME NEW f \in QuicFrames
    PROVE  SerializeFrame(f) \in Seq(Nat)
  BY FrameSpelled DEF Spells, MadeOf

LEMMA WireEnds ==
    ASSUME NEW frames \in Seq(QuicFrames)
    PROVE  /\ Wire(frames) \in Seq(Nat)
           /\ FrameEnd(frames, 0) = 0 /\ FrameEnd(frames, Len(frames)) = Len(Wire(frames))
           /\ \A i \in 0..Len(frames) : FrameEnd(frames, i) \in Nat /\ FrameEnd(frames, i) <= Len(Wire(frames))
           /\ \A i \in 1..Len(frames) :
                /\ FrameEnd(frames, i) = FrameEnd(frames, i - 1) + Len(SerializeFrame(frames[i]))
                /\ \A j \in 1..Len(SerializeFrame(frames[i])) :
                     Wire(frames)[FrameEnd(frames, i - 1) + j] = SerializeFrame(frames[i])[j]
  <1> DEFINE n == Len(frames)
             each(fs) == [i \in DOMAIN fs |-> SerializeFrame(fs[i])]
  <1>1. ASSUME NEW fs \in Seq(QuicFrames)
        PROVE  /\ each(fs) \in ByteStrings /\ Len(each(fs)) = Len(fs)
               /\ \A i \in 1..Len(fs) : each(fs)[i] = SerializeFrame(fs[i])
               /\ Wire(fs) \in Seq(Nat) /\ \E q : Pieces(Wire(fs), each(fs), q)
    <2>1. \A i \in 1..Len(fs) : fs[i] \in QuicFrames
      OBVIOUS
    <2>2. each(fs) \in ByteStrings /\ Len(each(fs)) = Len(fs)
      BY <2>1, SerializeType, SMTT(30) DEF ByteStrings
    <2>3. MadeOf(Wire(fs), each(fs))
      <3> HIDE DEF each
      <3>1. MadeOf(FlattenSeq(each(fs)), each(fs))
        BY <2>2, FlattenMadeOf
      <3> QED  BY <3>1 DEF Wire, each
    <2>4. \A i \in 1..Len(fs) : each(fs)[i] = SerializeFrame(fs[i])
      OBVIOUS
    <2> HIDE DEF each
    <2> QED  BY <2>2, <2>3, <2>4 DEF MadeOf
  <1> HIDE DEF each
  <1>2. n \in Nat
    OBVIOUS
  <1>3. PICK q : Pieces(Wire(frames), each(frames), q)
    BY <1>1
  <1>4. ASSUME NEW i \in 0..n PROVE FrameEnd(frames, i) = q[i]
    <2> DEFINE fs == First(frames, i)
    <2>1. fs \in Seq(QuicFrames) /\ Len(fs) = i /\ \A j \in 1..i : fs[j] = frames[j]
      BY DEF First
    <2> HIDE DEF fs
    <2>2. PICK r : Pieces(Wire(fs), each(fs), r)
      BY <1>1, <2>1
    <2>3. /\ each(fs) \in ByteStrings /\ Len(each(fs)) = i
          /\ each(frames) \in ByteStrings /\ Len(each(frames)) = n
      BY <1>1, <2>1
    <2>4. ASSUME NEW j \in 1..i PROVE each(frames)[j] = each(fs)[j]
      <3>1. j \in 1..n /\ j \in 1..Len(fs)
        BY <1>2, <2>1
      <3>2. each(frames)[j] = SerializeFrame(frames[j])
        BY <1>1, <3>1
      <3>3. each(fs)[j] = SerializeFrame(fs[j])
        BY <1>1, <2>1, <3>1
      <3> QED  BY <2>1, <3>2, <3>3
    <2>5. Agree(each(frames), each(fs), i)
      BY <2>3, <2>4 DEF Agree
    <2>6. q[i] = r[i]
      BY <1>3, <2>2, <2>3, <2>5, SamePlaces
    <2>7. r[i] = Len(Wire(fs))
      BY <2>2, <2>3 DEF Pieces
    <2> QED  BY <2>6, <2>7 DEF FrameEnd, fs
  <1>5. each(frames) \in ByteStrings /\ Len(each(frames)) = n /\ Wire(frames) \in Seq(Nat)
    BY <1>1
  <1>6. /\ q \in [0..n -> Nat] /\ q[0] = 0 /\ q[n] = Len(Wire(frames))
        /\ \A i \in 1..n : q[i] = q[i - 1] + Len(each(frames)[i])
        /\ \A i \in 1..n : \A j \in 1..Len(each(frames)[i]) :
              Wire(frames)[q[i - 1] + j] = each(frames)[i][j]
        /\ \A i, j \in 0..n : i <= j => q[i] <= q[j]
    BY <1>3, <1>5 DEF Pieces
  <1>7. ASSUME NEW i \in 0..n PROVE FrameEnd(frames, i) \in Nat /\ FrameEnd(frames, i) <= Len(Wire(frames))
    <2>1. i <= n /\ n \in 0..n
      BY <1>2
    <2> QED  BY <1>4, <1>6, <2>1
  <1>8. ASSUME NEW i \in 1..n
        PROVE  /\ FrameEnd(frames, i) = FrameEnd(frames, i - 1) + Len(SerializeFrame(frames[i]))
               /\ \A j \in 1..Len(SerializeFrame(frames[i])) :
                    Wire(frames)[FrameEnd(frames, i - 1) + j] = SerializeFrame(frames[i])[j]
    <2>1. i \in 0..n /\ i - 1 \in 0..n
      BY <1>2
    <2>2. FrameEnd(frames, i) = q[i] /\ FrameEnd(frames, i - 1) = q[i - 1]
      BY <1>4, <2>1
    <2>3. each(frames)[i] = SerializeFrame(frames[i])
      BY <1>1
    <2> QED  BY <1>6, <2>2, <2>3
  <1>9. 0 \in 0..n /\ n \in 0..n
    BY <1>2
  <1>10. FrameEnd(frames, 0) = 0 /\ FrameEnd(frames, n) = Len(Wire(frames))
    BY <1>4, <1>6, <1>9
  <1> QED  BY <1>5, <1>7, <1>8, <1>10

LEMMA Shifted ==
    ASSUME NEW e \in Nat, NEW x \in Nat, NEW l \in Nat, NEW y \in Nat, NEW b \in Nat, NEW w \in Nat,
           y = x + l, y <= b, e + b <= w
    PROVE  /\ e + y = (e + x) + l /\ e + y <= e + b /\ e + x \in Nat
           /\ (e + x) + l <= w
  OBVIOUS

LEMMA ItemAhead ==
    ASSUME NEW frames \in Seq(QuicFrames), NEW n \in Nat, n < Len(frames),
           NEW s \in ByteStrings, NEW r, Pieces(SerializeFrame(frames[n + 1]), s, r),
           NEW i \in 1..Len(s)
    PROVE  /\ Ahead(Wire(frames), FrameEnd(frames, n) + r[i - 1], s[i])
           /\ FrameEnd(frames, n) + r[i] = (FrameEnd(frames, n) + r[i - 1]) + Len(s[i])
           /\ FrameEnd(frames, n) + r[i] <= FrameEnd(frames, n + 1)
           /\ i = Len(s) => FrameEnd(frames, n) + r[i] = FrameEnd(frames, n + 1)
           /\ r[i - 1] \in Nat /\ r[0] = 0 /\ FrameEnd(frames, n) \in Nat
           /\ FrameEnd(frames, n + 1) \in Nat
  <1> DEFINE w == Wire(frames)
             b == SerializeFrame(frames[n + 1])
             e == FrameEnd(frames, n)
             m == Len(s)
  <1>1. n + 1 \in 1..Len(frames) /\ n \in 0..Len(frames) /\ n + 1 \in 0..Len(frames) /\ (n + 1) - 1 = n
    OBVIOUS
  <1>2. /\ w \in Seq(Nat) /\ e \in Nat /\ FrameEnd(frames, n + 1) \in Nat
        /\ FrameEnd(frames, n + 1) = e + Len(b) /\ e + Len(b) <= Len(w)
        /\ \A j \in 1..Len(b) : w[e + j] = b[j]
    BY <1>1, WireEnds
  <1>3. s[i] \in Seq(Nat) /\ Len(s[i]) \in Nat /\ m \in Nat /\ Len(w) \in Nat
    BY <1>2, SMTT(30) DEF ByteStrings
  <1>4. i \in 0..m /\ i - 1 \in 0..m /\ m \in 0..m /\ i <= m
    BY <1>3
  <1>5. frames[n + 1] \in QuicFrames /\ b \in Seq(Nat) /\ Len(b) \in Nat
    BY <1>1, SerializeType
  <1> HIDE DEF w, b, e, m
  <1>6. r[i] \in Nat /\ r[i - 1] \in Nat /\ r[0] = 0 /\ r[m] = Len(b) /\ r[i] <= Len(b)
    BY <1>4 DEF Pieces, m, b
  <1>7. r[i] = r[i - 1] + Len(s[i]) /\ \A j \in 1..Len(s[i]) : b[r[i - 1] + j] = s[i][j]
    BY DEF Pieces, b
  <1>8. ASSUME NEW j \in 1..Len(s[i]) PROVE w[(e + r[i - 1]) + j] = s[i][j]
    <2>1. r[i - 1] + j \in 1..Len(b)
      BY <1>3, <1>5, <1>6, <1>7, Within
    <2>2. (e + r[i - 1]) + j = e + (r[i - 1] + j)
      BY <1>2, <1>6
    <2> QED  BY <1>2, <1>7, <2>1, <2>2
  <1>9. /\ e + r[i] = (e + r[i - 1]) + Len(s[i]) /\ e + r[i] <= e + Len(b) /\ e + r[i - 1] \in Nat
        /\ (e + r[i - 1]) + Len(s[i]) <= Len(w)
    BY <1>2, <1>3, <1>5, <1>6, <1>7, Shifted
  <1>11. Ahead(w, e + r[i - 1], s[i])
    BY <1>3, <1>8, <1>9 DEF Ahead
  <1> QED  BY <1>2, <1>6, <1>9, <1>11 DEF w, e, m

-------------------------------------------------------------------------------
(***************************************************************************)
(* The reader.                                                             *)
(***************************************************************************)
Given ==
    /\ written \in Seq(QuicFrames)
    /\ arrived \in Seq(Nat) /\ Len(arrived) <= Len(Wire(written))
    /\ \A x \in 1..Len(arrived) : arrived[x] = Wire(written)[x]

Told ==
    /\ out \in Seq({Meaning(f) : f \in QuicFrames}) /\ Len(out) <= Len(written)
    /\ \A i \in 1..Len(out) : out[i] = Meaning(written[i])

Between ==
    phase \in {"next", "type", "ended"} =>
      /\ at = FrameEnd(written, Len(out)) /\ code = 0 /\ got = <<>>
      /\ phase = "type" => at < have
      /\ phase = "ended" => at = Len(arrived)

(* The fields v of the frame, of which Len(got) were read. *)
Reads(v, r) ==
    LET f == written[Len(out) + 1] IN
      /\ Spells(SerializeFrame(f), code, v, Meaning(f))
      /\ Pieces(SerializeFrame(f), Items(code, v), r)
      /\ got = First(v, Len(got)) /\ Len(got) \in 0..(Len(v) - 1)
      /\ at = FrameEnd(written, Len(out)) + r[Len(got) + 1]

Inside == phase = "fields" => Len(out) < Len(written) /\ \E v, r : Reads(v, r)

CutInside ==
    phase = "failed" => /\ Len(out) < Len(written) /\ FrameEnd(written, Len(out)) < Len(arrived)
                        /\ Len(arrived) < FrameEnd(written, Len(out) + 1)

ReaderInv ==
    /\ Given /\ Told /\ TypeOK /\ (done => have = Len(arrived))
    /\ Between /\ Inside /\ CutInside

LEMMA NumberAhead ==
    ASSUME Given, TypeOK, NEW v \in Number, Ahead(Wire(written), at, EncodeVarint(v))
    PROVE  /\ Len(EncodeVarint(v)) \in Nat \ {0}
           /\ Available >= NeededByVarint =>
                /\ at + Len(EncodeVarint(v)) <= have
                /\ DecodeVarint(arrived, at) = [length |-> Len(EncodeVarint(v)), value |-> v]
           /\ Available < NeededByVarint => have < at + Len(EncodeVarint(v))
  <1> DEFINE e == EncodeVarint(v)
             w == Wire(written)
  <1>1. e \in Seq(Nat) /\ Len(e) \in Nat \ {0} /\ LengthIn(e[1]) = Len(e)
    BY EncodingShape
  <1>2. v \in Nat /\ Fits8(v)
    BY DEF Number
  <1> HIDE DEF e, w
  <1>3. /\ arrived \in Seq(Nat) /\ Len(arrived) \in Nat
        /\ \A x \in 1..Len(arrived) : arrived[x] = w[x]
    BY DEF Given, w
  <1>4. have \in Nat /\ have <= Len(arrived) /\ at \in Nat /\ at <= have
    BY <1>3 DEF TypeOK
  <1>5. at + Len(e) <= Len(w) /\ \A j \in 1..Len(e) : w[at + j] = e[j]
    BY DEF Ahead, e, w
  <1>6. CASE Available = 0
    BY <1>1, <1>4, <1>6 DEF Available, NeededByVarint, e
  <1>7. CASE Available # 0
    <2>1. at + 1 \in 1..Len(arrived) /\ 1 \in 1..Len(e)
      BY <1>1, <1>3, <1>4, <1>7 DEF Available
    <2>2. arrived[at + 1] = e[1]
      BY <1>3, <1>5, <2>1
    <2>3. NeededByVarint = Len(e)
      BY <1>1, <1>7, <2>2 DEF NeededByVarint
    <2>4. ASSUME Available >= Len(e)
          PROVE  /\ at + Len(e) <= have
                 /\ DecodeVarint(arrived, at) = [length |-> Len(e), value |-> v]
      <3>1. at + Len(e) <= have /\ at + Len(e) <= Len(arrived)
        BY <1>1, <1>3, <1>4, <2>4 DEF Available
      <3>2. ASSUME NEW j \in 1..Len(e) PROVE arrived[at + j] = e[j]
        <4>1. at + j \in 1..Len(arrived)
          BY <1>1, <1>3, <1>4, <3>1
        <4> QED  BY <1>3, <1>5, <4>1
      <3>3. Holds(arrived, at, e)
        BY <3>1, <3>2 DEF Holds
      <3>4. DecodeVarint(arrived, at) = [length |-> Len(e), value |-> v]
        BY <1>2, <1>3, <1>4, <3>3, VarintRoundTrip DEF e
      <3> QED  BY <3>1, <3>4
    <2>5. Available < Len(e) => have < at + Len(e)
      BY <1>1, <1>4 DEF Available
    <2> QED  BY <1>1, <2>3, <2>4, <2>5 DEF e
  <1> QED  BY <1>6, <1>7

LEMMA BytesAhead ==
    ASSUME Given, TypeOK, NEW b, Ahead(Wire(written), at, b)
    PROVE  /\ Len(b) \in Nat
           /\ Available >= Len(b) =>
                at + Len(b) <= have /\ SubSeq(arrived, at + 1, at + Len(b)) = b
           /\ Available < Len(b) => have < at + Len(b)
  <1> DEFINE w == Wire(written)
             s == SubSeq(arrived, at + 1, at + Len(b))
  <1>1. b \in Seq(Nat) /\ Len(b) \in Nat /\ \A j \in 1..Len(b) : w[at + j] = b[j]
    BY DEF Ahead
  <1> HIDE DEF w
  <1>2. /\ arrived \in Seq(Nat) /\ Len(arrived) \in Nat
        /\ \A x \in 1..Len(arrived) : arrived[x] = w[x]
    BY DEF Given, w
  <1>3. have \in Nat /\ have <= Len(arrived) /\ at \in Nat /\ at <= have
    BY <1>2 DEF TypeOK
  <1>4. ASSUME Available >= Len(b) PROVE at + Len(b) <= have /\ s = b
    <2>1. at + Len(b) <= have /\ at + Len(b) <= Len(arrived)
      BY <1>1, <1>2, <1>3, <1>4 DEF Available
    <2>2. Len(s) = Len(b) /\ s \in Seq(Nat) /\ \A j \in 1..Len(b) : s[j] = arrived[at + j]
      BY <1>1, <1>2, <1>3, <2>1
    <2>3. ASSUME NEW j \in 1..Len(b) PROVE s[j] = b[j]
      <3>1. at + j \in 1..Len(arrived)
        BY <1>1, <1>2, <1>3, <2>1, SMTT(30)
      <3> QED  BY <1>1, <1>2, <2>2, <3>1
    <2> HIDE DEF s
    <2>4. s = b
      BY <1>1, <2>2, <2>3
    <2> QED  BY <2>1, <2>4
  <1>5. Available < Len(b) => have < at + Len(b)
    BY <1>1, <1>3 DEF Available
  <1> QED  BY <1>1, <1>4, <1>5

(* The frame that the reader is at: the bytes that stand at its place are  *)
(* those of its type.                                                      *)
LEMMA TypeAhead ==
    ASSUME ReaderInv, phase = "type"
    PROVE  /\ Len(out) \in Nat /\ Len(out) < Len(written)
           /\ \E c, v, r :
                LET f == written[Len(out) + 1]
                    e == EncodeVarint(c) IN
                /\ Spells(SerializeFrame(f), c, v, Meaning(f))
                /\ Pieces(SerializeFrame(f), Items(c, v), r)
                /\ Ahead(Wire(written), at, e)
                /\ at + Len(e) = FrameEnd(written, Len(out)) + r[1]
                /\ at + Len(e) <= FrameEnd(written, Len(out) + 1)
                /\ Len(v) = 0 => at + Len(e) = FrameEnd(written, Len(out) + 1)
  <1> DEFINE n == Len(out)
             f == written[n + 1]
  <1>1. /\ written \in Seq(QuicFrames) /\ n \in Nat /\ n <= Len(written) /\ Len(written) \in Nat
        /\ Len(arrived) \in Nat /\ Len(arrived) <= Len(Wire(written))
    BY DEF ReaderInv, Given, Told
  <1>2. at = FrameEnd(written, n) /\ at < have /\ have \in Nat /\ have <= Len(arrived) /\ at \in Nat
    BY <1>1 DEF ReaderInv, Between, TypeOK
  <1>3. n # Len(written)
    <2>1. Wire(written) \in Seq(Nat) /\ FrameEnd(written, Len(written)) = Len(Wire(written))
      BY <1>1, WireEnds
    <2>2. Len(Wire(written)) \in Nat
      BY <2>1
    <2> QED  BY <1>1, <1>2, <2>1, <2>2
  <1>4. n < Len(written) /\ n + 1 \in 1..Len(written) /\ f \in QuicFrames
    BY <1>1, <1>3
  <1> HIDE DEF f, n
  <1>5. PICK c, v : Spells(SerializeFrame(f), c, v, Meaning(f))
    BY <1>4, FrameSpelled
  <1> DEFINE s == Items(c, v)
  <1>6. s \in ByteStrings /\ Len(s) = Len(v) + 1 /\ s[1] = EncodeVarint(c) /\ Len(v) \in Nat
    <2>1. v \in Seq(Values) /\ s \in ByteStrings
      BY <1>5 DEF Spells, MadeOf
    <2>2. Len(v) \in Nat
      BY <2>1
    <2>3. 1 \in 1..(Len(v) + 1)
      BY <2>2
    <2> QED  BY <2>1, <2>2, <2>3 DEF Items
  <1>7. PICK r : Pieces(SerializeFrame(f), s, r)
    BY <1>5 DEF Spells, MadeOf
  <1> HIDE DEF s
  <1>8. 1 \in 1..Len(s) /\ 1 - 1 = 0
    BY <1>6
  <1>9. /\ Ahead(Wire(written), FrameEnd(written, n) + r[1 - 1], s[1])
        /\ FrameEnd(written, n) + r[1] = (FrameEnd(written, n) + r[1 - 1]) + Len(s[1])
        /\ FrameEnd(written, n) + r[1] <= FrameEnd(written, n + 1)
        /\ 1 = Len(s) => FrameEnd(written, n) + r[1] = FrameEnd(written, n + 1)
        /\ r[0] = 0 /\ FrameEnd(written, n) \in Nat
    <2>1. PICK i \in 1..Len(s) : i = 1
      BY <1>8
    <2>2. /\ Ahead(Wire(written), FrameEnd(written, n) + r[i - 1], s[i])
          /\ FrameEnd(written, n) + r[i] = (FrameEnd(written, n) + r[i - 1]) + Len(s[i])
          /\ FrameEnd(written, n) + r[i] <= FrameEnd(written, n + 1)
          /\ i = Len(s) => FrameEnd(written, n) + r[i] = FrameEnd(written, n + 1)
          /\ FrameEnd(written, n) \in Nat
      <3>1. written \in Seq(QuicFrames) /\ n \in Nat /\ n < Len(written) /\ s \in ByteStrings
        BY <1>1, <1>4, <1>6
      <3>2. Pieces(SerializeFrame(written[n + 1]), s, r)
        BY <1>7 DEF f
      <3> QED  BY <3>1, <3>2, ItemAhead
    <2>3. r[0] = 0
      BY <1>7 DEF Pieces
    <2> QED  BY <2>1, <2>2, <2>3
  <1>10. FrameEnd(written, n) + r[1 - 1] = at
    BY <1>2, <1>8, <1>9
  <1>11. Len(v) = 0 => Len(s) = 1
    BY <1>6
  <1>12. /\ Ahead(Wire(written), at, EncodeVarint(c))
         /\ at + Len(EncodeVarint(c)) = FrameEnd(written, n) + r[1]
         /\ at + Len(EncodeVarint(c)) <= FrameEnd(written, n + 1)
         /\ Len(v) = 0 => at + Len(EncodeVarint(c)) = FrameEnd(written, n + 1)
    BY <1>6, <1>9, <1>10, <1>11
  <1> QED  BY <1>1, <1>4, <1>5, <1>7, <1>12 DEF s, f, n

(* The field that the reader is at.                                        *)
LEMMA FieldAhead ==
    ASSUME ReaderInv, phase = "fields", NEW v, NEW r, Reads(v, r)
    PROVE  LET n == Len(out)
               k == Len(got)
               x == v[k + 1]
               item == Item(Field, x)
           IN  /\ n \in Nat /\ n < Len(written) /\ k \in Nat /\ k + 1 \in 1..Len(v)
               /\ IF IsBytes(Field) THEN x \in Seq(Nat) /\ Count = Len(x) ELSE x \in Number
               /\ Ahead(Wire(written), at, item) /\ FrameEnd(written, n) < at
               /\ at + Len(item) = FrameEnd(written, n) + r[(k + 1) + 1]
               /\ at + Len(item) <= FrameEnd(written, n + 1)
               /\ k + 1 = Len(v) => at + Len(item) = FrameEnd(written, n + 1)
               /\ Append(got, x) = First(v, k + 1)
  <1> DEFINE n == Len(out)
             k == Len(got)
             f == written[n + 1]
             s == Items(code, v)
             i == (k + 1) + 1
  <1>1. /\ written \in Seq(QuicFrames) /\ n \in Nat /\ n < Len(written) /\ Len(written) \in Nat
    BY DEF ReaderInv, Given, Told, Inside
  <1>2. /\ Spells(SerializeFrame(f), code, v, Meaning(f)) /\ Pieces(SerializeFrame(f), s, r)
        /\ got = First(v, k) /\ k \in 0..(Len(v) - 1) /\ at = FrameEnd(written, n) + r[k + 1]
    BY DEF Reads
  <1>3. /\ v \in Seq(Values) /\ code \in Number /\ s \in ByteStrings
        /\ \A j \in 1..Len(v) : Expected(code, v, j)
    BY <1>2 DEF Spells, MadeOf
  <1>4. Len(v) \in Nat /\ k \in Nat /\ k + 1 \in 1..Len(v) /\ (k + 1) - 1 = k
    BY <1>2, <1>3
  <1>5. Field = Name(code, v, k + 1)
    BY <1>2, <1>4 DEF Field, Name
  <1>6. Len(s) = Len(v) + 1 /\ s[i] = Item(Field, v[k + 1]) /\ s[1] = EncodeVarint(code)
    <2>1. i \in 1..(Len(v) + 1) /\ i # 1 /\ i - 1 = k + 1 /\ 1 \in 1..(Len(v) + 1)
      BY <1>4
    <2>2. Len(s) = Len(v) + 1
      BY <1>4 DEF Items
    <2> QED  BY <1>5, <2>1, <2>2 DEF Items
  <1>7. i \in 1..Len(s) /\ 1 \in 1..Len(s) /\ i - 1 = k + 1 /\ 1 - 1 = 0
    BY <1>4, <1>6
  <1> HIDE DEF f, n, k, s, i
  <1>8. /\ Ahead(Wire(written), FrameEnd(written, n) + r[i - 1], s[i])
        /\ FrameEnd(written, n) + r[i] = (FrameEnd(written, n) + r[i - 1]) + Len(s[i])
        /\ FrameEnd(written, n) + r[i] <= FrameEnd(written, n + 1)
        /\ i = Len(s) => FrameEnd(written, n) + r[i] = FrameEnd(written, n + 1)
        /\ FrameEnd(written, n) \in Nat
    BY <1>1, <1>2, <1>3, <1>7, ItemAhead DEF f
  <1>9. FrameEnd(written, n) < at
    <2>1. Len(s[1]) \in Nat \ {0}
      BY <1>3, <1>6, EncodingShape
    <2>2. r[0] = 0 /\ r[1] = r[1 - 1] + Len(s[1]) /\ r[1] <= r[k + 1] /\ r[k + 1] \in Nat
      <3>1. 1 \in 0..Len(s) /\ k + 1 \in 0..Len(s) /\ 1 <= k + 1
        BY <1>4, <1>6
      <3> QED  BY <1>2, <1>7, <3>1 DEF Pieces
    <2> QED  BY <1>2, <1>7, <1>8, <2>1, <2>2
  <1>10. Expected(code, v, k + 1)
    BY <1>3, <1>4
  <1>11. IF IsBytes(Field) THEN v[k + 1] \in Seq(Nat) /\ Count = Len(v[k + 1]) ELSE v[k + 1] \in Number
    <2>1. Count = CountOf(Field, code, First(v, k))
      BY <1>2, Zenon DEF Count, CountOf, k
    <2> QED  BY <1>4, <1>5, <1>10, <2>1, Zenon DEF Expected
  <1>12. Append(got, v[k + 1]) = First(v, k + 1)
    BY <1>2, <1>3, <1>4 DEF First
  <1>13. FrameEnd(written, n) + r[i - 1] = at
    BY <1>2, <1>7
  <1>14. k + 1 = Len(v) => i = Len(s)
    BY <1>6 DEF i
  <1>15. /\ Ahead(Wire(written), at, Item(Field, v[k + 1]))
         /\ at + Len(Item(Field, v[k + 1])) = FrameEnd(written, n) + r[(k + 1) + 1]
         /\ at + Len(Item(Field, v[k + 1])) <= FrameEnd(written, n + 1)
         /\ k + 1 = Len(v) => at + Len(Item(Field, v[k + 1])) = FrameEnd(written, n + 1)
    BY <1>6, <1>8, <1>13, <1>14 DEF i
  <1> QED  BY <1>1, <1>4, <1>9, <1>11, <1>12, <1>15 DEF n, k

(* With the value that was read the frame is complete, or it is not: in    *)
(* either case the reader is where the next value is.                      *)
LEMMA Accepting ==
    ASSUME Given, Told, written' = written, arrived' = arrived,
           Len(out) < Len(written),
           NEW c, NEW v, NEW r, NEW k \in Nat, k <= Len(v),
           LET f == written[Len(out) + 1] IN
             /\ Spells(SerializeFrame(f), c, v, Meaning(f))
             /\ Pieces(SerializeFrame(f), Items(c, v), r),
           Accept(c, First(v, k)), at' = FrameEnd(written, Len(out)) + r[k + 1],
           k = Len(v) => at' = FrameEnd(written, Len(out) + 1)
    PROVE  /\ Told' /\ Between' /\ Inside' /\ CutInside'
           /\ code' \in Codes /\ phase' \in {"next", "fields"}
  <1> DEFINE n == Len(out)
             f == written[n + 1]
             S == {Meaning(g) : g \in QuicFrames}
  <1>1. /\ written \in Seq(QuicFrames) /\ out \in Seq(S) /\ n \in Nat /\ n < Len(written)
        /\ Len(written) \in Nat /\ \A i \in 1..n : out[i] = Meaning(written[i])
    BY DEF Given, Told
  <1>2. n + 1 \in 1..Len(written) /\ f \in QuicFrames /\ n + 1 \in Nat
    BY <1>1
  <1>3. Spells(SerializeFrame(f), c, v, Meaning(f)) /\ Pieces(SerializeFrame(f), Items(c, v), r)
    OBVIOUS
  <1> HIDE DEF f
  <1>4. /\ c \in Codes /\ v \in Seq(Values) /\ Complete(c, v) /\ Frame(c, v) = Meaning(f)
        /\ \A j \in 0..(Len(v) - 1) : ~Complete(c, First(v, j))
    BY <1>3 DEF Spells
  <1>5. Len(v) \in Nat /\ Len(First(v, k)) = k /\ (k = Len(v) => First(v, k) = v)
    BY <1>4 DEF First
  <1>6. Complete(c, First(v, k)) <=> k = Len(v)
    <2>1. CASE k = Len(v)
      BY <1>4, <1>5, <2>1
    <2>2. CASE k # Len(v)
      <3>1. k \in 0..(Len(v) - 1)
        BY <1>5, <2>2
      <3> QED  BY <1>4, <2>2, <3>1
    <2> QED  BY <2>1, <2>2
  <1>7. CASE k = Len(v)
    <2>1. /\ out' = Append(out, Frame(c, v)) /\ phase' = "next" /\ code' = 0 /\ got' = <<>>
      BY <1>5, <1>6, <1>7 DEF Accept, Complete
    <2>2. Meaning(f) \in S
      BY <1>2
    <2>3. out' = Append(out, Meaning(f))
      BY <1>4, <2>1
    <2> HIDE DEF S
    <2>4. out' \in Seq(S) /\ Len(out') = n + 1 /\ out'[n + 1] = Meaning(f)
          /\ \A i \in 1..n : out'[i] = out[i]
      BY <1>1, <2>2, <2>3
    <2> USE DEF S
    <2>5. \A i \in 1..(n + 1) : out'[i] = Meaning(written[i])
      <3> SUFFICES ASSUME NEW i \in 1..(n + 1) PROVE out'[i] = Meaning(written[i])
        OBVIOUS
      <3>1. CASE i = n + 1
        BY <2>4, <3>1 DEF f
      <3>2. CASE i # n + 1
        <4>1. i \in 1..n
          BY <1>1, <3>2
        <4> QED  BY <1>1, <2>4, <4>1
      <3> QED  BY <3>1, <3>2
    <2>6. Told'
      <3>1. n + 1 <= Len(written)
        BY <1>1
      <3> QED  BY <2>4, <2>5, <3>1 DEF Told
    <2>7. at' = FrameEnd(written', Len(out'))
      BY <1>7, <2>4
    <2>8. Between' /\ Inside' /\ CutInside'
      BY <2>1, <2>7 DEF Between, Inside, CutInside
    <2>9. 0 \in Codes
      BY DEF Codes, TypeCode
    <2> QED  BY <2>1, <2>6, <2>8, <2>9
  <1>8. CASE k # Len(v)
    <2>1. /\ out' = out /\ phase' = "fields" /\ code' = c /\ got' = First(v, k)
      BY <1>6, <1>8 DEF Accept, Complete
    <2>2. Told' /\ Between' /\ CutInside'
      BY <2>1 DEF Told, Between, CutInside
    <2>3. Len(got') = k /\ k \in 0..(Len(v) - 1) /\ Len(out') = n /\ written'[n + 1] = f
      BY <1>5, <1>8, <2>1 DEF f
    <2>4. Reads(v, r)'
      BY <1>3, <2>1, <2>3 DEF Reads
    <2>5. Inside'
      BY <1>1, <2>3, <2>4 DEF Inside
    <2> QED  BY <1>4, <2>1, <2>2, <2>5
  <1> QED  BY <1>7, <1>8

LEMMA ReaderStarts == StartReader => ReaderInv
  <1> SUFFICES ASSUME NEW frames \in Packets, NEW n \in 0..Len(Wire(frames)), InitReader(frames, n)
               PROVE  ReaderInv
    BY DEF StartReader
  <1>1. frames \in Seq(QuicFrames)
    BY PacketsAssumption
  <1>2. Wire(frames) \in Seq(Nat) /\ FrameEnd(frames, 0) = 0 /\ Len(Wire(frames)) \in Nat
    BY <1>1, WireEnds
  <1>3. /\ written = frames /\ arrived = SubSeq(Wire(frames), 1, n) /\ have = 0 /\ at = 0
        /\ done = FALSE /\ phase = "next" /\ code = 0 /\ got = <<>> /\ out = <<>>
    BY DEF InitReader
  <1>4. Given
    <2> DEFINE w == Wire(frames)
    <2>1. written = frames
      BY <1>3
    <2>2. arrived = SubSeq(w, 1, n)
      BY <1>3
    <2>3. w \in Seq(Nat) /\ Len(w) \in Nat /\ n \in 0..Len(w)
      BY <1>2
    <2> HIDE DEF w
    <2>4. arrived \in Seq(Nat) /\ Len(arrived) <= Len(w) /\ \A x \in 1..Len(arrived) : arrived[x] = w[x]
      BY <2>2, <2>3
    <2> QED  BY <1>1, <2>1, <2>4 DEF Given, w
  <1>5. TypeOK
    <2>1. Len(arrived) \in Nat /\ code \in StreamCodes \cup {TypeCode[t] : t \in DOMAIN TypeCode}
      BY <1>3, <1>4 DEF Given, TypeCode
    <2>2. have \in 0..Len(arrived) /\ at \in 0..have
      BY <1>3, <2>1
    <2>3. done \in BOOLEAN /\ phase \in Phases
      BY <1>3 DEF Phases
    <2> QED  BY <2>1, <2>2, <2>3, Zenon DEF TypeOK
  <1>6. Told
    BY <1>1, <1>3 DEF Told
  <1>7. Between
    BY <1>2, <1>3 DEF Between
  <1> QED  BY <1>3, <1>4, <1>5, <1>6, <1>7 DEF ReaderInv, Inside, CutInside

LEMMA ReaderSteps == ReaderInv /\ [NextReader]_rvars => ReaderInv'
  <1> SUFFICES ASSUME ReaderInv, [NextReader]_rvars PROVE ReaderInv'
    OBVIOUS
  <1> DEFINE n == Len(out)
  <1>1. /\ Given /\ Told /\ TypeOK /\ (done => have = Len(arrived))
        /\ Between /\ Inside /\ CutInside
    BY DEF ReaderInv
  <1>2. /\ Len(arrived) \in Nat /\ have \in Nat /\ at \in Nat /\ at <= have /\ have <= Len(arrived)
        /\ code \in Codes
    BY <1>1 DEF Given, TypeOK, Codes
  <1>3. ASSUME NEW m \in 1..Len(arrived), Fill(m) PROVE ReaderInv'
    <2>1. /\ have' = have + m /\ have + m <= Len(arrived) /\ done' = FALSE
          /\ UNCHANGED <<written, arrived, at, phase, code, got, out>>
      BY <1>1, <1>3 DEF Fill, source, frame, TypeOK
    <2>2. have' \in 0..Len(arrived) /\ at \in 0..have' /\ (at < have => at < have')
      BY <1>2, <2>1
    <2>3. TypeOK'
      BY <1>1, <2>1, <2>2 DEF TypeOK
    <2>4. Given' /\ Told' /\ Inside' /\ CutInside'
      BY <1>1, <2>1 DEF Given, Told, Inside, CutInside, Reads
    <2>5. Between'
      BY <1>1, <2>1, <2>2 DEF Between
    <2> QED  BY <2>1, <2>3, <2>4, <2>5 DEF ReaderInv
  <1>4. CASE FillEnd
    <2>1. /\ have = Len(arrived) /\ done' = TRUE
          /\ UNCHANGED <<written, arrived, have, at, phase, code, got, out>>
      BY <1>4 DEF FillEnd, source, frame
    <2>2. TypeOK'
      BY <1>1, <2>1 DEF TypeOK
    <2>3. Given' /\ Told' /\ Between' /\ Inside' /\ CutInside'
      BY <1>1, <2>1 DEF Given, Told, Between, Inside, CutInside, Reads
    <2> QED  BY <2>1, <2>2, <2>3 DEF ReaderInv
  <1>5. CASE Begin
    <2>1. /\ phase = "next" /\ Available >= 1 /\ phase' = "type"
          /\ UNCHANGED <<written, arrived, have, at, done, code, got, out>>
      BY <1>5 DEF Begin, Enough, Needed, source, frame
    <2>2. at < have
      BY <1>2, <2>1 DEF Available
    <2>3. TypeOK'
      BY <1>1, <2>1 DEF TypeOK, Phases
    <2>4. Given' /\ Told' /\ Inside' /\ CutInside'
      BY <1>1, <2>1 DEF Given, Told, Inside, CutInside
    <2>5. Between'
      BY <1>1, <2>1, <2>2 DEF Between
    <2> QED  BY <1>1, <2>1, <2>3, <2>4, <2>5 DEF ReaderInv
  <1>6. CASE End
    <2>1. /\ phase = "next" /\ Available < 1 /\ done /\ phase' = "ended"
          /\ UNCHANGED <<written, arrived, have, at, done, code, got, out>>
      BY <1>6 DEF End, AtEnd, Needed, source, frame
    <2>2. at = Len(arrived)
      BY <1>1, <1>2, <2>1 DEF Available
    <2>3. TypeOK'
      BY <1>1, <2>1 DEF TypeOK, Phases
    <2>4. Given' /\ Told' /\ Inside' /\ CutInside'
      BY <1>1, <2>1 DEF Given, Told, Inside, CutInside
    <2>5. Between'
      BY <1>1, <2>1, <2>2 DEF Between
    <2> QED  BY <1>1, <2>1, <2>3, <2>4, <2>5 DEF ReaderInv
  (* What the reads have in common, of the value that was read. *)
  <1>7. ASSUME NEW c, NEW v, NEW r, NEW k \in Nat, k <= Len(v), NEW l \in Nat, n < Len(written),
               LET f == written[n + 1] IN
                 /\ Spells(SerializeFrame(f), c, v, Meaning(f))
                 /\ Pieces(SerializeFrame(f), Items(c, v), r),
               Accept(c, First(v, k)), at' = at + l, at + l <= have,
               at + l = FrameEnd(written, n) + r[k + 1],
               k = Len(v) => at + l = FrameEnd(written, n + 1),
               UNCHANGED <<written, arrived, have, done>>
        PROVE  ReaderInv'
    <2>1. at' = FrameEnd(written, n) + r[k + 1] /\ (k = Len(v) => at' = FrameEnd(written, n + 1))
      BY <1>7
    <2>2. written' = written /\ arrived' = arrived
      BY <1>7
    <2>3. /\ Told' /\ Between' /\ Inside' /\ CutInside'
          /\ code' \in Codes /\ phase' \in {"next", "fields"}
      BY <1>1, <1>7, <2>1, <2>2, Accepting
    <2>4. Given'
      BY <1>1, <1>7 DEF Given
    <2>5. at' \in 0..have' /\ have' \in 0..Len(arrived')
      BY <1>2, <1>7
    <2>6. done' \in BOOLEAN /\ phase' \in Phases
      BY <1>1, <1>7, <2>3 DEF TypeOK, Phases
    <2>7. TypeOK'
      BY <2>3, <2>5, <2>6, Zenon DEF TypeOK, Codes
    <2>8. done' => have' = Len(arrived')
      BY <1>1, <1>7
    <2> QED  BY <2>3, <2>4, <2>7, <2>8 DEF ReaderInv
  <1>8. CASE ReadType
    <2>1. /\ phase = "type" /\ Available >= NeededByVarint
          /\ at' = at + DecodeVarint(arrived, at).length
          /\ Accept(DecodeVarint(arrived, at).value, <<>>)
          /\ UNCHANGED <<written, arrived, have, done>>
      BY <1>8 DEF ReadType, Enough, Needed, source
    <2>2. n \in Nat /\ n < Len(written)
      BY <2>1, TypeAhead
    <2>3. PICK c, v, r :
            LET f == written[n + 1]
                e == EncodeVarint(c) IN
              /\ Spells(SerializeFrame(f), c, v, Meaning(f))
              /\ Pieces(SerializeFrame(f), Items(c, v), r)
              /\ Ahead(Wire(written), at, e)
              /\ at + Len(e) = FrameEnd(written, n) + r[1]
              /\ at + Len(e) <= FrameEnd(written, n + 1)
              /\ Len(v) = 0 => at + Len(e) = FrameEnd(written, n + 1)
      BY <2>1, TypeAhead
    <2> DEFINE l == Len(EncodeVarint(c))
    <2>4. c \in Number /\ v \in Seq(Values)
      BY <2>3 DEF Spells
    <2>5. l \in Nat /\ at + l <= have /\ DecodeVarint(arrived, at) = [length |-> l, value |-> c]
      BY <1>1, <2>1, <2>3, <2>4, NumberAhead
    <2>6. at' = at + l /\ Accept(c, <<>>)
      BY <2>1, <2>5
    <2>7. First(v, 0) = <<>> /\ Len(v) \in Nat
      BY <2>4 DEF First
    <2>8. PICK k \in Nat : k = 0
      OBVIOUS
    <2>9. k <= Len(v) /\ Accept(c, First(v, k)) /\ k + 1 = 1
      BY <2>6, <2>7, <2>8
    <2>10. at + l = FrameEnd(written, n) + r[k + 1] /\ (k = Len(v) => at + l = FrameEnd(written, n + 1))
      BY <2>3, <2>8, <2>9
    <2>11. LET f == written[n + 1] IN
             Spells(SerializeFrame(f), c, v, Meaning(f)) /\ Pieces(SerializeFrame(f), Items(c, v), r)
      BY <2>3
    <2> HIDE DEF l, n
    <2> QED  BY <1>7, <2>1, <2>2, <2>5, <2>6, <2>9, <2>10, <2>11
  (* And of a field. *)
  <1>9. ASSUME phase = "fields", NEW v, NEW r, Reads(v, r), NEW k, k = Len(got) + 1,
               NEW l \in Nat, l = Len(Item(Field, v[k])), at + l <= have, at' = at + l,
               Accept(code, Append(got, v[k])), UNCHANGED <<written, arrived, have, done>>
        PROVE  ReaderInv'
    <2>1. /\ n \in Nat /\ n < Len(written) /\ Len(got) \in Nat /\ k \in 1..Len(v)
          /\ at + l = FrameEnd(written, n) + r[k + 1]
          /\ k = Len(v) => at + l = FrameEnd(written, n + 1)
          /\ Append(got, v[k]) = First(v, k)
      BY <1>9, FieldAhead
    <2>2. LET f == written[n + 1] IN
            Spells(SerializeFrame(f), code, v, Meaning(f)) /\ Pieces(SerializeFrame(f), Items(code, v), r)
      BY <1>9 DEF Reads
    <2>3. k \in Nat /\ k <= Len(v) /\ Accept(code, First(v, k))
      BY <1>9, <2>1
    <2> HIDE DEF n
    <2> QED  BY <1>7, <1>9, <2>1, <2>2, <2>3
  <1>10. CASE ReadVarint
    <2>1. /\ phase = "fields" /\ ~IsBytes(Field) /\ Available >= NeededByVarint
          /\ at' = at + DecodeVarint(arrived, at).length
          /\ Accept(code, Append(got, DecodeVarint(arrived, at).value))
          /\ UNCHANGED <<written, arrived, have, done>>
      BY <1>10 DEF ReadVarint, Enough, Needed, source
    <2>2. PICK v, r : Reads(v, r)
      BY <1>1, <2>1 DEF Inside
    <2> DEFINE k == Len(got) + 1
               l == Len(EncodeVarint(v[k]))
    <2>3. v[k] \in Number /\ Ahead(Wire(written), at, EncodeVarint(v[k])) /\ Item(Field, v[k]) = EncodeVarint(v[k])
      BY <2>1, <2>2, FieldAhead DEF Item
    <2>4. l \in Nat /\ at + l <= have /\ DecodeVarint(arrived, at) = [length |-> l, value |-> v[k]]
      BY <1>1, <2>1, <2>3, NumberAhead
    <2>5. at' = at + l /\ Accept(code, Append(got, v[k])) /\ l = Len(Item(Field, v[k]))
      BY <2>1, <2>3, <2>4
    <2> HIDE DEF l
    <2> QED  BY <1>9, <2>1, <2>2, <2>4, <2>5
  <1>11. CASE ReadBytes
    <2>1. /\ phase = "fields" /\ IsBytes(Field) /\ Available >= Count
          /\ at' = at + Count
          /\ Accept(code, Append(got, SubSeq(arrived, at + 1, at + Count)))
          /\ UNCHANGED <<written, arrived, have, done>>
      BY <1>11 DEF ReadBytes, Enough, Needed, source
    <2>2. PICK v, r : Reads(v, r)
      BY <1>1, <2>1 DEF Inside
    <2> DEFINE k == Len(got) + 1
               l == Len(v[k])
    <2>3. Count = l /\ Ahead(Wire(written), at, v[k]) /\ Item(Field, v[k]) = v[k]
      BY <2>1, <2>2, FieldAhead DEF Item
    <2>4. l \in Nat /\ at + l <= have /\ SubSeq(arrived, at + 1, at + l) = v[k]
      BY <1>1, <2>1, <2>3, BytesAhead
    <2>5. at' = at + l /\ Accept(code, Append(got, v[k])) /\ l = Len(Item(Field, v[k]))
      BY <2>1, <2>3, <2>4
    <2> HIDE DEF l
    <2> QED  BY <1>9, <2>1, <2>2, <2>4, <2>5
  <1>12. CASE Fail
    <2>1. /\ phase \in {"type", "fields"} /\ Available < Needed /\ done /\ phase' = "failed"
          /\ UNCHANGED <<written, arrived, have, at, done, code, got, out>>
      BY <1>12 DEF Fail, AtEnd, source, frame
    <2>2. have = Len(arrived)
      BY <1>1, <2>1
    <2>3. TypeOK'
      BY <1>1, <2>1 DEF TypeOK, Phases
    <2>4. Given' /\ Told' /\ Inside' /\ Between'
      BY <1>1, <2>1 DEF Given, Told, Inside, Between
    <2>5. CASE phase = "type"
      <3>1. n \in Nat /\ n < Len(written)
        BY <2>5, TypeAhead
      <3>2. PICK c, v, r :
              LET f == written[n + 1]
                  e == EncodeVarint(c) IN
                /\ Spells(SerializeFrame(f), c, v, Meaning(f))
                /\ Ahead(Wire(written), at, e)
                /\ at + Len(e) <= FrameEnd(written, n + 1)
        BY <2>5, TypeAhead
      <3>3. c \in Number /\ Needed = NeededByVarint
        BY <2>5, <3>2 DEF Spells, Needed
      <3>4. Len(EncodeVarint(c)) \in Nat \ {0} /\ have < at + Len(EncodeVarint(c))
        BY <1>1, <2>1, <3>2, <3>3, NumberAhead
      <3>5. FrameEnd(written, n) < Len(arrived)
        BY <1>1, <2>2, <2>5 DEF Between
      <3>6. n + 1 \in 0..Len(written)
        BY <1>1, <3>1 DEF Given
      <3>7. FrameEnd(written, n + 1) \in Nat
        BY <1>1, <3>6, WireEnds DEF Given
      <3>8. Len(arrived) < FrameEnd(written, n + 1)
        BY <1>2, <2>2, <3>2, <3>4, <3>7
      <3>9. CutInside'
        BY <2>1, <3>1, <3>5, <3>8 DEF CutInside
      <3> QED  BY <1>1, <2>1, <2>3, <2>4, <3>9 DEF ReaderInv
    <2>6. CASE phase = "fields"
      <3>1. PICK v, r : Reads(v, r)
        BY <1>1, <2>6 DEF Inside
      <3> DEFINE x == v[Len(got) + 1]
                 item == Item(Field, x)
      <3>2. /\ n \in Nat /\ n < Len(written) /\ Ahead(Wire(written), at, item)
            /\ at + Len(item) <= FrameEnd(written, n + 1) /\ FrameEnd(written, n) < at
            /\ IF IsBytes(Field) THEN x \in Seq(Nat) /\ Count = Len(x) ELSE x \in Number
        BY <2>6, <3>1, FieldAhead
      <3>3. Len(item) \in Nat /\ have < at + Len(item)
        <4>1. CASE IsBytes(Field)
          <5>1. item = x /\ Needed = Len(x)
            BY <2>6, <3>2, <4>1 DEF Item, Needed
          <5> HIDE DEF x, item
          <5> QED  BY <1>1, <2>1, <3>2, <5>1, BytesAhead
        <4>2. CASE ~IsBytes(Field)
          <5>1. item = EncodeVarint(x) /\ Needed = NeededByVarint /\ x \in Number
            BY <2>6, <3>2, <4>2 DEF Item, Needed
          <5> HIDE DEF x, item
          <5>2. Len(EncodeVarint(x)) \in Nat \ {0} /\ have < at + Len(EncodeVarint(x))
            BY <1>1, <2>1, <3>2, <5>1, NumberAhead
          <5> QED  BY <5>1, <5>2
        <4> QED  BY <4>1, <4>2
      <3> HIDE DEF item, x
      <3>4. n + 1 \in 0..Len(written) /\ n \in 0..Len(written)
        BY <1>1, <3>2 DEF Given
      <3>5. FrameEnd(written, n + 1) \in Nat /\ FrameEnd(written, n) \in Nat
        BY <1>1, <3>4, WireEnds DEF Given
      <3>6. FrameEnd(written, n) < Len(arrived) /\ Len(arrived) < FrameEnd(written, n + 1)
        BY <1>2, <2>2, <3>2, <3>3, <3>5
      <3>7. CutInside'
        BY <2>1, <3>2, <3>6 DEF CutInside
      <3> QED  BY <1>1, <2>1, <2>3, <2>4, <3>7 DEF ReaderInv
    <2> QED  BY <2>1, <2>5, <2>6
  <1>13. CASE UNCHANGED rvars
    <2>1. UNCHANGED <<written, arrived, have, at, done, phase, code, got, out>>
      BY <1>13 DEF rvars, source, frame
    <2> QED  BY <1>1, <2>1 DEF ReaderInv, Given, Told, TypeOK, Between, Inside, CutInside, Reads
  <1> QED  BY <1>3, <1>4, <1>5, <1>6, <1>8, <1>10, <1>11, <1>12, <1>13 DEF NextReader, Pull

LEMMA ReaderInvariant == ReaderSpec => []ReaderInv
  <1> QED  BY ReaderStarts, ReaderSteps, PTL DEF ReaderSpec

(* The reader never consumes more than it pulled, nor pulls more than there*)
(* is, and every type it takes for a frame's is one.                       *)
THEOREM ReaderTypeCorrect == ReaderSpec => []TypeOK
  <1>1. ReaderInv => TypeOK
    BY DEF ReaderInv
  <1> QED  BY <1>1, ReaderInvariant, PTL

(* Whatever frames were written, and however their bytes are cut and come  *)
(* in chunks: the frames that are yielded are the first of those written,  *)
(* field by field.                                                         *)
THEOREM FramesSurvive == ReaderSpec => []FramesAreThoseWritten
  <1>1. ReaderInv => FramesAreThoseWritten
    BY DEF ReaderInv, Told, FramesAreThoseWritten
  <1> QED  BY <1>1, ReaderInvariant, PTL

(* The iteration ends only where a frame does, with every frame told whose *)
(* bytes are all there; a source that ends inside a frame is an error (but *)
(* see CutIsNoticed on CONNECTION_CLOSE).                                  *)
THEOREM CutsAreNoticed == ReaderSpec => []CutIsNoticed
  <1>1. ReaderInv => CutIsNoticed
    BY DEF ReaderInv, Between, CutInside, CutIsNoticed, FrameEnd, First
  <1> QED  BY <1>1, ReaderInvariant, PTL

===============================================================================
