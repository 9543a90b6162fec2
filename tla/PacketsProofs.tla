----------------------------- MODULE PacketsProofs -----------------------------
(***************************************************************************)
(* What holds of module Packets for all frames, masks and sizes, as TLAPS  *)
(* proves it.                                                              *)
(***************************************************************************)
EXTENDS Packets, InductionProofs, FiniteSetTheorems

(* Masking twice with the same mask changes nothing. *)
LEMMA XorTwice ==
  ASSUME NEW a, NEW b
  PROVE  Xor(Xor(a, b), b) = a
  BY DEF Xor

(* Header protection leaves the form bit alone, and with it the mask's     *)
(* extent and the phase.                                                   *)
LEMMA FormIsKept ==
  ASSUME NEW first, NEW bits
  PROVE  LET masked == Xor(first, bits \cap Covered(first))
         IN  /\ IsLong(masked) <=> IsLong(first)
             /\ FirstByteMask(masked) = Covered(first)
             /\ Covered(masked) = Covered(first)
             /\ ClassifyKeyPhase(masked) = ClassifyKeyPhase(first)
  <1> DEFINE masked == Xor(first, bits \cap Covered(first))
  <1>1. 7 \notin Covered(first)
    BY DEF Covered
  <1>2. IsLong(masked) <=> IsLong(first)
    BY <1>1 DEF IsLong, Xor
  <1>3. FirstByteMask(masked) = Covered(first) /\ Covered(masked) = Covered(first)
    BY <1>2 DEF FirstByteMask, Covered
  <1>4. IsLong(first) => 4 \notin Covered(first) /\ 5 \notin Covered(first)
    BY DEF Covered
  <1>5. IsLong(first) => masked \cap {5, 4} = first \cap {5, 4}
    BY <1>4 DEF Xor
  <1>6. ClassifyKeyPhase(masked) = ClassifyKeyPhase(first)
    BY <1>2, <1>5 DEF ClassifyKeyPhase
  <1> QED  BY <1>2, <1>3, <1>6

(* The first byte tells the phase, and that the packet number has 4 bytes. *)
LEMMA FirstByteTells ==
  ASSUME NEW phase \in Phases
  PROVE  /\ IsLong(ProtectedFirst(phase)) <=> phase # "application"
         /\ ClassifyKeyPhase(ProtectedFirst(phase)) = phase
         /\ PnLength(ProtectedFirst(phase)) = 4
  <1>1. IsLong(ProtectedFirst(phase)) <=> phase # "application"
    BY DEF IsLong, ProtectedFirst, LongType
  <1>2. PnLength(ProtectedFirst(phase)) = 4
    BY DEF PnLength, ProtectedFirst
  <1>3. phase # "application" =>
          ProtectedFirst(phase) \cap {5, 4} = IF phase = "handshake" THEN {5} ELSE {}
    BY DEF ProtectedFirst, LongType
  <1>4. ClassifyKeyPhase(ProtectedFirst(phase)) = phase
    BY <1>1, <1>3 DEF ClassifyKeyPhase, Phases
  <1> QED  BY <1>1, <1>2, <1>4

(* What the receiver makes of a protected packet's first byte and of its   *)
(* place, if its own connection id is as long as the sender's.             *)
LEMMA LayoutsAgree ==
  ASSUME setup \in Setups, NEW phase \in Phases, NEW payload, NEW n, NEW mask,
         NEW p, p = WrapProtected(phase, payload, n, mask), SameIdLength(p)
  PROVE  /\ PnOffset(p) = SerializedHeader(phase) /\ SerializedHeader(phase) \in Nat
         /\ p.start = SerializedHeader(phase) + 4
         /\ FirstByteMask(p.first) = Covered(ProtectedFirst(phase))
         /\ Covered(p.first) = Covered(ProtectedFirst(phase))
         /\ p.first = Xor(ProtectedFirst(phase), mask.first \cap Covered(ProtectedFirst(phase)))
  <1> DEFINE first == ProtectedFirst(phase)
  <1>1. /\ p.first = Xor(first, mask.first \cap Covered(first))
        /\ p.start = SerializedHeader(phase) + 4
        /\ p.dcidLength = setup.dcidLength["sender"]
    BY DEF WrapProtected
  <1>2. setup.dcidLength["sender"] \in Nat /\ setup.dcidLength["receiver"] \in Nat
    BY SetupsAssumption DEF Ends
  <1>3. IsLong(first) <=> phase # "application"
    BY FirstByteTells
  <1> HIDE DEF first
  <1>4. /\ IsLong(p.first) <=> phase # "application"
        /\ FirstByteMask(p.first) = Covered(first) /\ Covered(p.first) = Covered(first)
    BY <1>1, <1>3, FormIsKept
  <1>5. PnOffset(p) = SerializedHeader(phase) /\ SerializedHeader(phase) \in Nat
    BY <1>1, <1>2, <1>4 DEF PnOffset, HeaderLength, SerializedHeader, SameIdLength
  <1> QED  BY <1>1, <1>4, <1>5 DEF first

(* One packet: what unprotectHeader finds in what wrapPacketProtected made. *)
LEMMA RecoverOne ==
  ASSUME setup \in Setups, NEW phase \in Phases, NEW payload, NEW n, NEW mask,
         NEW p, p = WrapProtected(phase, payload, n, mask), SameIdLength(p), SameSecrets(p)
  PROVE  UnprotectHeader(p) = [first |-> p.aad[1], pn |-> p.aad[2], length |-> p.aad[3]]
  <1> DEFINE first == ProtectedFirst(phase)
  <1>1. /\ p.pn = Xor(WirePn(n), mask.pn) /\ p.mask = mask
        /\ p.aad[1] = first /\ p.aad[2] = WirePn(n) /\ p.aad[3] = 4
    BY DEF WrapProtected
  <1>2. /\ PnOffset(p) = SerializedHeader(phase) /\ SerializedHeader(phase) \in Nat
        /\ p.start = SerializedHeader(phase) + 4
        /\ FirstByteMask(p.first) = Covered(first)
        /\ p.first = Xor(first, mask.first \cap Covered(first))
    BY LayoutsAgree
  <1>3. PnOffset(p) + 4 + 4 = p.start + 4 /\ PnOffset(p) = p.start - 4
    BY <1>2
  <1>4. MaskAt(p, PnOffset(p) + 4 + 4, OpeningSecrets(p)) = mask
    BY <1>1, <1>3 DEF MaskAt, SameSecrets
  <1>5. PnAt(p, PnOffset(p)) = p.pn
    BY <1>3 DEF PnAt
  <1> HIDE DEF first
  <1>6. Xor(p.first, mask.first \cap FirstByteMask(p.first)) = first
    BY <1>2, XorTwice
  <1>7. Xor(p.pn, mask.pn) = WirePn(n)
    BY <1>1, XorTwice
  <1>8. UnprotectHeader(p) = [first |-> first, pn |-> WirePn(n), length |-> PnLength(first)]
    BY <1>4, <1>5, <1>6, <1>7 DEF UnprotectHeader
  <1> QED  BY <1>1, <1>8, FirstByteTells DEF first

-------------------------------------------------------------------------------
(* Nonces *)

(* One step of the recursion that computes the bits of a number. *)
LEMMA BitsStep ==
  /\ Bits \in [Nat -> SUBSET Nat]
  /\ \A n \in Nat :
       Bits[n] = IF n = 0 THEN {}
                 ELSE (IF n % 2 = 1 THEN {0} ELSE {}) \cup {i + 1 : i \in Bits[n \div 2]}
  <1> DEFINE S    == SUBSET Nat
             base == [n \in {0} |-> {}]
             half == [n \in Nat |-> n \div 2]
             step == [x \in Nat \X S |->
                        (IF x[1] % 2 = 1 THEN {0} ELSE {}) \cup {i + 1 : i \in x[2]}]
             Step(f) == [n \in Nat |-> IF n = 0 THEN {}
                 ELSE (IF n % 2 = 1 THEN {0} ELSE {}) \cup {i + 1 : i \in f[n \div 2]}]
  <1>1. Descends(Nat, {0}, half)
    BY DEF Descends
  <1>2. StaysIn(S, Nat, {0}, base, step)
    <2>1. ASSUME NEW m \in Nat \ {0}, NEW v \in S PROVE step[<<m, v>>] \in S
      <3>1. step[<<m, v>>] = (IF m % 2 = 1 THEN {0} ELSE {}) \cup {i + 1 : i \in v}
        OBVIOUS
      <3> HIDE DEF step
      <3> QED  BY <3>1
    <2> QED  BY <2>1 DEF StaysIn
  <1>3. PICK f \in [Nat -> S] : Computes(f, Nat, {0}, base, half, step)
    <2> HIDE DEF S, base, half, step
    <2> QED  BY <1>1, <1>2, RecursionExists
  <1>4. ASSUME NEW n \in Nat
        PROVE  f[n] = IF n = 0 THEN {}
                 ELSE (IF n % 2 = 1 THEN {0} ELSE {}) \cup {i + 1 : i \in f[n \div 2]}
    <2>1. f[n] = IF n \in {0} THEN base[n] ELSE step[<<n, f[half[n]]>>]
      BY <1>3 DEF Computes
    <2>2. n \div 2 \in Nat /\ half[n] = n \div 2
      OBVIOUS
    <2>3. f[n \div 2] \in S
      BY <2>2
    <2>4. step[<<n, f[n \div 2]>>] =
            (IF n % 2 = 1 THEN {0} ELSE {}) \cup {i + 1 : i \in f[n \div 2]}
      BY <2>3
    <2> HIDE DEF step
    <2> QED  BY <2>1, <2>2, <2>4
  <1>5. f = Step(f)
    BY <1>4
  <1>6. Bits = CHOOSE g : g = Step(g)
    BY DEF Bits
  <1>7. Bits = Step(Bits)
    <2> HIDE DEF Step
    <2> QED  BY <1>5, <1>6
  <1>8. ASSUME NEW n \in Nat
        PROVE  Bits[n] = IF n = 0 THEN {}
                 ELSE (IF n % 2 = 1 THEN {0} ELSE {}) \cup {i + 1 : i \in Bits[n \div 2]}
    BY <1>7
  <1>9. {n \in Nat : Bits[n] # f[n]} = {}
    <2> DEFINE T == {n \in Nat : Bits[n] # f[n]}
    <2>1. SUFFICES ASSUME T # {} PROVE FALSE
      OBVIOUS
    <2>2. PICK x \in T : \A y \in T : x <= y
      BY <2>1, LeastElement
    <2>3. x \in Nat /\ Bits[x] # f[x]
      OBVIOUS
    <2>4. x # 0
      BY <1>4, <1>8, <2>3
    <2>5. x \div 2 \in Nat /\ ~(x <= x \div 2)
      BY <2>3, <2>4
    <2>6. Bits[x \div 2] = f[x \div 2]
      BY <2>2, <2>5
    <2> QED  BY <1>4, <1>8, <2>3, <2>4, <2>6
  <1>10. Bits = f
    BY <1>7, <1>9
  <1> QED  BY <1>8, <1>10

LEMMA BitsHalf ==
  ASSUME NEW n \in Nat
  PROVE  /\ Bits[n] \subseteq Nat /\ n \div 2 \in Nat
         /\ 0 \in Bits[n] <=> n % 2 = 1
         /\ \A i \in Nat : i + 1 \in Bits[n] <=> i \in Bits[n \div 2]
  <1>1. n \div 2 \in Nat /\ Bits[n] \subseteq Nat /\ Bits[n \div 2] \subseteq Nat
    BY BitsStep
  <1>2. CASE n = 0
    <2>1. Bits[0] = {} /\ 0 % 2 = 0 /\ 0 \div 2 = 0
      BY BitsStep
    <2> QED  BY <1>1, <1>2, <2>1
  <1>3. CASE n # 0
    <2>1. Bits[n] = (IF n % 2 = 1 THEN {0} ELSE {}) \cup {i + 1 : i \in Bits[n \div 2]}
      BY <1>3, BitsStep
    <2> QED  BY <1>1, <2>1
  <1> QED  BY <1>2, <1>3

(* A number other than 0 has a bit that is 1. *)
LEMMA BitsNonempty ==
  ASSUME NEW n \in Nat, Bits[n] = {}
  PROVE  n = 0
  <1> DEFINE T == {m \in Nat : m # 0 /\ Bits[m] = {}}
  <1>1. SUFFICES ASSUME T # {} PROVE FALSE
    OBVIOUS
  <1>2. PICK x \in T : \A y \in T : x <= y
    BY <1>1, LeastElement
  <1>3. x \in Nat /\ x # 0 /\ Bits[x] = {}
    OBVIOUS
  <1>4. x % 2 # 1 /\ \A i \in Nat : i \notin Bits[x \div 2]
    BY <1>3, BitsHalf
  <1>5. x \div 2 \in Nat /\ x \div 2 # 0 /\ ~(x <= x \div 2)
    BY <1>3, <1>4
  <1>6. Bits[x \div 2] = {}
    BY <1>4, <1>5, BitsHalf
  <1> QED  BY <1>2, <1>5, <1>6

(* No two numbers have the same bits. *)
LEMMA BitsDiffer ==
  ASSUME NEW m \in Nat, NEW n \in Nat, Bits[m] = Bits[n]
  PROVE  m = n
  <1> DEFINE T == {x \in Nat : \E y \in Nat : x # y /\ Bits[x] = Bits[y]}
  <1>1. SUFFICES ASSUME T # {} PROVE FALSE
    OBVIOUS
  <1>2. PICK x \in T : \A y \in T : x <= y
    BY <1>1, LeastElement
  <1>3. PICK y \in Nat : x # y /\ Bits[x] = Bits[y]
    OBVIOUS
  <1>4. x \in Nat /\ y \in T /\ x <= y
    BY <1>2, <1>3
  <1>5. CASE x = 0
    <2>1. Bits[y] = {}
      BY <1>3, <1>5, BitsStep
    <2> QED  BY <1>3, <1>5, <2>1, BitsNonempty
  <1>6. CASE x # 0
    <2>1. x % 2 = y % 2
      <3>1. x % 2 \in {0, 1} /\ y % 2 \in {0, 1}
        BY <1>4
      <3>2. x % 2 = 1 <=> y % 2 = 1
        BY <1>3, <1>4, BitsHalf
      <3> QED  BY <3>1, <3>2
    <2>2. x \div 2 \in Nat /\ y \div 2 \in Nat
      BY <1>4
    <2>3. Bits[x \div 2] = Bits[y \div 2]
      <3>1. \A i \in Nat : i \in Bits[x \div 2] <=> i \in Bits[y \div 2]
        BY <1>3, <1>4, BitsHalf
      <3>2. Bits[x \div 2] \subseteq Nat /\ Bits[y \div 2] \subseteq Nat
        BY <2>2, BitsHalf
      <3> QED  BY <3>1, <3>2
    <2>4. x \div 2 # y \div 2
      BY <1>3, <1>4, <2>1
    <2>5. x \div 2 \in T
      BY <2>2, <2>3, <2>4
    <2>6. x <= x \div 2
      BY <1>2, <2>5
    <2> QED  BY <1>4, <1>6, <2>6
  <1> QED  BY <1>5, <1>6

(* constructNonce never makes one nonce of two packet numbers. *)
LEMMA NoncesDiffer ==
  ASSUME NEW secrets, NEW m \in Nat, NEW n \in Nat, Nonce(secrets, m) = Nonce(secrets, n)
  PROVE  m = n
  <1>1. Bits[m] = Bits[n]
    BY DEF Nonce, Xor
  <1> QED  BY <1>1, BitsDiffer

LEMMA NonceType ==
  ASSUME setup \in Setups, NEW n \in Nat
  PROVE  Nonce(setup.clientProtection["application"], n) \in SUBSET Nat
  <1>1. setup.clientProtection["application"] \in Secrets
    BY SetupsAssumption DEF Phases
  <1>2. IV[setup.clientProtection["application"]] \in SUBSET Nat
    BY <1>1, MasksAssumption
  <1>3. Bits[n] \subseteq Nat
    BY BitsHalf
  <1> QED  BY <1>2, <1>3 DEF Nonce, Xor

-------------------------------------------------------------------------------
(* Payloads *)

Distinct(s) == \A x, y \in 1..Len(s) : s[x] = s[y] => x = y

(* packFrames puts every byte of every frame in one place, and no other.   *)
LEMMA PackedBytes ==
  ASSUME NEW fs, fs \subseteq Frames, NEW q \in Seq(fs)
  PROVE  /\ PackFrames(q) \in Seq(BytesOf(fs))
         /\ \A f \in Range(q) : \A i \in 1..FrameLength[f] : <<f, i>> \in Range(PackFrames(q))
         /\ \A b \in Range(PackFrames(q)) : b[1] \in Range(q)
         /\ Distinct(q) => Distinct(PackFrames(q))
         /\ q # <<>> => PackFrames(q) # <<>>
  <1> DEFINE ss == [k \in 1..Len(q) |-> Serialize(q[k])]
             flat == FlattenSeq(ss)
             n == Len(q)
  <1>1. n \in Nat /\ (q # <<>> => n # 0) /\ \A k \in 1..n : q[k] \in fs /\ q[k] \in Range(q)
    BY DEF Range
  <1>2. \A f \in fs : FrameLength[f] \in Nat \ {0}
    BY FramesAssumption
  <1>3. ASSUME NEW k \in 1..n
        PROVE  /\ ss[k] \in Seq(BytesOf(fs)) /\ Len(ss[k]) = FrameLength[q[k]]
               /\ \A j \in 1..FrameLength[q[k]] : ss[k][j] = <<q[k], j>>
    <2>1. ss[k] = [i \in 1..FrameLength[q[k]] |-> <<q[k], i>>]
      BY DEF Serialize
    <2>2. FrameLength[q[k]] \in Nat /\ q[k] \in fs
      BY <1>1, <1>2
    <2>3. \A i \in 1..FrameLength[q[k]] : <<q[k], i>> \in BytesOf(fs)
      BY <2>2 DEF BytesOf
    <2> HIDE DEF ss
    <2> QED  BY <2>1, <2>2, <2>3
  <1>4. ss \in Seq(Seq(BytesOf(fs))) /\ Len(ss) = n
    BY <1>1, <1>3
  <1> HIDE DEF ss
  <1>5. /\ flat \in Seq(BytesOf(fs))
        /\ \E start \in [1..n -> Nat] : Places(ss, start, n, flat)
    BY <1>4, FlattenPlaces
  <1>6. PICK start \in [1..n -> Nat] : Places(ss, start, n, flat)
    BY <1>5
  <1>7. PackFrames(q) = flat
    BY DEF PackFrames, ss
  <1> HIDE DEF flat, n
  <1>8. ASSUME NEW k \in 1..n, NEW j \in 1..FrameLength[q[k]]
        PROVE  start[k] + j \in 1..Len(flat) /\ flat[start[k] + j] = <<q[k], j>>
    <2>1. j \in 1..Len(ss[k]) /\ ss[k][j] = <<q[k], j>>
      BY <1>3
    <2> QED  BY <1>6, <2>1 DEF Places
  <1>9. ASSUME NEW x \in 1..Len(flat)
        PROVE  \E k \in 1..n : \E j \in 1..FrameLength[q[k]] :
                 x = start[k] + j /\ flat[x] = <<q[k], j>>
    <2>1. PICK k \in 1..n : \E j \in 1..Len(ss[k]) : x = start[k] + j
      BY <1>6 DEF Places
    <2>2. PICK j \in 1..Len(ss[k]) : x = start[k] + j
      BY <2>1
    <2>3. j \in 1..FrameLength[q[k]]
      BY <1>3
    <2> QED  BY <1>8, <2>2, <2>3
  <1>10. DOMAIN flat = 1..Len(flat) /\ Len(flat) \in Nat
    BY <1>5
  <1>11. ASSUME NEW f \in Range(q), NEW i \in 1..FrameLength[f]
         PROVE  <<f, i>> \in Range(flat)
    <2>1. PICK k \in 1..n : q[k] = f
      BY DEF Range, n
    <2>2. start[k] + i \in DOMAIN flat /\ flat[start[k] + i] = <<f, i>>
      BY <1>8, <1>10, <2>1
    <2> QED  BY <2>2 DEF Range
  <1>12. ASSUME NEW b \in Range(flat)
         PROVE  b[1] \in Range(q)
    <2>1. PICK x \in 1..Len(flat) : b = flat[x]
      BY <1>10 DEF Range
    <2>2. PICK k \in 1..n : \E j \in 1..FrameLength[q[k]] : flat[x] = <<q[k], j>>
      BY <1>9
    <2> QED  BY <1>1, <2>1, <2>2
  <1>13. ASSUME Distinct(q) PROVE Distinct(flat)
    <2> SUFFICES ASSUME NEW x \in 1..Len(flat), NEW y \in 1..Len(flat), flat[x] = flat[y]
                 PROVE  x = y
      BY DEF Distinct
    <2>1. PICK k \in 1..n : \E j \in 1..FrameLength[q[k]] :
            x = start[k] + j /\ flat[x] = <<q[k], j>>
      BY <1>9
    <2>2. PICK l \in 1..n : \E i \in 1..FrameLength[q[l]] :
            y = start[l] + i /\ flat[y] = <<q[l], i>>
      BY <1>9
    <2>3. PICK j : x = start[k] + j /\ flat[x] = <<q[k], j>>
      BY <2>1
    <2>4. PICK i : y = start[l] + i /\ flat[y] = <<q[l], i>>
      BY <2>2
    <2>5. q[k] = q[l] /\ j = i
      BY <2>3, <2>4
    <2>6. k = l
      BY <1>13, <2>5 DEF Distinct, n
    <2> QED  BY <2>3, <2>4, <2>5, <2>6
  <1>14. ASSUME q # <<>> PROVE flat # <<>>
    <2>1. 1 \in 1..n
      BY <1>1, <1>14
    <2>2. 1 \in 1..FrameLength[q[1]]
      BY <1>1, <1>2, <2>1
    <2>3. start[1] + 1 \in 1..Len(flat)
      BY <1>8, <2>1, <2>2
    <2> QED  BY <1>10, <2>3
  <1> QED  BY <1>5, <1>7, <1>11, <1>12, <1>13, <1>14

(* flush cuts a payload so that every byte is in one fragment.             *)
LEMMA CutBytes ==
  ASSUME NEW B, NEW bytes \in Seq(B)
  PROVE  /\ Fragments(bytes) \in Seq(Seq(B))
         /\ \A k \in 1..Len(Fragments(bytes)) :
              /\ Len(Fragments(bytes)[k]) \in 1..MaxPayload
              /\ Range(Fragments(bytes)[k]) \subseteq Range(bytes)
         /\ \A b \in Range(bytes) : \E k \in 1..Len(Fragments(bytes)) :
              b \in Range(Fragments(bytes)[k])
         /\ Distinct(bytes) =>
              \A j, k \in 1..Len(Fragments(bytes)) : \A b :
                b \in Range(Fragments(bytes)[j]) /\ b \in Range(Fragments(bytes)[k]) => j = k
         /\ bytes # <<>> => Fragments(bytes) # <<>>
  <1> DEFINE L == Len(bytes)
             M == MaxPayload
             n == (L + M - 1) \div M
             last(k) == IF k * M < L THEN k * M ELSE L
             fr == Fragments(bytes)
  <1>1. L \in Nat /\ M \in Nat \ {0} /\ DOMAIN bytes = 1..L /\ bytes \in [1..L -> B]
    BY SizesAssumption
  <1>2. fr = [k \in 1..n |-> SubSeq(bytes, (k - 1) * M + 1, last(k))]
    BY DEF Fragments
  <1> HIDE DEF L, M, fr
  <1>3. n \in Nat /\ n * M <= L + M - 1 /\ L + M - 1 < n * M + M
    BY <1>1
  <1>4. L <= n * M
    BY <1>1, <1>3
  <1> HIDE DEF n
  <1>5. ASSUME NEW k \in 1..n
        PROVE  /\ (k - 1) * M \in Nat /\ k * M = (k - 1) * M + M
               /\ last(k) \in 1..L /\ (k - 1) * M < last(k)
               /\ last(k) <= (k - 1) * M + M
    <2>1. (k - 1) * M \in Nat /\ k * M = (k - 1) * M + M
      BY <1>1, <1>3
    <2>2. k * M <= n * M
      BY <1>1, <1>3
    <2>3. (k - 1) * M < L
      BY <1>1, <1>3, <2>1, <2>2
    <2> QED  BY <1>1, <2>1, <2>3
  <1>6. ASSUME NEW k \in 1..n
        PROVE  /\ fr[k] \in Seq(B) /\ Len(fr[k]) = last(k) - (k - 1) * M
               /\ \A i \in 1..Len(fr[k]) : fr[k][i] = bytes[(k - 1) * M + i]
    <2> DEFINE lo == (k - 1) * M
               hi == last(k)
    <2>1. lo \in Nat /\ hi \in 1..L /\ lo < hi
      BY <1>5
    <2>2. fr[k] = SubSeq(bytes, lo + 1, hi)
      BY <1>2
    <2> HIDE DEF lo, hi
    <2>3. /\ fr[k] \in Seq(B) /\ Len(fr[k]) = hi - lo
          /\ \A i \in 1..Len(fr[k]) : fr[k][i] = bytes[lo + i]
      BY <1>1, <2>1, <2>2
    <2> QED  BY <2>3 DEF lo, hi
  <1>7. fr \in Seq(Seq(B)) /\ Len(fr) = n
    BY <1>2, <1>3, <1>6
  <1> HIDE DEF last
  (* Fragment k is made of the bytes at places (k - 1) * M + 1 to k * M. *)
  <1>8. ASSUME NEW k \in 1..n
        PROVE  /\ Len(fr[k]) \in 1..M
               /\ DOMAIN fr[k] = 1..Len(fr[k])
               /\ \A i \in 1..Len(fr[k]) : (k - 1) * M + i \in 1..L
    <2>1. Len(fr[k]) \in 1..M
      BY <1>1, <1>5, <1>6
    <2>2. DOMAIN fr[k] = 1..Len(fr[k])
      BY <1>6
    <2>3. ASSUME NEW i \in 1..Len(fr[k]) PROVE (k - 1) * M + i \in 1..L
      BY <1>1, <1>5, <1>6, <2>1
    <2> QED  BY <2>1, <2>2, <2>3
  <1>9. ASSUME NEW k \in 1..n
        PROVE  Range(fr[k]) \subseteq Range(bytes)
    <2> SUFFICES ASSUME NEW i \in 1..Len(fr[k]) PROVE fr[k][i] \in Range(bytes)
      BY <1>8 DEF Range
    <2> QED  BY <1>1, <1>6, <1>8 DEF Range
  <1>10. ASSUME NEW b \in Range(bytes)
         PROVE  \E k \in 1..n : b \in Range(fr[k])
    <2>1. PICK x \in 1..L : b = bytes[x]
      BY <1>1 DEF Range
    <2> DEFINE k == (x - 1) \div M + 1
               i == x - (k - 1) * M
    <2>2. x \in Nat /\ x <= L /\ x - 1 \in Nat /\ (x - 1) \div M \in Nat
      BY <1>1
    <2>3. /\ ((x - 1) \div M) * M <= x - 1 /\ x - 1 < ((x - 1) \div M) * M + M
          /\ ((x - 1) \div M) * M \in Nat
      BY <1>1, <2>2
    <2>4. k \in Nat \ {0} /\ (k - 1) * M = ((x - 1) \div M) * M
      BY <1>1, <2>2
    <2> HIDE DEF k
    <2>5. /\ (k - 1) * M \in Nat /\ k * M = (k - 1) * M + M
          /\ (k - 1) * M < x /\ x <= k * M
      BY <1>1, <2>2, <2>3, <2>4
    <2>6. (k - 1) * M < n * M
      BY <1>1, <1>3, <1>4, <2>2, <2>5
    <2>7. k - 1 < n
      BY <1>1, <1>3, <2>4, <2>6
    <2>8. k \in 1..n
      BY <1>3, <2>4, <2>7
    <2>9. x <= last(k)
      BY <1>1, <2>2, <2>5 DEF last
    <2>10. i \in 1..Len(fr[k]) /\ (k - 1) * M + i = x
      BY <1>5, <1>6, <2>2, <2>5, <2>8, <2>9
    <2>11. fr[k][i] = b
      BY <1>6, <2>1, <2>8, <2>10
    <2> QED  BY <1>8, <2>8, <2>10, <2>11 DEF Range
  <1>11. ASSUME Distinct(bytes), NEW j \in 1..n, NEW k \in 1..n, NEW b,
                b \in Range(fr[j]), b \in Range(fr[k])
         PROVE  j = k
    <2>1. PICK x \in 1..Len(fr[j]) : b = fr[j][x]
      BY <1>8, <1>11 DEF Range
    <2>2. PICK y \in 1..Len(fr[k]) : b = fr[k][y]
      BY <1>8, <1>11 DEF Range
    <2>3. bytes[(j - 1) * M + x] = bytes[(k - 1) * M + y]
      BY <1>6, <2>1, <2>2
    <2>4. (j - 1) * M + x \in 1..L /\ (k - 1) * M + y \in 1..L
      BY <1>8
    <2>5. (j - 1) * M + x = (k - 1) * M + y
      BY <1>11, <2>3, <2>4 DEF Distinct, L
    <2>6. x \in 1..M /\ y \in 1..M
      <3>1. Len(fr[j]) \in 1..M /\ Len(fr[k]) \in 1..M
        BY <1>8
      <3> QED  BY <1>1, <3>1
    <2>7. /\ (j - 1) * M \in Nat /\ j * M = (j - 1) * M + M
          /\ (k - 1) * M \in Nat /\ k * M = (k - 1) * M + M
      BY <1>5
    <2>8. (j - 1) * M < k * M /\ (k - 1) * M < j * M
      BY <1>1, <2>5, <2>6, <2>7
    <2>9. j - 1 < k /\ k - 1 < j
      BY <1>1, <1>3, <2>8
    <2> QED  BY <1>3, <2>9
  <1>12. ASSUME bytes # <<>> PROVE fr # <<>>
    <2>1. L # 0
      BY <1>12 DEF L
    <2>2. n # 0
      BY <1>1, <1>3, <1>4, <2>1
    <2> QED  BY <1>3, <1>7, <2>2
  <1> QED  BY <1>7, <1>8, <1>9, <1>10, <1>11, <1>12 DEF fr, M

(* What FramesIn finds are frames whose bytes are there.                   *)
LEMMA FramesInType ==
  ASSUME NEW fs, NEW payload \in Seq(BytesOf(fs))
  PROVE  FramesIn(payload) \in Seq(fs)
  <1> DEFINE n    == Len(payload)
             D    == 0..n
             base == [k \in {0} |-> <<>>]
             prev == [k \in D |-> k - 1]
             step == [x \in D \X Seq(fs) |->
                        IF CompletesFrame(payload, x[1]) THEN Append(x[2], payload[x[1]][1])
                        ELSE x[2]]
             Step(f) == [k \in 0..Len(payload) |->
                           IF k = 0 THEN <<>>
                           ELSE IF CompletesFrame(payload, k)
                                THEN Append(f[k - 1], payload[k][1])
                           ELSE f[k - 1]]
             G == CHOOSE f : f = Step(f)
  <1>1. n \in Nat /\ D \in SUBSET Nat /\ \A k \in D \ {0} : payload[k][1] \in fs
    BY DEF BytesOf
  <1>2. Descends(D, {0}, prev)
    BY DEF Descends
  <1>3. StaysIn(Seq(fs), D, {0}, base, step)
    <2>1. ASSUME NEW m \in D \ {0}, NEW v \in Seq(fs) PROVE step[<<m, v>>] \in Seq(fs)
      <3>1. step[<<m, v>>] =
              IF CompletesFrame(payload, m) THEN Append(v, payload[m][1]) ELSE v
        OBVIOUS
      <3> HIDE DEF step
      <3> QED  BY <1>1, <3>1
    <2>2. \A m \in {0} : base[m] \in Seq(fs)
      OBVIOUS
    <2> QED  BY <2>1, <2>2 DEF StaysIn
  <1>4. PICK f \in [D -> Seq(fs)] : Computes(f, D, {0}, base, prev, step)
    <2> HIDE DEF D, base, prev, step
    <2> QED  BY <1>1, <1>2, <1>3, RecursionExists
  <1>5. ASSUME NEW k \in D
        PROVE  f[k] = IF k = 0 THEN <<>>
                      ELSE IF CompletesFrame(payload, k)
                           THEN Append(f[k - 1], payload[k][1])
                      ELSE f[k - 1]
    <2>1. f[k] = IF k \in {0} THEN base[k] ELSE step[<<k, f[prev[k]]>>]
      BY <1>4 DEF Computes
    <2>2. CASE k = 0
      BY <2>1, <2>2
    <2>3. CASE k # 0
      <3>1. k - 1 \in D /\ prev[k] = k - 1
        BY <1>1, <2>3
      <3>2. f[k - 1] \in Seq(fs)
        BY <3>1
      <3>3. step[<<k, f[k - 1]>>] =
              IF CompletesFrame(payload, k) THEN Append(f[k - 1], payload[k][1]) ELSE f[k - 1]
        BY <3>2
      <3> HIDE DEF step
      <3> QED  BY <2>1, <2>3, <3>1, <3>3
    <2> QED  BY <2>2, <2>3
  <1>6. f = Step(f)
    BY <1>5
  <1>7. G = Step(G)
    <2> HIDE DEF Step
    <2> QED  BY <1>6
  <1>8. FramesIn(payload) = G[n]
    BY DEF FramesIn
  <1>9. \A k \in D : G[k] = IF k = 0 THEN <<>>
                             ELSE IF CompletesFrame(payload, k)
                                  THEN Append(G[k - 1], payload[k][1])
                             ELSE G[k - 1]
    BY <1>7
  <1> HIDE DEF G
  <1> DEFINE T == {k \in D : G[k] \notin Seq(fs)}
  <1>10. T = {}
    <2>1. SUFFICES ASSUME T # {} PROVE FALSE
      OBVIOUS
    <2>2. PICK k \in T : \A y \in T : k <= y
      BY <1>1, <2>1, LeastElement
    <2>3. k \in D /\ k \in Nat /\ G[k] \notin Seq(fs)
      BY <1>1
    <2>a. /\ k = 0 => G[k] = <<>>
          /\ k # 0 => G[k] = Append(G[k - 1], payload[k][1]) \/ G[k] = G[k - 1]
      BY <1>9, <2>3
    <2>b. <<>> \in Seq(fs)
      OBVIOUS
    <2>4. k # 0
      BY <2>3, <2>a, <2>b
    <2>5. k - 1 \in D /\ ~(k <= k - 1)
      BY <1>1, <2>3, <2>4
    <2>6. G[k - 1] \in Seq(fs)
      BY <2>2, <2>5
    <2>7. payload[k][1] \in fs
      BY <1>1, <2>3, <2>4
    <2>8. Append(G[k - 1], payload[k][1]) \in Seq(fs)
      BY <2>6, <2>7
    <2> QED  BY <2>3, <2>4, <2>6, <2>8, <2>a
  <1>11. n \in D
    BY <1>1
  <1> QED  BY <1>8, <1>10, <1>11

-------------------------------------------------------------------------------
(* Types *)

LEMMA SeqGrows ==
  ASSUME NEW A, NEW B, A \subseteq B, NEW s \in Seq(A)
  PROVE  s \in Seq(B)
  OBVIOUS

LEMMA ShortSeqs ==
  ASSUME NEW R
  PROVE  /\ <<>> \in Seq(R) /\ Len(<<>>) <= 1
         /\ \A x \in R : <<x>> \in Seq(R) /\ Len(<<x>>) <= 1
         /\ \A s \in Seq(R) : s # <<>> => s[1] \in R /\ 1 \in 1..Len(s)
  OBVIOUS

(* What a flush() makes of the queue. *)
LEMMA FlushedFragments ==
  ASSUME TypeOK, queue # <<>>,
         NEW fragments, fragments = Fragments(PackFrames(queue))
  PROVE  /\ fragments \in Seq(Seq(BytesOf(used)))
         /\ Len(fragments) \in Nat \ {0}
         /\ \A k \in 1..Len(fragments) :
              fragments[k] \in Seq(BytesOf(used)) /\ Len(fragments[k]) \in 1..MaxPayload
  <1>1. PackFrames(queue) \in Seq(BytesOf(used)) /\ PackFrames(queue) # <<>>
    BY PackedBytes DEF TypeOK
  <1>2. /\ fragments \in Seq(Seq(BytesOf(used))) /\ fragments # <<>>
        /\ \A k \in 1..Len(fragments) : Len(fragments[k]) \in 1..MaxPayload
    BY <1>1, CutBytes
  <1> QED  BY <1>2

Datagrams(fs, ps) ==
    [packet : ps, keyed : BOOLEAN, opened : BOOLEAN,
     frames : Seq(fs \cup {NotAFrame}), fails : BOOLEAN]

Culprits(ps) == [packet : ps, keyed : BOOLEAN, thrown : BOOLEAN]

LEMMA FatalType ==
  ASSUME NEW p \in wire, NEW withKeys \in BOOLEAN, NEW thrown \in BOOLEAN,
         Fatal(p, withKeys, thrown)
  PROVE  culprit' \in Seq(Culprits(wire)) /\ Len(culprit') <= 1
  <1> DEFINE c == [packet |-> p, keyed |-> withKeys, thrown |-> thrown]
  <1>1. c \in Culprits(wire) /\ culprit' = <<c>>
    BY DEF Fatal, Culprits
  <1> HIDE DEF c
  <1> QED  BY <1>1

LEMMA BeginType ==
  ASSUME TypeOK, NEW p \in wire, NEW opened \in BOOLEAN, NEW fails \in BOOLEAN,
         NEW frames \in Seq(used \cup {NotAFrame}), Begin(p, opened, frames, fails)
  PROVE  current' \in Seq(Datagrams(used, wire)) /\ Len(current') <= 1
  <1> DEFINE d == [packet |-> p, keyed |-> keyed["receiver"], opened |-> opened,
                   frames |-> frames, fails |-> fails]
  <1>1. keyed["receiver"] \in BOOLEAN
    BY DEF TypeOK, Ends
  <1>2. d \in Datagrams(used, wire) /\ current' = <<d>>
    BY <1>1 DEF Begin, Datagrams
  <1> HIDE DEF d
  <1> QED  BY <1>2

(* The ways in which a datagram may begin. *)
LEMMA Beginnings ==
  ASSUME TypeOK, NEW p \in wire, NEW opened,
         ReadFrames(p, opened) \/ BeginGarbage(p, opened)
  PROVE  \E frames \in Seq(used \cup {NotAFrame}), fails \in BOOLEAN :
           /\ Begin(p, opened, frames, fails)
           /\ ReadFrames(p, opened) /\ WholeFrames(p.payload) => ~fails
  <1>1. FramesIn(p.payload) \in Seq(used \cup {NotAFrame})
    <2>1. p.payload \in Seq(BytesOf(used))
      BY DEF TypeOK
    <2>2. FramesIn(p.payload) \in Seq(used)
      BY <2>1, FramesInType
    <2> QED  BY <2>2
  <1>2. <<>> \in Seq(used \cup {NotAFrame}) /\ <<NotAFrame>> \in Seq(used \cup {NotAFrame})
    OBVIOUS
  <1>3. CASE ReadFrames(p, opened) /\ StartsWithFrame(p.payload)
    <2>1. Begin(p, opened, FramesIn(p.payload), ~EndsWithFrame(p.payload))
      BY <1>3 DEF ReadFrames
    <2>2. (~EndsWithFrame(p.payload)) \in BOOLEAN
      BY DEF EndsWithFrame
    <2>3. WholeFrames(p.payload) => ~~EndsWithFrame(p.payload)
      BY DEF WholeFrames
    <2> QED  BY <1>1, <2>1, <2>2, <2>3
  <1>4. CASE ~(ReadFrames(p, opened) /\ StartsWithFrame(p.payload))
    <2>1. BeginGarbage(p, opened)
      BY <1>4 DEF ReadFrames
    <2>2. PICK frames \in {<<>>, <<NotAFrame>>}, fails \in BOOLEAN :
            Begin(p, opened, frames, fails)
      BY <2>1 DEF BeginGarbage
    <2>3. frames \in Seq(used \cup {NotAFrame})
      BY <1>2
    <2>4. ~(ReadFrames(p, opened) /\ WholeFrames(p.payload))
      BY <1>4 DEF WholeFrames
    <2> QED  BY <2>2, <2>3, <2>4
  <1> QED  BY <1>3, <1>4

(* The ways in which dispatchDatagram may go. *)
LEMMA Dispatched ==
  ASSUME TypeOK, NEW p \in wire, DispatchDatagram(p)
  PROVE  \/ Fatal(p, TRUE, FALSE) /\ UNCHANGED current /\ keyed["receiver"] /\ ~Opens(p)
         \/ /\ UNCHANGED culprit
            /\ \E opened \in BOOLEAN, frames \in Seq(used \cup {NotAFrame}), fails \in BOOLEAN :
                 /\ Begin(p, opened, frames, fails)
                 /\ opened = keyed["receiver"]
                 /\ fails => \/ ~WholeFrames(p.payload)
                             \/ ~keyed["receiver"] /\ p.protected
                             \/ ~keyed["receiver"] /\ PnOffset(p) + PnLength(p.first) # p.start
  <1>1. keyed["receiver"] \in BOOLEAN /\ p.protected \in BOOLEAN
    BY DEF TypeOK, Ends
  <1>2. HasSecrets(ClassifyKeyPhase(p.first))
    BY DEF HasSecrets, ClassifyKeyPhase, Phases
  <1>3. CASE keyed["receiver"]
    <2>1. DispatchProtected(p)
      BY <1>3 DEF DispatchDatagram
    <2>2. CASE Opens(p)
      <3>1. ReadFrames(p, TRUE)
        BY <1>2, <2>1, <2>2 DEF DispatchProtected
      <3>2. PICK frames \in Seq(used \cup {NotAFrame}), fails \in BOOLEAN :
              /\ Begin(p, TRUE, frames, fails)
              /\ ReadFrames(p, TRUE) /\ WholeFrames(p.payload) => ~fails
        BY <3>1, Beginnings
      <3>3. UNCHANGED culprit
        BY <3>2 DEF Begin
      <3> QED  BY <1>1, <1>3, <3>1, <3>2, <3>3
    <2>3. CASE ~Opens(p)
      BY <1>2, <1>3, <2>1, <2>3 DEF DispatchProtected
    <2> QED  BY <2>2, <2>3
  <1>4. CASE ~keyed["receiver"]
    <2>1. DispatchUnprotected(p)
      BY <1>4 DEF DispatchDatagram
    <2>2. ReadFrames(p, FALSE) \/ BeginGarbage(p, FALSE)
      BY <2>1 DEF DispatchUnprotected
    <2>3. PICK frames \in Seq(used \cup {NotAFrame}), fails \in BOOLEAN :
            /\ Begin(p, FALSE, frames, fails)
            /\ ReadFrames(p, FALSE) /\ WholeFrames(p.payload) => ~fails
      BY <2>2, Beginnings
    <2>4. UNCHANGED culprit
      BY <2>3 DEF Begin
    <2>5. \/ ReadFrames(p, FALSE) \/ p.protected
          \/ PnOffset(p) + PnLength(p.first) # p.start
      BY <2>1 DEF DispatchUnprotected
    <2> QED  BY <1>1, <1>4, <2>3, <2>4, <2>5
  <1> QED  BY <1>1, <1>3, <1>4

LEMMA DispatchType ==
  ASSUME TypeOK, NEW p \in wire, DispatchDatagram(p)
  PROVE  TypeOK'
  <1>1. /\ UNCHANGED <<setup, sender, keyed, handled, overtaken>>
        /\ deliveries' = deliveries + 1 /\ deliveries < MaxDeliveries
        /\ current = <<>>
    BY DEF DispatchDatagram
  <1>2. UNCHANGED <<queue, nextNumber, wire, used, nonces, dropped>>
    BY <1>1 DEF sender
  <1>3. /\ current' \in Seq(Datagrams(used, wire)) /\ Len(current') <= 1
        /\ culprit' \in Seq(Culprits(wire)) /\ Len(culprit') <= 1
    <2>1. CASE Fatal(p, TRUE, FALSE) /\ UNCHANGED current
      <3>1. current' \in Seq(Datagrams(used, wire)) /\ Len(current') <= 1
        BY <1>1, <2>1, ShortSeqs
      <3>2. culprit' \in Seq(Culprits(wire)) /\ Len(culprit') <= 1
        BY <2>1, FatalType
      <3> QED  BY <3>1, <3>2
    <2>2. ASSUME UNCHANGED culprit, NEW opened \in BOOLEAN,
                 NEW frames \in Seq(used \cup {NotAFrame}), NEW fails \in BOOLEAN,
                 Begin(p, opened, frames, fails)
          PROVE  /\ current' \in Seq(Datagrams(used, wire)) /\ Len(current') <= 1
                 /\ culprit' \in Seq(Culprits(wire)) /\ Len(culprit') <= 1
      BY <2>2, BeginType DEF TypeOK, Culprits
    <2> QED  BY <2>1, <2>2, Dispatched
  <1>4. /\ deliveries' \in 0..MaxDeliveries /\ deliveries' # 0
        /\ overtaken' \in 0..deliveries'
    BY <1>1, SizesAssumption DEF TypeOK
  <1> QED  BY <1>1, <1>2, <1>3, <1>4 DEF TypeOK, Datagrams, Culprits

LEMMA HandleType ==
  ASSUME TypeOK, HandleFrame
  PROVE  TypeOK'
  <1> DEFINE d == current[1]
             entry == [frame |-> Head(d.frames), datagram |-> deliveries,
                       keyed |-> keyed["receiver"], opened |-> d.opened]
  <1>1. /\ UNCHANGED <<setup, sender, keyed, deliveries, overtaken>>
        /\ current # <<>> /\ d.frames # <<>> /\ handled' = Append(handled, entry)
        /\ \/ current' = <<[d EXCEPT !.frames = Tail(d.frames)]>> /\ UNCHANGED culprit
           \/ current' = <<>> /\ Fatal(d.packet, d.keyed, TRUE)
    BY DEF HandleFrame
  <1>2. UNCHANGED <<queue, nextNumber, wire, used, nonces, dropped>>
    BY <1>1 DEF sender
  <1>3. d \in Datagrams(used, wire)
    <2>1. current \in Seq(Datagrams(used, wire))
      BY DEF TypeOK, Datagrams
    <2> QED  BY <1>1, <2>1, ShortSeqs
  <1> HIDE DEF d
  <1>4. /\ d.packet \in wire /\ d.keyed \in BOOLEAN /\ d.opened \in BOOLEAN
        /\ d.frames \in Seq(used \cup {NotAFrame})
    BY <1>3 DEF Datagrams
  <1>5. entry \in Entries(used)
    <2>1. Head(d.frames) \in used \cup {NotAFrame}
      BY <1>1, <1>4
    <2>2. deliveries \in 1..MaxDeliveries /\ keyed["receiver"] \in BOOLEAN
      BY <1>1, SizesAssumption DEF TypeOK, Ends
    <2> QED  BY <1>4, <2>1, <2>2 DEF Entries
  <1> HIDE DEF entry
  <1>6. handled' \in Seq(Entries(used))
    BY <1>1, <1>5 DEF TypeOK
  <1>7. current' \in Seq(Datagrams(used, wire)) /\ Len(current') <= 1
    <2>1. [d EXCEPT !.frames = Tail(d.frames)] \in Datagrams(used, wire)
      <3>1. Tail(d.frames) \in Seq(used \cup {NotAFrame})
        BY <1>1, <1>4
      <3> QED  BY <1>3, <3>1 DEF Datagrams
    <2> QED  BY <1>1, <2>1, ShortSeqs
  <1>8. culprit' \in Seq(Culprits(wire)) /\ Len(culprit') <= 1
    BY <1>1, <1>4, FatalType DEF TypeOK, Culprits
  <1> QED  BY <1>1, <1>2, <1>6, <1>7, <1>8 DEF TypeOK, Datagrams, Culprits

LEMMA EndType ==
  ASSUME TypeOK, EndDatagram
  PROVE  TypeOK'
  <1>1. /\ UNCHANGED <<setup, sender, keyed, handled, deliveries, overtaken>>
        /\ current # <<>> /\ current' = <<>>
        /\ \/ Fatal(current[1].packet, current[1].keyed, FALSE)
           \/ UNCHANGED culprit
    BY DEF EndDatagram
  <1>2. UNCHANGED <<queue, nextNumber, wire, used, nonces, dropped>>
    BY <1>1 DEF sender
  <1>3. current[1] \in Datagrams(used, wire)
    <2>1. current \in Seq(Datagrams(used, wire))
      BY DEF TypeOK, Datagrams
    <2> QED  BY <1>1, <2>1, ShortSeqs
  <1>4. current[1].packet \in wire /\ current[1].keyed \in BOOLEAN
    BY <1>3 DEF Datagrams
  <1>5. culprit' \in Seq(Culprits(wire)) /\ Len(culprit') <= 1
    BY <1>1, <1>4, FatalType DEF TypeOK, Culprits
  <1>6. current' \in Seq(Datagrams(used, wire)) /\ Len(current') <= 1
    BY <1>1
  <1> QED  BY <1>1, <1>2, <1>5, <1>6 DEF TypeOK, Datagrams, Culprits

(* A datagram of an earlier phase carries one frame. *)
LEMMA EarlierPacket ==
  ASSUME NEW f \in Frames, NEW phase \in Phases, EarlierPhase(f, phase)
  PROVE  \E q : /\ wire' = wire \cup {q} /\ q.protected \in BOOLEAN
                /\ q.payload = Serialize(f)
  <1>1. CASE wire' = wire \cup {WrapUnprotected(phase, Serialize(f))}
    <2>1. PICK q : q = WrapUnprotected(phase, Serialize(f))
      OBVIOUS
    <2>2. q.payload = Serialize(f) /\ q.protected = FALSE
      BY <2>1 DEF WrapUnprotected
    <2>3. wire' = wire \cup {q}
      BY <1>1, <2>1
    <2> QED  BY <2>2, <2>3
  <1>2. ASSUME NEW mask \in Masks,
               wire' = wire \cup {WrapProtected(phase, Serialize(f), 0, mask)}
        PROVE  \E q : /\ wire' = wire \cup {q} /\ q.protected \in BOOLEAN
                      /\ q.payload = Serialize(f)
    <2>1. PICK q : q = WrapProtected(phase, Serialize(f), 0, mask)
      OBVIOUS
    <2>2. q.payload = Serialize(f) /\ q.protected = TRUE
      BY <2>1 DEF WrapProtected
    <2>3. wire' = wire \cup {q}
      BY <1>2, <2>1
    <2> QED  BY <2>2, <2>3
  <1> QED  BY <1>1, <1>2 DEF EarlierPhase

(* Every variable keeps its type: no fragment is empty or too long for a   *)
(* datagram, no packet number passes its bound, and only frames that were  *)
(* sent, or what no frame decodes to, are handled.                         *)
THEOREM TypeCorrect == Spec => []TypeOK
  <1>1. Init => TypeOK
    BY SizesAssumption DEF Init, TypeOK, Ends
  <1>2. TypeOK /\ [Next]_vars => TypeOK'
    <2> SUFFICES ASSUME TypeOK, [Next]_vars PROVE TypeOK'
      OBVIOUS
    (* A packet that was on the wire keeps its type when frames are added. *)
    <2>0. ASSUME UNCHANGED <<setup, current, handled, culprit, deliveries, overtaken>>,
                 used \subseteq used', used' \subseteq Frames, wire \subseteq wire',
                 queue' \in Seq(used'), keyed' \in [Ends -> BOOLEAN],
                 nextNumber' \in 0..MaxPackets, nonces' \in Seq(SUBSET Nat),
                 dropped' \subseteq BytesOf(used'),
                 \A p \in wire' \ wire :
                    /\ p.protected \in BOOLEAN /\ p.payload \in Seq(BytesOf(used'))
                    /\ Len(p.payload) \in 1..MaxPayload
          PROVE  TypeOK'
      <3>1. BytesOf(used) \subseteq BytesOf(used')
        BY <2>0 DEF BytesOf
      <3>2. ASSUME NEW p \in wire'
            PROVE  /\ p.protected \in BOOLEAN /\ p.payload \in Seq(BytesOf(used'))
                   /\ Len(p.payload) \in 1..MaxPayload
        <4>1. CASE p \in wire
          <5>1. /\ p.protected \in BOOLEAN /\ p.payload \in Seq(BytesOf(used))
                /\ Len(p.payload) \in 1..MaxPayload
            BY <4>1 DEF TypeOK
          <5> QED  BY <3>1, <5>1
        <4> QED  BY <2>0, <4>1
      <3>3. handled' \in Seq(Entries(used'))
        <4>1. Entries(used) \subseteq Entries(used')
          BY <2>0 DEF Entries
        <4>2. handled \in Seq(Entries(used)) /\ handled' = handled
          BY <2>0 DEF TypeOK
        <4> QED  BY <4>1, <4>2, SeqGrows
      <3>4. culprit' \in Seq(Culprits(wire')) /\ Len(culprit') <= 1
        <4>1. Culprits(wire) \subseteq Culprits(wire')
          BY <2>0 DEF Culprits
        <4>2. culprit \in Seq(Culprits(wire)) /\ Len(culprit) <= 1 /\ culprit' = culprit
          BY <2>0 DEF TypeOK, Culprits
        <4> QED  BY <4>1, <4>2, SeqGrows
      <3>5. current' \in Seq(Datagrams(used', wire')) /\ Len(current') <= 1
        <4>1. Seq(used \cup {NotAFrame}) \subseteq Seq(used' \cup {NotAFrame})
          BY <2>0
        <4>2. Datagrams(used, wire) \subseteq Datagrams(used', wire')
          BY <2>0, <4>1 DEF Datagrams
        <4>3. current \in Seq(Datagrams(used, wire)) /\ Len(current) <= 1 /\ current' = current
          BY <2>0 DEF TypeOK, Datagrams
        <4> QED  BY <4>2, <4>3, SeqGrows
      <3>6. /\ setup' \in Setups /\ deliveries' \in 0..MaxDeliveries
            /\ overtaken' \in 0..deliveries' /\ (current' # <<>> => deliveries' # 0)
        BY <2>0 DEF TypeOK
      <3> QED  BY <2>0, <3>2, <3>3, <3>4, <3>5, <3>6 DEF TypeOK, Datagrams, Culprits
    <2>1. ASSUME NEW e \in Ends, InstallKeys(e) PROVE TypeOK'
      <3>1. /\ keyed' = [keyed EXCEPT ![e] = TRUE]
            /\ UNCHANGED <<setup, queue, nextNumber, wire, used, nonces, dropped,
                           current, handled, culprit, deliveries>>
            /\ overtaken' = deliveries \/ overtaken' = overtaken
        BY <2>1 DEF InstallKeys, sender, receiver
      <3>2. overtaken' \in 0..deliveries' /\ keyed' \in [Ends -> BOOLEAN]
        BY <3>1, SizesAssumption DEF TypeOK
      <3> QED  BY <3>1, <3>2 DEF TypeOK
    <2>2. ASSUME NEW f \in Frames, SendFrame(f) PROVE TypeOK'
      <3>1. used' = used \cup {f} /\ queue' = Append(queue, f)
        BY <2>2 DEF SendFrame
      <3>2. queue' \in Seq(used')
        BY <3>1 DEF TypeOK
      <3>3. UNCHANGED <<setup, current, handled, culprit, deliveries, overtaken, keyed,
                        nextNumber, wire, nonces, dropped>>
        BY <2>2 DEF SendFrame, receiver
      <3>4. dropped' \subseteq BytesOf(used')
        BY <3>1, <3>3 DEF TypeOK, BytesOf
      <3> QED  BY <2>0, <3>1, <3>2, <3>3, <3>4 DEF TypeOK
    <2>3. ASSUME NEW f \in Frames, NEW phase \in Phases, EarlierPhase(f, phase) PROVE TypeOK'
      <3>1. /\ used' = used \cup {f} /\ FrameLength[f] \in MinPayload..MaxPayload
            /\ UNCHANGED <<setup, current, handled, culprit, deliveries, overtaken, keyed,
                           queue, nextNumber, nonces, dropped>>
        BY <2>3 DEF EarlierPhase, receiver
      <3>2. /\ Serialize(f) \in Seq(BytesOf(used')) /\ Len(Serialize(f)) = FrameLength[f]
        <4>1. FrameLength[f] \in Nat
          BY FramesAssumption
        <4>2. \A i \in 1..FrameLength[f] : <<f, i>> \in BytesOf(used')
          BY <3>1, <4>1 DEF BytesOf
        <4> QED  BY <4>1, <4>2 DEF Serialize
      <3>3. FrameLength[f] \in 1..MaxPayload
        BY <3>1, SizesAssumption
      <3>4. PICK q : /\ wire' = wire \cup {q} /\ q.protected \in BOOLEAN
                     /\ q.payload = Serialize(f)
        BY <2>3, EarlierPacket
      <3>5. queue' \in Seq(used') /\ dropped' \subseteq BytesOf(used')
        BY <3>1 DEF TypeOK, BytesOf
      <3> QED  BY <2>0, <3>1, <3>2, <3>3, <3>4, <3>5 DEF TypeOK
    <2>4. CASE FlushPlain
      <3> DEFINE fragments == Fragments(PackFrames(queue))
      <3>1. /\ queue' = <<>> /\ queue # <<>>
            /\ wire' = wire \cup {WrapUnprotected("application", payload) :
                                     payload \in Range(fragments)}
            /\ UNCHANGED <<setup, current, handled, culprit, deliveries, overtaken, keyed,
                           nextNumber, used, nonces, dropped>>
        BY <2>4 DEF FlushPlain, receiver
      <3>2. ASSUME NEW payload \in Range(fragments)
            PROVE  payload \in Seq(BytesOf(used)) /\ Len(payload) \in 1..MaxPayload
        <4> HIDE DEF fragments
        <4>1. /\ fragments \in Seq(Seq(BytesOf(used)))
              /\ \A k \in 1..Len(fragments) :
                   fragments[k] \in Seq(BytesOf(used)) /\ Len(fragments[k]) \in 1..MaxPayload
          BY <3>1, FlushedFragments DEF fragments
        <4> QED  BY <4>1 DEF Range
      <3> HIDE DEF fragments
      <3>3. ASSUME NEW p \in wire' \ wire
            PROVE  /\ p.protected \in BOOLEAN /\ p.payload \in Seq(BytesOf(used'))
                   /\ Len(p.payload) \in 1..MaxPayload
        <4>1. PICK payload \in Range(fragments) : p = WrapUnprotected("application", payload)
          BY <3>1
        <4>2. p.payload = payload /\ p.protected = FALSE
          BY <4>1 DEF WrapUnprotected
        <4> QED  BY <3>1, <3>2, <4>2
      <3>4. queue' \in Seq(used')
        BY <3>1
      <3> QED  BY <2>0, <3>1, <3>3, <3>4 DEF TypeOK
    <2>5. CASE FlushProtected
      <3> DEFINE fragments == Fragments(PackFrames(queue))
                 n    == Len(fragments)
                 sent == IF Len(fragments[n]) < MinPayload THEN n - 1 ELSE n
      <3>1. /\ queue' = <<>> /\ queue # <<>> /\ nextNumber + n <= MaxPackets
            /\ nextNumber' = nextNumber + n
            /\ nonces' = nonces \o [k \in 1..n |->
                            Nonce(setup.clientProtection["application"], nextNumber + k - 1)]
            /\ dropped' = dropped \cup IF sent < n THEN Range(fragments[n]) ELSE {}
            /\ UNCHANGED <<setup, current, handled, culprit, deliveries, overtaken, keyed, used>>
        BY <2>5 DEF FlushProtected, receiver
      <3>2. PICK mask \in [1..n -> Masks] :
              wire' = wire \cup {WrapProtected("application", fragments[k],
                                              nextNumber + k - 1, mask[k]) : k \in 1..sent}
        BY <2>5 DEF FlushProtected
      <3>3. /\ n \in Nat \ {0}
            /\ \A k \in 1..n : fragments[k] \in Seq(BytesOf(used))
                               /\ Len(fragments[k]) \in 1..MaxPayload
        <4> HIDE DEF fragments
        <4> QED  BY <3>1, FlushedFragments DEF fragments
      <3>4. sent \in Nat /\ sent <= n
        BY <3>3
      <3> HIDE DEF fragments, sent, n
      <3>5. ASSUME NEW p \in wire' \ wire
            PROVE  /\ p.protected \in BOOLEAN /\ p.payload \in Seq(BytesOf(used'))
                   /\ Len(p.payload) \in 1..MaxPayload
        <4>1. PICK k \in 1..sent :
                p = WrapProtected("application", fragments[k], nextNumber + k - 1, mask[k])
          BY <3>2
        <4>2. p.payload = fragments[k] /\ p.protected = TRUE
          BY <4>1 DEF WrapProtected
        <4>3. k \in 1..n
          BY <3>3, <3>4
        <4> QED  BY <3>1, <3>3, <4>2, <4>3
      <3>6. nextNumber' \in 0..MaxPackets
        BY <3>1, <3>3, SizesAssumption DEF TypeOK
      <3>7. nonces' \in Seq(SUBSET Nat)
        <4> DEFINE key == setup.clientProtection["application"]
        <4>1. ASSUME NEW k \in 1..n PROVE Nonce(key, nextNumber + k - 1) \in SUBSET Nat
          <5>1. nextNumber + k - 1 \in Nat
            BY <3>3, SizesAssumption DEF TypeOK
          <5> QED  BY <5>1, NonceType DEF TypeOK
        <4>2. [k \in 1..n |-> Nonce(key, nextNumber + k - 1)] \in Seq(SUBSET Nat)
          BY <3>3, <4>1
        <4>3. nonces \in Seq(SUBSET Nat)
          BY DEF TypeOK
        <4>4. \A more \in Seq(SUBSET Nat) : nonces \o more \in Seq(SUBSET Nat)
          BY <4>3
        <4> QED  BY <3>1, <4>2, <4>4
      <3>8. dropped' \subseteq BytesOf(used')
        <4>1. n \in 1..n
          BY <3>3
        <4>2. Range(fragments[n]) \subseteq BytesOf(used)
          BY <3>3, <4>1 DEF Range
        <4> QED  BY <3>1, <4>2 DEF TypeOK
      <3>9. queue' \in Seq(used') /\ wire \subseteq wire'
        BY <3>1, <3>2
      <3> QED  BY <2>0, <3>1, <3>5, <3>6, <3>7, <3>8, <3>9 DEF TypeOK
    <2>6. ASSUME NEW p \in wire, DispatchDatagram(p) PROVE TypeOK'
      BY <2>6, DispatchType
    <2>7. CASE HandleFrame
      BY <2>7, HandleType
    <2>8. CASE EndDatagram
      BY <2>8, EndType
    <2>9. CASE UNCHANGED vars
      BY <2>9 DEF vars, sender, receiver, TypeOK
    <2> QED  BY <2>1, <2>2, <2>3, <2>4, <2>5, <2>6, <2>7, <2>8, <2>9 DEF Next
  <1> QED  BY <1>1, <1>2, PTL DEF Spec

-------------------------------------------------------------------------------
(* The k-th nonce was made of packet number k - 1, and the next number is  *)
(* as large as nonces there are.                                           *)
NumbersInv ==
    /\ nextNumber = Len(nonces)
    /\ \A k \in 1..Len(nonces) :
         nonces[k] = Nonce(setup.clientProtection["application"], k - 1)

(* No nonce is used twice with the application key (constructNonce,        *)
(* nextPacketNumber): numbers count up, also past a fragment that is       *)
(* sealed and never sent, and no two numbers make one nonce.               *)
THEOREM NoncesAreUsedOnce == Spec => []NonceOnce
  <1>1. Init => NumbersInv
    BY DEF Init, NumbersInv
  <1>2. TypeOK /\ NumbersInv /\ [Next]_vars => NumbersInv'
    <2> SUFFICES ASSUME TypeOK, NumbersInv, [Next]_vars PROVE NumbersInv'
      OBVIOUS
    <2>a. UNCHANGED <<setup, nextNumber, nonces>> => NumbersInv'
      BY DEF NumbersInv, Nonce
    <2>1. CASE FlushProtected
      <3> DEFINE fragments == Fragments(PackFrames(queue))
                 n    == Len(fragments)
                 key  == setup.clientProtection["application"]
                 more == [k \in 1..n |-> Nonce(key, nextNumber + k - 1)]
      <3>1. /\ queue # <<>> /\ nextNumber' = nextNumber + n /\ nonces' = nonces \o more
            /\ setup' = setup
        BY <2>1 DEF FlushProtected
      <3>2. n \in Nat
        <4> HIDE DEF fragments
        <4> QED  BY <3>1, FlushedFragments DEF fragments
      <3> HIDE DEF n
      <3>3. ASSUME NEW k \in 1..n PROVE Nonce(key, nextNumber + k - 1) \in SUBSET Nat
        <4>1. nextNumber + k - 1 \in Nat
          BY <3>2, SizesAssumption DEF TypeOK
        <4> QED  BY <4>1, NonceType DEF TypeOK
      <3>4. more \in Seq(SUBSET Nat) /\ Len(more) = n
        BY <3>2, <3>3
      <3>5. nonces \in Seq(SUBSET Nat) /\ nextNumber \in Nat /\ nextNumber = Len(nonces)
        BY SizesAssumption DEF TypeOK, NumbersInv
      <3> HIDE DEF more
      <3>6. /\ Len(nonces \o more) = Len(nonces) + Len(more)
            /\ \A k \in 1..Len(nonces) : (nonces \o more)[k] = nonces[k]
            /\ \A k \in 1..Len(more) : (nonces \o more)[Len(nonces) + k] = more[k]
        <4>1. nonces \in Seq(SUBSET Nat) /\ more \in Seq(SUBSET Nat)
          BY <3>4, <3>5
        <4> HIDE <3>3, <3>4, <3>5
        <4> QED  BY <4>1
      <3>7. ASSUME NEW k \in 1..(Len(nonces) + n)
            PROVE  (nonces \o more)[k] = Nonce(key, k - 1)
        <4>1. CASE k <= Len(nonces)
          <5>1. k \in 1..Len(nonces)
            BY <3>5, <4>1
          <5> QED  BY <3>6, <5>1 DEF NumbersInv
        <4>2. CASE ~(k <= Len(nonces))
          <5>1. PICK j \in 1..n : k = Len(nonces) + j
            <6>1. k - Len(nonces) \in 1..n /\ k = Len(nonces) + (k - Len(nonces))
              BY <3>2, <3>5, <4>2
            <6> QED  BY <6>1
          <5>2. more[j] = Nonce(key, nextNumber + j - 1)
            BY DEF more
          <5>3. nextNumber + j - 1 = k - 1
            BY <3>2, <3>5, <5>1
          <5> QED  BY <3>4, <3>6, <5>1, <5>2, <5>3
        <4> QED  BY <4>1, <4>2
      <3>8. key' = key /\ \A k : Nonce(key, k - 1)' = Nonce(key, k - 1)
        BY <3>1 DEF Nonce
      <3> HIDE DEF key
      <3>9. \A k \in 1..Len(nonces') : nonces'[k] = Nonce(key, k - 1)
        BY <3>1, <3>4, <3>6, <3>7
      <3>10. nextNumber' = Len(nonces')
        BY <3>1, <3>4, <3>5, <3>6
      <3> QED  BY <3>8, <3>9, <3>10 DEF NumbersInv, key
    <2>2. ASSUME NEW e \in Ends, InstallKeys(e) PROVE NumbersInv'
      BY <2>2, <2>a DEF InstallKeys, sender
    <2>3. ASSUME NEW f \in Frames, SendFrame(f) PROVE NumbersInv'
      BY <2>3, <2>a DEF SendFrame
    <2>4. ASSUME NEW f \in Frames, NEW phase \in Phases, EarlierPhase(f, phase)
          PROVE  NumbersInv'
      BY <2>4, <2>a DEF EarlierPhase
    <2>5. CASE FlushPlain
      BY <2>5, <2>a DEF FlushPlain
    <2>6. ASSUME NEW p \in wire, DispatchDatagram(p) PROVE NumbersInv'
      BY <2>6, <2>a DEF DispatchDatagram, sender
    <2>7. CASE HandleFrame \/ EndDatagram
      BY <2>7, <2>a DEF HandleFrame, EndDatagram, sender
    <2>8. CASE UNCHANGED vars
      BY <2>8, <2>a DEF vars, sender
    <2> QED  BY <2>1, <2>2, <2>3, <2>4, <2>5, <2>6, <2>7, <2>8 DEF Next
  <1>3. TypeOK /\ NumbersInv => NonceOnce
    <2> SUFFICES ASSUME TypeOK, NumbersInv,
                        NEW j \in 1..Len(nonces), NEW k \in 1..Len(nonces), nonces[j] = nonces[k]
                 PROVE  j = k
      BY DEF NonceOnce
    <2>1. j \in Nat \ {0} /\ k \in Nat \ {0}
      BY DEF TypeOK
    <2>2. \E secrets : Nonce(secrets, j - 1) = Nonce(secrets, k - 1)
      BY DEF NumbersInv
    <2>3. j - 1 \in Nat /\ k - 1 \in Nat
      BY <2>1
    <2>4. j - 1 = k - 1
      BY <2>2, <2>3, NoncesDiffer
    <2> QED  BY <2>1, <2>4
  <1> QED  BY <1>1, <1>2, <1>3, TypeCorrect, PTL DEF Spec

-------------------------------------------------------------------------------
(* What the receiver's keys find when they come: only the datagram under   *)
(* way was begun without them.                                             *)
KeysInv ==
    /\ OnlySealedFrames
    /\ ~keyed["receiver"] => \A k \in 1..Len(handled) : ~handled[k].keyed
    /\ current # <<>> /\ keyed["receiver"] => current[1].opened \/ deliveries = overtaken

(* Once its keys are there the receiver begins with no datagram it has not *)
(* opened (dispatchDatagram, getProtectionSecrets): the handshake that is  *)
(* over has secrets for every phase a header can name.  What it handles    *)
(* all the same is the rest of the one datagram that the keys overtook.    *)
THEOREM HandlesOnlySealed == Spec => []OnlySealedFrames
  <1>1. Init => KeysInv
    BY DEF Init, KeysInv, OnlySealedFrames
  <1>2. TypeOK /\ KeysInv /\ [Next]_vars => KeysInv'
    <2> SUFFICES ASSUME TypeOK, KeysInv, [Next]_vars PROVE KeysInv'
      OBVIOUS
    <2>a. UNCHANGED <<keyed, current, handled, deliveries, overtaken>> => KeysInv'
      BY DEF KeysInv, OnlySealedFrames
    <2>1. ASSUME NEW e \in Ends, InstallKeys(e) PROVE KeysInv'
      <3>1. /\ ~keyed[e] /\ keyed' = [keyed EXCEPT ![e] = TRUE]
            /\ UNCHANGED <<current, handled, deliveries>>
            /\ overtaken' = IF e = "receiver" /\ current # <<>> THEN deliveries ELSE overtaken
        BY <2>1 DEF InstallKeys, receiver
      <3>2. CASE e = "receiver"
        <4>1. \A k \in 1..Len(handled) : ~handled[k].keyed
          BY <3>1, <3>2 DEF KeysInv
        <4>2. OnlySealedFrames'
          BY <3>1, <4>1 DEF OnlySealedFrames
        <4>3. keyed'["receiver"]
          BY <3>1, <3>2 DEF TypeOK
        <4> QED  BY <3>1, <3>2, <4>2, <4>3 DEF KeysInv
      <3>3. CASE e # "receiver"
        <4>1. keyed'["receiver"] = keyed["receiver"] /\ overtaken' = overtaken
          BY <3>1, <3>3 DEF TypeOK, Ends
        <4>2. OnlySealedFrames'
          BY <3>1, <4>1 DEF KeysInv, OnlySealedFrames
        <4> QED  BY <3>1, <4>1, <4>2 DEF KeysInv
      <3> QED  BY <3>2, <3>3
    <2>2. ASSUME NEW p \in wire, DispatchDatagram(p) PROVE KeysInv'
      <3>1. UNCHANGED <<keyed, handled, overtaken>> /\ current = <<>>
        BY <2>2 DEF DispatchDatagram
      <3>2. CASE UNCHANGED current
        BY <3>1, <3>2 DEF KeysInv, OnlySealedFrames
      <3>3. ASSUME NEW opened, NEW frames, NEW fails,
                   Begin(p, opened, frames, fails), opened = keyed["receiver"]
            PROVE  KeysInv'
        <4>1. current'[1].opened = opened
          BY <3>3 DEF Begin
        <4> QED  BY <3>1, <3>3, <4>1 DEF KeysInv, OnlySealedFrames
      <3> QED  BY <2>2, <3>2, <3>3, Dispatched
    <2>3. CASE HandleFrame
      <3> DEFINE d == current[1]
                 entry == [frame |-> Head(d.frames), datagram |-> deliveries,
                           keyed |-> keyed["receiver"], opened |-> d.opened]
      <3>1. /\ UNCHANGED <<keyed, deliveries, overtaken>> /\ current # <<>>
            /\ handled' = Append(handled, entry)
            /\ \/ current' = <<[d EXCEPT !.frames = Tail(d.frames)]>>
               \/ current' = <<>>
        BY <2>3 DEF HandleFrame
      <3>2. entry.keyed = keyed["receiver"] /\ entry.opened = d.opened /\ entry.datagram = deliveries
        OBVIOUS
      <3>3. keyed["receiver"] => d.opened \/ deliveries = overtaken
        BY <3>1 DEF KeysInv
      <3>4. current' # <<>> => current'[1].opened = d.opened
        <4>1. d \in Datagrams(used, wire)
          <5>1. current \in Seq(Datagrams(used, wire))
            BY DEF TypeOK, Datagrams
          <5> QED  BY <3>1, <5>1, ShortSeqs
        <4> HIDE DEF d
        <4> DEFINE e == [d EXCEPT !.frames = Tail(d.frames)]
        <4>2. e.opened = d.opened
          BY <4>1 DEF Datagrams
        <4> HIDE DEF e
        <4>3. current' = <<e>> \/ current' = <<>>
          BY <3>1 DEF e
        <4> QED  BY <4>2, <4>3
      <3> HIDE DEF d, entry
      <3>5. /\ Len(handled) \in Nat /\ Len(handled') = Len(handled) + 1
            /\ \A k \in 1..Len(handled) : handled'[k] = handled[k]
            /\ handled'[Len(handled) + 1] = entry
        <4>1. handled \in Seq(Entries(used))
          BY DEF TypeOK
        <4> QED  BY <3>1, <4>1
      <3>6. \A k \in 1..Len(handled') : k \in 1..Len(handled) \/ handled'[k] = entry
        BY <3>5
      <3>7. OnlySealedFrames'
        BY <3>1, <3>2, <3>3, <3>5, <3>6 DEF KeysInv, OnlySealedFrames
      <3>8. ~keyed'["receiver"] => \A k \in 1..Len(handled') : ~handled'[k].keyed
        BY <3>1, <3>2, <3>5, <3>6 DEF KeysInv
      <3> QED  BY <3>1, <3>3, <3>4, <3>7, <3>8 DEF KeysInv
    <2>4. CASE EndDatagram
      BY <2>4 DEF EndDatagram, KeysInv, OnlySealedFrames
    <2>5. ASSUME NEW f \in Frames, SendFrame(f) PROVE KeysInv'
      BY <2>5, <2>a DEF SendFrame, receiver
    <2>6. ASSUME NEW f \in Frames, NEW phase \in Phases, EarlierPhase(f, phase)
          PROVE  KeysInv'
      BY <2>6, <2>a DEF EarlierPhase, receiver
    <2>7. CASE FlushPlain \/ FlushProtected
      BY <2>7, <2>a DEF FlushPlain, FlushProtected, receiver
    <2>8. CASE UNCHANGED vars
      BY <2>8, <2>a DEF vars, receiver
    <2> QED  BY <2>1, <2>2, <2>3, <2>4, <2>5, <2>6, <2>7, <2>8 DEF Next
  <1>3. KeysInv => OnlySealedFrames
    BY DEF KeysInv
  <1> QED  BY <1>1, <1>2, <1>3, TypeCorrect, PTL DEF Spec

-------------------------------------------------------------------------------
(* What unprotectPayload opens: a packet whose first byte the mask left as *)
(* it was, and whose number was not cut on the wire.                       *)
LEMMA SealedOpens ==
  ASSUME setup \in Setups, NEW phase \in Phases, NEW payload, NEW n, NEW mask,
         NEW p, p = WrapProtected(phase, payload, n, mask), SameIdLength(p), SameSecrets(p),
         p.mask.first \cap Covered(p.first) = {}, FitsWire(p.number)
  PROVE  p.protected /\ Opens(p)
  <1>a. /\ PnOffset(p) = SerializedHeader(phase) /\ SerializedHeader(phase) \in Nat
        /\ p.start = SerializedHeader(phase) + 4
        /\ p.first = Xor(ProtectedFirst(phase), mask.first \cap Covered(ProtectedFirst(phase)))
    BY LayoutsAgree
  <1> DEFINE first == ProtectedFirst(phase)
             key   == setup.clientProtection[phase]
  <1>1. /\ p.pn = Xor(WirePn(n), mask.pn) /\ p.mask = mask
        /\ p.number = n /\ p.protected = TRUE /\ p.nonce = Nonce(key, n)
        /\ p.aad = <<first, WirePn(n), 4>> /\ p.secrets = key
    BY DEF WrapProtected
  <1>2. UnprotectHeader(p) = [first |-> first, pn |-> WirePn(n), length |-> 4]
    BY <1>1, RecoverOne
  <1> HIDE DEF first, key
  <1>3. PnOffset(p) + 4 = p.start /\ PnOffset(p) = p.start - 4
    BY <1>a
  <1>4. MaskAt(p, p.start + 4, OpeningSecrets(p)) = mask
    BY <1>1 DEF MaskAt, SameSecrets
  <1>5. Xor(first, mask.first \cap Covered(p.first)) = first
    BY <1>1 DEF Xor
  <1>6. Xor(PnAt(p, PnOffset(p)), mask.pn) = WirePn(n)
    BY <1>1, <1>3, XorTwice DEF PnAt
  <1>7. Xor(IV[p.secrets], WirePn(n)) = p.nonce
    BY <1>1 DEF FitsWire, Nonce
  <1>8. OpeningSecrets(p) = p.secrets
    BY DEF SameSecrets
  <1> QED  BY <1>1, <1>2, <1>3, <1>4, <1>5, <1>6, <1>7, <1>8 DEF Opens

(* A packet without protection is read from where its payload starts.      *)
LEMMA PlainIsRead ==
  ASSUME setup \in Setups, NEW phase \in Phases, NEW payload,
         NEW p, p = WrapUnprotected(phase, payload)
  PROVE  /\ ~p.protected
         /\ SameIdLength(p) => PnOffset(p) + PnLength(p.first) = p.start
  <1> DEFINE first == PlainFirst(phase)
  <1>1. /\ p.protected = FALSE /\ p.first = first
        /\ p.dcidLength = setup.dcidLength["sender"]
        /\ p.start = SerializedHeader(phase) + 1
    BY DEF WrapUnprotected
  <1>2. IsLong(first) <=> phase # "application"
    BY DEF IsLong, PlainFirst, LongType
  <1>3. PnLength(first) = 1
    BY DEF PnLength, PlainFirst, LongType
  <1>4. setup.dcidLength["sender"] \in Nat /\ setup.dcidLength["receiver"] \in Nat
    BY SetupsAssumption DEF Ends
  <1> HIDE DEF first
  <1>5. SameIdLength(p) => PnOffset(p) = SerializedHeader(phase)
    BY <1>1, <1>2, <1>4 DEF PnOffset, HeaderLength, SerializedHeader, SameIdLength
  <1> QED  BY <1>1, <1>3, <1>5

(* Every datagram was wrapped by this code. *)
WrappedHere(p) ==
    \E phase \in Phases : \E payload :
        \/ p = WrapUnprotected(phase, payload)
        \/ \E n, mask : p = WrapProtected(phase, payload, n, mask)

OriginInv == \A p \in wire : WrappedHere(p)

(* The ends stay as they were set up, and with them what may be wrapped.   *)
LEMMA SetupStays ==
  ASSUME [Next]_vars
  PROVE  setup' = setup
  <1>1. ASSUME NEW e \in Ends, InstallKeys(e) PROVE setup' = setup
    BY <1>1 DEF InstallKeys
  <1>2. ASSUME NEW f \in Frames, SendFrame(f) PROVE setup' = setup
    BY <1>2 DEF SendFrame
  <1>3. ASSUME NEW f \in Frames, NEW phase \in Phases, EarlierPhase(f, phase)
        PROVE  setup' = setup
    BY <1>3 DEF EarlierPhase
  <1>4. CASE FlushPlain \/ FlushProtected
    BY <1>4 DEF FlushPlain, FlushProtected
  <1>5. ASSUME NEW p \in wire, DispatchDatagram(p) PROVE setup' = setup
    BY <1>5 DEF DispatchDatagram
  <1>6. CASE HandleFrame \/ EndDatagram
    BY <1>6 DEF HandleFrame, EndDatagram
  <1>7. CASE UNCHANGED vars
    BY <1>7 DEF vars
  <1> QED  BY <1>1, <1>2, <1>3, <1>4, <1>5, <1>6, <1>7 DEF Next

LEMMA WrapsAlike ==
  ASSUME setup' = setup, NEW p, WrappedHere(p)
  PROVE  WrappedHere(p)'
  <1>1. PICK phase \in Phases : \E payload :
          \/ p = WrapUnprotected(phase, payload)
          \/ \E n, mask : p = WrapProtected(phase, payload, n, mask)
    BY DEF WrappedHere
  <1>7. PICK payload :
          \/ p = WrapUnprotected(phase, payload)
          \/ \E n, mask : p = WrapProtected(phase, payload, n, mask)
    BY <1>1
  <1>2. SerializedHeader(phase)' = SerializedHeader(phase)
    BY DEF SerializedHeader
  <1>3. WrapUnprotected(phase, payload)' = WrapUnprotected(phase, payload)
    BY <1>2 DEF WrapUnprotected
  <1>4. ASSUME NEW n, NEW mask
        PROVE  WrapProtected(phase, payload, n, mask)' = WrapProtected(phase, payload, n, mask)
    BY <1>2 DEF WrapProtected, Nonce
  <1>5. CASE p = WrapUnprotected(phase, payload)
    BY <1>3, <1>5 DEF WrappedHere
  <1>6. ASSUME NEW n, NEW mask, p = WrapProtected(phase, payload, n, mask)
        PROVE  WrappedHere(p)'
    <2>1. p = WrapProtected(phase, payload, n, mask)'
      BY <1>4, <1>6
    <2> QED  BY <2>1 DEF WrappedHere
  <1> QED  BY <1>5, <1>6, <1>7

LEMMA OriginStep ==
  ASSUME OriginInv, [Next]_vars
  PROVE  OriginInv'
  <1> SUFFICES ASSUME NEW p \in wire' PROVE WrappedHere(p)
    BY SetupStays, WrapsAlike DEF OriginInv
  <1>a. CASE p \in wire
    BY <1>a DEF OriginInv
  <1>b. wire' = wire => p \in wire
    OBVIOUS
  <1>1. ASSUME NEW f \in Frames, NEW phase \in Phases, EarlierPhase(f, phase)
        PROVE  WrappedHere(p)
    <2>1. CASE wire' = wire \cup {WrapUnprotected(phase, Serialize(f))}
      BY <1>a, <2>1 DEF WrappedHere
    <2>2. ASSUME NEW mask \in Masks,
                 wire' = wire \cup {WrapProtected(phase, Serialize(f), 0, mask)}
          PROVE  WrappedHere(p)
      BY <1>a, <2>2 DEF WrappedHere
    <2> QED  BY <1>1, <2>1, <2>2 DEF EarlierPhase
  <1>2. CASE FlushPlain
    <2>1. CASE p \notin wire
      <3>1. PICK payload : p = WrapUnprotected("application", payload)
        BY <1>2, <2>1 DEF FlushPlain
      <3> QED  BY <3>1 DEF WrappedHere, Phases
    <2> QED  BY <1>a, <2>1
  <1>3. CASE FlushProtected
    <2> DEFINE fragments == Fragments(PackFrames(queue))
               n    == Len(fragments)
               sent == IF Len(fragments[n]) < MinPayload THEN n - 1 ELSE n
    <2>1. PICK mask \in [1..n -> Masks] :
            wire' = wire \cup {WrapProtected("application", fragments[k],
                                            nextNumber + k - 1, mask[k]) : k \in 1..sent}
      BY <1>3 DEF FlushProtected
    <2> HIDE DEF fragments, n, sent
    <2>2. CASE p \notin wire
      <3>1. PICK k \in 1..sent :
              p = WrapProtected("application", fragments[k], nextNumber + k - 1, mask[k])
        BY <2>1, <2>2
      <3> QED  BY <3>1 DEF WrappedHere, Phases
    <2> QED  BY <1>a, <2>2
  <1>4. ASSUME NEW e \in Ends, InstallKeys(e) PROVE WrappedHere(p)
    BY <1>4, <1>a, <1>b DEF InstallKeys, sender
  <1>5. ASSUME NEW f \in Frames, SendFrame(f) PROVE WrappedHere(p)
    BY <1>5, <1>a, <1>b DEF SendFrame
  <1>6. ASSUME NEW q \in wire, DispatchDatagram(q) PROVE WrappedHere(p)
    BY <1>6, <1>a, <1>b DEF DispatchDatagram, sender
  <1>7. CASE HandleFrame \/ EndDatagram
    BY <1>7, <1>a, <1>b DEF HandleFrame, EndDatagram, sender
  <1>8. CASE UNCHANGED vars
    BY <1>8, <1>a, <1>b DEF vars, sender
  <1> QED  BY <1>1, <1>2, <1>3, <1>4, <1>5, <1>6, <1>7, <1>8 DEF Next

(* unprotectHeader undoes applyHeaderProtection for every packet there     *)
(* ever is, for every mask a sample may give, every connection id length   *)
(* and every width of the packet number, between ends whose ids and        *)
(* secrets go together.                                                    *)
THEOREM HeadersAreRecovered == Spec => []HeaderRecovered
  <1>1. Init => OriginInv
    BY DEF Init, OriginInv
  <1>2. TypeOK /\ OriginInv => HeaderRecovered
    <2> SUFFICES ASSUME TypeOK, OriginInv, NEW p \in wire, p.protected,
                        SameIdLength(p), SameSecrets(p)
                 PROVE  UnprotectHeader(p) =
                          [first |-> p.aad[1], pn |-> p.aad[2], length |-> p.aad[3]]
      BY DEF HeaderRecovered
    <2>1. setup \in Setups
      BY DEF TypeOK
    <2>2. PICK phase, payload, n, mask :
            phase \in Phases /\ p = WrapProtected(phase, payload, n, mask)
      BY <2>1, PlainIsRead DEF OriginInv, WrappedHere
    <2> QED  BY <2>1, <2>2, RecoverOne
  <1> QED  BY <1>1, <1>2, OriginStep, TypeCorrect, PTL DEF Spec

(* What unprotectPayload does not open has one of the causes.              *)
LEMMA ClosedHasCause ==
  ASSUME TypeOK, OriginInv, NEW p \in wire, ~Opens(p)
  PROVE  HasCause(p, TRUE, FALSE)
  <1>1. setup \in Setups /\ p.protected \in BOOLEAN
    BY DEF TypeOK
  <1>2. CASE p.protected
    <2>1. PICK phase, payload, n, mask :
            phase \in Phases /\ p = WrapProtected(phase, payload, n, mask)
      BY <1>1, <1>2, PlainIsRead DEF OriginInv, WrappedHere
    <2>2. \/ ~SameIdLength(p) \/ ~SameSecrets(p)
          \/ p.mask.first \cap Covered(p.first) # {} \/ ~FitsWire(p.number)
      BY <1>1, <2>1, SealedOpens
    <2> QED  BY <1>2, <2>2 DEF HasCause
  <1>3. CASE ~p.protected
    BY <1>1, <1>3 DEF HasCause
  <1> QED  BY <1>2, <1>3

(* So has what an end without keys begins and cannot read to its end.      *)
LEMMA PlainHasCause ==
  ASSUME TypeOK, OriginInv, NEW p \in wire,
         PnOffset(p) + PnLength(p.first) # p.start
  PROVE  HasCause(p, FALSE, FALSE)
  <1>1. setup \in Setups /\ p.protected \in BOOLEAN
    BY DEF TypeOK
  <1>2. CASE p.protected
    BY <1>1, <1>2 DEF HasCause
  <1>3. CASE ~p.protected
    <2>1. ASSUME NEW phase, NEW payload, NEW n, NEW mask
          PROVE  p # WrapProtected(phase, payload, n, mask)
      BY <1>3 DEF WrapProtected
    <2>2. PICK phase, payload : phase \in Phases /\ p = WrapUnprotected(phase, payload)
      BY <2>1 DEF OriginInv, WrappedHere
    <2>3. ~SameIdLength(p)
      BY <1>1, <2>2, PlainIsRead
    <2> QED  BY <2>3 DEF HasCause
  <1> QED  BY <1>2, <1>3

(* A datagram that will be fatal when it is through has its cause, too.    *)
CausesInv ==
    /\ FailureHasCause
    /\ \A k \in 1..Len(current) :
         current[k].fails => HasCause(current[k].packet, current[k].keyed, FALSE)

LEMMA CausesStay ==
  ASSUME setup' = setup, NEW p, NEW withKeys, NEW thrown, HasCause(p, withKeys, thrown)
  PROVE  HasCause(p, withKeys, thrown)'
  <1>1. SameIdLength(p)' <=> SameIdLength(p)
    BY DEF SameIdLength
  <1>2. SameSecrets(p)' <=> SameSecrets(p)
    BY DEF SameSecrets, OpeningSecrets
  <1> QED  BY <1>1, <1>2 DEF HasCause

LEMMA FatalHasCause ==
  ASSUME setup' = setup, NEW p, NEW withKeys, NEW thrown,
         Fatal(p, withKeys, thrown), HasCause(p, withKeys, thrown)
  PROVE  FailureHasCause'
  <1> DEFINE c == [packet |-> p, keyed |-> withKeys, thrown |-> thrown]
  <1>1. culprit' = <<c>>
    BY DEF Fatal
  <1>2. c.packet = p /\ c.keyed = withKeys /\ c.thrown = thrown
    OBVIOUS
  <1> HIDE DEF c
  <1>3. HasCause(p, withKeys, thrown)'
    BY CausesStay
  <1>4. \A k \in 1..Len(culprit') : culprit'[k] = c
    BY <1>1
  <1> QED  BY <1>2, <1>3, <1>4 DEF FailureHasCause

(* A datagram of this code is fatal to the connection only for a reason    *)
(* that FailureHasCause names (dispatchDatagram, unprotectHeader,          *)
(* unprotectPayload): without one of them what this code wraps it opens    *)
(* and reads to its end, whatever the mask does to the packet number, the  *)
(* sizes and the phase, and also when its keys come while it is read.      *)
THEOREM FailuresHaveACause == Spec => []FailureHasCause
  <1>1. Init => OriginInv /\ CausesInv
    BY DEF Init, OriginInv, CausesInv, FailureHasCause
  <1>2. TypeOK /\ OriginInv /\ CausesInv /\ [Next]_vars => CausesInv'
    <2> SUFFICES ASSUME TypeOK, OriginInv, CausesInv, [Next]_vars PROVE CausesInv'
      OBVIOUS
    <2>0. setup' = setup
      BY SetupStays
    <2>a. UNCHANGED culprit => FailureHasCause'
      BY <2>0, CausesStay DEF CausesInv, FailureHasCause
    <2>b. UNCHANGED <<current, culprit>> => CausesInv'
      BY <2>0, <2>a, CausesStay DEF CausesInv
    <2>1. ASSUME NEW p \in wire, DispatchDatagram(p) PROVE CausesInv'
      <3>0. current = <<>>
        BY <2>1 DEF DispatchDatagram
      <3>1. CASE Fatal(p, TRUE, FALSE) /\ UNCHANGED current /\ ~Opens(p)
        <4>1. FailureHasCause'
          BY <2>0, <3>1, ClosedHasCause, FatalHasCause
        <4> QED  BY <3>0, <3>1, <4>1 DEF CausesInv
      <3>2. ASSUME UNCHANGED culprit, NEW opened, NEW frames, NEW fails \in BOOLEAN,
                   Begin(p, opened, frames, fails),
                   fails => \/ ~WholeFrames(p.payload)
                            \/ ~keyed["receiver"] /\ p.protected
                            \/ ~keyed["receiver"] /\ PnOffset(p) + PnLength(p.first) # p.start
            PROVE  CausesInv'
        <4>1. keyed["receiver"] \in BOOLEAN /\ p.protected \in BOOLEAN
          BY DEF TypeOK, Ends
        <4>2. fails => HasCause(p, keyed["receiver"], FALSE)
          BY <3>2, <4>1, PlainHasCause DEF HasCause
        <4>3. fails => HasCause(p, keyed["receiver"], FALSE)'
          <5>1. keyed' = keyed
            BY <2>1 DEF DispatchDatagram
          <5> QED  BY <2>0, <4>2, <5>1, CausesStay
        <4>4. \A k \in 1..Len(current') :
                /\ current'[k].packet = p /\ current'[k].keyed = keyed["receiver"]
                /\ current'[k].fails = fails
          BY <3>2 DEF Begin
        <4>5. keyed' = keyed
          BY <2>1 DEF DispatchDatagram
        <4> QED  BY <2>a, <3>2, <4>3, <4>4, <4>5 DEF CausesInv
      <3> QED  BY <2>1, <3>1, <3>2, Dispatched
    <2>2. CASE HandleFrame
      <3>0. PICK d : d = current[1]
        OBVIOUS
      <3>1. /\ current # <<>>
            /\ \/ current' = <<[d EXCEPT !.frames = Tail(d.frames)]>> /\ UNCHANGED culprit
               \/ current' = <<>> /\ Fatal(d.packet, d.keyed, TRUE)
        BY <2>2, <3>0 DEF HandleFrame
      <3>a. current \in Seq(Datagrams(used, wire))
        BY DEF TypeOK, Datagrams
      <3>2. d \in Datagrams(used, wire) /\ 1 \in 1..Len(current)
        BY <3>0, <3>1, <3>a, ShortSeqs
      <3>3. d.fails => HasCause(d.packet, d.keyed, FALSE)
        BY <3>0, <3>2 DEF CausesInv
      <3>4. CASE current' = <<[d EXCEPT !.frames = Tail(d.frames)]>> /\ UNCHANGED culprit
        <4>1. \A k \in 1..Len(current') :
                /\ current'[k].packet = d.packet /\ current'[k].keyed = d.keyed
                /\ current'[k].fails = d.fails
          <5> DEFINE e == [d EXCEPT !.frames = Tail(d.frames)]
          <5>1. e.packet = d.packet /\ e.keyed = d.keyed /\ e.fails = d.fails
            BY <3>2 DEF Datagrams
          <5>2. current' = <<e>>
            BY <3>4
          <5> HIDE DEF e
          <5> QED  BY <5>1, <5>2
        <4>2. d.fails => HasCause(d.packet, d.keyed, FALSE)'
          BY <2>0, <3>3, CausesStay
        <4> QED  BY <2>a, <3>4, <4>1, <4>2 DEF CausesInv
      <3>5. CASE current' = <<>> /\ Fatal(d.packet, d.keyed, TRUE)
        <4>1. HasCause(d.packet, d.keyed, TRUE)
          BY DEF HasCause
        <4>2. FailureHasCause'
          BY <2>0, <3>5, <4>1, FatalHasCause
        <4> QED  BY <3>5, <4>2 DEF CausesInv
      <3> QED  BY <3>1, <3>4, <3>5
    <2>3. CASE EndDatagram
      <3>1. /\ current # <<>> /\ current' = <<>>
            /\ \/ current[1].fails /\ Fatal(current[1].packet, current[1].keyed, FALSE)
               \/ UNCHANGED culprit
        BY <2>3 DEF EndDatagram
      <3>2. current[1].fails => HasCause(current[1].packet, current[1].keyed, FALSE)
        <4>1. 1 \in 1..Len(current)
          BY <3>1 DEF TypeOK
        <4> QED  BY <4>1 DEF CausesInv
      <3>3. FailureHasCause'
        BY <2>0, <2>a, <3>1, <3>2, FatalHasCause
      <3> QED  BY <3>1, <3>3 DEF CausesInv
    <2>4. ASSUME NEW e \in Ends, InstallKeys(e) PROVE CausesInv'
      BY <2>4, <2>b DEF InstallKeys, receiver
    <2>5. ASSUME NEW f \in Frames, SendFrame(f) PROVE CausesInv'
      BY <2>5, <2>b DEF SendFrame, receiver
    <2>6. ASSUME NEW f \in Frames, NEW phase \in Phases, EarlierPhase(f, phase)
          PROVE  CausesInv'
      BY <2>6, <2>b DEF EarlierPhase, receiver
    <2>7. CASE FlushPlain \/ FlushProtected
      BY <2>7, <2>b DEF FlushPlain, FlushProtected, receiver
    <2>8. CASE UNCHANGED vars
      BY <2>8, <2>b DEF vars, receiver
    <2> QED  BY <2>1, <2>2, <2>3, <2>4, <2>5, <2>6, <2>7, <2>8 DEF Next
  <1>3. CausesInv => FailureHasCause
    BY DEF CausesInv
  <1> QED  BY <1>1, <1>2, <1>3, OriginStep, TypeCorrect, PTL DEF Spec

-------------------------------------------------------------------------------
(* Where the bytes are *)

Carriers(b) == {p \in wire : b \in Range(p.payload)}

(* A byte waits with its frame in the queue, or one datagram took it, or   *)
(* it was dropped.                                                         *)
Waits(f, i) == f \in Range(queue) /\ Carriers(<<f, i>>) = {} /\ <<f, i>> \notin dropped

Went(f, i) ==
    f \notin Range(queue) /\ <<f, i>> \notin dropped /\ \E p : Carriers(<<f, i>>) = {p}

Lost(f, i) == f \notin Range(queue) /\ <<f, i>> \in dropped /\ Carriers(<<f, i>>) = {}

PlacesInv ==
    /\ Distinct(queue)
    /\ \A f \in used : \A i \in 1..FrameLength[f] : Waits(f, i) \/ Went(f, i) \/ Lost(f, i)

(* A flush(), protected or not, takes every byte of the queue to one       *)
(* datagram, or drops it with the last.                                    *)
LEMMA FlushPlaces ==
  ASSUME TypeOK, PlacesInv, queue # <<>>,
         NEW fragments, fragments = Fragments(PackFrames(queue)),
         NEW n, n = Len(fragments), NEW sent \in {n - 1, n},
         NEW pkt, \A k \in 1..n : pkt[k].payload = fragments[k],
         wire' = wire \cup {pkt[k] : k \in 1..sent},
         dropped' = dropped \cup IF sent < n THEN Range(fragments[n]) ELSE {},
         queue' = <<>>, used' = used
  PROVE  PlacesInv'
  <1>1. n \in Nat \ {0} /\ sent \in Nat /\ 1..sent \subseteq 1..n
    BY FlushedFragments
  <1>2. queue \in Seq(used) /\ used \subseteq Frames
    BY DEF TypeOK
  <1>3. Distinct(queue)
    BY DEF PlacesInv
  <1>4. /\ PackFrames(queue) \in Seq(BytesOf(used))
        /\ \A f \in Range(queue) : \A i \in 1..FrameLength[f] :
             <<f, i>> \in Range(PackFrames(queue))
        /\ \A b \in Range(PackFrames(queue)) : b[1] \in Range(queue)
        /\ Distinct(PackFrames(queue))
    BY <1>2, <1>3, PackedBytes
  <1>5. ASSUME NEW f \in Range(queue), NEW i \in 1..FrameLength[f]
        PROVE  \E k \in 1..n : <<f, i>> \in Range(fragments[k])
    BY <1>4, CutBytes
  <1>6. ASSUME NEW k \in 1..n, NEW b \in Range(fragments[k])
        PROVE  b[1] \in Range(queue)
    <2>1. Range(fragments[k]) \subseteq Range(PackFrames(queue))
      BY <1>4, CutBytes
    <2> QED  BY <1>4, <2>1
  <1>7. ASSUME NEW j \in 1..n, NEW k \in 1..n, NEW b,
               b \in Range(fragments[j]), b \in Range(fragments[k])
        PROVE  j = k
    BY <1>4, <1>7, CutBytes
  <1>8. Distinct(queue')
    BY DEF Distinct
  <1>9. ASSUME NEW f \in used, NEW i \in 1..FrameLength[f]
        PROVE  Went(f, i)' \/ Lost(f, i)'
    <2> DEFINE b == <<f, i>>
    <2>1. f \notin Range(queue')
      BY DEF Range
    <2>2. Carriers(b)' = Carriers(b) \cup {pkt[k] : k \in {j \in 1..sent : b \in Range(fragments[j])}}
      <3>1. \A k \in 1..sent : pkt[k].payload = fragments[k]
        BY <1>1
      <3> QED  BY <3>1 DEF Carriers
    <2>3. Waits(f, i) \/ Went(f, i) \/ Lost(f, i)
      BY DEF PlacesInv
    <2>4. CASE f \notin Range(queue)
      <3>1. \A k \in 1..n : b \notin Range(fragments[k])
        BY <1>6, <2>4
      <3>2. Carriers(b)' = Carriers(b)
        BY <1>1, <2>2, <3>1
      <3>3. b \in dropped' <=> b \in dropped
        BY <1>1, <3>1
      <3> QED  BY <2>1, <2>3, <2>4, <3>2, <3>3 DEF Waits, Went, Lost
    <2>5. CASE f \in Range(queue)
      <3>1. Carriers(b) = {} /\ b \notin dropped
        BY <2>3, <2>5 DEF Waits, Went, Lost
      <3>2. PICK k \in 1..n : b \in Range(fragments[k])
        BY <1>5, <2>5
      <3>3. \A j \in 1..n : b \in Range(fragments[j]) => j = k
        BY <1>7, <3>2
      <3>4. CASE k \in 1..sent
        <4>1. {j \in 1..sent : b \in Range(fragments[j])} = {k}
          BY <1>1, <3>2, <3>3, <3>4
        <4>2. Carriers(b)' = {pkt[k]}
          BY <2>2, <3>1, <4>1
        <4>3. sent < n => b \notin Range(fragments[n])
          BY <1>1, <3>3, <3>4
        <4>4. b \notin dropped'
          BY <3>1, <4>3
        <4> QED  BY <2>1, <4>2, <4>4 DEF Went
      <3>5. CASE k \notin 1..sent
        <4>1. k = n /\ sent < n
          BY <1>1, <3>5
        <4>2. {j \in 1..sent : b \in Range(fragments[j])} = {}
          BY <1>1, <3>3, <3>5
        <4>3. Carriers(b)' = {}
          BY <2>2, <3>1, <4>2
        <4>4. b \in dropped'
          BY <3>2, <4>1
        <4> QED  BY <2>1, <4>3, <4>4 DEF Lost
      <3> QED  BY <3>4, <3>5
    <2> QED  BY <2>4, <2>5
  <1> QED  BY <1>8, <1>9 DEF PlacesInv

LEMMA PlacesStep ==
  ASSUME TypeOK, PlacesInv, [Next]_vars
  PROVE  PlacesInv'
  <1>a. UNCHANGED <<queue, used, wire, dropped>> => PlacesInv'
    BY DEF PlacesInv, Distinct, Waits, Went, Lost, Carriers
  (* A frame that was not sent before is nowhere. *)
  <1>b. ASSUME NEW f, f \notin used, NEW i
        PROVE  f \notin Range(queue) /\ Carriers(<<f, i>>) = {} /\ <<f, i>> \notin dropped
    <2>1. \A p \in wire : p.payload \in Seq(BytesOf(used))
      BY DEF TypeOK
    <2>2. <<f, i>> \notin BytesOf(used)
      BY <1>b DEF BytesOf
    <2>3. Carriers(<<f, i>>) = {}
      BY <2>1, <2>2 DEF Carriers, Range
    <2>4. queue \in Seq(used) /\ dropped \subseteq BytesOf(used)
      BY DEF TypeOK
    <2>5. f \notin Range(queue)
      BY <1>b, <2>4 DEF Range
    <2> QED  BY <2>2, <2>3, <2>4, <2>5
  <1>1. ASSUME NEW f \in Frames, SendFrame(f) PROVE PlacesInv'
    <2>1. /\ f \notin used /\ queue' = Append(queue, f) /\ used' = used \cup {f}
          /\ UNCHANGED <<wire, dropped>>
      BY <1>1 DEF SendFrame
    <2>2. queue \in Seq(used)
      BY DEF TypeOK
    <2>3. /\ Len(queue') = Len(queue) + 1 /\ Len(queue) \in Nat
          /\ \A x \in 1..Len(queue) : queue'[x] = queue[x] /\ queue[x] # f
          /\ queue'[Len(queue) + 1] = f /\ DOMAIN queue' = 1..Len(queue')
          /\ DOMAIN queue = 1..Len(queue)
      BY <2>1, <2>2
    <2>4. Range(queue') = Range(queue) \cup {f}
      BY <2>3 DEF Range
    <2>5. Distinct(queue')
      <3> SUFFICES ASSUME NEW x \in 1..Len(queue'), NEW y \in 1..Len(queue'),
                          queue'[x] = queue'[y]
                   PROVE  x = y
        BY DEF Distinct
      <3>1. x = Len(queue) + 1 \/ x \in 1..Len(queue)
        BY <2>3
      <3>2. y = Len(queue) + 1 \/ y \in 1..Len(queue)
        BY <2>3
      <3>3. Distinct(queue)
        BY DEF PlacesInv
      <3> QED  BY <2>3, <3>1, <3>2, <3>3 DEF Distinct
    <2>6. ASSUME NEW g \in used', NEW i \in 1..FrameLength[g]
          PROVE  Waits(g, i)' \/ Went(g, i)' \/ Lost(g, i)'
      <3>1. Carriers(<<g, i>>)' = Carriers(<<g, i>>)
        BY <2>1 DEF Carriers
      <3>2. CASE g \in used
        <4>1. g # f
          BY <2>1, <3>2
        <4>2. Waits(g, i) \/ Went(g, i) \/ Lost(g, i)
          BY <3>2 DEF PlacesInv
        <4> QED  BY <2>1, <2>4, <3>1, <4>1, <4>2 DEF Waits, Went, Lost
      <3>3. CASE g = f
        BY <1>b, <2>1, <2>4, <3>1, <3>3 DEF Waits
      <3> QED  BY <2>1, <3>2, <3>3
    <2> QED  BY <2>5, <2>6 DEF PlacesInv
  <1>2. ASSUME NEW f \in Frames, NEW phase \in Phases, EarlierPhase(f, phase)
        PROVE  PlacesInv'
    <2>1. /\ f \notin used /\ used' = used \cup {f} /\ UNCHANGED <<queue, dropped>>
      BY <1>2 DEF EarlierPhase
    <2>2. PICK q : wire' = wire \cup {q} /\ q.payload = Serialize(f)
      BY <1>2, EarlierPacket
    <2>3. Range(q.payload) = {<<f, i>> : i \in 1..FrameLength[f]}
      BY <2>2 DEF Range, Serialize
    <2>4. ASSUME NEW g \in used', NEW i \in 1..FrameLength[g]
          PROVE  Waits(g, i)' \/ Went(g, i)' \/ Lost(g, i)'
      <3>1. CASE g \in used
        <4>1. <<g, i>> \notin Range(q.payload)
          BY <2>1, <2>3, <3>1
        <4>2. Carriers(<<g, i>>)' = Carriers(<<g, i>>)
          BY <2>2, <4>1 DEF Carriers
        <4>3. Waits(g, i) \/ Went(g, i) \/ Lost(g, i)
          BY <3>1 DEF PlacesInv
        <4> QED  BY <2>1, <4>2, <4>3 DEF Waits, Went, Lost
      <3>2. CASE g = f
        <4>1. <<g, i>> \in Range(q.payload)
          BY <2>3, <3>2
        <4>2. Carriers(<<g, i>>)' = Carriers(<<g, i>>) \cup {q}
          BY <2>2, <4>1 DEF Carriers
        <4>3. Carriers(<<g, i>>)' = {q} /\ g \notin Range(queue') /\ <<g, i>> \notin dropped'
          BY <1>b, <2>1, <3>2, <4>2
        <4> QED  BY <4>3 DEF Went
      <3> QED  BY <2>1, <3>1, <3>2
    <2> QED  BY <2>1, <2>4 DEF PlacesInv, Distinct
  <1>3. CASE FlushPlain
    <2> DEFINE fragments == Fragments(PackFrames(queue))
               n == Len(fragments)
               pkt == [k \in 1..n |-> WrapUnprotected("application", fragments[k])]
    <2>1. /\ queue # <<>> /\ queue' = <<>>
          /\ wire' = wire \cup {WrapUnprotected("application", payload) :
                                   payload \in Range(fragments)}
          /\ UNCHANGED <<used, dropped>>
      BY <1>3 DEF FlushPlain
    <2>2. fragments = Fragments(PackFrames(queue)) /\ n = Len(fragments)
      OBVIOUS
    <2> HIDE DEF fragments
    <2>3. n \in Nat /\ DOMAIN fragments = 1..n
      BY <2>1, FlushedFragments DEF fragments
    <2>4. \A k \in 1..n : pkt[k] = WrapUnprotected("application", fragments[k])
      OBVIOUS
    <2>s. PICK sent \in {n - 1, n} : sent = n
      OBVIOUS
    <2>5. wire' = wire \cup {pkt[k] : k \in 1..sent}
      BY <2>1, <2>3, <2>4, <2>s DEF Range
    <2>6. \A k \in 1..n : pkt[k].payload = fragments[k]
      BY <2>4 DEF WrapUnprotected
    <2>7. dropped' = dropped \cup IF sent < n THEN Range(fragments[n]) ELSE {}
      BY <2>1, <2>3, <2>s
    <2> HIDE DEF pkt, n
    <2> QED  BY <2>1, <2>2, <2>5, <2>6, <2>7, FlushPlaces, SMTT(30)
  <1>4. CASE FlushProtected
    <2> DEFINE fragments == Fragments(PackFrames(queue))
               n    == Len(fragments)
               sent == IF Len(fragments[n]) < MinPayload THEN n - 1 ELSE n
    <2>1. /\ queue # <<>> /\ queue' = <<>> /\ used' = used
          /\ dropped' = dropped \cup IF sent < n THEN Range(fragments[n]) ELSE {}
      BY <1>4 DEF FlushProtected
    <2>2. PICK mask \in [1..n -> Masks] :
            wire' = wire \cup {WrapProtected("application", fragments[k],
                                            nextNumber + k - 1, mask[k]) : k \in 1..sent}
      BY <1>4 DEF FlushProtected
    <2> DEFINE pkt == [k \in 1..n |-> WrapProtected("application", fragments[k],
                                                    nextNumber + k - 1, mask[k])]
    <2>7. fragments = Fragments(PackFrames(queue)) /\ n = Len(fragments)
      OBVIOUS
    <2> HIDE DEF fragments
    <2>3. n \in Nat /\ sent \in {n - 1, n} /\ 1..sent \subseteq 1..n
      BY <2>1, FlushedFragments DEF fragments
    <2> HIDE DEF n, sent
    <2>4. \A k \in 1..n : pkt[k] = WrapProtected("application", fragments[k],
                                                 nextNumber + k - 1, mask[k])
      OBVIOUS
    <2> HIDE DEF pkt
    <2>5. wire' = wire \cup {pkt[k] : k \in 1..sent}
      BY <2>2, <2>3, <2>4
    <2>6. ASSUME NEW k \in 1..n PROVE pkt[k].payload = fragments[k]
      <3>1. PICK q : q = WrapProtected("application", fragments[k], nextNumber + k - 1, mask[k])
        OBVIOUS
      <3>2. q.payload = fragments[k]
        BY <3>1 DEF WrapProtected
      <3> QED  BY <2>4, <3>1, <3>2
    <2> QED  BY <2>1, <2>3, <2>5, <2>6, <2>7, FlushPlaces
  <1>5. ASSUME NEW e \in Ends, InstallKeys(e) PROVE PlacesInv'
    BY <1>5, <1>a DEF InstallKeys, sender
  <1>6. ASSUME NEW p \in wire, DispatchDatagram(p) PROVE PlacesInv'
    BY <1>6, <1>a DEF DispatchDatagram, sender
  <1>7. CASE HandleFrame \/ EndDatagram
    BY <1>7, <1>a DEF HandleFrame, EndDatagram, sender
  <1>8. CASE UNCHANGED vars
    BY <1>8, <1>a DEF vars, sender
  <1> QED  BY <1>1, <1>2, <1>3, <1>4, <1>5, <1>6, <1>7, <1>8 DEF Next

(* No byte of a frame is repeated or lost unnoticed between outboundFrames *)
(* and the datagrams (flush, packFrames): for all frames, of all lengths   *)
(* and in any order, and for every size of a datagram.                     *)
THEOREM BytesAreAccountedFor == Spec => []BytesAccounted
  <1>1. Init => PlacesInv
    BY DEF Init, PlacesInv, Distinct
  <1>2. PlacesInv => BytesAccounted
    <2> SUFFICES ASSUME PlacesInv, NEW f \in used, NEW i \in 1..FrameLength[f]
                 PROVE  Cardinality(Carriers(<<f, i>>))
                          + Cardinality({x \in {f} : x \in Range(queue)})
                          + Cardinality({<<f, i>>} \cap dropped) = 1
      BY DEF BytesAccounted, Carriers
    <2> DEFINE a == Carriers(<<f, i>>)
               b == {x \in {f} : x \in Range(queue)}
               c == {<<f, i>>} \cap dropped
    <2>1. Cardinality({}) = 0 /\ \A x : Cardinality({x}) = 1
      BY FS_EmptySet, FS_Singleton
    <2>2. CASE Waits(f, i)
      <3>1. a = {} /\ b = {f} /\ c = {}
        BY <2>2 DEF Waits
      <3>2. Cardinality(a) = 0 /\ Cardinality(b) = 1 /\ Cardinality(c) = 0
        BY <2>1, <3>1
      <3> HIDE DEF a, b, c
      <3>9. Cardinality(a) + Cardinality(b) + Cardinality(c) = 1
        BY <3>2
      <3> QED  BY <3>9 DEF a, b, c
    <2>3. CASE Went(f, i)
      <3>1. PICK p : a = {p}
        BY <2>3 DEF Went
      <3>2. b = {} /\ c = {}
        BY <2>3 DEF Went
      <3>3. Cardinality(a) = 1 /\ Cardinality(b) = 0 /\ Cardinality(c) = 0
        BY <2>1, <3>1, <3>2
      <3> HIDE DEF a, b, c
      <3>9. Cardinality(a) + Cardinality(b) + Cardinality(c) = 1
        BY <3>3
      <3> QED  BY <3>9 DEF a, b, c
    <2>4. CASE Lost(f, i)
      <3>1. a = {} /\ b = {} /\ c = {<<f, i>>}
        BY <2>4 DEF Lost
      <3>2. Cardinality(a) = 0 /\ Cardinality(b) = 0 /\ Cardinality(c) = 1
        BY <2>1, <3>1
      <3> HIDE DEF a, b, c
      <3>9. Cardinality(a) + Cardinality(b) + Cardinality(c) = 1
        BY <3>2
      <3> QED  BY <3>9 DEF a, b, c
    <2> QED  BY <2>2, <2>3, <2>4 DEF PlacesInv
  <1> QED  BY <1>1, <1>2, PlacesStep, TypeCorrect, PTL DEF Spec

===============================================================================
