---------------------------- MODULE InductionProofs ----------------------------
(***************************************************************************)
(* Induction and recursion over the natural numbers, stated about sets and *)
(* functions: that every set of them has a least element, and that a       *)
(* function may be defined by recursion along a descent.  The proofs about *)
(* what is computed from a sequence rest on these, and on what they say of *)
(* a byte string that is put together from pieces.                         *)
(***************************************************************************)
EXTENDS Integers, SequencesExt, WellFoundedInduction, TLAPS

(* Every set of natural numbers that is not empty has a least element: to  *)
(* prove something of all of them, look at the least that it fails for.    *)
LEMMA LeastElement ==
  ASSUME NEW T, T \subseteq Nat, T # {}
  PROVE  \E x \in T : \A y \in T : x <= y
  <1> DEFINE R == OpToRel(<, Nat)
  <1>1. \A x, y \in Nat : x < y => <<x, y>> \in R
    BY DEF OpToRel
  <1>2. IsWellFoundedOn(R, Nat)
    BY NatLessThanWellFounded
  <1> HIDE DEF R
  <1>3. PICK x \in T : \A y \in T : ~(<<y, x>> \in R)
    BY <1>2, WFMin
  <1>4. ASSUME NEW y \in T PROVE x <= y
    <2>1. x \in Nat /\ y \in Nat
      OBVIOUS
    <2>2. ~(<<y, x>> \in R)
      BY <1>3
    <2>3. ~(y < x)
      BY <1>1, <2>1, <2>2
    <2> QED  BY <2>1, <2>3
  <1> QED  BY <1>4

(* f is computed by recursion up to n: on the base points of D it is       *)
(* given, elsewhere it takes one step from a smaller point.                *)
Below(D, n) == {m \in D : m <= n}

Computes(f, D, B, base, prev, step) ==
    \A m \in D : f[m] = IF m \in B THEN base[m] ELSE step[<<m, f[prev[m]]>>]

UpTo(g, D, S, B, base, prev, step, n) ==
    /\ g \in [Below(D, n) -> S]
    /\ Computes(g, Below(D, n), B, base, prev, step)

Descends(D, B, prev) == \A m \in D \ B : prev[m] \in D /\ prev[m] < m

StaysIn(S, D, B, base, step) ==
    /\ \A m \in B : base[m] \in S
    /\ \A m \in D \ B : \A v \in S : step[<<m, v>>] \in S

(* Two such functions agree where both are defined. *)
LEMMA RecursionAgrees ==
  ASSUME NEW D \in SUBSET Nat, NEW S, NEW B, NEW base, NEW prev, NEW step,
         Descends(D, B, prev),
         NEW n \in D, NEW k \in D, NEW g, NEW h,
         UpTo(g, D, S, B, base, prev, step, n), UpTo(h, D, S, B, base, prev, step, k),
         NEW m \in D, m <= n, m <= k
  PROVE  g[m] = h[m]
  <1>0. \A d \in D : d \in Nat
    OBVIOUS
  <1> DEFINE T == {i \in D : i <= n /\ i <= k /\ g[i] # h[i]}
  <1>1. SUFFICES ASSUME T # {} PROVE FALSE
    OBVIOUS
  <1>2. T \subseteq Nat
    OBVIOUS
  <1>3. PICK x \in T : \A y \in T : x <= y
    BY <1>1, <1>2, LeastElement
  <1>4. x \in D /\ x \in Nat /\ n \in Nat /\ k \in Nat /\ x <= n /\ x <= k /\ g[x] # h[x]
    OBVIOUS
  <1>5. x \in Below(D, n) /\ x \in Below(D, k)
    BY <1>0, <1>4 DEF Below
  <1>6. /\ g[x] = IF x \in B THEN base[x] ELSE step[<<x, g[prev[x]]>>]
        /\ h[x] = IF x \in B THEN base[x] ELSE step[<<x, h[prev[x]]>>]
    BY <1>5 DEF UpTo, Computes
  <1>7. x \notin B
    BY <1>4, <1>6
  <1>8. prev[x] \in D /\ prev[x] < x
    BY <1>4, <1>7 DEF Descends
  <1>9. prev[x] \in Nat
    BY <1>0, <1>8
  <1>10. prev[x] <= n /\ prev[x] <= k /\ ~(x <= prev[x])
    BY <1>4, <1>8, <1>9
  <1>11. prev[x] \notin T
    BY <1>3, <1>10
  <1>12. g[prev[x]] = h[prev[x]]
    BY <1>8, <1>10, <1>11
  <1> QED  BY <1>4, <1>6, <1>7, <1>12

(* There is a function that the recursion computes.                        *)
THEOREM RecursionExists ==
  ASSUME NEW D \in SUBSET Nat, NEW S, NEW B, NEW base, NEW prev, NEW step,
         Descends(D, B, prev), StaysIn(S, D, B, base, step)
  PROVE  \E f \in [D -> S] : Computes(f, D, B, base, prev, step)
  <1>0. \A d \in D : d \in Nat /\ d <= d
    OBVIOUS
  <1> DEFINE U(g, n) == UpTo(g, D, S, B, base, prev, step, n)
             G(n)    == CHOOSE g : U(g, n)
             f       == [n \in D |-> G(n)[n]]
             T       == {n \in D : ~(\E g : U(g, n))}
  <1>1. \A n, k, m \in D : \A g, h : U(g, n) /\ U(h, k) /\ m <= n /\ m <= k => g[m] = h[m]
    BY RecursionAgrees
  (* What the recursion says of a function that is right below m. *)
  <1>2. ASSUME NEW n \in D, \A m \in D : m < n => \E g : U(g, m)
        PROVE  \E g : U(g, n)
    <2> DEFINE v == IF n \in B THEN base[n] ELSE step[<<n, f[prev[n]]>>]
               new == [m \in Below(D, n) |-> IF m = n THEN v ELSE f[m]]
    <2>1. \A m \in D : m < n => U(G(m), m)
      BY <1>2
    <2>2. ASSUME NEW m \in D, m < n
          PROVE  /\ f[m] \in S
                 /\ f[m] = IF m \in B THEN base[m] ELSE step[<<m, f[prev[m]]>>]
      <3>1. U(G(m), m)
        BY <2>1, <2>2
      <3>2. m \in Below(D, m)
        BY DEF Below
      <3>3. f[m] = G(m)[m]
        OBVIOUS
      <3>4. /\ G(m)[m] \in S
            /\ G(m)[m] = IF m \in B THEN base[m] ELSE step[<<m, G(m)[prev[m]]>>]
        BY <3>1, <3>2 DEF UpTo, Computes
      <3>5. CASE m \in B
        BY <3>3, <3>4, <3>5
      <3>6. CASE m \notin B
        <4>1. prev[m] \in D /\ prev[m] < m
          BY <3>6 DEF Descends
        <4>0. prev[m] \in Nat /\ m \in Nat /\ n \in Nat
          BY <1>0, <4>1
        <4>2. prev[m] < n /\ prev[m] <= m /\ prev[m] <= prev[m]
          BY <2>2, <4>0, <4>1
        <4>3. U(G(prev[m]), prev[m])
          BY <2>1, <4>1, <4>2
        <4>4. G(m)[prev[m]] = G(prev[m])[prev[m]]
          <5> HIDE DEF U, G
          <5>1. PICK k \in D : k = prev[m]
            BY <4>1
          <5>2. U(G(k), k) /\ k <= m /\ k <= k
            BY <4>2, <4>3, <5>1
          <5>3. G(m)[k] = G(k)[k]
            BY <1>1, <3>1, <5>2
          <5> QED  BY <5>1, <5>3
        <4>5. f[prev[m]] = G(prev[m])[prev[m]]
          BY <4>1
        <4> QED  BY <3>3, <3>4, <4>4, <4>5
      <3> QED  BY <3>5, <3>6
    <2> HIDE DEF f
    <2>3. v \in S
      <3>1. CASE n \in B
        BY <3>1 DEF StaysIn
      <3>2. CASE n \notin B
        <4>1. prev[n] \in D /\ prev[n] < n
          BY <3>2 DEF Descends
        <4> QED  BY <2>2, <3>2, <4>1 DEF StaysIn
      <3> QED  BY <3>1, <3>2
    <2>4. \A m \in Below(D, n) : m \in D /\ m \in Nat /\ n \in Nat /\ (m = n \/ m < n)
      BY DEF Below
    <2>5. new \in [Below(D, n) -> S]
      <3> HIDE DEF v
      <3> QED  BY <2>2, <2>3, <2>4
    <2>6. ASSUME NEW m \in Below(D, n)
          PROVE  new[m] = IF m \in B THEN base[m] ELSE step[<<m, new[prev[m]]>>]
      <3>1. CASE m \in B
        BY <2>2, <2>4, <3>1
      <3>2. CASE m \notin B
        <4>1. prev[m] \in D /\ prev[m] < m
          BY <2>4, <3>2 DEF Descends
        <4>0. prev[m] \in Nat /\ m \in Nat /\ n \in Nat
          BY <1>0, <2>4, <4>1
        <4>2. prev[m] \in Below(D, n) /\ prev[m] # n
          BY <2>4, <4>0, <4>1 DEF Below
        <4>3. new[prev[m]] = f[prev[m]]
          BY <4>2
        <4>4. new[m] = step[<<m, f[prev[m]]>>]
          BY <2>2, <2>4, <3>2
        <4> QED  BY <3>2, <4>3, <4>4
      <3> QED  BY <3>1, <3>2
    <2> HIDE DEF new
    <2>7. U(new, n)
      BY <2>5, <2>6 DEF UpTo, Computes
    <2> QED  BY <2>7
  <1>3. T = {}
    <2>1. SUFFICES ASSUME T # {} PROVE FALSE
      OBVIOUS
    <2>2. T \subseteq Nat
      OBVIOUS
    <2> HIDE DEF U
    <2>3. PICK x \in T : \A y \in T : x <= y
      BY <2>1, <2>2, LeastElement
    <2>4. ASSUME NEW m \in D, m < x PROVE \E g : U(g, m)
      <3>1. ~(x <= m)
        BY <2>4
      <3> QED  BY <2>3, <3>1
    <2>5. \E g : U(g, x)
      BY <1>2, <2>4
    <2> QED  BY <2>5
  <1> HIDE DEF U
  <1>4. \A n \in D : U(G(n), n)
    BY <1>3
  <1>5. ASSUME NEW n \in D
        PROVE  /\ f[n] \in S
               /\ f[n] = IF n \in B THEN base[n] ELSE step[<<n, f[prev[n]]>>]
    <2>1. U(G(n), n) /\ n \in Below(D, n) /\ f[n] = G(n)[n]
      BY <1>0, <1>4 DEF Below
    <2>2. /\ G(n)[n] \in S
          /\ G(n)[n] = IF n \in B THEN base[n] ELSE step[<<n, G(n)[prev[n]]>>]
      BY <2>1 DEF U, UpTo, Computes
    <2>3. CASE n \in B
      BY <2>1, <2>2, <2>3
    <2>4. CASE n \notin B
      <3>1. prev[n] \in D /\ prev[n] < n
        BY <2>4 DEF Descends
      <3>0. prev[n] \in Nat /\ n \in Nat
        BY <1>0, <3>1
      <3>2. prev[n] <= n /\ prev[n] <= prev[n]
        BY <3>0, <3>1
      <3>3. U(G(prev[n]), prev[n])
        BY <1>4, <3>1
      <3>4. G(n)[prev[n]] = G(prev[n])[prev[n]]
        <4> HIDE DEF G
        <4>1. PICK k \in D : k = prev[n]
          BY <3>1
        <4>2. U(G(k), k) /\ k <= n /\ k <= k
          BY <3>2, <3>3, <4>1
        <4>3. G(n)[k] = G(k)[k]
          BY <1>1, <2>1, <4>2
        <4> QED  BY <4>1, <4>3
      <3>5. f[prev[n]] = G(prev[n])[prev[n]]
        BY <3>1
      <3> QED  BY <2>1, <2>2, <3>4, <3>5
    <2> QED  BY <2>3, <2>4
  <1>6. f \in [D -> S]
    BY <1>5
  <1> HIDE DEF f
  <1> QED  BY <1>5, <1>6 DEF Computes

-------------------------------------------------------------------------------
(* FlattenSeq *)

(* The concatenation of the first i of some sequences, for each i. *)
Concatenates(F, ss) ==
    \A i \in 1..Len(ss) : F[i] = IF i = 1 THEN ss[i] ELSE F[i - 1] \o ss[i]

LEMMA FlattenIsConcatenation ==
  ASSUME NEW S, NEW ss \in Seq(Seq(S)), ss # <<>>
  PROVE  \E F \in [1..Len(ss) -> Seq(S)] :
            Concatenates(F, ss) /\ FlattenSeq(ss) = F[Len(ss)]
  <1> DEFINE n    == Len(ss)
             D    == 1..n
             prev == [i \in D |-> i - 1]
             step == [x \in D \X Seq(S) |-> x[2] \o ss[x[1]]]
             G    == CHOOSE flatten : flatten = [i \in 1..Len(ss) |->
                        IF i = 1 THEN ss[i] ELSE flatten[i - 1] \o ss[i]]
  <1>1. n \in Nat /\ n # 0 /\ D \in SUBSET Nat
    OBVIOUS
  <1>2. Descends(D, {1}, prev)
    BY DEF Descends
  <1>3. StaysIn(Seq(S), D, {1}, ss, step)
    <2>1. ASSUME NEW m \in {1} PROVE ss[m] \in Seq(S)
      BY <1>1
    <2>2. ASSUME NEW m \in D \ {1}, NEW v \in Seq(S) PROVE step[<<m, v>>] \in Seq(S)
      <3>1. step[<<m, v>>] = v \o ss[m]
        OBVIOUS
      <3>2. ss[m] \in Seq(S)
        OBVIOUS
      <3> QED  BY <3>1, <3>2
    <2> QED  BY <2>1, <2>2 DEF StaysIn
  <1>4. PICK f \in [D -> Seq(S)] : Computes(f, D, {1}, ss, prev, step)
    <2> HIDE DEF D, prev, step
    <2> QED  BY <1>1, <1>2, <1>3, RecursionExists
  <1>5. ASSUME NEW i \in D
        PROVE  f[i] = IF i = 1 THEN ss[i] ELSE f[i - 1] \o ss[i]
    <2>1. f[i] = IF i \in {1} THEN ss[i] ELSE step[<<i, f[prev[i]]>>]
      BY <1>4 DEF Computes
    <2>2. CASE i # 1
      <3>1. i - 1 \in D
        BY <1>1, <2>2
      <3>2. f[i - 1] \in Seq(S)
        BY <3>1
      <3>3. step[<<i, f[i - 1]>>] = f[i - 1] \o ss[i]
        BY <3>2
      <3> QED  BY <2>1, <2>2, <3>3
    <2> QED  BY <2>1, <2>2
  <1>6. f = [i \in 1..Len(ss) |-> IF i = 1 THEN ss[i] ELSE f[i - 1] \o ss[i]]
    BY <1>5
  <1>7. G = [i \in 1..Len(ss) |-> IF i = 1 THEN ss[i] ELSE G[i - 1] \o ss[i]]
    BY <1>6
  <1>8. FlattenSeq(ss) = G[Len(ss)]
    BY <1>1 DEF FlattenSeq
  <1> HIDE DEF G
  <1>9. ASSUME NEW i \in D
        PROVE  G[i] = f[i]
    <2> DEFINE T == {k \in D : G[k] # f[k]}
    <2>1. SUFFICES ASSUME T # {} PROVE FALSE
      BY <2>1
    <2>2. T \subseteq Nat
      OBVIOUS
    <2>3. PICK x \in T : \A y \in T : x <= y
      BY <2>1, <2>2, LeastElement
    <2>4. x \in D /\ x \in Nat /\ G[x] # f[x]
      BY <1>1
    <2>5. x # 1
      BY <1>5, <1>7, <2>4
    <2>6. x - 1 \in D /\ ~(x <= x - 1)
      BY <1>1, <2>4, <2>5
    <2>7. G[x - 1] = f[x - 1]
      BY <2>3, <2>6
    <2>8. G[x] = G[x - 1] \o ss[x] /\ f[x] = f[x - 1] \o ss[x]
      BY <1>5, <1>7, <2>4, <2>5
    <2> QED  BY <2>4, <2>7, <2>8
  <1>10. FlattenSeq(ss) = f[Len(ss)]
    BY <1>1, <1>8, <1>9
  <1>11. Concatenates(f, ss)
    BY <1>5 DEF Concatenates
  <1> QED  BY <1>10, <1>11

LEMMA ConcatPlaces ==
  ASSUME NEW S, NEW a \in Seq(S), NEW b \in Seq(S)
  PROVE  /\ Len(a) \in Nat /\ Len(b) \in Nat
         /\ Len(a \o b) = Len(a) + Len(b)
         /\ \A x \in 1..Len(a) : (a \o b)[x] = a[x]
         /\ \A j \in 1..Len(b) : (a \o b)[Len(a) + j] = b[j]
  OBVIOUS

(* Where the elements of the sequences go: the j-th of the k-th comes      *)
(* start[k] + j-th, and nothing else is there.                             *)
Places(ss, start, m, flat) ==
    /\ \A k \in 1..m : \A j \in 1..Len(ss[k]) :
         start[k] + j \in 1..Len(flat) /\ flat[start[k] + j] = ss[k][j]
    /\ \A x \in 1..Len(flat) : \E k \in 1..m : \E j \in 1..Len(ss[k]) : x = start[k] + j

LEMMA PlacesOfConcat ==
  ASSUME NEW S, NEW ss, NEW start, NEW p \in Nat, NEW a \in Seq(S), NEW b \in Seq(S),
         ss[p + 1] = b, start[p + 1] = Len(a), Places(ss, start, p, a)
  PROVE  Places(ss, start, p + 1, a \o b)
  <1> DEFINE c == a \o b
  <1>1. /\ Len(a) \in Nat /\ Len(b) \in Nat /\ Len(c) = Len(a) + Len(b)
        /\ \A x \in 1..Len(a) : c[x] = a[x]
        /\ \A j \in 1..Len(b) : c[Len(a) + j] = b[j]
    BY ConcatPlaces
  <1> HIDE DEF c
  <1>2. ASSUME NEW k \in 1..(p + 1), NEW j \in 1..Len(ss[k])
        PROVE  start[k] + j \in 1..Len(c) /\ c[start[k] + j] = ss[k][j]
    <2>1. CASE k = p + 1
      <3>1. j \in 1..Len(b)
        BY <2>1
      <3>2. Len(a) + j \in 1..Len(c)
        BY <1>1, <3>1
      <3> QED  BY <1>1, <2>1, <3>1, <3>2
    <2>2. CASE k # p + 1
      <3>1. k \in 1..p
        BY <2>2
      <3>2. PICK x : x = start[k] + j
        OBVIOUS
      <3>3. x \in 1..Len(a) /\ a[x] = ss[k][j]
        BY <3>1, <3>2 DEF Places
      <3>4. x \in 1..Len(c) /\ c[x] = a[x]
        BY <1>1, <3>3
      <3> QED  BY <3>2, <3>3, <3>4
    <2> QED  BY <2>1, <2>2
  <1>3. ASSUME NEW x \in 1..Len(c)
        PROVE  \E k \in 1..(p + 1) : \E j \in 1..Len(ss[k]) : x = start[k] + j
    <2>1. CASE x <= Len(a)
      <3>1. x \in 1..Len(a)
        BY <1>1, <2>1
      <3>2. PICK k \in 1..p : \E j \in 1..Len(ss[k]) : x = start[k] + j
        BY <3>1 DEF Places
      <3>3. k \in 1..(p + 1)
        OBVIOUS
      <3> QED  BY <3>2, <3>3
    <2>2. CASE ~(x <= Len(a))
      <3>1. x - Len(a) \in 1..Len(b) /\ x = Len(a) + (x - Len(a))
        BY <1>1, <2>2
      <3>2. p + 1 \in 1..(p + 1)
        OBVIOUS
      <3> QED  BY <3>1, <3>2
    <2> QED  BY <2>1, <2>2
  <1>4. Places(ss, start, p + 1, c)
    BY <1>2, <1>3 DEF Places
  <1> QED  BY <1>4 DEF c

LEMMA FlattenPlaces ==
  ASSUME NEW S, NEW ss \in Seq(Seq(S))
  PROVE  /\ FlattenSeq(ss) \in Seq(S)
         /\ \E start \in [1..Len(ss) -> Nat] : Places(ss, start, Len(ss), FlattenSeq(ss))
  <1>1. CASE ss = <<>>
    <2>1. FlattenSeq(ss) = <<>>
      BY <1>1 DEF FlattenSeq
    <2>2. \A start : Places(ss, start, Len(ss), FlattenSeq(ss))
      BY <1>1, <2>1 DEF Places
    <2>3. [k \in 1..Len(ss) |-> 0] \in [1..Len(ss) -> Nat]
      OBVIOUS
    <2>4. \E start \in [1..Len(ss) -> Nat] : Places(ss, start, Len(ss), FlattenSeq(ss))
      BY <2>2, <2>3
    <2> QED  BY <2>1, <2>4
  <1>2. CASE ss # <<>>
    <2> DEFINE n == Len(ss)
    <2>1. PICK F \in [1..n -> Seq(S)] : Concatenates(F, ss) /\ FlattenSeq(ss) = F[n]
      BY <1>2, FlattenIsConcatenation
    <2>2. n \in Nat /\ n # 0
      BY <1>2
    <2> DEFINE start == [k \in 1..n |-> IF k = 1 THEN 0 ELSE Len(F[k - 1])]
               T     == {m \in 1..n : ~Places(ss, start, m, F[m])}
    <2>3. start \in [1..n -> Nat]
      <3>1. ASSUME NEW k \in 1..n, k # 1 PROVE Len(F[k - 1]) \in Nat
        <4>1. k - 1 \in 1..n
          BY <2>2, <3>1
        <4> QED  BY <4>1
      <3> QED  BY <3>1
    <2>4. T = {}
      <3>1. SUFFICES ASSUME T # {} PROVE FALSE
        OBVIOUS
      <3>2. T \subseteq Nat
        BY <2>2
      <3>3. PICK m \in T : \A y \in T : m <= y
        BY <3>1, <3>2, LeastElement
      <3>4. m \in 1..n /\ m \in Nat /\ ~Places(ss, start, m, F[m])
        BY <2>2
      <3>5. ss[m] \in Seq(S)
        BY <3>4
      <3>6. CASE m = 1
        <4>1. F[1] = ss[1] /\ start[1] = 0
          BY <2>1, <2>2, <3>4, <3>6 DEF Concatenates
        <4> HIDE DEF start
        <4>2. Places(ss, start, 1, F[1])
          BY <3>5, <3>6, <4>1 DEF Places
        <4> QED  BY <3>4, <3>6, <4>2
      <3>7. CASE m # 1
        <4> DEFINE p == m - 1
        <4>1. p \in 1..n /\ p \in Nat /\ ~(m <= p) /\ m = p + 1
          BY <2>2, <3>4, <3>7
        <4>2. Places(ss, start, p, F[p])
          BY <3>3, <4>1
        <4>3. F[m] = F[p] \o ss[m] /\ start[m] = Len(F[p])
          BY <2>1, <3>4, <3>7 DEF Concatenates
        <4>4. F[p] \in Seq(S)
          BY <4>1
        <4> HIDE DEF start, p
        <4>5. Places(ss, start, p + 1, F[p] \o ss[m])
          BY <3>5, <4>1, <4>2, <4>3, <4>4, PlacesOfConcat
        <4> QED  BY <3>4, <4>1, <4>3, <4>5
      <3> QED  BY <3>6, <3>7
    <2>5. n \in 1..n
      BY <2>2
    <2>6. Places(ss, start, n, F[n]) /\ F[n] \in Seq(S)
      BY <2>4, <2>5
    <2> HIDE DEF start
    <2> QED  BY <2>1, <2>3, <2>6
  <1> QED  BY <1>1, <1>2

-------------------------------------------------------------------------------
(***************************************************************************)
(* Byte strings made of pieces: q says where each of them ends.            *)
(***************************************************************************)
ByteStrings == Seq(Seq(Nat))

Pieces(w, s, q) ==
    /\ q \in [0..Len(s) -> Nat] /\ q[0] = 0 /\ q[Len(s)] = Len(w)
    /\ \A i \in 1..Len(s) : q[i] = q[i - 1] + Len(s[i])
    /\ \A i \in 1..Len(s) : \A j \in 1..Len(s[i]) : w[q[i - 1] + j] = s[i][j]
    /\ \A i, j \in 0..Len(s) : i <= j => q[i] <= q[j]

MadeOf(w, s) == w \in Seq(Nat) /\ s \in ByteStrings /\ \E q : Pieces(w, s, q)

LEMMA MadeOfNothing == MadeOf(<<>>, <<>>)
  <1> DEFINE q == [i \in 0..0 |-> 0]
  <1>1. q \in [0..0 -> Nat] /\ \A i \in 0..0 : q[i] = 0 /\ i = 0
    OBVIOUS
  <1> HIDE DEF q
  <1>2. Pieces(<<>>, <<>>, q)
    BY <1>1 DEF Pieces
  <1>3. <<>> \in Seq(Nat) /\ <<>> \in ByteStrings
    BY DEF ByteStrings
  <1> QED  BY <1>2, <1>3 DEF MadeOf

LEMMA MadeOfOne ==
    ASSUME NEW b \in Seq(Nat)
    PROVE  MadeOf(b, <<b>>)
  <1> DEFINE s == <<b>>
             q == [i \in 0..1 |-> IF i = 0 THEN 0 ELSE Len(b)]
  <1>1. s \in ByteStrings /\ Len(s) = 1 /\ s[1] = b /\ Len(b) \in Nat
    BY DEF ByteStrings
  <1>2. q \in [0..1 -> Nat] /\ q[0] = 0 /\ q[1] = Len(b)
    BY <1>1
  <1>3. \A i \in 1..1 : i = 1 /\ i - 1 = 0
    OBVIOUS
  <1>4. \A i, j \in 0..1 : i <= j => i = j \/ (i = 0 /\ j = 1)
    OBVIOUS
  <1> HIDE DEF q, s
  <1>5. \A i \in 1..1 : q[i] = q[i - 1] + Len(s[i])
    BY <1>1, <1>2, <1>3
  <1>6. \A i \in 1..1 : \A j \in 1..Len(s[i]) : b[q[i - 1] + j] = s[i][j]
    BY <1>1, <1>2, <1>3
  <1>7. \A i, j \in 0..1 : i <= j => q[i] <= q[j]
    BY <1>1, <1>2, <1>4
  <1>8. Pieces(b, s, q)
    BY <1>1, <1>2, <1>5, <1>6, <1>7 DEF Pieces
  <1> QED  BY <1>1, <1>8 DEF MadeOf, s

LEMMA Within ==
    ASSUME NEW x \in Nat, NEW l \in Nat, NEW y, y = x + l, NEW n \in Nat, y <= n, NEW j \in 1..l
    PROVE  x + j \in 1..n
  OBVIOUS

LEMMA MadeOfBoth ==
    ASSUME NEW a, NEW b, NEW s, NEW t, MadeOf(a, s), MadeOf(b, t)
    PROVE  MadeOf(a \o b, s \o t)
  <1>1. PICK q : Pieces(a, s, q)
    BY DEF MadeOf
  <1>2. PICK r : Pieces(b, t, r)
    BY DEF MadeOf
  <1>3. a \in Seq(Nat) /\ b \in Seq(Nat) /\ s \in Seq(Seq(Nat)) /\ t \in Seq(Seq(Nat))
    BY DEF MadeOf, ByteStrings
  <1> DEFINE n == Len(s)
             m == Len(t)
             u == s \o t
             w == a \o b
             p == [i \in 0..(n + m) |-> IF i <= n THEN q[i] ELSE Len(a) + r[i - n]]
  <1>4. /\ n \in Nat /\ m \in Nat /\ Len(a) \in Nat /\ Len(b) \in Nat
        /\ w \in Seq(Nat) /\ Len(w) = Len(a) + Len(b)
        /\ \A x \in 1..Len(a) : w[x] = a[x]
        /\ \A j \in 1..Len(b) : w[Len(a) + j] = b[j]
    BY <1>3, ConcatPlaces
  <1>5. /\ u \in Seq(Seq(Nat)) /\ Len(u) = n + m
        /\ \A x \in 1..n : u[x] = s[x]
        /\ \A j \in 1..m : u[n + j] = t[j]
    <2>1. u \in Seq(Seq(Nat))
      BY <1>3
    <2> QED  BY <1>3, <2>1, ConcatPlaces
  <1>6. /\ q \in [0..n -> Nat] /\ q[0] = 0 /\ q[n] = Len(a)
        /\ \A i \in 1..n : q[i] = q[i - 1] + Len(s[i])
        /\ \A i \in 1..n : \A j \in 1..Len(s[i]) : a[q[i - 1] + j] = s[i][j]
        /\ \A i, j \in 0..n : i <= j => q[i] <= q[j]
    BY <1>1 DEF Pieces
  <1>7. /\ r \in [0..m -> Nat] /\ r[0] = 0 /\ r[m] = Len(b)
        /\ \A i \in 1..m : r[i] = r[i - 1] + Len(t[i])
        /\ \A i \in 1..m : \A j \in 1..Len(t[i]) : b[r[i - 1] + j] = t[i][j]
        /\ \A i, j \in 0..m : i <= j => r[i] <= r[j]
    BY <1>2 DEF Pieces
  <1>8. \A i \in 0..(n + m) : p[i] = IF i <= n THEN q[i] ELSE Len(a) + r[i - n]
    OBVIOUS
  <1>9. \A i \in 0..n : q[i] \in Nat
    BY <1>6
  <1>10. \A i \in 0..m : r[i] \in Nat
    BY <1>7
  <1>11. ASSUME NEW i \in 0..(n + m) PROVE p[i] \in Nat
    <2>1. CASE i <= n
      BY <1>4, <1>8, <1>9, <2>1
    <2>2. CASE ~(i <= n)
      <3>1. i - n \in 0..m
        BY <1>4, <2>2
      <3>2. r[i - n] \in Nat
        BY <1>10, <3>1
      <3> QED  BY <1>4, <1>8, <2>2, <3>2
    <2> QED  BY <2>1, <2>2
  <1>12. p \in [0..(n + m) -> Nat]
    BY <1>11
  <1> HIDE DEF p, w, u, n, m
  <1>13. \A i \in 0..n : p[i] = q[i]
    BY <1>4, <1>8
  <1>14. ASSUME NEW i \in 0..m PROVE p[n + i] = Len(a) + r[i]
    <2>1. CASE i = 0
      BY <1>4, <1>6, <1>7, <1>13, <2>1
    <2>2. CASE i # 0
      <3>1. n + i \in 0..(n + m) /\ ~(n + i <= n) /\ (n + i) - n = i
        BY <1>4, <2>2
      <3> QED  BY <1>8, <3>1
    <2> QED  BY <2>1, <2>2
  <1>15. \A i \in 1..(n + m) : i \in 1..n \/ \E k \in 1..m : i = n + k
    <2> SUFFICES ASSUME NEW i \in 1..(n + m), i \notin 1..n PROVE \E k \in 1..m : i = n + k
      OBVIOUS
    <2>1. i - n \in 1..m /\ i = n + (i - n)
      BY <1>4
    <2> QED  BY <2>1
  <1>16. ASSUME NEW i \in 1..(n + m)
         PROVE  /\ p[i] = p[i - 1] + Len(u[i])
                /\ \A j \in 1..Len(u[i]) : w[p[i - 1] + j] = u[i][j]
    <2>1. CASE i \in 1..n
      <3>1. p[i] = q[i] /\ p[i - 1] = q[i - 1] /\ u[i] = s[i]
        <4>1. i \in 0..n /\ i - 1 \in 0..n
          BY <1>4, <2>1
        <4> QED  BY <1>5, <1>13, <2>1, <4>1
      <3>2. ASSUME NEW j \in 1..Len(s[i]) PROVE w[q[i - 1] + j] = s[i][j]
        <4>1. s[i] \in Seq(Nat) /\ Len(s[i]) \in Nat
          BY <1>3, <2>1 DEF n
        <4>2. i - 1 \in 0..n /\ i \in 0..n /\ n \in 0..n /\ i <= n
          BY <1>4, <2>1
        <4>3. q[i - 1] \in Nat /\ q[i] \in Nat /\ q[i] <= Len(a)
          BY <1>6, <1>9, <4>2
        <4>4. q[i] = q[i - 1] + Len(s[i])
          BY <1>6, <2>1
        <4>5. q[i - 1] + j \in 1..Len(a)
          BY <1>4, <4>1, <4>3, <4>4, Within
        <4>6. a[q[i - 1] + j] = s[i][j]
          BY <1>6, <2>1
        <4> QED  BY <1>4, <4>5, <4>6
      <3> QED  BY <1>6, <2>1, <3>1, <3>2
    <2>2. CASE \E k \in 1..m : i = n + k
      <3>1. PICK k \in 1..m : i = n + k
        BY <2>2
      <3>2. k \in 0..m /\ k - 1 \in 0..m /\ i - 1 = n + (k - 1) /\ m \in 0..m /\ k <= m
        BY <1>4, <3>1
      <3>3. p[i] = Len(a) + r[k] /\ p[i - 1] = Len(a) + r[k - 1] /\ u[i] = t[k]
        BY <1>5, <1>14, <3>1, <3>2
      <3>4. t[k] \in Seq(Nat) /\ Len(t[k]) \in Nat
        BY <1>3 DEF m
      <3>5. r[k] = r[k - 1] + Len(t[k]) /\ r[k] \in Nat /\ r[k - 1] \in Nat /\ r[k] <= Len(b)
        BY <1>7, <1>10, <3>2
      <3>6. ASSUME NEW j \in 1..Len(t[k]) PROVE w[p[i - 1] + j] = t[k][j]
        <4>1. r[k - 1] + j \in 1..Len(b)
          BY <1>4, <3>4, <3>5, Within
        <4>2. b[r[k - 1] + j] = t[k][j]
          BY <1>7
        <4>3. p[i - 1] + j = Len(a) + (r[k - 1] + j)
          BY <1>4, <3>3, <3>5
        <4> QED  BY <1>4, <4>1, <4>2, <4>3
      <3> QED  BY <1>4, <3>3, <3>4, <3>5, <3>6, SMTT(30)
    <2> QED  BY <1>15, <2>1, <2>2
  <1>17. ASSUME NEW i \in 0..(n + m), NEW j \in 0..(n + m), i <= j
         PROVE  p[i] <= p[j]
    <2>1. CASE j <= n
      <3>1. i \in 0..n /\ j \in 0..n
        BY <1>4, <1>17, <2>1
      <3>2. p[i] = q[i] /\ p[j] = q[j]
        BY <1>13, <3>1
      <3> QED  BY <1>6, <1>17, <3>1, <3>2
    <2>2. CASE ~(j <= n)
      <3>1. j - n \in 0..m /\ j = n + (j - n)
        BY <1>4, <2>2
      <3>2. PICK k \in 0..m : j = n + k
        BY <3>1
      <3>3. p[j] = Len(a) + r[k] /\ r[k] \in Nat
        BY <1>10, <1>14, <3>2
      <3>4. CASE i <= n
        <4>1. i \in 0..n /\ n \in 0..n
          BY <1>4, <3>4
        <4>2. p[i] = q[i] /\ q[i] \in Nat /\ q[i] <= Len(a)
          BY <1>6, <1>9, <1>13, <3>4, <4>1
        <4> QED  BY <1>4, <3>3, <4>2
      <3>5. CASE ~(i <= n)
        <4>1. i - n \in 0..m /\ i = n + (i - n)
          BY <1>4, <3>5
        <4>2. PICK l \in 0..m : i = n + l
          BY <4>1
        <4>3. l <= k
          BY <1>4, <1>17, <3>2, <4>2
        <4>4. p[i] = Len(a) + r[l] /\ r[l] \in Nat /\ r[l] <= r[k]
          BY <1>7, <1>10, <1>14, <4>2, <4>3
        <4> QED  BY <1>4, <3>3, <4>4
      <3> QED  BY <3>4, <3>5
    <2> QED  BY <2>1, <2>2
  <1>18. p[0] = 0 /\ p[n + m] = Len(w)
    <2>1. 0 \in 0..n /\ m \in 0..m
      BY <1>4
    <2> QED  BY <1>4, <1>6, <1>7, <1>13, <1>14, <2>1
  <1>19. Pieces(w, u, p)
    BY <1>5, <1>12, <1>16, <1>17, <1>18 DEF Pieces
  <1> QED  BY <1>4, <1>5, <1>19 DEF MadeOf, ByteStrings, w, u

(* Where the pieces are depends on nothing but the pieces. *)
Agree(s, t, k) ==
    /\ k \in Nat /\ k <= Len(s) /\ k <= Len(t)
    /\ \A i \in 1..k : s[i] = t[i]

LEMMA SamePlaces ==
    ASSUME NEW w, NEW v, NEW s \in ByteStrings, NEW t \in ByteStrings, NEW q, NEW r,
           Pieces(w, s, q), Pieces(v, t, r), NEW k, Agree(s, t, k)
    PROVE  q[k] = r[k]
  <1> DEFINE T == {i \in 0..k : q[i] # r[i]}
  <1>1. k \in Nat /\ k <= Len(s) /\ k <= Len(t) /\ \A i \in 1..k : s[i] = t[i]
    BY DEF Agree
  <1>2. SUFFICES ASSUME T # {} PROVE FALSE
    BY <1>1
  <1>3. T \subseteq Nat
    BY <1>1
  <1>4. PICK x \in T : \A y \in T : x <= y
    BY <1>2, <1>3, LeastElement
  <1>5. x \in 0..k /\ q[x] # r[x]
    OBVIOUS
  <1>6. x # 0
    BY <1>5 DEF Pieces
  <1>7. x \in 1..k /\ x - 1 \in 0..k /\ ~(x <= x - 1)
    BY <1>1, <1>5, <1>6
  <1>8. q[x - 1] = r[x - 1]
    BY <1>4, <1>7
  <1>9. Len(s) \in Nat /\ Len(t) \in Nat
    BY DEF ByteStrings
  <1>10. x \in 1..Len(s) /\ x \in 1..Len(t) /\ s[x] = t[x]
    BY <1>1, <1>7, <1>9
  <1>11. q[x] = q[x - 1] + Len(s[x]) /\ r[x] = r[x - 1] + Len(t[x])
    BY <1>10 DEF Pieces
  <1> QED  BY <1>5, <1>8, <1>10, <1>11

(* A flattened sequence is made of its elements. *)
LEMMA FlattenMadeOf ==
    ASSUME NEW ss \in ByteStrings
    PROVE  MadeOf(FlattenSeq(ss), ss)
  <1>1. CASE ss = <<>>
    <2>1. FlattenSeq(ss) = <<>>
      BY <1>1 DEF FlattenSeq
    <2> QED  BY <1>1, <2>1, MadeOfNothing
  <1>2. CASE ss # <<>>
    <2> DEFINE n == Len(ss)
    <2>0. ss \in Seq(Seq(Nat)) /\ n \in Nat /\ n # 0 /\ n \in 1..n /\ \A i \in 1..n : ss[i] \in Seq(Nat)
      BY <1>2 DEF ByteStrings
    <2>1. PICK F \in [1..n -> Seq(Nat)] : Concatenates(F, ss) /\ FlattenSeq(ss) = F[n]
      BY <1>2, <2>0, FlattenIsConcatenation
    <2> DEFINE first(m) == SubSeq(ss, 1, m)
               T == {m \in 1..n : ~MadeOf(F[m], first(m))}
    <2>2. T = {}
      <3>1. SUFFICES ASSUME T # {} PROVE FALSE
        OBVIOUS
      <3>2. T \subseteq Nat
        BY <2>0
      <3>3. PICK m \in T : \A y \in T : m <= y
        BY <3>1, <3>2, LeastElement
      <3>4. m \in 1..n /\ ~MadeOf(F[m], first(m)) /\ ss[m] \in Seq(Nat)
        BY <2>0
      <3>5. CASE m = 1
        <4>0. 1 \in 1..n
          BY <2>0
        <4>1. F[1] = ss[1]
          BY <2>1, <4>0 DEF Concatenates
        <4>2. first(1) = <<ss[1]>>
          <5>1. Len(first(1)) = 1 /\ first(1)[1] = ss[1] /\ first(1) \in Seq(Seq(Nat))
            BY <2>0, <4>0
          <5> HIDE DEF first
          <5> QED  BY <5>1
        <4> QED  BY <3>4, <3>5, <4>1, <4>2, MadeOfOne
      <3>6. CASE m # 1
        <4>1. m - 1 \in 1..n /\ ~(m <= m - 1)
          BY <2>0, <3>4, <3>6
        <4>2. MadeOf(F[m - 1], first(m - 1))
          BY <3>3, <4>1
        <4>3. F[m] = F[m - 1] \o ss[m]
          BY <2>1, <3>4, <3>6 DEF Concatenates
        <4>4. first(m) = first(m - 1) \o <<ss[m]>>
          BY <2>0, <3>4, <4>1
        <4>5. MadeOf(ss[m], <<ss[m]>>)
          BY <3>4, MadeOfOne
        <4> HIDE DEF first
        <4>6. MadeOf(F[m - 1] \o ss[m], first(m - 1) \o <<ss[m]>>)
          BY <4>2, <4>5, MadeOfBoth
        <4> QED  BY <3>4, <4>3, <4>4, <4>6
      <3> QED  BY <3>5, <3>6
    <2>3. first(n) = ss
      BY <2>0
    <2> HIDE DEF first
    <2>4. MadeOf(F[n], first(n))
      BY <2>0, <2>2
    <2> QED  BY <2>1, <2>3, <2>4
  <1> QED  BY <1>1, <1>2

===============================================================================
