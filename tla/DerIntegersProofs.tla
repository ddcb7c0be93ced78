------------------------- MODULE DerIntegersProofs --------------------------
(***************************************************************************)
(* Proofs about DerIntegers, for halves and integers of any length and any *)
(* octets.                                                                 *)
(*                                                                         *)
(* The value of some octets is defined by recursion, so that what is said  *)
(* of it needs induction: InductionOnNat gives it for a set of naturals,   *)
(* and each use defines the set of the lengths its claim holds for.        *)
(***************************************************************************)
EXTENDS DerIntegers, SequenceTheorems, WellFoundedInduction, TLAPS

Octet == 0 .. 255

-----------------------------------------------------------------------------
(* Induction, and the value of some octets.                                *)

LEMMA InductionOnNat ==
  ASSUME NEW S, 0 \in S, \A n \in Nat : n \in S => n + 1 \in S
  PROVE  Nat \subseteq S
<1>1. SUFFICES ASSUME Nat \ S # {}
               PROVE  FALSE
  OBVIOUS
<1>2. PICK least \in Nat \ S : \A y \in Nat \ S : <<y, least>> \notin OpToRel(<, Nat)
  BY <1>1, WFMin, NatLessThanWellFounded
<1>3. least # 0 /\ least - 1 \in Nat /\ (least - 1) + 1 = least
  OBVIOUS
<1>4. <<least - 1, least>> \in OpToRel(<, Nat)
  BY <1>3 DEF OpToRel
<1>5. QED
  BY <1>2, <1>3, <1>4

\* The equation of PrefixValues defines a function.
LEMMA PrefixValuesDef ==
  ASSUME NEW x \in Seq(Nat)
  PROVE  PrefixValues(x) =
           [i \in 0 .. Len(x) |-> IF i = 0 THEN 0 ELSE 256 * PrefixValues(x)[i - 1] + x[i]]
<1> DEFINE IsDefined(v, n) == v = [i \in 0 .. n |-> IF i = 0 THEN 0 ELSE 256 * v[i - 1] + x[i]]
           Defined == {n \in Nat : \E v : IsDefined(v, n)}
<1>1. 0 \in Defined
  <2>1. IsDefined([i \in 0 .. 0 |-> 0], 0)
    OBVIOUS
  <2>2. QED
    BY <2>1
<1>2. ASSUME NEW n \in Nat, n \in Defined
      PROVE  n + 1 \in Defined
  <2>1. PICK v : IsDefined(v, n)
    BY <1>2
  <2> DEFINE w == [i \in 0 .. n + 1 |-> IF i = n + 1 THEN 256 * v[n] + x[n + 1] ELSE v[i]]
  <2>2. ASSUME NEW i \in 0 .. n + 1
        PROVE  w[i] = IF i = 0 THEN 0 ELSE 256 * w[i - 1] + x[i]
    <3>1. CASE i = n + 1
      BY <3>1
    <3>2. CASE i # n + 1
      <4>1. i \in 0 .. n /\ (i # 0 => i - 1 \in 0 .. n /\ i - 1 # n + 1)
        BY <3>2
      <4>2. w[i] = v[i] /\ (i # 0 => w[i - 1] = v[i - 1])
        BY <4>1, <3>2
      <4>3. v[i] = IF i = 0 THEN 0 ELSE 256 * v[i - 1] + x[i]
        BY <2>1, <4>1
      <4>4. QED
        BY <4>2, <4>3
    <3>3. QED
      BY <3>1, <3>2
  <2>3. IsDefined(w, n + 1)
    <3> HIDE DEF w
    <3>1. w = [i \in 0 .. n + 1 |-> w[i]]
      BY DEF w
    <3>2. QED
      BY <3>1, <2>2
  <2>4. \E u : IsDefined(u, n + 1)
    <3> HIDE DEF w, IsDefined
    <3>1. QED
      BY <2>3
  <2>5. QED
    BY <2>4
<1>3. Nat \subseteq Defined
  <2> HIDE DEF Defined
  <2>1. QED
    BY <1>1, <1>2, InductionOnNat, Zenon
<1>4. PICK v : IsDefined(v, Len(x))
  BY <1>3, LenProperties
<1>5. PrefixValues(x) = CHOOSE u : IsDefined(u, Len(x))
  BY Zenon DEF PrefixValues
<1>6. IsDefined(PrefixValues(x), Len(x))
  <2> HIDE DEF IsDefined
  <2>1. QED
    BY <1>4, <1>5, Zenon
<1>7. QED
  BY <1>6, Zenon

\* The value of a prefix is a natural number and follows from the one before it.
LEMMA PrefixValueStep ==
  ASSUME NEW x \in Seq(Nat)
  PROVE  /\ PrefixValues(x)[0] = 0
         /\ \A i \in 1 .. Len(x) : PrefixValues(x)[i] = 256 * PrefixValues(x)[i - 1] + x[i]
         /\ \A i \in 0 .. Len(x) : PrefixValues(x)[i] \in Nat
<1> DEFINE v == PrefixValues(x)
           Natural == {i \in Nat : i \in 0 .. Len(x) => v[i] \in Nat}
<1>1. /\ v[0] = 0
      /\ \A i \in 1 .. Len(x) : v[i] = 256 * v[i - 1] + x[i]
  BY PrefixValuesDef
<1>2. 0 \in Natural
  BY <1>1
<1>3. ASSUME NEW n \in Nat, n \in Natural
      PROVE  n + 1 \in Natural
  <2>1. CASE n + 1 \in 0 .. Len(x)
    <3>1. v[n] \in Nat /\ x[n + 1] \in Nat /\ v[n + 1] = 256 * v[n] + x[n + 1]
      <4> HIDE DEF v
      <4>1. n + 1 \in 1 .. Len(x) /\ (n + 1) - 1 = n /\ n \in 0 .. Len(x)
        BY <2>1
      <4>2. QED
        BY <4>1, <1>1, <1>3
    <3>2. QED
      BY <3>1
  <2>2. QED
    BY <2>1
<1>4. Nat \subseteq Natural
  <2> HIDE DEF Natural
  <2>1. QED
    BY <1>2, <1>3, InductionOnNat, Zenon
<1>5. QED
  BY <1>1, <1>4

\* The same of a function and the octets it is about.
ValuesOf(v, x, n) ==
  /\ v[0] = 0
  /\ \A i \in 1 .. n : v[i] = 256 * v[i - 1] + x[i]
  /\ \A i \in 0 .. n : v[i] \in Nat

LEMMA PrefixValuesAre ==
  ASSUME NEW x \in Seq(Nat)
  PROVE  ValuesOf(PrefixValues(x), x, Len(x))
BY PrefixValueStep, Zenon DEF ValuesOf

LEMMA ValueType ==
  ASSUME NEW x \in Seq(Nat)
  PROVE  Value(x) \in Nat
BY PrefixValueStep DEF Value

LEMMA ZerosType ==
  ASSUME NEW n \in Nat
  PROVE  /\ Zeros(n) \in Seq({0})
         /\ Zeros(n) \in Seq(Nat)
         /\ Len(Zeros(n)) = n
         /\ \A i \in 1 .. n : Zeros(n)[i] = 0
BY DEF Zeros

\* Zeros in front do not change an integer.
LEMMA ZerosInFront ==
  ASSUME NEW x \in Seq(Nat), NEW n \in Nat
  PROVE  /\ Zeros(n) \o x \in Seq(Nat)
         /\ Value(Zeros(n) \o x) = Value(x)
<1> DEFINE y == Zeros(n) \o x
<1>1. /\ y \in Seq(Nat)
      /\ Len(y) = n + Len(x)
      /\ \A i \in 1 .. n : y[i] = 0
      /\ \A i \in 1 .. Len(x) : y[n + i] = x[i]
  <2>1. /\ Zeros(n) \in Seq(Nat) /\ Len(Zeros(n)) = n /\ Len(x) \in Nat
        /\ \A i \in 1 .. n : Zeros(n)[i] = 0
    BY ZerosType
  <2>2. /\ y \in Seq(Nat)
        /\ Len(y) = n + Len(x)
        /\ \A i \in 1 .. n + Len(x) : y[i] = IF i <= n THEN Zeros(n)[i] ELSE x[i - n]
    <3> DEFINE z == Zeros(n)
    <3> HIDE DEF z
    <3>1. z \in Seq(Nat) /\ Len(z) = n
      BY <2>1 DEF z
    <3>2. /\ z \o x \in Seq(Nat)
          /\ Len(z \o x) = Len(z) + Len(x)
          /\ \A i \in 1 .. Len(z) + Len(x) :
               (z \o x)[i] = IF i <= Len(z) THEN z[i] ELSE x[i - Len(z)]
      BY <3>1, ConcatProperties
    <3>3. QED
      BY <3>1, <3>2 DEF z
  <2>3. ASSUME NEW i \in 1 .. Len(x)
        PROVE  y[n + i] = x[i]
    <3>1. n + i \in 1 .. n + Len(x) /\ ~(n + i <= n) /\ (n + i) - n = i
      BY <2>1
    <3>2. QED
      BY <3>1, <2>2
  <2>4. QED
    BY <2>1, <2>2, <2>3
<1> DEFINE v == PrefixValues(y)
           u == PrefixValues(x)
           InZeros == {i \in Nat : i <= n => v[i] = 0}
           Behind == {i \in Nat : i <= Len(x) => v[n + i] = u[i]}
<1> HIDE DEF y, v, u
<1>2. /\ v[0] = 0
      /\ \A i \in 1 .. n + Len(x) : v[i] = 256 * v[i - 1] + y[i]
      /\ u[0] = 0
      /\ \A i \in 1 .. Len(x) : u[i] = 256 * u[i - 1] + x[i]
  <2>1. /\ v[0] = 0
        /\ \A i \in 1 .. Len(y) : v[i] = 256 * v[i - 1] + y[i]
    <3>1. ValuesOf(v, y, Len(y))
      BY <1>1, PrefixValuesAre, Zenon DEF v
    <3>2. QED
      BY <3>1, Zenon DEF ValuesOf
  <2>2. /\ u[0] = 0
        /\ \A i \in 1 .. Len(x) : u[i] = 256 * u[i - 1] + x[i]
    BY PrefixValuesAre, Zenon DEF u, ValuesOf
  <2>3. QED
    BY <1>1, <2>1, <2>2
<1>3. n \in InZeros
  <2>1. 0 \in InZeros
    BY <1>2
  <2>2. ASSUME NEW i \in Nat, i \in InZeros
        PROVE  i + 1 \in InZeros
    <3>1. CASE i + 1 <= n
      <4>1. i + 1 \in 1 .. n + Len(x) /\ i + 1 \in 1 .. n /\ (i + 1) - 1 = i /\ v[i] = 0
        BY <3>1, <2>2
      <4>2. QED
        BY <4>1, <1>1, <1>2
    <3>2. QED
      BY <3>1
  <2>3. QED
    <3> HIDE DEF InZeros
    <3>1. QED
      BY <2>1, <2>2, InductionOnNat, Zenon
<1>4. Len(x) \in Behind
  <2>1. 0 \in Behind
    BY <1>2, <1>3
  <2>2. ASSUME NEW i \in Nat, i \in Behind
        PROVE  i + 1 \in Behind
    <3>1. CASE i + 1 <= Len(x)
      <4>1. /\ n + (i + 1) \in 1 .. n + Len(x)
            /\ i + 1 \in 1 .. Len(x)
            /\ (i + 1) - 1 = i
            /\ (n + (i + 1)) - 1 = n + i
            /\ v[n + i] = u[i]
        BY <3>1, <2>2
      <4>2. v[n + (i + 1)] = 256 * v[n + i] + y[n + (i + 1)]
        <5> DEFINE j == n + (i + 1)
        <5>1. v[j] = 256 * v[j - 1] + y[j]
          <6> HIDE DEF j
          <6>1. QED
            BY <4>1, <1>2 DEF j
        <5>2. QED
          BY <4>1, <5>1
      <4>4. y[n + (i + 1)] = x[i + 1]
        BY <4>1, <1>1
      <4>3. u[i + 1] = 256 * u[i] + x[i + 1]
        BY <4>1, <1>2
      <4>5. QED
        BY <4>1, <4>2, <4>3, <4>4
    <3>2. QED
      BY <3>1
  <2>3. QED
    <3> HIDE DEF Behind
    <3>1. Len(x) \in Nat
      BY LenProperties
    <3>2. QED
      BY <2>1, <2>2, <3>1, InductionOnNat, Zenon
<1>5. QED
  BY <1>1, <1>4 DEF Value, y, v, u

LEMMA ZeroValueOfTail ==
  ASSUME NEW x \in Seq(Nat), x # <<>>, x[1] = 0
  PROVE  /\ Tail(x) \in Seq(Nat)
         /\ Value(Tail(x)) = Value(x)
<1>1. /\ Tail(x) \in Seq(Nat)
      /\ Len(x) \in Nat \ {0}
      /\ Len(Tail(x)) = Len(x) - 1
      /\ \A i \in 1 .. Len(Tail(x)) : Tail(x)[i] = x[i + 1]
  BY HeadTailProperties
<1> DEFINE t == Tail(x)
           z == Zeros(1)
<1>2. z \in Seq(Nat) /\ Len(z) = 1 /\ z[1] = 0
  <2>1. 1 \in Nat /\ 1 \in 1 .. 1
    OBVIOUS
  <2>2. QED
    BY <2>1, ZerosType
<1> HIDE DEF t, z
<1>3. /\ z \o t \in Seq(Nat)
      /\ Len(z \o t) = Len(z) + Len(t)
      /\ \A i \in 1 .. Len(z) + Len(t) :
           (z \o t)[i] = IF i <= Len(z) THEN z[i] ELSE t[i - Len(z)]
  BY <1>1, <1>2, ConcatProperties DEF t
<1>4. Len(z \o t) = Len(x)
  BY <1>1, <1>2, <1>3 DEF t
<1>5. ASSUME NEW i \in 1 .. Len(x)
      PROVE  (z \o t)[i] = x[i]
  <2>1. CASE i = 1
    BY <2>1, <1>1, <1>2, <1>3 DEF t
  <2>2. CASE i # 1
    <3>1. i - 1 \in 1 .. Len(t) /\ i \in 1 .. Len(z) + Len(t) /\ ~(i <= 1) /\ (i - 1) + 1 = i
      BY <2>2, <1>1, <1>2 DEF t
    <3>2. t[i - 1] = x[(i - 1) + 1]
      BY <3>1, <1>1 DEF t
    <3>3. QED
      BY <3>1, <3>2, <1>2, <1>3
  <2>3. QED
    BY <2>1, <2>2
<1>6. z \o t = x
  BY <1>3, <1>4, <1>5, SeqEqual
<1>7. QED
  BY <1>1, <1>6, ZerosInFront DEF z, t

LEMMA OctetsType ==
  ASSUME NEW x \in Seq(Octet)
  PROVE  /\ x \in Seq(Nat)
         /\ Len(x) \in Nat
         /\ \A i \in 1 .. Len(x) : x[i] \in 0 .. 255
<1>1. Octet \subseteq Nat
  BY DEF Octet
<1>2. Seq(Octet) \subseteq Seq(Nat)
  BY <1>1, SeqMonotonic
<1>3. /\ Len(x) \in Nat
      /\ \A i \in 1 .. Len(x) : x[i] \in Octet
  BY ElementOfSeq, LenProperties
<1>4. QED
  BY <1>2, <1>3 DEF Octet

\* Of two integers of as many octets, the first octet decides if it differs.
LEMMA FirstOctetDecides ==
  ASSUME NEW x \in Seq(Octet), NEW y \in Seq(Octet),
         Len(x) = Len(y), Len(x) # 0, x[1] < y[1]
  PROVE  Value(x) < Value(y)
<1> DEFINE u == PrefixValues(x)
           v == PrefixValues(y)
           n == Len(x)
           Less == {i \in Nat : i + 1 <= n => u[i + 1] < v[i + 1]}
<1>1. /\ x \in Seq(Nat) /\ y \in Seq(Nat) /\ n \in Nat
      /\ \A i \in 1 .. n : x[i] \in 0 .. 255 /\ y[i] \in 0 .. 255
  BY OctetsType
<1> HIDE DEF u, v, n
<1>2. /\ u[0] = 0 /\ v[0] = 0
      /\ \A i \in 1 .. n : u[i] = 256 * u[i - 1] + x[i]
      /\ \A i \in 1 .. n : v[i] = 256 * v[i - 1] + y[i]
      /\ \A i \in 0 .. n : u[i] \in Nat /\ v[i] \in Nat
  <2>1. ValuesOf(u, x, n)
    BY <1>1, PrefixValuesAre, Zenon DEF u, n
  <2>2. ValuesOf(v, y, n)
    <3>1. ValuesOf(v, y, Len(y))
      BY <1>1, PrefixValuesAre, Zenon DEF v
    <3>2. QED
      BY <3>1, Zenon DEF n
  <2>3. QED
    BY <2>1, <2>2, Zenon DEF ValuesOf
<1>3. 0 \in Less
  <2>1. 1 \in 1 .. n
    BY <1>1 DEF n
  <2>2. u[1] = 256 * u[0] + x[1] /\ v[1] = 256 * v[0] + y[1]
    BY <2>1, <1>2
  <2>3. x[1] \in 0 .. 255 /\ y[1] \in 0 .. 255
    BY <2>1, <1>1
  <2>4. u[1] = x[1] /\ v[1] = y[1]
    <3>1. u[1] = 256 * 0 + x[1] /\ v[1] = 256 * 0 + y[1]
      BY <2>2, <1>2
    <3>2. ASSUME NEW c \in 0 .. 255
          PROVE  256 * 0 + c = c
      OBVIOUS
    <3>3. QED
      BY <3>1, <3>2, <2>3
  <2>5. u[1] < v[1]
    BY <2>4
  <2>6. 0 + 1 = 1
    OBVIOUS
  <2>7. QED
    BY <2>5, <2>6
<1>4. ASSUME NEW i \in Nat, i \in Less
      PROVE  i + 1 \in Less
  <2>1. CASE (i + 1) + 1 <= n
    <3> DEFINE j == (i + 1) + 1
    <3>1. j \in 1 .. n /\ i + 1 \in 0 .. n /\ j - 1 = i + 1 /\ u[i + 1] < v[i + 1]
      BY <2>1, <1>4, <1>1
    <3> HIDE DEF j
    <3>2. u[j] = 256 * u[i + 1] + x[j] /\ v[j] = 256 * v[i + 1] + y[j]
      BY <3>1, <1>2
    <3>3. u[i + 1] \in Nat /\ v[i + 1] \in Nat /\ x[j] \in 0 .. 255 /\ y[j] \in 0 .. 255
      BY <3>1, <1>1, <1>2
    <3>4. 256 * u[i + 1] + x[j] < 256 * v[i + 1] + y[j]
      <4> DEFINE a == u[i + 1]
                 b == v[i + 1]
                 c == x[j]
                 d == y[j]
      <4>1. a \in Nat /\ b \in Nat /\ c \in 0 .. 255 /\ d \in 0 .. 255 /\ a < b
        BY <3>1, <3>3
      <4> HIDE DEF a, b, c, d
      <4>2. 256 * a + c < 256 * b + d
        BY <4>1
      <4>3. QED
        BY <4>2 DEF a, b, c, d
    <3>5. QED
      BY <3>2, <3>4 DEF j
  <2>2. QED
    BY <2>1
<1>5. n - 1 \in Less
  <2> HIDE DEF Less
  <2>1. n - 1 \in Nat
    BY <1>1 DEF n
  <2>2. QED
    BY <1>3, <1>4, <2>1, InductionOnNat
<1>6. QED
  <2>1. (n - 1) + 1 = n
    BY <1>1
  <2>2. QED
    BY <1>5, <2>1 DEF Value, u, v, n

\* Smaller octets give a smaller integer.
LEMMA OctetsDecide ==
  ASSUME NEW x \in Seq(Octet), NEW y \in Seq(Octet),
         Len(x) = Len(y), \A i \in 1 .. Len(x) : x[i] <= y[i]
  PROVE  Value(x) <= Value(y)
<1> DEFINE u == PrefixValues(x)
           v == PrefixValues(y)
           n == Len(x)
           AtMost == {i \in Nat : i <= n => u[i] <= v[i]}
<1>1. /\ x \in Seq(Nat) /\ y \in Seq(Nat) /\ n \in Nat
      /\ \A i \in 1 .. n : x[i] \in 0 .. 255 /\ y[i] \in 0 .. 255
  BY OctetsType
<1> HIDE DEF u, v, n
<1>2. /\ u[0] = 0 /\ v[0] = 0
      /\ \A i \in 1 .. n : u[i] = 256 * u[i - 1] + x[i]
      /\ \A i \in 1 .. n : v[i] = 256 * v[i - 1] + y[i]
      /\ \A i \in 0 .. n : u[i] \in Nat /\ v[i] \in Nat
  <2>1. ValuesOf(u, x, n)
    BY <1>1, PrefixValuesAre, Zenon DEF u, n
  <2>2. ValuesOf(v, y, n)
    <3>1. ValuesOf(v, y, Len(y))
      BY <1>1, PrefixValuesAre, Zenon DEF v
    <3>2. QED
      BY <3>1, Zenon DEF n
  <2>3. QED
    BY <2>1, <2>2, Zenon DEF ValuesOf
<1>3. 0 \in AtMost
  BY <1>2
<1>4. ASSUME NEW i \in Nat, i \in AtMost
      PROVE  i + 1 \in AtMost
  <2>1. CASE i + 1 <= n
    <3> DEFINE j == i + 1
    <3>1. j \in 1 .. n /\ i \in 0 .. n /\ j - 1 = i /\ u[i] <= v[i]
      BY <2>1, <1>4, <1>1
    <3> HIDE DEF j
    <3>2. u[j] = 256 * u[i] + x[j] /\ v[j] = 256 * v[i] + y[j]
      BY <3>1, <1>2
    <3>3. u[i] \in Nat /\ v[i] \in Nat /\ x[j] \in 0 .. 255 /\ y[j] \in 0 .. 255 /\ x[j] <= y[j]
      BY <3>1, <1>1, <1>2 DEF n
    <3>4. 256 * u[i] + x[j] <= 256 * v[i] + y[j]
      <4> DEFINE a == u[i]
                 b == v[i]
                 c == x[j]
                 d == y[j]
      <4>1. a \in Nat /\ b \in Nat /\ c \in 0 .. 255 /\ d \in 0 .. 255 /\ a <= b /\ c <= d
        BY <3>1, <3>3
      <4> HIDE DEF a, b, c, d
      <4>2. 256 * a + c <= 256 * b + d
        BY <4>1
      <4>3. QED
        BY <4>2 DEF a, b, c, d
    <3>5. QED
      BY <3>2, <3>4 DEF j
  <2>2. QED
    BY <2>1
<1>5. n \in AtMost
  <2> HIDE DEF AtMost
  <2>1. QED
    BY <1>1, <1>3, <1>4, InductionOnNat
<1>6. QED
  BY <1>1, <1>5 DEF Value, u, v, n

-----------------------------------------------------------------------------
(* How many octets an integer needs.                                       *)

LEMMA ZerosOf ==
  ASSUME NEW x \in Seq(Octet), NEW n \in Nat
  PROVE  /\ Zeros(n) \o x \in Seq(Octet)
         /\ Len(Zeros(n) \o x) = n + Len(x)
         /\ \A i \in 1 .. n : (Zeros(n) \o x)[i] = 0
         /\ n = 0 => Zeros(n) \o x = x
         /\ Value(Zeros(n) \o x) = Value(x)
<1> DEFINE z == Zeros(n)
<1>1. z \in Seq(Octet) /\ Len(z) = n /\ \A i \in 1 .. n : z[i] = 0
  <2>1. \A i \in 1 .. n : 0 \in Octet
    BY DEF Octet
  <2>2. QED
    BY <2>1, ZerosType DEF Zeros
<1>2. x \in Seq(Nat) /\ Len(x) \in Nat
  BY OctetsType
<1>3. Value(z \o x) = Value(x)
  BY <1>2, ZerosInFront
<1> HIDE DEF z
<1>4. /\ z \o x \in Seq(Octet)
      /\ Len(z \o x) = Len(z) + Len(x)
      /\ \A i \in 1 .. Len(z) + Len(x) :
           (z \o x)[i] = IF i <= Len(z) THEN z[i] ELSE x[i - Len(z)]
  BY <1>1, ConcatProperties
<1>5. ASSUME NEW i \in 1 .. n
      PROVE  (z \o x)[i] = 0
  <2>1. i \in 1 .. Len(z) + Len(x) /\ i <= Len(z)
    BY <1>1, <1>2
  <2>2. QED
    BY <2>1, <1>1, <1>4
<1>6. ASSUME n = 0
      PROVE  z \o x = x
  <2>1. z = <<>>
    BY <1>6, <1>1, EmptySeq
  <2>2. QED
    BY <2>1, ConcatEmptySeq
<1>7. QED
  BY <1>1, <1>3, <1>4, <1>5, <1>6 DEF z

\* The octets of TooLarge(n).
OneAndZeros(n) == <<1>> \o Zeros(n)

LEMMA OneAndZerosType ==
  ASSUME NEW n \in Nat
  PROVE  /\ OneAndZeros(n) \in Seq(Octet)
         /\ Len(OneAndZeros(n)) = n + 1
         /\ OneAndZeros(n)[1] = 1
         /\ \A i \in 2 .. n + 1 : OneAndZeros(n)[i] = 0
<1> DEFINE one == <<1>>
           z == Zeros(n)
<1>1. one \in Seq(Octet) /\ Len(one) = 1 /\ one[1] = 1
  BY DEF Octet
<1>2. z \in Seq(Octet) /\ Len(z) = n /\ \A i \in 1 .. n : z[i] = 0
  <2>1. \A i \in 1 .. n : 0 \in Octet
    BY DEF Octet
  <2>2. QED
    BY <2>1, ZerosType DEF Zeros
<1> HIDE DEF one, z
<1>3. /\ one \o z \in Seq(Octet)
      /\ Len(one \o z) = Len(one) + Len(z)
      /\ \A i \in 1 .. Len(one) + Len(z) :
           (one \o z)[i] = IF i <= Len(one) THEN one[i] ELSE z[i - Len(one)]
  BY <1>1, <1>2, ConcatProperties
<1>4. (one \o z)[1] = 1
  <2>1. 1 \in 1 .. Len(one) + Len(z) /\ 1 <= Len(one)
    BY <1>1, <1>2
  <2>2. QED
    BY <2>1, <1>1, <1>3
<1>5. ASSUME NEW i \in 2 .. n + 1
      PROVE  (one \o z)[i] = 0
  <2>1. i \in 1 .. Len(one) + Len(z) /\ ~(i <= Len(one)) /\ i - Len(one) \in 1 .. n
    BY <1>1, <1>2
  <2>2. QED
    BY <2>1, <1>2, <1>3
<1>6. Len(one \o z) = n + 1
  BY <1>1, <1>2, <1>3
<1>7. QED
  BY <1>3, <1>4, <1>5, <1>6 DEF OneAndZeros, one, z

LEMMA Fits ==
  ASSUME NEW x \in Seq(Octet), NEW n \in Nat, Len(x) <= n
  PROVE  Value(x) < TooLarge(n)
<1> DEFINE k == (n + 1) - Len(x)
           y == Zeros(k) \o x
<1>1. k \in Nat /\ 1 \in 1 .. k /\ k + Len(x) = n + 1
  BY OctetsType
<1> HIDE DEF k
<1>2. /\ y \in Seq(Octet)
      /\ Len(y) = n + 1
      /\ y[1] = 0
      /\ Value(y) = Value(x)
  <2>1. /\ y \in Seq(Octet)
        /\ Len(y) = k + Len(x)
        /\ \A i \in 1 .. k : y[i] = 0
        /\ Value(y) = Value(x)
    BY <1>1, ZerosOf, Zenon
  <2>2. QED
    BY <1>1, <2>1, Zenon
<1> HIDE DEF y
<1>3. /\ OneAndZeros(n) \in Seq(Octet)
      /\ Len(OneAndZeros(n)) = n + 1
      /\ OneAndZeros(n)[1] = 1
  BY OneAndZerosType
<1>4. n + 1 # 0 /\ 0 < 1
  OBVIOUS
<1>5. Value(y) < Value(OneAndZeros(n))
  BY <1>2, <1>3, <1>4, FirstOctetDecides
<1>6. QED
  BY <1>2, <1>5 DEF TooLarge, OneAndZeros

LEMMA DoesNotFit ==
  ASSUME NEW x \in Seq(Octet), NEW n \in Nat, n < Len(x), x[1] # 0
  PROVE  TooLarge(n) <= Value(x)
<1> DEFINE b == OneAndZeros(n)
           k == Len(x) - (n + 1)
           y == Zeros(k) \o b
<1>1. /\ b \in Seq(Octet)
      /\ Len(b) = n + 1
      /\ b[1] = 1
      /\ \A i \in 2 .. n + 1 : b[i] = 0
  BY OneAndZerosType
<1>2. /\ k \in Nat /\ k + (n + 1) = Len(x)
      /\ 1 \in 1 .. Len(x) /\ Len(x) \in Nat
      /\ \A i \in 1 .. Len(x) : x[i] \in 0 .. 255
      /\ x \in Seq(Nat)
  BY OctetsType
<1>3. TooLarge(n) = Value(b)
  BY DEF TooLarge, OneAndZeros
<1> HIDE DEF b, k
<1>4. /\ y \in Seq(Octet)
      /\ Len(y) = Len(x)
      /\ \A i \in 1 .. k : y[i] = 0
      /\ k = 0 => y = b
      /\ Value(y) = Value(b)
  <2>1. /\ y \in Seq(Octet)
        /\ Len(y) = k + Len(b)
        /\ \A i \in 1 .. k : y[i] = 0
        /\ k = 0 => y = b
        /\ Value(y) = Value(b)
    BY <1>1, <1>2, ZerosOf
  <2>2. QED
    BY <2>1, <1>1, <1>2
<1> HIDE DEF y
<1>5. x[1] >= 1
  BY <1>2
<1>6. CASE k = 0
  <2>1. Len(x) = n + 1 /\ y = b
    BY <1>2, <1>4, <1>6
  <2>2. ASSUME NEW i \in 1 .. Len(y)
        PROVE  y[i] <= x[i]
    <3>1. i \in 1 .. Len(x) /\ (i = 1 \/ i \in 2 .. n + 1)
      BY <2>1, <1>4, <1>2
    <3>2. 0 <= x[i]
      <4>1. x[i] \in 0 .. 255
        BY <3>1, <1>2
      <4>2. \A c \in 0 .. 255 : 0 <= c
        OBVIOUS
      <4>3. QED
        BY <4>1, <4>2
    <3>3. CASE i = 1
      BY <3>3, <2>1, <1>1, <1>5
    <3>4. CASE i \in 2 .. n + 1
      <4>1. y[i] = 0
        BY <3>4, <2>1, <1>1
      <4>2. QED
        BY <4>1, <3>2
    <3>5. QED
      BY <3>1, <3>3, <3>4
  <2>3. Value(y) <= Value(x)
    BY <2>2, <1>4, OctetsDecide
  <2>4. QED
    BY <2>3, <1>3, <1>4
<1>7. CASE k # 0
  <2>1. 1 \in 1 .. k
    BY <1>7, <1>2
  <2>2. y[1] = 0 /\ y[1] < x[1]
    BY <2>1, <1>4, <1>5, <1>2
  <2>3. Len(y) # 0
    BY <1>2, <1>4
  <2>4. Value(y) < Value(x)
    BY <2>2, <2>3, <1>4, FirstOctetDecides
  <2>5. Value(y) \in Nat /\ Value(x) \in Nat
    BY <1>2, <1>4, OctetsType, ValueType
  <2>6. QED
    BY <2>4, <2>5, <1>3, <1>4
<1>8. QED
  BY <1>6, <1>7

-----------------------------------------------------------------------------
(* The steps of parse_x962().                                              *)

LEMMA StrippedKeepsValue ==
  ASSUME NEW x \in Seq(Octet), Unsigned(x)
  PROVE  /\ Stripped(x) \in Seq(Octet)
         /\ Value(Stripped(x)) = Value(x)
<1>1. x \in Seq(Nat) /\ x # <<>>
  BY OctetsType DEF Unsigned
<1>2. CASE Len(x) >= 2 /\ x[1] = 0 /\ x[2] >= 128
  <2>1. Stripped(x) = Tail(x)
    BY <1>2 DEF Stripped
  <2>2. Tail(x) \in Seq(Octet)
    BY <1>1, HeadTailProperties
  <2>3. QED
    BY <2>1, <2>2, <1>1, <1>2, ZeroValueOfTail
<1>3. CASE ~(Len(x) >= 2 /\ x[1] = 0 /\ x[2] >= 128)
  BY <1>3 DEF Stripped
<1>4. QED
  BY <1>2, <1>3

\* Without superfluous zeros, an integer is too large if it has too many octets,
\* and only then.
LEMMA StrippedFits ==
  ASSUME NEW x \in Seq(Octet), Unsigned(x), ~SuperfluousZero(x)
  PROVE  Len(Stripped(x)) <= Half <=> Value(x) < TooLarge(Half)
<1> DEFINE t == Stripped(x)
<1>1. /\ t \in Seq(Octet) /\ Value(t) = Value(x) /\ Len(t) \in Nat
      /\ t \in Seq(Nat) /\ x \in Seq(Nat) /\ Half \in Nat
  BY StrippedKeepsValue, OctetsType, HalfAssumption
<1>2. /\ Len(x) \in Nat \ {0} /\ 1 \in 1 .. Len(x)
      /\ \A i \in 1 .. Len(x) : x[i] \in 0 .. 255
  <2>1. x # <<>> /\ Len(x) \in Nat
    BY OctetsType DEF Unsigned
  <2>2. Len(x) # 0
    BY <2>1, EmptySeq
  <2>3. QED
    BY <2>1, <2>2, OctetsType
<1>3. Len(t) = 1 \/ t[1] # 0
  <2>1. CASE Len(x) >= 2 /\ x[1] = 0 /\ x[2] >= 128
    <3>1. t = Tail(x) /\ Len(Tail(x)) = Len(x) - 1 /\ 1 \in 1 .. Len(Tail(x))
      BY <2>1, <1>2, HeadTailProperties DEF Stripped
    <3>2. Tail(x)[1] = x[2]
      BY <1>2, <3>1, HeadTailProperties
    <3>3. QED
      BY <3>1, <3>2, <2>1
  <2>2. CASE ~(Len(x) >= 2 /\ x[1] = 0 /\ x[2] >= 128)
    <3>1. t = x
      BY <2>2 DEF Stripped
    <3>2. CASE Len(x) >= 2
      <4>1. 2 \in 1 .. Len(x)
        BY <3>2, <1>2
      <4>2. x[2] \in 0 .. 255
        BY <4>1, <1>2
      <4>3. \A c \in 0 .. 255 : c >= 128 \/ c < 128
        OBVIOUS
      <4>4. QED
        BY <3>1, <3>2, <4>2, <4>3, <2>2 DEF SuperfluousZero
    <3>3. CASE ~(Len(x) >= 2)
      <4>1. \A m \in Nat \ {0} : m >= 2 \/ m = 1
        OBVIOUS
      <4>2. QED
        BY <3>1, <3>3, <4>1, <1>2
    <3>4. QED
      BY <3>2, <3>3
  <2>3. QED
    BY <2>1, <2>2
<1> HIDE DEF t
<1>4. ASSUME Len(t) <= Half
      PROVE  Value(t) < TooLarge(Half)
  BY <1>4, <1>1, Fits
<1>5. ASSUME ~(Len(t) <= Half)
      PROVE  ~(Value(t) < TooLarge(Half))
  <2>1. Half < Len(t) /\ t[1] # 0
    <3>1. \A m \in Nat, h \in Nat \ {0} : ~(m <= h) => h < m /\ m # 1
      OBVIOUS
    <3>2. QED
      BY <3>1, <1>5, <1>1, <1>3, HalfAssumption
  <2>2. TooLarge(Half) <= Value(t)
    BY <2>1, <1>1, DoesNotFit
  <2>3. OneAndZeros(Half) \in Seq(Nat)
    BY <1>1, OneAndZerosType, OctetsType
  <2>4. TooLarge(Half) \in Nat /\ Value(t) \in Nat
    BY <1>1, <2>3, ValueType DEF TooLarge, OneAndZeros
  <2>5. QED
    BY <2>2, <2>4
<1>6. QED
  BY <1>1, <1>4, <1>5 DEF t

LEMMA PaddedKeepsValue ==
  ASSUME NEW x \in Seq(Octet), Len(x) <= Half
  PROVE  /\ Padded(x) \in Seq(Octet)
         /\ Len(Padded(x)) = Half
         /\ Value(Padded(x)) = Value(x)
<1>1. Half - Len(x) \in Nat /\ (Half - Len(x)) + Len(x) = Half
  BY OctetsType, HalfAssumption
<1>2. QED
  BY <1>1, ZerosOf DEF Padded

\* The two parts of a concatenation.
LEMMA PartsOfConcat ==
  ASSUME NEW S, NEW s \in Seq(S), NEW t \in Seq(S)
  PROVE  /\ s \o t \in Seq(S)
         /\ Len(s \o t) = Len(s) + Len(t)
         /\ SubSeq(s \o t, 1, Len(s)) = s
         /\ SubSeq(s \o t, Len(s) + 1, Len(s) + Len(t)) = t
<1>1. /\ s \o t \in Seq(S)
      /\ Len(s \o t) = Len(s) + Len(t)
      /\ \A i \in 1 .. Len(s) + Len(t) :
           (s \o t)[i] = IF i <= Len(s) THEN s[i] ELSE t[i - Len(s)]
      /\ Len(s) \in Nat /\ Len(t) \in Nat
  BY ConcatProperties, LenProperties
<1> DEFINE c == s \o t
           m == Len(s)
           n == Len(t)
           front == SubSeq(c, 1, m)
           back == SubSeq(c, m + 1, m + n)
<1>2. \A i \in 1 .. m + n : c[i] \in S
  BY <1>1, ElementOfSeq
<1> HIDE DEF c
<1>3. front = s
  <2>1. /\ front \in Seq(S)
        /\ Len(front) = m
        /\ \A i \in 1 .. m : front[i] = c[i]
    BY <1>1, <1>2, SubSeqProperties
  <2>2. QED
    BY <2>1, <1>1, SeqEqual DEF c
<1>4. back = t
  <2>1. /\ back \in Seq(S)
        /\ Len(back) = n
        /\ \A i \in 1 .. n : back[i] = c[m + i]
    BY <1>1, <1>2, SubSeqProperties
  <2>2. QED
    BY <2>1, <1>1, SeqEqual DEF c
<1>5. QED
  BY <1>1, <1>3, <1>4 DEF c

-----------------------------------------------------------------------------
(* The results.                                                            *)

\* What the parsers were given and what they returned.
DInv ==
  /\ first \in Seq(Octet)
  /\ second \in Seq(Octet)
  /\ call = "parse_x962" => result = ParseX962(first, second)
  /\ call = "parse_rsa" => result = RsaParse(first, second)

LEMMA DInvHolds == Spec => []DInv
<1>1. ASSUME Init
      PROVE  DInv
  <2>1. BoundedSeq(Octets, MaxLen) \subseteq Seq(Octets)
    <3>1. SUFFICES ASSUME NEW m \in 0 .. MaxLen, NEW x \in [1 .. m -> Octets]
                   PROVE  x \in Seq(Octets)
      BY DEF BoundedSeq, SeqOf
    <3>2. m \in Nat
      BY MaxLenAssumption
    <3>3. QED
      BY <3>2, SeqDef
  <2>2. Seq(Octets) \subseteq Seq(Octet)
    <3>1. Octets \subseteq Octet
      BY OctetsAssumption DEF Octet
    <3>2. QED
      BY <3>1, SeqMonotonic
  <2>3. QED
    BY <1>1, <2>1, <2>2 DEF Init, DInv
<1>2. ASSUME DInv, [Next]_vars
      PROVE  DInv'
  <2>1. CASE UNCHANGED vars
    BY <1>2, <2>1 DEF DInv, vars
  <2>2. CASE Parse("parse_x962", ParseX962(first, second))
    <3>1. UNCHANGED <<first, second>> /\ call' = "parse_x962" /\ result' = ParseX962(first, second)
      BY <2>2 DEF Parse
    <3>2. QED
      BY <1>2, <3>1 DEF DInv
  <2>3. CASE Parse("parse_rsa", RsaParse(first, second))
    <3>1. UNCHANGED <<first, second>> /\ call' = "parse_rsa" /\ result' = RsaParse(first, second)
      BY <2>3 DEF Parse
    <3>2. QED
      BY <1>2, <3>1 DEF DInv
  <2>4. QED
    BY <1>2, <2>1, <2>2, <2>3 DEF Next
<1>3. QED
  BY <1>1, <1>2, PTL DEF Spec

\* The octets that parse_x962() returns when it refuses neither integer.
LEMMA TakenHalves ==
  ASSUME NEW r \in Seq(Octet), NEW s \in Seq(Octet),
         \A x \in {r, s} : Unsigned(x) /\ Len(Stripped(x)) <= Half
  PROVE  LET octets == Padded(Stripped(r)) \o Padded(Stripped(s))
         IN /\ octets \in Seq(Octet)
            /\ Len(octets) = 2 * Half
            /\ Value(SubSeq(octets, 1, Half)) = Value(r)
            /\ Value(SubSeq(octets, Half + 1, 2 * Half)) = Value(s)
<1> DEFINE p == Padded(Stripped(r))
           q == Padded(Stripped(s))
<1>1. /\ p \in Seq(Octet) /\ Len(p) = Half /\ Value(p) = Value(r)
      /\ q \in Seq(Octet) /\ Len(q) = Half /\ Value(q) = Value(s)
  BY StrippedKeepsValue, PaddedKeepsValue
<1> HIDE DEF p, q
<1>2. /\ p \o q \in Seq(Octet)
      /\ Len(p \o q) = Len(p) + Len(q)
      /\ SubSeq(p \o q, 1, Len(p)) = p
      /\ SubSeq(p \o q, Len(p) + 1, Len(p) + Len(q)) = q
  <2>1. p \in Seq(Octet) /\ q \in Seq(Octet)
    BY <1>1
  <2>2. QED
    BY <2>1, PartsOfConcat
<1>3. Half + Half = 2 * Half
  BY HalfAssumption
<1>4. QED
  BY <1>1, <1>2, <1>3 DEF p, q

\* parse_x962() returns the two integers of a signature, each in its half.
THEOREM HalvesAreTheIntegersHolds == Spec => []HalvesAreTheIntegers
<1>1. ASSUME DInv
      PROVE  HalvesAreTheIntegers
  <2>1. SUFFICES ASSUME call = "parse_x962", result # Err
                 PROVE  /\ Len(result) = 2 * Half
                        /\ Value(SubSeq(result, 1, Half)) = Value(first)
                        /\ Value(SubSeq(result, Half + 1, 2 * Half)) = Value(second)
    BY DEF HalvesAreTheIntegers
  <2>2. /\ \A x \in {first, second} : Unsigned(x) /\ Len(Stripped(x)) <= Half
        /\ result = Padded(Stripped(first)) \o Padded(Stripped(second))
    BY <1>1, <2>1 DEF DInv, ParseX962
  <2>3. QED
    BY <1>1, <2>2, TakenHalves DEF DInv
<1>2. QED
  BY <1>1, DInvHolds, PTL

LEMMA ProperIsTaken ==
  ASSUME NEW x \in Seq(Octet)
  PROVE  Proper(x) <=> Unsigned(x) /\ ~SuperfluousZero(x) /\ Len(Stripped(x)) <= Half
<1>1. CASE Unsigned(x)
  <2>1. Len(x) \in Nat /\ \A i \in 1 .. Len(x) : x[i] \in 0 .. 255
    BY OctetsType
  <2>2. ~SuperfluousZero(x) <=> (Len(x) > 1 /\ x[1] = 0 => x[2] >= 128)
    <3>1. \A m \in Nat : m >= 2 <=> m > 1
      OBVIOUS
    <3>2. CASE Len(x) >= 2
      <4>1. 2 \in 1 .. Len(x)
        BY <3>2, <2>1
      <4>2. \A c \in 0 .. 255 : c >= 128 <=> ~(c < 128)
        OBVIOUS
      <4>3. x[2] >= 128 <=> ~(x[2] < 128)
        BY <4>1, <4>2, <2>1
      <4>4. QED
        BY <3>1, <3>2, <4>3, <2>1 DEF SuperfluousZero
    <3>3. CASE ~(Len(x) >= 2)
      BY <3>1, <3>3, <2>1 DEF SuperfluousZero
    <3>4. QED
      BY <3>2, <3>3
  <2>3. QED
    BY <1>1, <2>2, StrippedFits DEF Proper, Unsigned
<1>2. CASE ~Unsigned(x)
  BY <1>2 DEF Proper, Unsigned
<1>3. QED
  BY <1>1, <1>2

\* parse_x962() refuses a signature for an integer that is negative, too large or
\* not in the form DER gives it, and for nothing else.
THEOREM EverySignatureIsTakenHolds == Spec => []EverySignatureIsTaken
<1>1. ASSUME DInv
      PROVE  EverySignatureIsTaken
  <2>1. SUFFICES ASSUME call = "parse_x962"
                 PROVE  result # Err <=> Proper(first) /\ Proper(second)
    BY DEF EverySignatureIsTaken
  <2> DEFINE taken == \A x \in {first, second} :
                        Unsigned(x) /\ ~SuperfluousZero(x) /\ Len(Stripped(x)) <= Half
             octets == Padded(Stripped(first)) \o Padded(Stripped(second))
  <2>2. taken <=> Proper(first) /\ Proper(second)
    BY <1>1, ProperIsTaken DEF DInv
  <2>3. result = IF taken THEN octets ELSE Err
    BY <1>1, <2>1 DEF DInv, ParseX962
  <2>4. taken => octets # Err
    <3>1. SUFFICES ASSUME taken
                   PROVE  octets \in Seq(Nat)
      BY ErrAssumption
    <3>2. octets \in Seq(Octet)
      BY <3>1, <1>1, TakenHalves DEF DInv
    <3>3. QED
      BY <3>2, OctetsType
  <2>5. QED
    <3> HIDE DEF taken, octets
    <3>1. QED
      BY <2>2, <2>3, <2>4
<1>2. QED
  BY <1>1, DInvHolds, PTL

\* The three parts of a header, some octets and some more.
LEMMA PartsAfterHeader ==
  ASSUME NEW h \in Seq(Nat), NEW e \in Seq(Nat), NEW m \in Seq(Nat),
         h # <<>>, e # <<>>
  PROVE  LET octets == h \o e \o m
         IN /\ \A i \in 1 .. Len(h) : octets[i] = h[i]
            /\ SubSeq(octets, Len(h) + 1, Len(h) + Len(e)) = e
            /\ SubSeq(octets, Len(h) + Len(e) + 1, Len(octets)) = m
<1> DEFINE p == h \o e
<1>1. /\ Len(h) \in Nat \ {0} /\ Len(e) \in Nat \ {0} /\ Len(m) \in Nat
  BY LenProperties, EmptySeq
<1>2. /\ p \in Seq(Nat)
      /\ Len(p) = Len(h) + Len(e)
      /\ SubSeq(p, Len(h) + 1, Len(h) + Len(e)) = e
  BY PartsOfConcat
<1>3. \A i \in 1 .. Len(h) : p[i] = h[i]
  BY <1>1, ConcatProperties
<1> HIDE DEF p
<1>4. /\ Len(p \o m) = Len(p) + Len(m)
      /\ SubSeq(p \o m, Len(p) + 1, Len(p) + Len(m)) = m
  <2>1. p \in Seq(Nat) /\ m \in Seq(Nat)
    BY <1>2
  <2>2. QED
    BY <2>1, PartsOfConcat
<1>5. \A i \in 1 .. Len(h) : (p \o m)[i] = h[i]
  <2>1. \A i \in 1 .. Len(p) : (p \o m)[i] = p[i]
    BY <1>1, <1>2, ConcatProperties
  <2>2. \A i \in 1 .. Len(h) : i \in 1 .. Len(p)
    BY <1>1, <1>2, SMT
  <2>3. QED
    BY <2>1, <2>2, <1>3, Zenon
<1>6. SubSeq(p \o m, Len(h) + 1, Len(h) + Len(e)) = e
  <2>1. Len(h) + 1 \in 1 .. Len(p) /\ Len(h) + Len(e) \in 1 .. Len(p)
    BY <1>1, <1>2
  <2>2. SubSeq(p \o m, Len(h) + 1, Len(h) + Len(e)) =
        SubSeq(p, Len(h) + 1, Len(h) + Len(e))
    BY <2>1, <1>2, SubSeqOfConcat1
  <2>3. QED
    BY <2>2, <1>2
<1>7. SubSeq(p \o m, Len(h) + Len(e) + 1, Len(p \o m)) = m
  BY <1>2, <1>4
<1>8. QED
  BY <1>5, <1>6, <1>7 DEF p

\* The length of an exponent can be read back.
LEMMA LengthOctetsRead ==
  ASSUME NEW n \in Nat \ {0}
  PROVE  LET h == LengthOctets(n)
         IN /\ h \in Seq(Nat) /\ h # <<>>
            /\ Len(h) = IF h[1] = 0 THEN 3 ELSE 1
            /\ n = IF h[1] = 0 THEN 256 * h[2] + h[3] ELSE h[1]
<1>1. CASE n <= ShortLen
  <2>1. LengthOctets(n) = <<n>>
    BY <1>1 DEF LengthOctets
  <2>2. QED
    BY <2>1
<1>2. CASE ~(n <= ShortLen)
  <2>1. LengthOctets(n) = <<0, n \div 256, n % 256>>
    BY <1>2 DEF LengthOctets
  <2>2. n \div 256 \in Nat /\ n % 256 \in Nat /\ n = 256 * (n \div 256) + (n % 256)
    OBVIOUS
  <2>3. QED
    BY <2>1, <2>2
<1>3. QED
  BY <1>1, <1>2

LEMMA PartsOfRsa ==
  ASSUME NEW e \in Seq(Octet), NEW m \in Seq(Octet), e # <<>>, RsaEncode(e, m) # Err
  PROVE  /\ Exponent(RsaEncode(e, m)) = e
         /\ Modulus(RsaEncode(e, m)) = m
<1> DEFINE n == Len(e)
           h == LengthOctets(n)
           octets == h \o e \o m
<1>1. e \in Seq(Nat) /\ m \in Seq(Nat) /\ n \in Nat \ {0}
  BY OctetsType, LenProperties, EmptySeq
<1>2. RsaEncode(e, m) = octets
  BY DEF RsaEncode
<1>3. /\ h \in Seq(Nat) /\ h # <<>>
      /\ Len(h) = IF h[1] = 0 THEN 3 ELSE 1
      /\ n = IF h[1] = 0 THEN 256 * h[2] + h[3] ELSE h[1]
  BY <1>1, LengthOctetsRead
<1> HIDE DEF h
<1>4. /\ \A i \in 1 .. Len(h) : octets[i] = h[i]
      /\ SubSeq(octets, Len(h) + 1, Len(h) + n) = e
      /\ SubSeq(octets, Len(h) + n + 1, Len(octets)) = m
  BY <1>1, <1>3, PartsAfterHeader, ZenonT(60)
<1> HIDE DEF octets, n
<1>5. octets[1] = h[1] /\ (h[1] = 0 => octets[2] = h[2] /\ octets[3] = h[3])
  BY <1>3, <1>4
<1>6. Header(octets) = Len(h) /\ ExponentLen(octets) = n
  BY <1>3, <1>5 DEF Header, ExponentLen
<1>7. QED
  BY <1>2, <1>4, <1>6 DEF Exponent, Modulus

\* Read as RFC 3110 has it, what the RSA parsers return gives the exponent and
\* the modulus of the DER, octet for octet.
THEOREM ExponentAndModulusHolds == Spec => []ExponentAndModulus
<1>1. ASSUME DInv
      PROVE  ExponentAndModulus
  <2>1. SUFFICES ASSUME call = "parse_rsa", result # Err
                 PROVE  Exponent(result) = second /\ Modulus(result) = first
    BY DEF ExponentAndModulus
  <2>2. /\ second # <<>>
        /\ result = RsaEncode(second, first)
    BY <1>1, <2>1 DEF DInv, RsaParse, Unsigned
  <2>3. QED
    BY <1>1, <2>1, <2>2, PartsOfRsa DEF DInv
<1>2. QED
  BY <1>1, DInvHolds, PTL
=============================================================================
