--------------------------- MODULE KeyUrlsProofs ----------------------------
(***************************************************************************)
(* Proofs about KeyUrls, for any server ids, any ids of keys and any texts *)
(* of any length.                                                          *)
(*                                                                         *)
(* Splitting and joining a text and walking its segments are recursions    *)
(* over a sequence.  Each is shown to exist and to take one step for each  *)
(* element that is appended; what is said of them then follows by          *)
(* induction on sequences.  From these lemmas: a URL made of a KeyPair     *)
(* with plain ids has the parts that it was made of, and the parts of any  *)
(* URL make plain ids.                                                     *)
(***************************************************************************)
EXTENDS KeyUrls, SequenceTheorems, WellFoundedInduction, TLAPS

-----------------------------------------------------------------------------
(* Induction and recursion.                                                *)

LEMMA InductionOnNat ==
  ASSUME NEW S, 0 \in S, \A n \in Nat : n \in S => n + 1 \in S
  PROVE  Nat \subseteq S
<1>1. SUFFICES ASSUME Nat \ S # {}
               PROVE  FALSE
  OBVIOUS
<1>2. PICK least \in Nat \ S : \A y \in Nat \ S : <<y, least>> \notin OpToRel(<, Nat)
  BY <1>1, WFMin, NatLessThanWellFounded
<1>3. least # 0 /\ least - 1 \in Nat /\ (least - 1) + 1 = least
  OBVIOUS
<1>4. <<least - 1, least>> \in OpToRel(<, Nat)
  BY <1>3 DEF OpToRel
<1>5. QED
  BY <1>2, <1>3, <1>4

LEMMA AppendedLast ==
  ASSUME NEW D, NEW p \in Seq(D), p # <<>>
  PROVE  /\ Front(p) \in Seq(D) /\ Last(p) \in D
         /\ p = Append(Front(p), Last(p))
         /\ Len(Front(p)) = Len(p) - 1
<1>1. /\ Len(p) \in Nat \ {0}
      /\ \A i \in 1 .. Len(p) : p[i] \in D
  BY EmptySeq, ElementOfSeq, LenProperties
<1>2. /\ Front(p) \in Seq(D)
      /\ Len(Front(p)) = Len(p) - 1
      /\ \A i \in 1 .. Len(p) - 1 : Front(p)[i] = p[i]
  <2> DEFINE m == Len(p) - 1
  <2>1. m \in 1 - 1 .. Len(p) /\ m = m - 1 + 1
    BY <1>1
  <2>2. /\ SubSeq(p, 1, m) \in Seq(D)
        /\ Len(SubSeq(p, 1, m)) = m
        /\ \A i \in 1 .. m : SubSeq(p, 1, m)[i] = p[i]
    <3> HIDE DEF m
    <3>1. QED
      BY <1>1, <2>1
  <2>3. QED
    BY <2>2 DEF Front
<1>3. Last(p) \in D
  BY <1>1 DEF Last
<1>4. p = Append(Front(p), Last(p))
  <2> DEFINE f == Front(p)
  <2>1. /\ f \in Seq(D) /\ Len(f) = Len(p) - 1 /\ Last(p) = p[Len(p)]
        /\ \A i \in 1 .. Len(p) - 1 : f[i] = p[i]
    BY <1>2 DEF Last
  <2> HIDE DEF f
  <2>2. /\ Append(f, Last(p)) \in Seq(D)
        /\ Len(Append(f, Last(p))) = Len(p)
        /\ \A i \in 1 .. Len(p) : Append(f, Last(p))[i] = p[i]
    BY <1>1, <1>3, <2>1
  <2>3. p = Append(f, Last(p))
    BY <2>2, SeqEqual
  <2>4. QED
    BY <2>3 DEF f
<1>5. QED
  BY <1>2, <1>3, <1>4

LEMMA TypedSeq ==
  ASSUME NEW D, NEW n \in Nat, NEW x, x = [i \in 1 .. n |-> x[i]], \A i \in 1 .. n : x[i] \in D
  PROVE  x \in Seq(D)
OBVIOUS

LEMMA Singleton ==
  ASSUME NEW D, NEW x \in D
  PROVE  <<x>> \in Seq(D) /\ Len(<<x>>) = 1 /\ <<x>>[1] = x
OBVIOUS

LEMMA FrontOfAppended ==
  ASSUME NEW D, NEW p \in Seq(D), NEW x \in D
  PROVE  /\ Append(p, x) \in Seq(D) /\ Append(p, x) # <<>>
         /\ Len(Append(p, x)) = Len(p) + 1
         /\ Front(Append(p, x)) = p /\ Last(Append(p, x)) = x
BY DEF Front, Last

\* What holds of the empty sequence, and of a sequence with one more element if
\* it holds of the sequence.
LEMMA InductionOnSeq ==
  ASSUME NEW D, NEW S, <<>> \in S,
         \A t \in Seq(D), x \in D : t \in S => Append(t, x) \in S
  PROVE  Seq(D) \subseteq S
<1> DEFINE N == {n \in Nat : \A t \in Seq(D) : Len(t) = n => t \in S}
<1>1. 0 \in N
  OBVIOUS
<1>2. ASSUME NEW n \in Nat, n \in N
      PROVE  n + 1 \in N
  <2>1. ASSUME NEW t \in Seq(D), Len(t) = n + 1
        PROVE  t \in S
    <3>1. t # <<>>
      BY <2>1
    <3>2. /\ Front(t) \in Seq(D) /\ Last(t) \in D
          /\ t = Append(Front(t), Last(t))
          /\ Len(Front(t)) = n
      BY <3>1, <2>1, AppendedLast
    <3>3. Front(t) \in S
      BY <3>2, <1>2
    <3>4. QED
      BY <3>2, <3>3
  <2>2. QED
    BY <2>1
<1>3. Nat \subseteq N
  <2> HIDE DEF N
  <2>1. QED
    BY <1>1, <1>2, InductionOnNat
<1>4. QED
  BY <1>3

\* What holds at 0, and at i if it holds at i - 1.
LEMMA Propagation ==
  ASSUME NEW n \in Nat, NEW D, NEW w, w[0] \in D,
         \A i \in 1 .. n : w[i - 1] \in D => w[i] \in D
  PROVE  \A i \in 0 .. n : w[i] \in D
<1> DEFINE S == {i \in Nat : i <= n => w[i] \in D}
<1>1. 0 \in S
  OBVIOUS
<1>2. ASSUME NEW i \in Nat, i \in S
      PROVE  i + 1 \in S
  <2>1. CASE i + 1 <= n
    <3>1. i + 1 \in 1 .. n /\ (i + 1) - 1 = i /\ w[i] \in D
      BY <1>2, <2>1
    <3>2. QED
      BY <3>1
  <2>2. QED
    BY <2>1
<1>3. Nat \subseteq S
  <2> HIDE DEF S
  <2>1. QED
    BY <1>1, <1>2, InductionOnNat
<1>4. QED
  BY <1>3

LEMMA Agreement ==
  ASSUME NEW n \in Nat, NEW v, NEW w, v[0] = w[0],
         \A i \in 1 .. n : v[i - 1] = w[i - 1] => v[i] = w[i]
  PROVE  v[n] = w[n]
<1> DEFINE Agreeing == {m \in Nat : m <= n => v[m] = w[m]}
<1>1. 0 \in Agreeing
  OBVIOUS
<1>2. ASSUME NEW m \in Nat, m \in Agreeing
      PROVE  m + 1 \in Agreeing
  <2>1. CASE m + 1 <= n
    <3>1. m + 1 \in 1 .. n /\ (m + 1) - 1 = m /\ v[m] = w[m]
      BY <1>2, <2>1
    <3>2. QED
      BY <3>1
  <2>2. QED
    BY <2>1
<1>3. n \in Agreeing
  <2> HIDE DEF Agreeing
  <2>1. QED
    BY <1>1, <1>2, InductionOnNat
<1>4. QED
  BY <1>3

\* A recursion over 0 .. n has a solution.
Solves(v, D, base, n, step) ==
  /\ v \in [0 .. n -> D]
  /\ v[0] = base
  /\ \A i \in 1 .. n : v[i] = step[i][v[i - 1]]

LEMMA Recursion ==
  ASSUME NEW D, NEW base \in D, NEW n \in Nat, NEW step \in [1 .. n -> [D -> D]]
  PROVE  \E v : Solves(v, D, base, n, step)
<1> DEFINE SolvesUpTo(v, m) == /\ v \in [0 .. m -> D]
                               /\ v[0] = base
                               /\ \A i \in 1 .. m : v[i] = step[i][v[i - 1]]
           Solved == {m \in Nat : m <= n => \E v : SolvesUpTo(v, m)}
<1>1. 0 \in Solved
  <2>1. SolvesUpTo([i \in 0 .. 0 |-> base], 0)
    OBVIOUS
  <2>2. QED
    BY <2>1
<1>2. ASSUME NEW m \in Nat, m \in Solved
      PROVE  m + 1 \in Solved
  <2>1. CASE m + 1 <= n
    <3>1. PICK v : SolvesUpTo(v, m)
      BY <1>2, <2>1
    <3> DEFINE next == step[m + 1][v[m]]
               w == [i \in 0 .. m + 1 |-> IF i = m + 1 THEN next ELSE v[i]]
    <3>2. v[m] \in D /\ next \in D
      BY <3>1, <2>1
    <3>3. w \in [0 .. m + 1 -> D] /\ w[0] = base
      <4> HIDE DEF next
      <4>1. QED
        BY <3>1, <3>2
    <3>4. ASSUME NEW i \in 1 .. m + 1
          PROVE  w[i] = step[i][w[i - 1]]
      <4> HIDE DEF next
      <4>1. i - 1 \in 0 .. m /\ w[i - 1] = v[i - 1]
        OBVIOUS
      <4>2. CASE i = m + 1
        BY <4>1, <4>2 DEF next
      <4>3. CASE i # m + 1
        <5>1. i \in 1 .. m /\ w[i] = v[i]
          BY <4>3
        <5>2. QED
          BY <5>1, <4>1, <3>1
      <4>4. QED
        BY <4>2, <4>3
    <3>5. SolvesUpTo(w, m + 1)
      <4> HIDE DEF w
      <4>1. QED
        BY <3>3, <3>4
    <3>6. \E u : SolvesUpTo(u, m + 1)
      <4> HIDE DEF w, SolvesUpTo
      <4>1. QED
        BY <3>5
    <3>7. QED
      <4> HIDE DEF SolvesUpTo
      <4>1. QED
        BY <3>6
  <2>2. m + 1 <= n => \E v : SolvesUpTo(v, m + 1)
    BY <2>1
  <2>3. QED
    <3> HIDE DEF SolvesUpTo
    <3>1. QED
      BY <2>2
<1>3. n \in Solved
  <2> HIDE DEF Solved
  <2>1. QED
    BY <1>1, <1>2, InductionOnNat
<1>4. QED
  BY <1>3 DEF Solves

\* What has a meaning in a URL is neither encoded nor dropped.
LEMMA MeantTokens ==
  ASSUME NEW x \in Marks \cup Words
  PROVE  x \in Tokens /\ x \notin Dropped /\ x \notin DOMAIN Escape
<1>1. x \in Meaningful
  BY DEF Meaningful
<1>2. QED
  BY <1>1, TokensAssumption

-----------------------------------------------------------------------------
(* Splitting a text.                                                       *)

Parts == Seq(Text) \ {<<>>}

LEMMA ExtendedType ==
  ASSUME NEW parts \in Parts, NEW x \in Tokens, NEW sep
  PROVE  Extended(parts, x, sep) \in Parts
<1>1. /\ Front(parts) \in Seq(Text) /\ Last(parts) \in Text
      /\ <<>> \in Text /\ parts \in Seq(Text)
  BY AppendedLast DEF Parts, Text
<1>2. Append(Last(parts), x) \in Text
  BY <1>1, AppendProperties DEF Text
<1>3. \A p \in Seq(Text), s \in Text : Append(p, s) \in Seq(Text) /\ Append(p, s) # <<>>
  BY AppendProperties
<1>4. QED
  BY <1>1, <1>2, <1>3 DEF Parts, Extended

LEMMA PrefixesSplitDef ==
  ASSUME NEW t \in Text, NEW sep
  PROVE  /\ PrefixesSplit(t, sep) \in [0 .. Len(t) -> Parts]
         /\ PrefixesSplit(t, sep)[0] = <<<<>>>>
         /\ \A i \in 1 .. Len(t) :
              PrefixesSplit(t, sep)[i] = Extended(PrefixesSplit(t, sep)[i - 1], t[i], sep)
<1> DEFINE step == [i \in 1 .. Len(t) |-> [p \in Parts |-> Extended(p, t[i], sep)]]
<1>1. /\ Len(t) \in Nat
      /\ \A i \in 1 .. Len(t) : t[i] \in Tokens
  BY ElementOfSeq DEF Text
<1>2. <<<<>>>> \in Parts
  BY DEF Parts, Text
<1>3. step \in [1 .. Len(t) -> [Parts -> Parts]]
  BY <1>1, ExtendedType
<1>4. PICK v \in [0 .. Len(t) -> Parts] :
        /\ v[0] = <<<<>>>>
        /\ \A i \in 1 .. Len(t) : v[i] = step[i][v[i - 1]]
  <2> HIDE DEF step
  <2> DEFINE n == Len(t)
             base == <<<<>>>>
  <2>1. n \in Nat /\ base \in Parts /\ step \in [1 .. n -> [Parts -> Parts]]
    BY <1>1, <1>2, <1>3
  <2> HIDE DEF n, base
  <2>2. \E v : Solves(v, Parts, base, n, step)
    BY <2>1, Recursion
  <2>3. QED
    BY <2>2 DEF Solves, n, base
<1>5. ASSUME NEW i \in 1 .. Len(t)
      PROVE  v[i] = Extended(v[i - 1], t[i], sep)
  <2>1. i - 1 \in 0 .. Len(t)
    BY <1>1
  <2>2. v[i - 1] \in Parts
    BY <2>1
  <2>3. QED
    BY <1>4, <2>2
<1>6. v = [i \in 0 .. Len(t) |-> IF i = 0 THEN <<<<>>>> ELSE Extended(v[i - 1], t[i], sep)]
  <2>1. \A i \in 0 .. Len(t) : i # 0 => i \in 1 .. Len(t)
    BY <1>1
  <2>2. \A i \in 0 .. Len(t) :
          v[i] = IF i = 0 THEN <<<<>>>> ELSE Extended(v[i - 1], t[i], sep)
    BY <1>4, <1>5, <2>1
  <2>3. v = [i \in 0 .. Len(t) |-> v[i]]
    OBVIOUS
  <2>4. QED
    BY <2>2, <2>3
<1> DEFINE w == PrefixesSplit(t, sep)
<1>7. w = [i \in 0 .. Len(t) |-> IF i = 0 THEN <<<<>>>> ELSE Extended(w[i - 1], t[i], sep)]
  BY <1>6 DEF PrefixesSplit
<1>8. /\ w[0] = <<<<>>>>
      /\ \A i \in 1 .. Len(t) : w[i] = Extended(w[i - 1], t[i], sep)
  <2> HIDE DEF w
  <2>1. 0 \in 0 .. Len(t) /\ \A i \in 1 .. Len(t) : i \in 0 .. Len(t) /\ i # 0
    BY <1>1
  <2>2. QED
    BY <1>7, <2>1
<1>9. w \in [0 .. Len(t) -> Parts]
  <2> HIDE DEF w
  <2>1. ASSUME NEW i \in 1 .. Len(t), w[i - 1] \in Parts
        PROVE  w[i] \in Parts
    BY <2>1, <1>1, <1>8, ExtendedType
  <2>2. \A i \in 0 .. Len(t) : w[i] \in Parts
    BY <2>1, <1>1, <1>2, <1>8, Propagation
  <2>3. QED
    BY <2>2, <1>7
<1>10. QED
  BY <1>8, <1>9

\* One more token.
LEMMA SplitStep ==
  ASSUME NEW t \in Text, NEW sep
  PROVE  /\ SplitOn(t, sep) \in Parts
         /\ SplitOn(<<>>, sep) = <<<<>>>>
         /\ \A x \in Tokens :
              /\ Append(t, x) \in Text
              /\ SplitOn(Append(t, x), sep) = Extended(SplitOn(t, sep), x, sep)
<1>1. Len(t) \in Nat /\ <<>> \in Text /\ Len(<<>>) = 0
  BY DEF Text
<1>2. SplitOn(<<>>, sep) = <<<<>>>>
  BY <1>1, PrefixesSplitDef DEF SplitOn
<1>3. SplitOn(t, sep) \in Parts
  BY <1>1, PrefixesSplitDef DEF SplitOn
<1>4. ASSUME NEW x \in Tokens
      PROVE  /\ Append(t, x) \in Text
             /\ SplitOn(Append(t, x), sep) = Extended(SplitOn(t, sep), x, sep)
  <2> DEFINE u == Append(t, x)
             v == PrefixesSplit(t, sep)
             w == PrefixesSplit(u, sep)
             n == Len(t)
  <2>1. /\ u \in Text /\ Len(u) = n + 1
        /\ \A i \in 1 .. n : u[i] = t[i]
        /\ u[n + 1] = x
    <3>1. t \in Seq(Tokens)
      BY DEF Text
    <3>2. /\ Append(t, x) \in Seq(Tokens) /\ Len(Append(t, x)) = Len(t) + 1
          /\ \A i \in 1 .. Len(t) : Append(t, x)[i] = t[i]
          /\ Append(t, x)[Len(t) + 1] = x
      BY <3>1, AppendProperties
    <3>3. QED
      BY <3>2 DEF Text
  <2>2. /\ v[0] = <<<<>>>>
        /\ \A i \in 1 .. n : v[i] = Extended(v[i - 1], t[i], sep)
    BY PrefixesSplitDef
  <2> HIDE DEF u, v, n
  <2>3. /\ w[0] = <<<<>>>>
        /\ \A i \in 1 .. n + 1 : w[i] = Extended(w[i - 1], u[i], sep)
    BY <2>1, PrefixesSplitDef
  <2> HIDE DEF w
  <2>4. n \in Nat
    BY <1>1 DEF n
  <2>5. v[n] = w[n]
    <3>1. ASSUME NEW i \in 1 .. n, v[i - 1] = w[i - 1]
          PROVE  v[i] = w[i]
      <4>1. i \in 1 .. n + 1 /\ u[i] = t[i]
        BY <2>1, <2>4
      <4>2. QED
        BY <4>1, <3>1, <2>2, <2>3
    <3>2. v[0] = w[0]
      BY <2>2, <2>3
    <3>3. QED
      BY <3>1, <3>2, <2>4, Agreement
  <2>6. w[n + 1] = Extended(w[n], x, sep)
    <3>1. n + 1 \in 1 .. n + 1 /\ (n + 1) - 1 = n
      BY <2>4
    <3>2. QED
      BY <3>1, <2>1, <2>3
  <2>7. QED
    BY <2>1, <2>5, <2>6 DEF SplitOn, u, v, w, n
<1>5. QED
  BY <1>2, <1>3, <1>4

-----------------------------------------------------------------------------
(* Joining segments.                                                       *)

LEMMA JoinedToType ==
  ASSUME NEW p \in Seq(Text), NEW i \in 1 .. Len(p), NEW t \in Text
  PROVE  JoinedTo(t, i, p) \in Text
<1>1. 1 \in 1 .. Len(p)
  OBVIOUS
<1>2. p[i] \in Text /\ p[1] \in Text
  BY <1>1, ElementOfSeq
<1>3. <<"/">> \in Text
  BY MeantTokens, Singleton DEF Text, Marks
<1>4. \A x, y \in Text : x \o y \in Text
  BY ConcatProperties DEF Text
<1>5. QED
  BY <1>2, <1>3, <1>4 DEF JoinedTo

LEMMA PrefixesJoinedDef ==
  ASSUME NEW p \in Seq(Text)
  PROVE  /\ PrefixesJoined(p) \in [0 .. Len(p) -> Text]
         /\ PrefixesJoined(p)[0] = <<>>
         /\ \A i \in 1 .. Len(p) :
              PrefixesJoined(p)[i] = JoinedTo(PrefixesJoined(p)[i - 1], i, p)
<1> DEFINE step == [i \in 1 .. Len(p) |-> [t \in Text |-> JoinedTo(t, i, p)]]
<1>1. Len(p) \in Nat
  OBVIOUS
<1>2. <<>> \in Text
  BY DEF Text
<1>3. step \in [1 .. Len(p) -> [Text -> Text]]
  BY <1>1, JoinedToType
<1>4. PICK v \in [0 .. Len(p) -> Text] :
        /\ v[0] = <<>>
        /\ \A i \in 1 .. Len(p) : v[i] = step[i][v[i - 1]]
  <2> HIDE DEF step
  <2> DEFINE n == Len(p)
             base == <<>>
  <2>1. n \in Nat /\ base \in Text /\ step \in [1 .. n -> [Text -> Text]]
    BY <1>1, <1>2, <1>3
  <2> HIDE DEF n, base
  <2>2. \E v : Solves(v, Text, base, n, step)
    BY <2>1, Recursion
  <2>3. QED
    BY <2>2 DEF Solves, n, base
<1>5. ASSUME NEW i \in 1 .. Len(p)
      PROVE  v[i] = JoinedTo(v[i - 1], i, p)
  <2>1. i - 1 \in 0 .. Len(p)
    BY <1>1
  <2>2. v[i - 1] \in Text
    BY <2>1
  <2>3. QED
    BY <1>4, <2>2
<1>6. v = [i \in 0 .. Len(p) |-> IF i = 0 THEN <<>> ELSE JoinedTo(v[i - 1], i, p)]
  <2>1. \A i \in 0 .. Len(p) : i # 0 => i \in 1 .. Len(p)
    BY <1>1
  <2>2. \A i \in 0 .. Len(p) :
          v[i] = IF i = 0 THEN <<>> ELSE JoinedTo(v[i - 1], i, p)
    BY <1>4, <1>5, <2>1
  <2>3. v = [i \in 0 .. Len(p) |-> v[i]]
    OBVIOUS
  <2>4. QED
    BY <2>2, <2>3
<1> DEFINE w == PrefixesJoined(p)
<1>7. w = [i \in 0 .. Len(p) |-> IF i = 0 THEN <<>> ELSE JoinedTo(w[i - 1], i, p)]
  BY <1>6 DEF PrefixesJoined
<1>8. /\ w[0] = <<>>
      /\ \A i \in 1 .. Len(p) : w[i] = JoinedTo(w[i - 1], i, p)
  <2> HIDE DEF w
  <2>1. 0 \in 0 .. Len(p) /\ \A i \in 1 .. Len(p) : i \in 0 .. Len(p) /\ i # 0
    BY <1>1
  <2>2. QED
    BY <1>7, <2>1
<1>9. w \in [0 .. Len(p) -> Text]
  <2> HIDE DEF w
  <2>1. ASSUME NEW i \in 1 .. Len(p), w[i - 1] \in Text
        PROVE  w[i] \in Text
    BY <2>1, <1>1, <1>8, JoinedToType
  <2>2. \A i \in 0 .. Len(p) : w[i] \in Text
    BY <2>1, <1>1, <1>2, <1>8, Propagation
  <2>3. QED
    BY <2>2, <1>7
<1>10. QED
  BY <1>8, <1>9

\* One more segment.
LEMMA JoinedStep ==
  ASSUME NEW p \in Seq(Text)
  PROVE  /\ Joined(p) \in Text
         /\ Joined(<<>>) = <<>>
         /\ \A s \in Text :
              /\ Append(p, s) \in Seq(Text)
              /\ Joined(Append(p, s)) = IF p = <<>> THEN s ELSE Joined(p) \o <<"/">> \o s
<1>1. Len(p) \in Nat /\ <<>> \in Seq(Text) /\ Len(<<>>) = 0
  OBVIOUS
<1>2. Joined(<<>>) = <<>>
  BY <1>1, PrefixesJoinedDef DEF Joined
<1>3. Joined(p) \in Text
  BY <1>1, PrefixesJoinedDef DEF Joined
<1>4. ASSUME NEW s \in Text
      PROVE  /\ Append(p, s) \in Seq(Text)
             /\ Joined(Append(p, s)) = IF p = <<>> THEN s ELSE Joined(p) \o <<"/">> \o s
  <2> DEFINE u == Append(p, s)
             v == PrefixesJoined(p)
             w == PrefixesJoined(u)
             n == Len(p)
  <2>1. /\ u \in Seq(Text) /\ Len(u) = n + 1
        /\ \A i \in 1 .. n : u[i] = p[i]
        /\ u[n + 1] = s
    BY AppendProperties
  <2>2. /\ v[0] = <<>>
        /\ \A i \in 1 .. n : v[i] = JoinedTo(v[i - 1], i, p)
    BY PrefixesJoinedDef
  <2> HIDE DEF u, v, n
  <2>3. /\ w[0] = <<>>
        /\ \A i \in 1 .. n + 1 : w[i] = JoinedTo(w[i - 1], i, u)
    BY <2>1, PrefixesJoinedDef
  <2> HIDE DEF w
  <2>4. n \in Nat
    BY <1>1 DEF n
  <2>5. v[n] = w[n]
    <3>1. ASSUME NEW i \in 1 .. n, v[i - 1] = w[i - 1]
          PROVE  v[i] = w[i]
      <4>1. i \in 1 .. n + 1 /\ 1 \in 1 .. n
        BY <2>4
      <4>2. u[i] = p[i] /\ u[1] = p[1]
        BY <2>1, <4>1
      <4>3. QED
        BY <4>1, <4>2, <3>1, <2>2, <2>3 DEF JoinedTo
    <3>2. v[0] = w[0]
      BY <2>2, <2>3
    <3>3. QED
      BY <3>1, <3>2, <2>4, Agreement
  <2>6. w[n + 1] = JoinedTo(w[n], n + 1, u)
    <3>1. n + 1 \in 1 .. n + 1 /\ (n + 1) - 1 = n
      BY <2>4
    <3>2. QED
      BY <3>1, <2>3
  <2>7. JoinedTo(w[n], n + 1, u) = IF n = 0 THEN s ELSE w[n] \o <<"/">> \o s
    BY <2>1, <2>4 DEF JoinedTo
  <2>8. p = <<>> <=> n = 0
    BY EmptySeq DEF n
  <2>9. QED
    BY <2>1, <2>5, <2>6, <2>7, <2>8 DEF Joined, u, v, w, n
<1>5. QED
  BY <1>2, <1>3, <1>4

-----------------------------------------------------------------------------
(* Walking segments: Names are those that are no dots.                     *)

LEMMA WalkedType ==
  ASSUME NEW Names, NEW path \in Seq(Names), NEW s \in Names \cup DotSegments
  PROVE  Walked(path, s) \in Seq(Names)
<1>1. Up(path) \in Seq(Names)
  BY AppendedLast DEF Up
<1>2. s \notin DotSegments => Append(path, s) \in Seq(Names)
  BY AppendProperties
<1>3. QED
  BY <1>1, <1>2 DEF Walked, DotSegments

LEMMA PrefixesWalkedDef ==
  ASSUME NEW Names, NEW p \in Seq(Names \cup DotSegments)
  PROVE  /\ PrefixesWalked(p) \in [0 .. Len(p) -> Seq(Names)]
         /\ PrefixesWalked(p)[0] = <<>>
         /\ \A i \in 1 .. Len(p) :
              PrefixesWalked(p)[i] = Walked(PrefixesWalked(p)[i - 1], p[i])
<1> DEFINE step == [i \in 1 .. Len(p) |-> [t \in Seq(Names) |-> Walked(t, p[i])]]
<1>1. /\ Len(p) \in Nat
      /\ \A i \in 1 .. Len(p) : p[i] \in Names \cup DotSegments
  BY ElementOfSeq
<1>2. <<>> \in Seq(Names)
  OBVIOUS
<1>3. step \in [1 .. Len(p) -> [Seq(Names) -> Seq(Names)]]
  BY <1>1, WalkedType
<1>4. PICK v \in [0 .. Len(p) -> Seq(Names)] :
        /\ v[0] = <<>>
        /\ \A i \in 1 .. Len(p) : v[i] = step[i][v[i - 1]]
  <2> HIDE DEF step
  <2> DEFINE n == Len(p)
             base == <<>>
             D == Seq(Names)
  <2>1. n \in Nat /\ base \in D /\ step \in [1 .. n -> [D -> D]]
    BY <1>1, <1>2, <1>3
  <2> HIDE DEF n, base, D
  <2>2. \E v : Solves(v, D, base, n, step)
    BY <2>1, Recursion
  <2>3. QED
    BY <2>2 DEF Solves, n, base, D
<1>5. ASSUME NEW i \in 1 .. Len(p)
      PROVE  v[i] = Walked(v[i - 1], p[i])
  <2>1. i - 1 \in 0 .. Len(p)
    BY <1>1
  <2>2. v[i - 1] \in Seq(Names)
    BY <2>1
  <2>3. QED
    BY <1>4, <2>2
<1>6. v = [i \in 0 .. Len(p) |-> IF i = 0 THEN <<>> ELSE Walked(v[i - 1], p[i])]
  <2>1. \A i \in 0 .. Len(p) : i # 0 => i \in 1 .. Len(p)
    BY <1>1
  <2>2. \A i \in 0 .. Len(p) :
          v[i] = IF i = 0 THEN <<>> ELSE Walked(v[i - 1], p[i])
    BY <1>4, <1>5, <2>1
  <2>3. v = [i \in 0 .. Len(p) |-> v[i]]
    OBVIOUS
  <2>4. QED
    BY <2>2, <2>3
<1> DEFINE w == PrefixesWalked(p)
<1>7. w = [i \in 0 .. Len(p) |-> IF i = 0 THEN <<>> ELSE Walked(w[i - 1], p[i])]
  BY <1>6 DEF PrefixesWalked
<1>8. /\ w[0] = <<>>
      /\ \A i \in 1 .. Len(p) : w[i] = Walked(w[i - 1], p[i])
  <2> HIDE DEF w
  <2>1. 0 \in 0 .. Len(p) /\ \A i \in 1 .. Len(p) : i \in 0 .. Len(p) /\ i # 0
    BY <1>1
  <2>2. QED
    BY <1>7, <2>1
<1>9. w \in [0 .. Len(p) -> Seq(Names)]
  <2> HIDE DEF w
  <2>1. ASSUME NEW i \in 1 .. Len(p), w[i - 1] \in Seq(Names)
        PROVE  w[i] \in Seq(Names)
    BY <2>1, <1>1, <1>8, WalkedType
  <2>2. \A i \in 0 .. Len(p) : w[i] \in Seq(Names)
    BY <2>1, <1>1, <1>2, <1>8, Propagation
  <2>3. QED
    BY <2>2, <1>7
<1>10. QED
  BY <1>8, <1>9

LEMMA WalkStep ==
  ASSUME NEW Names, NEW p \in Seq(Names \cup DotSegments)
  PROVE  /\ PrefixesWalked(p)[Len(p)] \in Seq(Names)
         /\ PrefixesWalked(<<>>)[0] = <<>>
         /\ \A s \in Names \cup DotSegments :
              /\ Append(p, s) \in Seq(Names \cup DotSegments)
              /\ Len(Append(p, s)) = Len(p) + 1
              /\ PrefixesWalked(Append(p, s))[Len(p) + 1] = Walked(PrefixesWalked(p)[Len(p)], s)
<1>1. Len(p) \in Nat /\ <<>> \in Seq(Names \cup DotSegments) /\ Len(<<>>) = 0
  OBVIOUS
<1>2. PrefixesWalked(<<>>)[0] = <<>>
  BY <1>1, PrefixesWalkedDef
<1>3. PrefixesWalked(p)[Len(p)] \in Seq(Names)
  BY <1>1, PrefixesWalkedDef
<1>4. ASSUME NEW s \in Names \cup DotSegments
      PROVE  /\ Append(p, s) \in Seq(Names \cup DotSegments)
             /\ Len(Append(p, s)) = Len(p) + 1
             /\ PrefixesWalked(Append(p, s))[Len(p) + 1] = Walked(PrefixesWalked(p)[Len(p)], s)
  <2> DEFINE u == Append(p, s)
             v == PrefixesWalked(p)
             w == PrefixesWalked(u)
             n == Len(p)
  <2>1. /\ u \in Seq(Names \cup DotSegments) /\ Len(u) = n + 1
        /\ \A i \in 1 .. n : u[i] = p[i]
        /\ u[n + 1] = s
    BY AppendProperties
  <2>2. /\ v[0] = <<>>
        /\ \A i \in 1 .. n : v[i] = Walked(v[i - 1], p[i])
    BY PrefixesWalkedDef
  <2> HIDE DEF u, v, n
  <2>3. /\ w[0] = <<>>
        /\ \A i \in 1 .. n + 1 : w[i] = Walked(w[i - 1], u[i])
    BY <2>1, PrefixesWalkedDef
  <2> HIDE DEF w
  <2>4. n \in Nat
    BY <1>1 DEF n
  <2>5. v[n] = w[n]
    <3>1. ASSUME NEW i \in 1 .. n, v[i - 1] = w[i - 1]
          PROVE  v[i] = w[i]
      <4>1. i \in 1 .. n + 1 /\ u[i] = p[i]
        BY <2>1, <2>4
      <4>2. QED
        BY <4>1, <3>1, <2>2, <2>3
    <3>2. v[0] = w[0]
      BY <2>2, <2>3
    <3>3. QED
      BY <3>1, <3>2, <2>4, Agreement
  <2>6. w[n + 1] = Walked(w[n], u[n + 1])
    <3>1. n + 1 \in 1 .. n + 1 /\ (n + 1) - 1 = n
      BY <2>4
    <3>2. QED
      BY <3>1, <2>3
  <2>7. QED
    BY <2>1, <2>5, <2>6 DEF u, v, w, n
<1>5. QED
  BY <1>2, <1>3, <1>4

-----------------------------------------------------------------------------
(* Splitting and joining.                                                  *)

\* Texts without some tokens.
Free(stops) == Seq(Tokens \ stops)

LEMMA FreeIsText ==
  ASSUME NEW stops, NEW s \in Free(stops)
  PROVE  s \in Text
BY SeqMonotonic DEF Free, Text

LEMMA ConcatAppend ==
  ASSUME NEW D, NEW a \in Seq(D), NEW b \in Seq(D), NEW x \in D
  PROVE  /\ a \o b \in Seq(D)
         /\ Append(b, x) \in Seq(D)
         /\ a \o Append(b, x) = Append(a \o b, x)
         /\ a \o <<x>> = Append(a, x)
<1>1. /\ a \o b \in Seq(D) /\ Append(b, x) \in Seq(D) /\ <<x>> \in Seq(D)
      /\ Append(b, x) = b \o <<x>>
      /\ Append(a, x) = a \o <<x>>
  BY ConcatProperties, AppendProperties, AppendIsConcat, Singleton
<1>2. Append(a \o b, x) = (a \o b) \o <<x>>
  BY <1>1, AppendIsConcat
<1>3. (a \o b) \o <<x>> = a \o (b \o <<x>>)
  BY <1>1, ConcatAssociative
<1>4. QED
  BY <1>1, <1>2, <1>3

LEMMA JoinedSplit ==
  ASSUME NEW t \in Text
  PROVE  Joined(SplitOn(t, "/")) = t
<1> DEFINE S == {u \in Text : Joined(SplitOn(u, "/")) = u}
<1>1. <<>> \in S
  <2>1. <<>> \in Text /\ <<>> \in Seq(Text) /\ <<<<>>>> = Append(<<>>, <<>>)
    BY DEF Text
  <2>2. SplitOn(<<>>, "/") = <<<<>>>>
    BY <2>1, SplitStep
  <2>3. Joined(Append(<<>>, <<>>)) = <<>>
    BY <2>1, JoinedStep
  <2>4. QED
    BY <2>1, <2>2, <2>3
<1>2. ASSUME NEW u \in Text, NEW x \in Tokens, u \in S
      PROVE  Append(u, x) \in S
  <2> DEFINE parts == SplitOn(u, "/")
             f == Front(parts)
             l == Last(parts)
  <2>1. /\ parts \in Parts /\ Append(u, x) \in Text
        /\ SplitOn(Append(u, x), "/") = Extended(parts, x, "/")
    BY SplitStep
  <2>2. parts \in Seq(Text) /\ parts # <<>>
    BY <2>1 DEF Parts
  <2>3. f \in Seq(Text) /\ l \in Text /\ parts = Append(f, l)
    <3> HIDE DEF parts
    <3>1. QED
      BY <2>2, AppendedLast
  <2>4. Joined(parts) = u
    BY <1>2
  <2>5. "/" \in Tokens /\ <<>> \in Text /\ <<"/">> \in Text
    BY MeantTokens, Singleton, EmptySeq DEF Text, Marks
  <2> HIDE DEF parts, f, l
  <2>6. CASE x = "/"
    <3>1. Joined(Append(parts, <<>>)) = Joined(parts) \o <<"/">> \o <<>>
      BY <2>2, <2>5, JoinedStep
    <3>2. /\ u \o <<"/">> = Append(u, "/")
          /\ Append(u, "/") \o <<>> = Append(u, "/")
      BY <2>1, <2>5, <2>6, ConcatAppend, ConcatEmptySeq DEF Text
    <3>3. QED
      BY <2>1, <2>4, <2>6, <3>1, <3>2 DEF Extended
  <2>7. CASE x # "/"
    <3>1. Append(l, x) \in Text
      BY <2>3, AppendProperties DEF Text
    <3>2. /\ Joined(Append(f, Append(l, x))) =
               IF f = <<>> THEN Append(l, x) ELSE Joined(f) \o <<"/">> \o Append(l, x)
          /\ u = IF f = <<>> THEN l ELSE Joined(f) \o <<"/">> \o l
      BY <2>3, <2>4, <3>1, JoinedStep
    <3>3. Joined(f) \o <<"/">> \in Text
      BY <2>3, <2>5, JoinedStep, ConcatProperties DEF Text
    <3>4. (Joined(f) \o <<"/">>) \o Append(l, x) = Append((Joined(f) \o <<"/">>) \o l, x)
      <4> DEFINE first == Joined(f) \o <<"/">>
      <4>1. first \in Seq(Tokens) /\ l \in Seq(Tokens) /\ x \in Tokens
        BY <2>3, <3>3 DEF Text
      <4> HIDE DEF first
      <4>2. first \o Append(l, x) = Append(first \o l, x)
        BY <4>1, ConcatAppend
      <4>3. QED
        BY <4>2 DEF first
    <3>5. Joined(Append(f, Append(l, x))) = Append(u, x)
      BY <3>2, <3>4
    <3>6. QED
      BY <2>1, <2>7, <3>5 DEF Extended, f, l
  <2>8. QED
    BY <2>6, <2>7
<1>3. Text \subseteq S
  <2> HIDE DEF S
  <2>1. QED
    BY <1>1, <1>2, InductionOnSeq DEF Text
<1>4. QED
  BY <1>3

\* No part has the separator, or a token that the text has not.
LEMMA SplitFree ==
  ASSUME NEW stops, NEW sep, NEW t \in Free(stops)
  PROVE  SplitOn(t, sep) \in Seq(Free(stops \cup {sep}))
<1> DEFINE D == Tokens \ stops
           E == Free(stops \cup {sep})
           S == {u \in Seq(D) : SplitOn(u, sep) \in Seq(E)}
<1>1. <<>> \in S
  <2>1. <<>> \in Text /\ <<>> \in E /\ <<>> \in Seq(D)
    BY DEF Text, Free
  <2>2. SplitOn(<<>>, sep) = <<<<>>>>
    BY <2>1, SplitStep
  <2>3. <<<<>>>> \in Seq(E)
    BY <2>1, Singleton
  <2>4. QED
    BY <2>1, <2>2, <2>3
<1>2. ASSUME NEW u \in Seq(D), NEW x \in D, u \in S
      PROVE  Append(u, x) \in S
  <2> DEFINE parts == SplitOn(u, sep)
  <2>1. u \in Text /\ x \in Tokens /\ Append(u, x) \in Seq(D)
    BY SeqMonotonic, AppendProperties DEF Text
  <2>2. parts \in Parts /\ SplitOn(Append(u, x), sep) = Extended(parts, x, sep)
    BY <2>1, SplitStep
  <2>3. parts \in Seq(E) /\ parts # <<>>
    BY <1>2, <2>2 DEF Parts
  <2> HIDE DEF parts
  <2>4. Front(parts) \in Seq(E) /\ Last(parts) \in E
    BY <2>3, AppendedLast
  <2>5. x # sep => Append(Last(parts), x) \in E
    BY <2>4, AppendProperties DEF Free
  <2>6. <<>> \in E
    BY DEF Free
  <2> HIDE DEF E
  <2>7. Extended(parts, x, sep) \in Seq(E)
    BY <2>3, <2>4, <2>5, <2>6, AppendProperties DEF Extended
  <2>8. QED
    BY <2>1, <2>2, <2>7
<1>3. Seq(D) \subseteq S
  <2> HIDE DEF S, D
  <2>1. QED
    BY <1>1, <1>2, InductionOnSeq
<1>4. QED
  BY <1>3 DEF Free

LEMMA SplitWhole ==
  ASSUME NEW sep, NEW s \in Free({sep})
  PROVE  SplitOn(s, sep) = <<s>>
<1> DEFINE D == Tokens \ {sep}
           S == {u \in Seq(D) : SplitOn(u, sep) = <<u>>}
<1>1. <<>> \in S
  <2>1. <<>> \in Text /\ <<>> \in Seq(D)
    BY DEF Text
  <2>2. QED
    BY <2>1, SplitStep
<1>2. ASSUME NEW u \in Seq(D), NEW x \in D, u \in S
      PROVE  Append(u, x) \in S
  <2>1. u \in Text /\ x \in Tokens /\ x # sep /\ Append(u, x) \in Seq(D)
    BY SeqMonotonic, AppendProperties DEF Text
  <2>2. SplitOn(Append(u, x), sep) = Append(Front(<<u>>), Append(Last(<<u>>), x))
    <3>1. SplitOn(Append(u, x), sep) = Extended(SplitOn(u, sep), x, sep)
      BY <2>1, SplitStep
    <3>2. SplitOn(u, sep) = <<u>>
      BY <1>2
    <3>3. QED
      BY <2>1, <3>1, <3>2 DEF Extended
  <2>3. <<u>> = Append(<<>>, u) /\ <<>> \in Seq(Text)
    OBVIOUS
  <2>4. Front(<<u>>) = <<>> /\ Last(<<u>>) = u
    BY <2>1, <2>3, FrontOfAppended
  <2>5. Append(<<>>, Append(u, x)) = <<Append(u, x)>>
    OBVIOUS
  <2>6. QED
    BY <2>1, <2>2, <2>4, <2>5
<1>3. Seq(D) \subseteq S
  <2> HIDE DEF S, D
  <2>1. QED
    BY <1>1, <1>2, InductionOnSeq
<1>4. QED
  BY <1>3 DEF Free

\* A separator and what follows it, when there is none in that, are one more part.
LEMMA SplitMore ==
  ASSUME NEW sep \in Tokens, NEW t \in Text, NEW s \in Free({sep})
  PROVE  /\ t \o <<sep>> \o s \in Text
         /\ SplitOn(t \o <<sep>> \o s, sep) = Append(SplitOn(t, sep), s)
<1> DEFINE D == Tokens \ {sep}
           c == t \o <<sep>>
           parts == SplitOn(t, sep)
           S == {u \in Seq(D) : SplitOn(c \o u, sep) = Append(parts, u)}
<1>1. c \in Text /\ c = Append(t, sep)
  BY ConcatAppend, AppendProperties DEF Text
<1>2. parts \in Seq(Text)
  BY SplitStep DEF Parts
<1>3. <<>> \in S
  <2>1. <<>> \in Seq(D) /\ c \o <<>> = c
    BY <1>1, ConcatEmptySeq DEF Text
  <2>2. SplitOn(c, sep) = Append(parts, <<>>)
    <3>1. SplitOn(Append(t, sep), sep) = Extended(parts, sep, sep)
      BY SplitStep
    <3>2. QED
      BY <1>1, <3>1 DEF Extended
  <2>3. QED
    BY <2>1, <2>2
<1>4. ASSUME NEW u \in Seq(D), NEW x \in D, u \in S
      PROVE  Append(u, x) \in S
  <2> HIDE DEF c, parts
  <2>1. u \in Text /\ x \in Tokens /\ x # sep /\ Append(u, x) \in Seq(D)
    BY SeqMonotonic, AppendProperties DEF Text
  <2>2. c \o u \in Text /\ c \o Append(u, x) = Append(c \o u, x)
    BY <1>1, <2>1, ConcatAppend DEF Text
  <2>3. SplitOn(Append(c \o u, x), sep) = Extended(Append(parts, u), x, sep)
    BY <1>4, <2>1, <2>2, SplitStep
  <2>4. Extended(Append(parts, u), x, sep) = Append(parts, Append(u, x))
    BY <1>2, <2>1, FrontOfAppended DEF Extended
  <2>5. QED
    BY <2>1, <2>2, <2>3, <2>4
<1>5. Seq(D) \subseteq S
  <2> HIDE DEF S, D
  <2>1. QED
    BY <1>3, <1>4, InductionOnSeq
<1>6. c \o s \in Text
  BY <1>1, FreeIsText, ConcatProperties DEF Text
<1>7. QED
  BY <1>5, <1>6 DEF Free

LEMMA ExtendedAfter ==
  ASSUME NEW first \in Seq(Text), NEW parts \in Parts, NEW x \in Tokens, NEW sep
  PROVE  Extended(first \o parts, x, sep) = first \o Extended(parts, x, sep)
<1>1. parts \in Seq(Text) /\ parts # <<>> /\ <<>> \in Text
  BY DEF Parts, Text
<1>2. \A a, b \in Seq(Text), y \in Text :
        a \o b \in Seq(Text) /\ a \o Append(b, y) = Append(a \o b, y)
  BY ConcatAppend
<1>3. \A a \in Seq(Text), y \in Text : Front(Append(a, y)) = a /\ Last(Append(a, y)) = y
  BY FrontOfAppended
<1>4. CASE x = sep
  <2>1. Append(first \o parts, <<>>) = first \o Append(parts, <<>>)
    BY <1>1, <1>2
  <2>2. QED
    BY <1>4, <2>1 DEF Extended
<1>5. CASE x # sep
  <2> DEFINE f == Front(parts)
             l == Last(parts)
             next == Append(l, x)
  <2>1. f \in Seq(Text) /\ l \in Text /\ parts = Append(f, l)
    BY <1>1, AppendedLast
  <2> HIDE DEF f, l
  <2>2. next \in Text
    BY <2>1, AppendProperties DEF Text
  <2> HIDE DEF next
  <2>3. first \o parts = Append(first \o f, l) /\ first \o f \in Seq(Text)
    BY <2>1, <1>2
  <2>4. Front(first \o parts) = first \o f /\ Last(first \o parts) = l
    BY <2>1, <2>3, <1>3
  <2>5. Append(first \o f, next) = first \o Append(f, next)
    BY <2>1, <2>2, <1>2, Zenon
  <2>6. QED
    BY <1>5, <2>4, <2>5 DEF Extended, f, l, next
<1>6. QED
  BY <1>4, <1>5

\* A part and a separator in front.
LEMMA SplitAfter ==
  ASSUME NEW sep \in Tokens, NEW s \in Free({sep}), NEW t \in Text
  PROVE  SplitOn((s \o <<sep>>) \o t, sep) = <<s>> \o SplitOn(t, sep)
<1> DEFINE c == s \o <<sep>>
           S == {u \in Text : SplitOn(c \o u, sep) = <<s>> \o SplitOn(u, sep)}
<1>1. s \in Text /\ c \in Text /\ c = Append(s, sep) /\ <<s>> \in Seq(Text) /\ <<>> \in Text
  BY FreeIsText, Singleton, ConcatAppend, AppendProperties DEF Text
<1>2. <<>> \in S
  <2>1. c \o <<>> = c
    BY <1>1, ConcatEmptySeq DEF Text
  <2>2. SplitOn(c, sep) = Append(<<s>>, <<>>)
    <3>1. SplitOn(Append(s, sep), sep) = Extended(SplitOn(s, sep), sep, sep)
      BY <1>1, SplitStep
    <3>2. QED
      BY <1>1, <3>1, SplitWhole DEF Extended
  <2>3. Append(<<s>>, <<>>) = <<s>> \o <<<<>>>>
    BY <1>1, AppendIsConcat
  <2>4. SplitOn(<<>>, sep) = <<<<>>>>
    BY <1>1, SplitStep
  <2>5. QED
    BY <1>1, <2>1, <2>2, <2>3, <2>4
<1>3. ASSUME NEW u \in Text, NEW x \in Tokens, u \in S
      PROVE  Append(u, x) \in S
  <2> DEFINE parts == SplitOn(u, sep)
             one == <<s>>
  <2> HIDE DEF c
  <2>1. Append(u, x) \in Text /\ c \o u \in Text /\ c \o Append(u, x) = Append(c \o u, x)
    BY <1>1, ConcatAppend DEF Text
  <2>2. parts \in Parts /\ SplitOn(Append(u, x), sep) = Extended(parts, x, sep)
    BY SplitStep
  <2>3. SplitOn(Append(c \o u, x), sep) = Extended(one \o parts, x, sep)
    <3>1. SplitOn(c \o u, sep) = one \o parts
      BY <1>3
    <3>2. SplitOn(Append(c \o u, x), sep) = Extended(SplitOn(c \o u, sep), x, sep)
      BY <2>1, SplitStep
    <3>3. QED
      BY <3>1, <3>2
  <2> HIDE DEF parts, one
  <2>4. Extended(one \o parts, x, sep) = one \o Extended(parts, x, sep)
    <3>1. one \in Seq(Text)
      BY <1>1 DEF one
    <3>2. QED
      BY <2>2, <3>1, ExtendedAfter
  <2>5. QED
    BY <2>1, <2>2, <2>3, <2>4 DEF parts, one
<1>4. Text \subseteq S
  <2> HIDE DEF S
  <2>1. QED
    BY <1>2, <1>3, InductionOnSeq DEF Text
<1>5. QED
  BY <1>4

LEMMA SplitJoined ==
  ASSUME NEW p \in Seq(Free({"/"})), p # <<>>
  PROVE  SplitOn(Joined(p), "/") = p
<1> DEFINE D == Free({"/"})
           S == {q \in Seq(D) : q # <<>> => SplitOn(Joined(q), "/") = q}
<1>1. <<>> \in S
  OBVIOUS
<1>2. ASSUME NEW q \in Seq(D), NEW s \in D, q \in S
      PROVE  Append(q, s) \in S
  <2>1. Append(q, s) \in Seq(D)
    BY AppendProperties
  <2>2. q \in Seq(Text) /\ s \in Text
    BY FreeIsText, SeqMonotonic
  <2>3. Joined(q) \in Text
        /\ Joined(Append(q, s)) = IF q = <<>> THEN s ELSE Joined(q) \o <<"/">> \o s
    BY <2>2, JoinedStep
  <2>4. CASE q = <<>>
    <3>1. Append(q, s) = <<s>>
      BY <2>4
    <3>2. QED
      BY <2>1, <2>3, <2>4, <3>1, SplitWhole
  <2>5. CASE q # <<>>
    <3>1. SplitOn(Joined(q) \o <<"/">> \o s, "/") = Append(SplitOn(Joined(q), "/"), s)
      <4>1. "/" \in Tokens
        BY MeantTokens DEF Marks
      <4>2. QED
        BY <2>3, <4>1, SplitMore
    <3>2. QED
      BY <1>2, <2>1, <2>3, <2>5, <3>1
  <2>6. QED
    BY <2>4, <2>5
<1>3. Seq(D) \subseteq S
  <2> HIDE DEF S, D
  <2>1. QED
    BY <1>1, <1>2, InductionOnSeq
<1>4. QED
  BY <1>3

-----------------------------------------------------------------------------
(* Normalising a path.                                                     *)

LEMMA WalkNames ==
  ASSUME NEW Names, Names \cap DotSegments = {}, NEW p \in Seq(Names)
  PROVE  PrefixesWalked(p)[Len(p)] = p
<1> DEFINE S == {q \in Seq(Names) : PrefixesWalked(q)[Len(q)] = q}
<1>1. <<>> \in S
  <2>1. <<>> \in Seq(Names \cup DotSegments) /\ <<>> \in Seq(Names) /\ Len(<<>>) = 0
    OBVIOUS
  <2>2. PrefixesWalked(<<>>)[0] = <<>>
    BY <2>1, WalkStep
  <2>3. QED
    BY <2>1, <2>2
<1>2. ASSUME NEW q \in Seq(Names), NEW s \in Names, q \in S
      PROVE  Append(q, s) \in S
  <2>1. /\ q \in Seq(Names \cup DotSegments) /\ s \in Names \cup DotSegments
        /\ Append(q, s) \in Seq(Names)
    BY SeqMonotonic, AppendProperties
  <2>2. /\ Len(Append(q, s)) = Len(q) + 1
        /\ PrefixesWalked(Append(q, s))[Len(q) + 1] = Walked(PrefixesWalked(q)[Len(q)], s)
    BY <2>1, WalkStep
  <2>3. s \notin DotSegments
    OBVIOUS
  <2>4. Walked(q, s) = Append(q, s)
    BY <2>3 DEF Walked, DotSegments
  <2>5. QED
    BY <1>2, <2>1, <2>2, <2>4
<1>3. Seq(Names) \subseteq S
  <2> HIDE DEF S
  <2>1. QED
    BY <1>1, <1>2, InductionOnSeq
<1>4. QED
  BY <1>3

\* What is encoded becomes a token that is not, and that means nothing.
LEMMA EscapeFacts ==
  ASSUME NEW x \in DOMAIN Escape
  PROVE  /\ Escape[x] \in Tokens
         /\ Escape[x] \notin DOMAIN Escape
         /\ Escape[x] \notin Forbidden /\ Escape[x] \notin Dropped
         /\ Escape[x] \notin Dots /\ Escape[x] \notin Marks
BY TokensAssumption DEF Meaningful

LEMMA EncodedType ==
  ASSUME NEW stops, NEW escaped, escaped \subseteq DOMAIN Escape,
         \A x \in escaped : Escape[x] \notin stops, NEW s \in Free(stops)
  PROVE  /\ Encoded(s, escaped) \in Free(stops \cup escaped)
         /\ Encoded(s, escaped) \in DotSegments => s \in DotSegments
         /\ s \in Free(escaped) => Encoded(s, escaped) = s
<1> DEFINE e(i) == IF s[i] \in escaped THEN Escape[s[i]] ELSE s[i]
           t == Encoded(s, escaped)
<1>1. /\ Len(s) \in Nat /\ DOMAIN s = 1 .. Len(s)
      /\ \A i \in 1 .. Len(s) : s[i] \in Tokens \ stops
  BY ElementOfSeq, LenProperties DEF Free
<1>2. \A i \in 1 .. Len(s) : e(i) \in Tokens \ (stops \cup escaped)
  <2>1. \A x \in escaped : Escape[x] \in Tokens \ (stops \cup escaped)
    BY EscapeFacts
  <2>2. QED
    BY <1>1, <2>1
<1>3. t = [i \in 1 .. Len(s) |-> e(i)]
  BY <1>1 DEF Encoded
<1>4. t \in Free(stops \cup escaped)
  <2> DEFINE n == Len(s)
             D == Tokens \ (stops \cup escaped)
             f == [i \in 1 .. n |-> e(i)]
  <2> HIDE DEF e, D, t
  <2>1. f \in [1 .. n -> D]
    BY <1>2 DEF D
  <2>2. f \in Seq(D)
    <3> HIDE DEF f, n
    <3>1. n \in Nat
      BY <1>1 DEF n
    <3>2. QED
      BY <2>1, <3>1
  <2>3. QED
    BY <1>3, <2>2 DEF D, Free
<1>5. ASSUME \A i \in 1 .. Len(s) : e(i) = s[i]
      PROVE  t = s
  <2>1. s = [i \in 1 .. Len(s) |-> s[i]]
    BY <1>1 DEF Free
  <2> HIDE DEF e, t
  <2>2. QED
    BY <1>3, <1>5, <2>1
<1>6. ASSUME t \in DotSegments
      PROVE  s \in DotSegments
  <2>1. t \in Seq(Dots)
    <3>1. \A d, c \in Dots : <<d>> \in Seq(Dots) /\ <<d, c>> \in Seq(Dots)
      <4> DEFINE D == Dots
      <4> HIDE DEF D
      <4>1. \A d, c \in D : <<d>> \in Seq(D) /\ <<d, c>> \in Seq(D)
        OBVIOUS
      <4>2. QED
        BY <4>1 DEF D
    <3>2. (\E d \in Dots : t = <<d>>) \/ (\E d, c \in Dots : t = <<d, c>>)
      BY <1>6 DEF DotSegments, OneDot, TwoDots
    <3> HIDE DEF t
    <3>3. QED
      BY <3>1, <3>2
  <2>2. ASSUME NEW i \in 1 .. Len(s)
        PROVE  e(i) = s[i]
    <3>1. e(i) \in Dots
      <4> DEFINE D == Dots
      <4> HIDE DEF e, t, D
      <4>1. DOMAIN t = 1 .. Len(s) /\ t[i] = e(i)
        BY <1>3
      <4>2. t \in Seq(D)
        BY <2>1 DEF D
      <4>3. t[i] \in D
        BY <4>1, <4>2, ElementOfSeq, LenProperties
      <4>4. QED
        BY <4>1, <4>3 DEF D
    <3>2. s[i] \in escaped => Escape[s[i]] \notin Dots
      BY EscapeFacts
    <3>3. QED
      BY <3>1, <3>2
  <2>3. QED
    BY <1>5, <1>6, <2>2
<1>7. ASSUME s \in Free(escaped)
      PROVE  t = s
  <2>1. \A i \in 1 .. Len(s) : s[i] \in Tokens \ escaped
    BY <1>7, ElementOfSeq DEF Free
  <2>2. QED
    BY <1>5, <2>1
<1>8. QED
  BY <1>4, <1>6, <1>7

LEMMA NoDots ==
  /\ <<>> \notin DotSegments
  /\ \A x : x \notin Dots => <<x>> \notin DotSegments
<1>1. ASSUME NEW d, NEW c
      PROVE  <<d>> # <<>> /\ <<d, c>> # <<>> /\ \A x : <<x>> # <<d, c>> /\ (<<x>> = <<d>> => x = d)
  <2>1. Len(<<d>>) = 1 /\ Len(<<d, c>>) = 2 /\ Len(<<>>) = 0
    OBVIOUS
  <2>2. \A x : Len(<<x>>) = 1 /\ <<x>>[1] = x
    OBVIOUS
  <2>3. QED
    BY <2>1, <2>2
<1>2. QED
  BY <1>1 DEF DotSegments, OneDot, TwoDots

\* Nothing that is to be encoded and no dot segments are left.
LEMMA NormalisedType ==
  ASSUME NEW stops, \A x \in DOMAIN Escape : Escape[x] \notin stops,
         NEW p \in Seq(Free(stops)), p # <<>>
  PROVE  Normalised(p) \in Seq(Free(stops \cup DOMAIN Escape) \ DotSegments)
<1> DEFINE Names == Free(stops) \ DotSegments
           Clean == Free(stops \cup DOMAIN Escape) \ DotSegments
           path == WithoutDots(p)
           enc(s) == Encoded(s, DOMAIN Escape)
<1>1. p \in Seq(Names \cup DotSegments)
  <2>1. Free(stops) \subseteq Names \cup DotSegments
    OBVIOUS
  <2>2. QED
    BY <2>1, SeqMonotonic
<1>2. <<>> \in Names
  BY NoDots DEF Free
<1>3. path \in Seq(Names)
  <2> HIDE DEF Names
  <2>1. PrefixesWalked(p)[Len(p)] \in Seq(Names)
    BY <1>1, WalkStep
  <2>2. QED
    BY <1>2, <2>1, AppendProperties DEF WithoutDots
<1>4. ASSUME NEW i \in 1 .. Len(path)
      PROVE  enc(path[i]) \in Clean
  <2>1. path[i] \in Names
    <3> HIDE DEF Names, path
    <3>1. QED
      BY <1>3, ElementOfSeq
  <2> HIDE DEF path
  <2>2. QED
    BY <2>1, EncodedType
<1>5. Normalised(p) = [i \in 1 .. Len(path) |-> enc(path[i])]
  <2>1. DOMAIN path = 1 .. Len(path)
    <3> HIDE DEF Names, path
    <3>1. QED
      BY <1>3, LenProperties
  <2>2. QED
    BY <2>1 DEF Normalised
<1>6. Len(path) \in Nat
  <2> HIDE DEF Names, path
  <2>1. QED
    BY <1>3, LenProperties
<1>7. QED
  <2> DEFINE n == Len(path)
             e == [i \in 1 .. n |-> enc(path[i])]
  <2> HIDE DEF Clean, path, enc
  <2>1. e \in [1 .. n -> Clean]
    BY <1>4
  <2>2. e \in Seq(Clean)
    <3> HIDE DEF e, n
    <3>1. n \in Nat
      BY <1>6 DEF n
    <3>2. QED
      BY <2>1, <3>1
  <2>3. QED
    BY <1>5, <2>2 DEF Clean

LEMMA NormalisedNames ==
  ASSUME NEW p \in Seq(Free(DOMAIN Escape) \ DotSegments), p # <<>>
  PROVE  Normalised(p) = p
<1> DEFINE Names == Free(DOMAIN Escape) \ DotSegments
<1>1. PrefixesWalked(p)[Len(p)] = p
  BY WalkNames
<1>2. /\ Len(p) \in Nat \ {0} /\ DOMAIN p = 1 .. Len(p)
      /\ \A i \in 1 .. Len(p) : p[i] \in Names
      /\ p \in Seq(Names)
      /\ p = [i \in 1 .. Len(p) |-> p[i]]
  <2> HIDE DEF Names
  <2>1. p \in Seq(Names)
    BY DEF Names
  <2>2. QED
    BY <2>1, EmptySeq, LenProperties, ElementOfSeq
<1>3. Last(p) \notin DotSegments
  <2>1. Last(p) \in Names
    <3> HIDE DEF Names
    <3>1. QED
      BY <1>2, AppendedLast
  <2>2. QED
    BY <2>1
<1>4. WithoutDots(p) = p
  BY <1>1, <1>3 DEF WithoutDots
<1>5. \A i \in 1 .. Len(p) : Encoded(p[i], DOMAIN Escape) = p[i]
  <2>1. \A x \in DOMAIN Escape : Escape[x] \notin DOMAIN Escape
    BY EscapeFacts
  <2>2. \A i \in 1 .. Len(p) : p[i] \in Free(DOMAIN Escape)
    BY <1>2
  <2>3. QED
    BY <2>1, <2>2, EncodedType
<1>6. QED
  BY <1>2, <1>4, <1>5 DEF Normalised

(* Cutting a text.                                                         *)

\* A text is cut where its first part, free of the stops, ends.
LEMMA CutAt ==
  ASSUME NEW stops, NEW x \in Free(stops), NEW y \in Text, y # <<>> => y[1] \in stops
  PROVE  /\ x \o y \in Text
         /\ Before(x \o y, stops) = x
         /\ From(x \o y, stops) = y
         /\ After(x \o y, stops) = IF y = <<>> THEN <<>> ELSE Tail(y)
<1> DEFINE t == x \o y
           n == Len(x)
           m == Len(y)
<1>1. x \in Text
  BY FreeIsText
<1>2. /\ t \in Text /\ Len(t) = n + m /\ n \in Nat /\ m \in Nat
      /\ \A i \in 1 .. n + m : t[i] = IF i <= n THEN x[i] ELSE y[i - n]
      /\ y = <<>> <=> m = 0
  BY <1>1, ConcatProperties, LenProperties, EmptySeq DEF Text
<1>3. \A i \in 1 .. n : x[i] \notin stops
  BY ElementOfSeq DEF Free
<1> HIDE DEF t, n, m
<1> DEFINE Cut(k) == /\ \A i \in 1 .. k : t[i] \notin stops
                     /\ k < n + m => t[k + 1] \in stops
<1>4. n \in 0 .. n + m /\ Cut(n)
  <2>1. \A i \in 1 .. n : t[i] = x[i]
    BY <1>2
  <2>2. n < n + m => t[n + 1] = y[1] /\ y # <<>>
    BY <1>2
  <2>3. QED
    BY <1>2, <1>3, <2>1, <2>2
<1>5. ASSUME NEW k \in 0 .. n + m, Cut(k)
      PROVE  k = n
  <2>1. ~(k < n)
    <3>1. SUFFICES ASSUME k < n
                   PROVE  FALSE
      OBVIOUS
    <3>2. k + 1 \in 1 .. n /\ k < n + m
      BY <1>2, <3>1
    <3>3. QED
      BY <1>4, <1>5, <3>2
  <2>2. ~(n < k)
    <3>1. SUFFICES ASSUME n < k
                   PROVE  FALSE
      OBVIOUS
    <3>2. n + 1 \in 1 .. k /\ n < n + m
      BY <1>2, <3>1
    <3>3. QED
      BY <1>4, <1>5, <3>2
  <2>3. QED
    BY <1>2, <2>1, <2>2
<1>6. UpTo(t, stops) = n
  <2>1. UpTo(t, stops) = CHOOSE k \in 0 .. n + m : Cut(k)
    BY <1>2 DEF UpTo
  <2> HIDE DEF Cut
  <2>2. QED
    BY <1>4, <1>5, <2>1
<1>7. SubSeq(t, 1, n) = x
  <2>1. /\ SubSeq(t, 1, n) \in Text
        /\ Len(SubSeq(t, 1, n)) = n
        /\ \A i \in 1 .. n : SubSeq(t, 1, n)[i] = t[i]
    BY <1>2, SubSeqProperties DEF Text
  <2>2. QED
    BY <1>1, <1>2, <2>1, SeqEqual DEF Text, n
<1>8. SubSeq(t, n + 1, n + m) = y
  <2>1. /\ SubSeq(t, n + 1, n + m) \in Text
        /\ Len(SubSeq(t, n + 1, n + m)) = m
        /\ \A i \in 1 .. m : SubSeq(t, n + 1, n + m)[i] = t[n + i]
    BY <1>2, SubSeqProperties DEF Text
  <2>2. \A i \in 1 .. m : t[n + i] = y[i]
    BY <1>2
  <2>3. QED
    BY <1>2, <2>1, <2>2, SeqEqual DEF Text, m
<1>9. SubSeq(t, n + 2, n + m) = IF y = <<>> THEN <<>> ELSE Tail(y)
  <2>1. CASE y = <<>>
    BY <1>2, <2>1, SubSeqEmpty
  <2>2. CASE y # <<>>
    <3>1. m \in Nat \ {0}
      BY <1>2, <2>2
    <3>2. /\ Tail(y) \in Text /\ Len(Tail(y)) = m - 1
          /\ \A i \in 1 .. m - 1 : Tail(y)[i] = y[i + 1]
      BY <2>2, HeadTailProperties DEF Text, m
    <3>3. /\ SubSeq(t, n + 2, n + m) \in Text
          /\ Len(SubSeq(t, n + 2, n + m)) = m - 1
          /\ \A i \in 1 .. m - 1 : SubSeq(t, n + 2, n + m)[i] = t[n + 1 + i]
      BY <1>2, <3>1, SubSeqProperties DEF Text
    <3>4. \A i \in 1 .. m - 1 : t[n + 1 + i] = y[i + 1]
      BY <1>2, <3>1
    <3>5. QED
      BY <2>2, <3>1, <3>2, <3>3, <3>4, SeqEqual DEF Text
  <2>3. QED
    BY <2>1, <2>2
<1>10. QED
  BY <1>2, <1>6, <1>7, <1>8, <1>9 DEF Before, From, After, t

LEMMA NothingAfter ==
  ASSUME NEW stops, NEW x \in Free(stops)
  PROVE  Before(x, stops) = x /\ After(x, stops) = <<>>
<1> DEFINE y == <<>>
<1>1. x \o y = x /\ y \in Text /\ (y # <<>> => y[1] \in stops)
  BY FreeIsText, ConcatEmptySeq DEF Text
<1>2. y = <<>>
  OBVIOUS
<1> HIDE DEF y
<1>3. Before(x \o y, stops) = x /\ After(x \o y, stops) = <<>>
  BY <1>1, <1>2, CutAt
<1>4. QED
  BY <1>1, <1>3

\* Every text can be cut so.
LEMMA Cuts ==
  ASSUME NEW stops, NEW t \in Text
  PROVE  \E x \in Free(stops), y \in Text : t = x \o y /\ (y # <<>> => y[1] \in stops)
<1> DEFINE Cut(x, y, u) == u = x \o y /\ (y # <<>> => y[1] \in stops)
           S == {u \in Text : \E x \in Free(stops), y \in Text : Cut(x, y, u)}
<1>1. <<>> \in S
  <2>1. <<>> \in Free(stops) /\ <<>> \in Text /\ Cut(<<>>, <<>>, <<>>)
    BY DEF Free, Text
  <2> HIDE DEF Cut
  <2>2. QED
    BY <2>1
<1>2. ASSUME NEW u \in Text, NEW z \in Tokens, u \in S
      PROVE  Append(u, z) \in S
  <2>1. PICK x \in Free(stops), y \in Text : Cut(x, y, u)
    BY <1>2
  <2>2. x \in Text /\ Append(u, z) \in Text /\ Append(y, z) \in Text
        /\ Append(u, z) = x \o Append(y, z)
    <3>1. x \in Text /\ u = x \o y
      BY <2>1, FreeIsText
    <3>2. Append(u, z) \in Text /\ Append(y, z) \in Text
      BY AppendProperties DEF Text
    <3>3. x \o Append(y, z) = Append(x \o y, z)
      BY <3>1, ConcatAppend DEF Text
    <3>4. QED
      BY <3>1, <3>2, <3>3
  <2>3. CASE y = <<>> /\ z \notin stops
    <3>1. Append(u, z) = Append(x, z) \o <<>> /\ Append(x, z) \in Free(stops)
      <4>1. u = x
        BY <2>1, <2>2, <2>3, ConcatEmptySeq DEF Text
      <4>2. Append(x, z) \in Free(stops)
        BY <2>3, AppendProperties DEF Free
      <4>3. QED
        BY <2>2, <4>1, <4>2, ConcatEmptySeq DEF Text
    <3>2. <<>> \in Text /\ Cut(Append(x, z), <<>>, Append(u, z))
      BY <3>1 DEF Text
    <3> HIDE DEF Cut
    <3>3. QED
      BY <2>2, <3>1, <3>2
  <2>4. CASE y # <<>> \/ z \in stops
    <3>1. Append(y, z)[1] \in stops
      <4>1. CASE y = <<>>
        BY <2>4, <4>1
      <4>2. CASE y # <<>>
        <5>1. 1 \in 1 .. Len(y)
          BY <4>2, EmptySeq DEF Text
        <5>2. Append(y, z)[1] = y[1]
          BY <5>1, AppendProperties DEF Text
        <5>3. QED
          BY <2>1, <4>2, <5>2
      <4>3. QED
        BY <4>1, <4>2
    <3>2. Cut(x, Append(y, z), Append(u, z))
      BY <2>2, <3>1
    <3> HIDE DEF Cut
    <3>3. QED
      BY <2>2, <3>2
  <2>5. QED
    BY <2>3, <2>4
<1>3. Text \subseteq S
  <2> HIDE DEF S
  <2>1. QED
    BY <1>1, <1>2, InductionOnSeq DEF Text
<1>4. QED
  BY <1>3

LEMMA FreeBoth ==
  ASSUME NEW stops, NEW also, NEW t
  PROVE  /\ t \in Free(stops \cup also) <=> t \in Free(stops) /\ t \in Free(also)
         /\ t \in Free({}) <=> t \in Text
<1>1. ASSUME t \in Free(stops), t \in Free(also)
      PROVE  t \in Free(stops \cup also)
  <2> DEFINE D == Tokens \ (stops \cup also)
             n == Len(t)
  <2>1. /\ n \in Nat /\ t = [i \in 1 .. n |-> t[i]]
        /\ \A i \in 1 .. n : t[i] \in Tokens \ stops /\ t[i] \in Tokens \ also
    BY <1>1, ElementOfSeq, LenProperties DEF Free
  <2>2. \A i \in 1 .. n : t[i] \in D
    BY <2>1
  <2> HIDE DEF D, n
  <2>3. t \in Seq(D)
    BY <2>1, <2>2
  <2>4. QED
    BY <2>3 DEF D, Free
<1>2. ASSUME t \in Free(stops \cup also)
      PROVE  t \in Free(stops) /\ t \in Free(also)
  <2>1. /\ Tokens \ (stops \cup also) \subseteq Tokens \ stops
        /\ Tokens \ (stops \cup also) \subseteq Tokens \ also
    OBVIOUS
  <2>2. QED
    BY <1>2, <2>1, SeqMonotonic DEF Free
<1>3. Tokens \ {} = Tokens
  OBVIOUS
<1>4. QED
  BY <1>1, <1>2, <1>3 DEF Free, Text

LEMMA ConcatParts ==
  ASSUME NEW D, NEW x \in Text, NEW y \in Text
  PROVE  x \o y \in Seq(D) <=> x \in Seq(D) /\ y \in Seq(D)
<1> DEFINE n == Len(x)
           m == Len(y)
<1>1. /\ n \in Nat /\ m \in Nat
      /\ x = [i \in 1 .. n |-> x[i]] /\ y = [i \in 1 .. m |-> y[i]]
      /\ Len(x \o y) = n + m
      /\ \A i \in 1 .. n + m : (x \o y)[i] = IF i <= n THEN x[i] ELSE y[i - n]
  BY LenProperties, ConcatProperties DEF Text
<1>2. ASSUME x \o y \in Seq(D)
      PROVE  x \in Seq(D) /\ y \in Seq(D)
  <2>1. \A i \in 1 .. n + m : (x \o y)[i] \in D
    BY <1>1, <1>2, ElementOfSeq
  <2> HIDE DEF n, m
  <2>2. ASSUME NEW i \in 1 .. n
        PROVE  x[i] \in D
    <3>1. i \in 1 .. n + m /\ i <= n
      BY <1>1
    <3>2. QED
      BY <1>1, <2>1, <3>1
  <2>3. ASSUME NEW i \in 1 .. m
        PROVE  y[i] \in D
    <3>1. n + i \in 1 .. n + m /\ ~(n + i <= n) /\ (n + i) - n = i
      BY <1>1
    <3>2. QED
      BY <1>1, <2>1, <3>1
  <2>4. QED
    BY <1>1, <2>2, <2>3, TypedSeq
<1>3. x \in Seq(D) /\ y \in Seq(D) => x \o y \in Seq(D)
  BY ConcatProperties
<1>4. QED
  BY <1>2, <1>3

LEMMA CutFree ==
  ASSUME NEW stops, NEW also, NEW t \in Free(also)
  PROVE  /\ Before(t, stops) \in Free(stops \cup also)
         /\ From(t, stops) \in Free(also)
         /\ After(t, stops) \in Free(also)
<1>1. t \in Text
  BY FreeIsText
<1>2. PICK x \in Free(stops), y \in Text : t = x \o y /\ (y # <<>> => y[1] \in stops)
  BY <1>1, Cuts
<1>3. x \in Text
  BY FreeIsText
<1>4. x \in Free(also) /\ y \in Free(also)
  BY <1>2, <1>3, ConcatParts DEF Free
<1>5. x \in Free(stops \cup also)
  BY <1>4, FreeBoth
<1>6. y # <<>> => Tail(y) \in Free(also)
  BY <1>4, HeadTailProperties DEF Free
<1>7. <<>> \in Free(also)
  BY DEF Free
<1>8. QED
  BY <1>2, <1>4, <1>5, <1>6, <1>7, CutAt

-----------------------------------------------------------------------------
(* What is kept of a text.                                                 *)

LEMMA AppendParts ==
  ASSUME NEW D, NEW E, NEW p \in Seq(E), NEW x \in E, Append(p, x) \in Seq(D)
  PROVE  p \in Seq(D) /\ x \in D
<1> DEFINE t == Append(p, x)
           n == Len(p)
<1>1. /\ n \in Nat /\ p = [i \in 1 .. n |-> p[i]]
      /\ Len(t) = n + 1 /\ t[n + 1] = x /\ \A i \in 1 .. n : t[i] = p[i]
  BY AppendProperties, LenProperties
<1>2. \A i \in 1 .. n + 1 : t[i] \in D
  <2> HIDE DEF n
  <2>1. t \in Seq(D) /\ Len(t) = n + 1
    BY <1>1
  <2> HIDE DEF t
  <2>2. QED
    BY <2>1, ElementOfSeq
<1> HIDE DEF t, n
<1>3. x \in D /\ \A i \in 1 .. n : p[i] \in D
  BY <1>1, <1>2
<1>4. QED
  BY <1>1, <1>3, TypedSeq

LEMMA KeptWithType ==
  ASSUME NEW kept \in Free(Dropped), NEW x \in Tokens
  PROVE  KeptWith(kept, x) \in Free(Dropped)
BY AppendProperties DEF KeptWith, Free

LEMMA PrefixesKeptDef ==
  ASSUME NEW p \in Text
  PROVE  /\ PrefixesKept(p) \in [0 .. Len(p) -> Free(Dropped)]
         /\ PrefixesKept(p)[0] = <<>>
         /\ \A i \in 1 .. Len(p) :
              PrefixesKept(p)[i] = KeptWith(PrefixesKept(p)[i - 1], p[i])
<1> DEFINE step == [i \in 1 .. Len(p) |-> [t \in Free(Dropped) |-> KeptWith(t, p[i])]]
<1>1. /\ Len(p) \in Nat
      /\ \A i \in 1 .. Len(p) : p[i] \in Tokens
  BY ElementOfSeq, LenProperties DEF Text
<1>2. <<>> \in Free(Dropped)
  BY DEF Free
<1>3. step \in [1 .. Len(p) -> [Free(Dropped) -> Free(Dropped)]]
  BY <1>1, KeptWithType
<1>4. PICK v \in [0 .. Len(p) -> Free(Dropped)] :
        /\ v[0] = <<>>
        /\ \A i \in 1 .. Len(p) : v[i] = step[i][v[i - 1]]
  <2> HIDE DEF step
  <2> DEFINE n == Len(p)
             base == <<>>
             D == Free(Dropped)
  <2>1. n \in Nat /\ base \in D /\ step \in [1 .. n -> [D -> D]]
    BY <1>1, <1>2, <1>3
  <2> HIDE DEF n, base, D
  <2>2. \E v : Solves(v, D, base, n, step)
    BY <2>1, Recursion
  <2>3. QED
    BY <2>2 DEF Solves, n, base, D
<1>5. ASSUME NEW i \in 1 .. Len(p)
      PROVE  v[i] = KeptWith(v[i - 1], p[i])
  <2>1. i - 1 \in 0 .. Len(p)
    BY <1>1
  <2>2. v[i - 1] \in Free(Dropped)
    BY <2>1
  <2>3. QED
    BY <1>4, <2>2
<1>6. v = [i \in 0 .. Len(p) |-> IF i = 0 THEN <<>> ELSE KeptWith(v[i - 1], p[i])]
  <2>1. \A i \in 0 .. Len(p) : i # 0 => i \in 1 .. Len(p)
    BY <1>1
  <2>2. \A i \in 0 .. Len(p) :
          v[i] = IF i = 0 THEN <<>> ELSE KeptWith(v[i - 1], p[i])
    BY <1>4, <1>5, <2>1
  <2>3. v = [i \in 0 .. Len(p) |-> v[i]]
    OBVIOUS
  <2>4. QED
    BY <2>2, <2>3
<1> DEFINE w == PrefixesKept(p)
<1>7. w = [i \in 0 .. Len(p) |-> IF i = 0 THEN <<>> ELSE KeptWith(w[i - 1], p[i])]
  BY <1>6 DEF PrefixesKept
<1>8. /\ w[0] = <<>>
      /\ \A i \in 1 .. Len(p) : w[i] = KeptWith(w[i - 1], p[i])
  <2> HIDE DEF w
  <2>1. 0 \in 0 .. Len(p) /\ \A i \in 1 .. Len(p) : i \in 0 .. Len(p) /\ i # 0
    BY <1>1
  <2>2. QED
    BY <1>7, <2>1
<1>9. w \in [0 .. Len(p) -> Free(Dropped)]
  <2> HIDE DEF w
  <2>1. ASSUME NEW i \in 1 .. Len(p), w[i - 1] \in Free(Dropped)
        PROVE  w[i] \in Free(Dropped)
    BY <2>1, <1>1, <1>8, KeptWithType
  <2>2. \A i \in 0 .. Len(p) : w[i] \in Free(Dropped)
    BY <2>1, <1>1, <1>2, <1>8, Propagation
  <2>3. QED
    BY <2>2, <1>7
<1>10. QED
  BY <1>8, <1>9

LEMMA KeptStep ==
  ASSUME NEW p \in Text
  PROVE  /\ PrefixesKept(p)[Len(p)] \in Free(Dropped)
         /\ PrefixesKept(<<>>)[0] = <<>>
         /\ \A s \in Tokens :
              /\ Append(p, s) \in Text
              /\ Len(Append(p, s)) = Len(p) + 1
              /\ PrefixesKept(Append(p, s))[Len(p) + 1] = KeptWith(PrefixesKept(p)[Len(p)], s)
<1>1. Len(p) \in Nat /\ <<>> \in Text /\ Len(<<>>) = 0
  BY DEF Text
<1>2. PrefixesKept(<<>>)[0] = <<>>
  BY <1>1, PrefixesKeptDef
<1>3. PrefixesKept(p)[Len(p)] \in Free(Dropped)
  BY <1>1, PrefixesKeptDef
<1>4. ASSUME NEW s \in Tokens
      PROVE  /\ Append(p, s) \in Text
             /\ Len(Append(p, s)) = Len(p) + 1
             /\ PrefixesKept(Append(p, s))[Len(p) + 1] = KeptWith(PrefixesKept(p)[Len(p)], s)
  <2> DEFINE u == Append(p, s)
             v == PrefixesKept(p)
             w == PrefixesKept(u)
             n == Len(p)
  <2>1. /\ u \in Text /\ Len(u) = n + 1
        /\ \A i \in 1 .. n : u[i] = p[i]
        /\ u[n + 1] = s
    BY AppendProperties DEF Text
  <2>2. /\ v[0] = <<>>
        /\ \A i \in 1 .. n : v[i] = KeptWith(v[i - 1], p[i])
    BY PrefixesKeptDef
  <2> HIDE DEF u, v, n
  <2>3. /\ w[0] = <<>>
        /\ \A i \in 1 .. n + 1 : w[i] = KeptWith(w[i - 1], u[i])
    BY <2>1, PrefixesKeptDef
  <2> HIDE DEF w
  <2>4. n \in Nat
    BY <1>1 DEF n
  <2>5. v[n] = w[n]
    <3>1. ASSUME NEW i \in 1 .. n, v[i - 1] = w[i - 1]
          PROVE  v[i] = w[i]
      <4>1. i \in 1 .. n + 1 /\ u[i] = p[i]
        BY <2>1, <2>4
      <4>2. QED
        BY <4>1, <3>1, <2>2, <2>3
    <3>2. v[0] = w[0]
      BY <2>2, <2>3
    <3>3. QED
      BY <3>1, <3>2, <2>4, Agreement
  <2>6. w[n + 1] = KeptWith(w[n], u[n + 1])
    <3>1. n + 1 \in 1 .. n + 1 /\ (n + 1) - 1 = n
      BY <2>4
    <3>2. QED
      BY <3>1, <2>3
  <2>7. QED
    BY <2>1, <2>5, <2>6 DEF u, v, w, n
<1>5. QED
  BY <1>2, <1>3, <1>4

\* What is kept of a text, one token at a time.
LEMMA KeptAppend ==
  /\ Kept(<<>>) = <<>>
  /\ \A t \in Text : Kept(t) \in Free(Dropped)
  /\ \A t \in Text, x \in Tokens :
       Append(t, x) \in Text /\ Kept(Append(t, x)) = KeptWith(Kept(t), x)
<1>1. <<>> \in Text /\ Len(<<>>) = 0
  BY DEF Text
<1>2. Kept(<<>>) = <<>>
  BY <1>1, KeptStep DEF Kept
<1>3. \A t \in Text : Kept(t) \in Free(Dropped)
  BY KeptStep DEF Kept
<1>4. ASSUME NEW t \in Text, NEW x \in Tokens
      PROVE  Append(t, x) \in Text /\ Kept(Append(t, x)) = KeptWith(Kept(t), x)
  <2>1. /\ Append(t, x) \in Text /\ Len(Append(t, x)) = Len(t) + 1
        /\ PrefixesKept(Append(t, x))[Len(t) + 1] = KeptWith(PrefixesKept(t)[Len(t)], x)
    BY KeptStep
  <2>2. QED
    BY <2>1 DEF Kept
<1>5. QED
  BY <1>2, <1>3, <1>4

\* Parts of a text are kept as they would be alone.
LEMMA KeptConcat ==
  ASSUME NEW a \in Text, NEW b \in Text
  PROVE  a \o b \in Text /\ Kept(a \o b) = Kept(a) \o Kept(b)
<1> DEFINE S == {u \in Text : a \o u \in Text /\ Kept(a \o u) = Kept(a) \o Kept(u)}
<1>1. <<>> \in S
  <2>1. <<>> \in Text /\ a \o <<>> = a
    BY ConcatEmptySeq DEF Text
  <2>2. Kept(a) \in Text
    BY KeptAppend, FreeIsText
  <2>3. Kept(a) \o <<>> = Kept(a)
    BY <2>2, ConcatEmptySeq DEF Text
  <2>4. Kept(<<>>) = <<>>
    BY KeptAppend
  <2>5. QED
    BY <2>1, <2>3, <2>4
<1>2. ASSUME NEW u \in Text, NEW x \in Tokens, u \in S
      PROVE  Append(u, x) \in S
  <2>1. /\ a \o u \in Text /\ Append(u, x) \in Text
        /\ a \o Append(u, x) = Append(a \o u, x)
    BY ConcatAppend DEF Text
  <2>2. Kept(a \o Append(u, x)) = KeptWith(Kept(a) \o Kept(u), x)
    BY <1>2, <2>1, KeptAppend
  <2>3. Kept(a) \in Text /\ Kept(u) \in Text
    BY KeptAppend, FreeIsText
  <2>4. Kept(a) \o Append(Kept(u), x) = Append(Kept(a) \o Kept(u), x)
    BY <2>3, ConcatAppend DEF Text
  <2>5. KeptWith(Kept(a) \o Kept(u), x) = Kept(a) \o KeptWith(Kept(u), x)
    BY <2>4 DEF KeptWith
  <2>6. Kept(Append(u, x)) = KeptWith(Kept(u), x)
    BY KeptAppend
  <2>7. Append(a \o u, x) \in Text
    BY <2>1, KeptAppend
  <2>8. QED
    BY <2>1, <2>2, <2>5, <2>6, <2>7
<1>3. Text \subseteq S
  <2> HIDE DEF S
  <2>1. QED
    BY <1>1, <1>2, InductionOnSeq DEF Text
<1>4. QED
  BY <1>3

\* Nothing is added, and a text with nothing to drop is kept whole.
LEMMA KeptFree ==
  ASSUME NEW stops, NEW t \in Free(stops)
  PROVE  /\ Kept(t) \in Free(stops) /\ Kept(t) \in Free(Dropped)
         /\ t \in Free(Dropped) => Kept(t) = t
<1> DEFINE D == Tokens \ stops
           S == {u \in Seq(D) : Kept(u) \in Seq(D) /\ (u \in Free(Dropped) => Kept(u) = u)}
<1>1. <<>> \in S
  <2>1. <<>> \in Seq(D)
    OBVIOUS
  <2>2. QED
    BY <2>1, KeptAppend
<1>2. ASSUME NEW u \in Seq(D), NEW x \in D, u \in S
      PROVE  Append(u, x) \in S
  <2>1. u \in Text /\ Append(u, x) \in Seq(D)
    BY FreeIsText, AppendProperties DEF Free
  <2>2. Kept(Append(u, x)) = KeptWith(Kept(u), x)
    BY <2>1, KeptAppend
  <2>3. KeptWith(Kept(u), x) \in Seq(D)
    BY <1>2, AppendProperties DEF KeptWith
  <2>4. ASSUME Append(u, x) \in Free(Dropped)
        PROVE  KeptWith(Kept(u), x) = Append(u, x)
    <3>1. u \in Seq(Tokens \ Dropped) /\ x \in Tokens \ Dropped
      <4>1. u \in Seq(Tokens) /\ x \in Tokens
        BY <2>1 DEF Text
      <4>2. Append(u, x) \in Seq(Tokens \ Dropped)
        BY <2>4 DEF Free
      <4>3. QED
        BY <4>1, <4>2, AppendParts
    <3>2. Kept(u) = u
      BY <1>2, <3>1 DEF Free
    <3>3. QED
      BY <3>1, <3>2 DEF KeptWith
  <2>5. QED
    BY <2>1, <2>2, <2>3, <2>4
<1>3. Seq(D) \subseteq S
  <2> HIDE DEF D, S
  <2>1. QED
    BY <1>1, <1>2, InductionOnSeq
<1>4. t \in S
  BY <1>3 DEF Free
<1>5. Kept(t) \in Free(Dropped)
  BY FreeIsText, KeptAppend
<1>6. QED
  BY <1>4, <1>5 DEF Free

-----------------------------------------------------------------------------
(* What UrlParse makes of a text.                                          *)

AuthorityStops == {"/", "?", "#"}
HostStops ==
  (({":"} \cup ({"@"} \cup (AuthorityStops \cup Dropped))) \cup Forbidden) \cup HostEscaped
SegmentStops == ({"/"} \cup ({"?", "#"} \cup Dropped)) \cup DOMAIN Escape
UrlType == [host : Free(HostStops),
            path : Seq(Free(SegmentStops) \ DotSegments),
            query : Free({"#"})]

LEMMA FirstOf ==
  ASSUME NEW D, NEW x \in D, NEW y \in Seq(D)
  PROVE  /\ <<x>> \o y \in Seq(D) /\ <<x>> \o y # <<>>
         /\ (<<x>> \o y)[1] = x
         /\ Tail(<<x>> \o y) = y
<1> DEFINE t == <<x>> \o y
           n == Len(y)
<1>1. <<x>> \in Seq(D) /\ Len(<<x>>) = 1 /\ <<x>>[1] = x
  BY Singleton
<1>2. /\ n \in Nat /\ t \in Seq(D) /\ Len(t) = 1 + n
      /\ \A i \in 1 .. 1 + n : t[i] = IF i <= 1 THEN <<x>>[i] ELSE y[i - 1]
  BY <1>1, ConcatProperties, LenProperties
<1> HIDE DEF t, n
<1>3. t # <<>> /\ t[1] = x
  <2>1. 1 \in 1 .. 1 + n /\ Len(t) # 0
    BY <1>2
  <2>2. QED
    BY <1>1, <1>2, <2>1
<1>4. /\ Tail(t) \in Seq(D) /\ Len(Tail(t)) = n
      /\ \A i \in 1 .. n : Tail(t)[i] = t[i + 1]
  BY <1>2, <1>3, HeadTailProperties
<1>5. ASSUME NEW i \in 1 .. n
      PROVE  Tail(t)[i] = y[i]
  <2>1. i + 1 \in 1 .. 1 + n /\ ~(i + 1 <= 1) /\ (i + 1) - 1 = i
    BY <1>2
  <2>2. QED
    BY <1>2, <1>4, <2>1
<1>6. Tail(t) = y
  BY <1>4, <1>5, SeqEqual DEF n
<1>7. QED
  BY <1>2, <1>3, <1>6 DEF t

\* What follows the last separator.
LEMMA LastPart ==
  ASSUME NEW stops, NEW t \in Free(stops), NEW sep
  PROVE  /\ Last(SplitOn(t, sep)) \in Free({sep} \cup stops)
         /\ t \in Free({sep}) => Last(SplitOn(t, sep)) = t
<1>1. SplitOn(t, sep) \in Seq(Free(stops \cup {sep})) /\ SplitOn(t, sep) # <<>>
  BY FreeIsText, SplitFree, SplitStep DEF Parts
<1>2. Last(SplitOn(t, sep)) \in Free(stops \cup {sep})
  BY <1>1, AppendedLast
<1>3. stops \cup {sep} = {sep} \cup stops
  OBVIOUS
<1>4. ASSUME t \in Free({sep})
      PROVE  Last(SplitOn(t, sep)) = t
  <2>1. SplitOn(t, sep) = <<t>>
    BY <1>4, SplitWhole
  <2>2. Last(<<t>>) = t
    BY DEF Last
  <2>3. QED
    BY <2>1, <2>2
<1>5. QED
  BY <1>2, <1>3, <1>4

\* A text has none of some tokens, said of its elements.
LEMMA FreeElements ==
  ASSUME NEW stops, NEW t \in Text
  PROVE  t \in Free(stops) <=> ToSet(t) \cap stops = {}
<1>1. /\ Len(t) \in Nat /\ DOMAIN t = 1 .. Len(t) /\ t = [i \in 1 .. Len(t) |-> t[i]]
      /\ \A i \in 1 .. Len(t) : t[i] \in Tokens
  BY ElementOfSeq, LenProperties DEF Text
<1>2. ToSet(t) = {t[i] : i \in 1 .. Len(t)}
  BY <1>1 DEF ToSet
<1>3. ASSUME t \in Free(stops)
      PROVE  ToSet(t) \cap stops = {}
  <2>1. \A i \in 1 .. Len(t) : t[i] \in Tokens \ stops
    BY <1>3, ElementOfSeq DEF Free
  <2>2. QED
    BY <1>2, <2>1
<1>4. ASSUME ToSet(t) \cap stops = {}
      PROVE  t \in Free(stops)
  <2>1. \A i \in 1 .. Len(t) : t[i] \in Tokens \ stops
    BY <1>1, <1>2, <1>4
  <2>2. QED
    BY <1>1, <2>1, TypedSeq DEF Free
<1>5. QED
  BY <1>3, <1>4

\* What is in the parts of a URL.
LEMMA UrlOfType ==
  ASSUME NEW t \in Free(Dropped), UrlOf(t) # Err
  PROVE  UrlOf(t) \in UrlType
<1> DEFINE body == SubSeq(t, Len(Scheme) + 1, Len(t))
           authority == Before(body, AuthorityStops)
           rest == From(body, AuthorityStops)
           address == Last(SplitOn(authority, "@"))
           host == Before(address, {":"})
           path == Before(rest, {"?", "#"})
           segments == IF path = <<>> THEN <<>> ELSE Normalised(SplitOn(Tail(path), "/"))
           query == After(Before(rest, {"#"}), {"?"})
<1>1. /\ ToSet(host) \cap Forbidden = {}
      /\ UrlOf(t) = [host |-> Encoded(host, HostEscaped), path |-> segments, query |-> query]
  <2> HIDE DEF IsPort
  <2>1. QED
    BY DEF UrlOf, AuthorityStops
<1>2. body \in Free(Dropped)
  <2> DEFINE D == Tokens \ Dropped
  <2>1. Len(t) \in Nat /\ \A i \in 1 .. Len(t) : t[i] \in D
    BY ElementOfSeq, LenProperties DEF Free
  <2>2. Len(Scheme) = 4
    BY DEF Scheme
  <2> HIDE DEF D
  <2>3. \A i \in 5 .. Len(t) : t[i] \in D
    BY <2>1
  <2>4. SubSeq(t, 5, Len(t)) \in Seq(D)
    BY <2>1, <2>3, SubSeqProperties
  <2>5. QED
    BY <2>2, <2>4 DEF Free, D
<1> HIDE DEF body
<1>3. authority \in Free(AuthorityStops \cup Dropped) /\ rest \in Free(Dropped)
  BY <1>2, CutFree
<1> HIDE DEF authority, rest
<1>4. Encoded(host, HostEscaped) \in Free(HostStops)
  <2> DEFINE stops == {":"} \cup ({"@"} \cup (AuthorityStops \cup Dropped))
  <2>1. host \in Free(stops)
    BY <1>3, LastPart, CutFree
  <2> HIDE DEF host, stops
  <2>2. host \in Free(stops \cup Forbidden)
    BY <1>1, <2>1, FreeIsText, FreeElements, FreeBoth
  <2>3. \A x \in HostEscaped : x \in DOMAIN Escape /\ Escape[x] \notin stops \cup Forbidden
    <3>1. AuthorityStops \cup {":", "@"} \subseteq Marks
      BY DEF AuthorityStops, Marks
    <3>2. HostEscaped \subseteq DOMAIN Escape
      BY TokensAssumption
    <3>3. QED
      BY <3>1, <3>2, EscapeFacts DEF stops
  <2>4. Encoded(host, HostEscaped) \in Free((stops \cup Forbidden) \cup HostEscaped)
    BY <2>2, <2>3, EncodedType
  <2>5. QED
    BY <2>4 DEF HostStops, stops
<1> HIDE DEF host
<1>5. segments \in Seq(Free(SegmentStops) \ DotSegments)
  <2> DEFINE stops == {"?", "#"} \cup Dropped
  <2>1. path \in Free(stops)
    BY <1>3, CutFree
  <2> HIDE DEF path, stops
  <2>2. CASE path # <<>>
    <3>1. Tail(path) \in Free(stops) /\ Tail(path) \in Text
      BY <2>1, <2>2, HeadTailProperties, FreeIsText DEF Free
    <3>2. /\ SplitOn(Tail(path), "/") \in Seq(Free(stops \cup {"/"}))
          /\ SplitOn(Tail(path), "/") # <<>>
      BY <3>1, SplitFree, SplitStep DEF Parts
    <3>3. stops \cup {"/"} = {"/"} \cup stops
      OBVIOUS
    <3>4. \A x \in DOMAIN Escape : Escape[x] \notin {"/"} \cup stops
      <4>1. {"/", "?", "#"} \subseteq Marks
        BY DEF Marks
      <4>2. QED
        BY <4>1, EscapeFacts DEF stops
    <3>5. Normalised(SplitOn(Tail(path), "/"))
            \in Seq(Free(({"/"} \cup stops) \cup DOMAIN Escape) \ DotSegments)
      BY <3>2, <3>3, <3>4, NormalisedType
    <3>6. QED
      BY <2>2, <3>5 DEF SegmentStops, stops
  <2>3. CASE path = <<>>
    BY <2>3
  <2>4. QED
    BY <2>2, <2>3
<1>6. query \in Free({"#"})
  <2>1. Before(rest, {"#"}) \in Free({"#"} \cup Dropped)
    BY <1>3, CutFree
  <2>2. query \in Free({"#"} \cup Dropped)
    BY <2>1, CutFree
  <2> HIDE DEF query
  <2>3. QED
    BY <2>2, FreeBoth
<1>7. QED
  <2> DEFINE Hosts == Free(HostStops)
             Paths == Seq(Free(SegmentStops) \ DotSegments)
             Queries == Free({"#"})
             h == Encoded(host, HostEscaped)
  <2>1. h \in Hosts /\ segments \in Paths /\ query \in Queries
    BY <1>4, <1>5, <1>6
  <2>2. [host |-> h, path |-> segments, query |-> query]
          \in [host : Hosts, path : Paths, query : Queries]
    <3> HIDE DEF h, segments, query, Hosts, Paths, Queries
    <3>1. QED
      BY <2>1
  <2>3. QED
    BY <1>1, <2>2 DEF UrlType

LEMMA UrlParseType ==
  ASSUME NEW t \in Text, UrlParse(t) # Err
  PROVE  UrlParse(t) \in UrlType
BY KeptAppend, UrlOfType DEF UrlParse

(* The URL of a key: mk_key_url() for an authority, an id and a query.     *)

Keys == <<"/", "keys", "/">>
UrlText(authority, id, q) == Scheme \o authority \o <<"/", "keys", "/">> \o id \o q

LEMMA Literals ==
  /\ Keys \in Text /\ Keys # <<>> /\ Len(Keys) = 3 /\ Keys[1] = "/"
  /\ Scheme \in Text
  /\ Keys \in Free(Dropped) /\ Scheme \in Free(Dropped)
<1>1. {"/", "keys", "kmip", ":"} \subseteq Tokens \ Dropped
  BY MeantTokens DEF Marks, Words
<1>2. Keys \in Free(Dropped)
  BY <1>1 DEF Keys, Free
<1>3. Scheme \in Free(Dropped)
  BY <1>1 DEF Scheme, Free
<1>4. Keys # <<>> /\ Len(Keys) = 3 /\ Keys[1] = "/"
  BY DEF Keys
<1>5. QED
  BY <1>2, <1>3, <1>4, FreeIsText

LEMMA UrlTextGrouped ==
  ASSUME NEW authority \in Text, NEW id \in Text, NEW q \in Text
  PROVE  /\ Keys \o (id \o q) \in Text
         /\ authority \o (Keys \o (id \o q)) \in Text
         /\ UrlText(authority, id, q) = Scheme \o (authority \o (Keys \o (id \o q)))
         /\ UrlText(authority, id, q) \in Text
<1> DEFINE D == Tokens
<1>1. Scheme \in Text /\ Keys \in Text
  BY Literals
<1>2. PICK tail2 \in Text : tail2 = id \o q
  BY <1>1, ConcatProperties DEF Text
<1>3. PICK tail3 \in Text : tail3 = Keys \o tail2
  BY <1>1, ConcatProperties DEF Text
<1>4. PICK front2 \in Text : front2 = Scheme \o authority
  BY <1>1, ConcatProperties DEF Text
<1>5. PICK front3 \in Text : front3 = front2 \o Keys
  BY <1>1, ConcatProperties DEF Text
<1>6. (front3 \o id) \o q = front3 \o (id \o q)
  <2>1. front3 \in Seq(D) /\ id \in Seq(D) /\ q \in Seq(D)
    BY <1>1 DEF Text
  <2>2. QED
    BY <2>1, ConcatAssociative, SMTT(30)
<1>7. (front2 \o Keys) \o tail2 = front2 \o (Keys \o tail2)
  <2>1. front2 \in Seq(D) /\ Keys \in Seq(D) /\ tail2 \in Seq(D)
    BY <1>1 DEF Text
  <2>2. QED
    BY <2>1, ConcatAssociative, SMTT(30)
<1>8. (Scheme \o authority) \o tail3 = Scheme \o (authority \o tail3)
  <2>1. Scheme \in Seq(D) /\ authority \in Seq(D) /\ tail3 \in Seq(D)
    BY <1>1 DEF Text
  <2>2. QED
    BY <2>1, ConcatAssociative, SMTT(30)
<1>9. authority \o tail3 \in Text /\ front3 \o tail2 \in Text
  BY <1>1, ConcatProperties DEF Text
<1>10. UrlText(authority, id, q) = (front3 \o id) \o q
  BY <1>4, <1>5 DEF UrlText, Keys
<1>11. QED
  BY <1>2, <1>3, <1>4, <1>5, <1>6, <1>7, <1>8, <1>9, <1>10

LEMMA UrlTextIs ==
  ASSUME NEW authority \in Text, NEW id \in Text, NEW q \in Text
  PROVE  UrlText(authority, id, q) = Scheme \o (authority \o (Keys \o (id \o q)))
<1>1. /\ Keys \o (id \o q) \in Text
      /\ authority \o (Keys \o (id \o q)) \in Text
      /\ UrlText(authority, id, q) = Scheme \o (authority \o (Keys \o (id \o q)))
      /\ UrlText(authority, id, q) \in Text
  BY UrlTextGrouped, Zenon
<1>2. QED
  BY <1>1, Zenon

LEMMA WithoutFront ==
  ASSUME NEW D, NEW x \in Seq(D), NEW y \in Seq(D)
  PROVE  SubSeq(x \o y, Len(x) + 1, Len(x \o y)) = y
<1> DEFINE t == x \o y
           n == Len(x)
           m == Len(y)
<1>1. /\ n \in Nat /\ m \in Nat /\ t \in Seq(D) /\ Len(t) = n + m
      /\ \A i \in 1 .. n + m : t[i] = IF i <= n THEN x[i] ELSE y[i - n]
      /\ \A i \in 1 .. n + m : t[i] \in D
  <2>1. n \in Nat /\ m \in Nat
    BY LenProperties
  <2>2. /\ t \in Seq(D) /\ Len(t) = n + m
        /\ \A i \in 1 .. n + m : t[i] = IF i <= n THEN x[i] ELSE y[i - n]
    BY ConcatProperties
  <2>3. \A i \in 1 .. n + m : t[i] \in D
    BY <2>2, ElementOfSeq
  <2>4. QED
    BY <2>1, <2>2, <2>3
<1> HIDE DEF t, n, m
<1>2. /\ SubSeq(t, n + 1, n + m) \in Seq(D)
      /\ Len(SubSeq(t, n + 1, n + m)) = m
      /\ \A i \in 1 .. m : SubSeq(t, n + 1, n + m)[i] = t[n + i]
  <2> DEFINE a == n + 1
             b == n + m
  <2>1. /\ a \in Int /\ b \in Int /\ b - a + 1 = m /\ m \in Nat
        /\ \A i \in 1 .. m : a + i - 1 = n + i
        /\ \A i \in a .. b : i \in 1 .. n + m
    BY <1>1
  <2>2. IF a <= b THEN b - a + 1 = m ELSE m = 0
    BY <1>1
  <2>3. \A i \in a .. b : t[i] \in D
    BY <1>1, <2>1
  <2> HIDE DEF a, b
  <2>4. /\ SubSeq(t, a, b) \in Seq(D)
        /\ Len(SubSeq(t, a, b)) = IF a <= b THEN b - a + 1 ELSE 0
        /\ \A i \in 1 .. b - a + 1 : SubSeq(t, a, b)[i] = t[a + i - 1]
    BY <2>1, <2>3, SubSeqProperties
  <2>5. /\ SubSeq(t, a, b) \in Seq(D) /\ Len(SubSeq(t, a, b)) = m
        /\ \A i \in 1 .. m : SubSeq(t, a, b)[i] = t[n + i]
    BY <2>1, <2>2, <2>4
  <2>6. QED
    BY <2>5 DEF a, b
<1>3. \A i \in 1 .. m : t[n + i] = y[i]
  BY <1>1
<1>4. SubSeq(t, n + 1, n + m) = y
  BY <1>1, <1>2, <1>3, SeqEqual DEF m
<1>5. QED
  BY <1>1, <1>4 DEF t, n, m

\* The authority is what it was made with.
LEMMA BodyOfUrl ==
  ASSUME NEW authority \in Free(AuthorityStops), NEW id \in Text, NEW q \in Text
  PROVE  /\ UrlText(authority, id, q) \in Text
         /\ Keys \in Text /\ Keys \o (id \o q) \in Text
         /\ LET t == UrlText(authority, id, q)
                body == SubSeq(t, Len(Scheme) + 1, Len(t))
            IN /\ Before(body, AuthorityStops) = authority
               /\ From(body, AuthorityStops) = Keys \o (id \o q)
<1> DEFINE t == UrlText(authority, id, q)
           rest == Keys \o (id \o q)
<1>1. authority \in Text /\ Keys \in Text /\ Scheme \in Text
  BY FreeIsText, Literals
<1>2. /\ rest \in Text /\ authority \o rest \in Text /\ t \in Text
      /\ t = Scheme \o (authority \o rest)
  <2>1. authority \in Text
    BY <1>1
  <2>2. QED
    BY <2>1, UrlTextGrouped, Zenon
<1>3. SubSeq(t, Len(Scheme) + 1, Len(t)) = authority \o rest
  <2> DEFINE x == authority \o rest
  <2> HIDE DEF x
  <2>1. SubSeq(Scheme \o x, Len(Scheme) + 1, Len(Scheme \o x)) = x
    BY <1>1, <1>2, WithoutFront DEF Text, x
  <2>2. QED
    BY <1>2, <2>1 DEF x
<1>4. rest # <<>> /\ rest[1] = "/"
  <2> DEFINE w == id \o q
             n == Len(w)
  <2>1. w \in Text
    BY ConcatProperties DEF Text
  <2> HIDE DEF w
  <2>2. n \in Nat
    BY <2>1, LenProperties DEF Text
  <2>3. /\ Len(Keys \o w) = Len(Keys) + n
        /\ \A i \in 1 .. Len(Keys) + n :
             (Keys \o w)[i] = IF i <= Len(Keys) THEN Keys[i] ELSE w[i - Len(Keys)]
    BY <1>1, <2>1, ConcatProperties DEF Text
  <2> HIDE DEF n
  <2>4. Len(Keys) = 3 /\ Keys[1] = "/"
    BY Literals
  <2>5. Len(Keys \o w) # 0 /\ (Keys \o w)[1] = "/"
    BY <2>2, <2>3, <2>4
  <2>6. QED
    BY <2>5 DEF w
<1>5. /\ Before(authority \o rest, AuthorityStops) = authority
      /\ From(authority \o rest, AuthorityStops) = rest
  <2> HIDE DEF rest
  <2>1. "/" \in AuthorityStops
    BY DEF AuthorityStops
  <2>2. QED
    BY <1>2, <1>4, <2>1, CutAt
<1>6. QED
  BY <1>1, <1>2, <1>3, <1>5

LEMMA KeptFront ==
  ASSUME NEW a \in Free(Dropped), NEW b \in Text
  PROVE  a \o b \in Text /\ Kept(a \o b) = a \o Kept(b)
<1>1. a \in Text /\ Kept(a) = a
  BY FreeIsText, KeptFree
<1>2. a \o b \in Text /\ Kept(a \o b) = Kept(a) \o Kept(b)
  BY <1>1, KeptConcat, Zenon
<1>3. QED
  BY <1>1, <1>2, Zenon

\* What is dropped of the URL of a key is dropped of its id.
LEMMA KeptUrlText ==
  ASSUME NEW server \in Free(Dropped), NEW id \in Text, NEW q \in Free(Dropped)
  PROVE  Kept(UrlText(server, id, q)) = UrlText(server, Kept(id), q)
<1>1. server \in Text /\ q \in Text /\ Kept(id) \in Text /\ Kept(q) = q
  BY KeptAppend, KeptFree, FreeIsText
<1>2. id \o q \in Text /\ Kept(id \o q) = Kept(id) \o q
  BY <1>1, KeptConcat, Zenon
<1>3. Keys \in Free(Dropped) /\ Scheme \in Free(Dropped)
  BY Literals
<1> DEFINE one == Keys \o (id \o q)
<1>4. one \in Text /\ Kept(one) = Keys \o (Kept(id) \o q)
  <2>1. one \in Text /\ Kept(one) = Keys \o Kept(id \o q)
    BY <1>2, <1>3, KeptFront, Zenon
  <2>2. QED
    BY <1>2, <2>1, Zenon
<1> HIDE DEF one
<1> DEFINE two == server \o one
<1>5. two \in Text /\ Kept(two) = server \o (Keys \o (Kept(id) \o q))
  <2>1. two \in Text /\ Kept(two) = server \o Kept(one)
    BY <1>4, KeptFront, Zenon
  <2>2. QED
    BY <1>4, <2>1, Zenon
<1> HIDE DEF two
<1>6. Kept(Scheme \o two) = Scheme \o (server \o (Keys \o (Kept(id) \o q)))
  <2>1. Kept(Scheme \o two) = Scheme \o Kept(two)
    BY <1>3, <1>5, KeptFront, Zenon
  <2>2. QED
    BY <1>5, <2>1, Zenon
<1>7. UrlText(server, id, q) = Scheme \o two
  BY <1>1, UrlTextIs, Zenon DEF two, one
<1>8. UrlText(server, Kept(id), q) = Scheme \o (server \o (Keys \o (Kept(id) \o q)))
  <2>1. \A i \in Text : UrlText(server, i, q) = Scheme \o (server \o (Keys \o (i \o q)))
    BY <1>1, UrlTextIs, ZenonT(40)
  <2>2. QED
    BY <1>1, <2>1, Zenon
<1>9. QED
  BY <1>6, <1>7, <1>8, Zenon

LEMMA HostIsFree ==
  ASSUME NEW server \in Free(HostStops)
  PROVE  /\ server \in Free(AuthorityStops) /\ server \in Free({":"}) /\ server \in Free({"@"})
         /\ server \in Free(Dropped) /\ server \in Free(Forbidden)
         /\ server \in Free(HostEscaped) /\ server \in Text
<1> DEFINE a == AuthorityStops \cup Dropped
           b == {"@"} \cup a
           c == {":"} \cup b
           d == c \cup Forbidden
<1>1. server \in Free(d \cup HostEscaped)
  BY DEF HostStops
<1> HIDE DEF d
<1>2. server \in Free(d) /\ server \in Free(HostEscaped)
  BY <1>1, FreeBoth
<1> HIDE DEF c
<1>3. server \in Free(c) /\ server \in Free(Forbidden)
  BY <1>2, FreeBoth DEF d
<1> HIDE DEF b
<1>4. server \in Free(b) /\ server \in Free({":"})
  BY <1>3, FreeBoth DEF c
<1> HIDE DEF a
<1>5. server \in Free(a) /\ server \in Free({"@"})
  BY <1>4, FreeBoth DEF b
<1>6. QED
  BY <1>2, <1>3, <1>4, <1>5, FreeBoth, FreeIsText DEF a

\* The server id is the host; the rest depends on the id.
LEMMA UrlOfServer ==
  ASSUME NEW server \in Free(HostStops), server # <<>>, NEW id \in Text, NEW q \in Text
  PROVE  LET rest == Keys \o (id \o q)
             path == Before(rest, {"?", "#"})
         IN UrlOf(UrlText(server, id, q)) =
              [host |-> server,
               path |-> IF path = <<>> THEN <<>> ELSE Normalised(SplitOn(Tail(path), "/")),
               query |-> After(Before(rest, {"#"}), {"?"})]
<1> DEFINE t == UrlText(server, id, q)
           body == SubSeq(t, Len(Scheme) + 1, Len(t))
           rest == Keys \o (id \o q)
<1>1. /\ server \in Free(AuthorityStops) /\ server \in Free({":"}) /\ server \in Free({"@"})
      /\ server \in Free(Forbidden) /\ server \in Free(HostEscaped) /\ server \in Text
  BY HostIsFree
<1>2. Before(body, AuthorityStops) = server /\ From(body, AuthorityStops) = rest
  BY <1>1, BodyOfUrl
<1>3. /\ Last(SplitOn(server, "@")) = server
      /\ Before(server, {":"}) = server /\ After(server, {":"}) = <<>>
  BY <1>1, LastPart, NothingAfter
<1>4. ToSet(server) \cap Forbidden = {} /\ Encoded(server, HostEscaped) = server
  <2>1. server \in Free({}) /\ HostEscaped \subseteq DOMAIN Escape
    BY <1>1, FreeBoth, TokensAssumption
  <2>2. QED
    BY <1>1, <2>1, FreeElements, EncodedType
<1>5. IsPort(<<>>)
  BY DEF IsPort
<1> HIDE DEF t, rest
<1>6. QED
  <2> HIDE DEF IsPort
  <2>1. UrlOf(t) =
          LET path == Before(rest, {"?", "#"})
          IN [host |-> server,
              path |-> IF path = <<>> THEN <<>> ELSE Normalised(SplitOn(Tail(path), "/")),
              query |-> After(Before(rest, {"#"}), {"?"})]
    BY <1>2, <1>3, <1>4, <1>5 DEF UrlOf, AuthorityStops
  <2>2. QED
    BY <2>1 DEF t, rest

LEMMA SameTuple ==
  ASSUME NEW D, NEW p \in Seq(D), NEW z \in D, NEW q \in Seq(D),
         Len(q) = Len(p) + 1, q[Len(q)] = z, \A i \in 1 .. Len(p) : q[i] = p[i]
  PROVE  Append(p, z) = q
<1>1. /\ Append(p, z) \in Seq(D) /\ Len(Append(p, z)) = Len(q)
      /\ \A i \in 1 .. Len(q) : Append(p, z)[i] = q[i]
  OBVIOUS
<1>2. QED
  BY <1>1, SeqEqual

LEMMA Tuples ==
  ASSUME NEW x, NEW y, NEW z
  PROVE  <<x>> \o <<y>> = <<x, y>> /\ <<x>> \o <<y, z>> = <<x, y, z>>
<1> DEFINE D == {x, y, z}
<1>1. /\ <<x>> \in Seq(D) /\ <<y>> \in Seq(D) /\ <<x, y>> \in Seq(D)
      /\ <<y, z>> \in Seq(D) /\ <<x, y, z>> \in Seq(D) /\ y \in D /\ z \in D
  OBVIOUS
<1>2. <<x>> \o <<y>> = Append(<<x>>, y) /\ <<x>> \o Append(<<y>>, z) = Append(<<x>> \o <<y>>, z)
  <2> HIDE DEF D
  <2>1. QED
    BY <1>1, ConcatAppend
<1>3. /\ Append(<<x>>, y) = <<x, y>> /\ Append(<<y>>, z) = <<y, z>>
      /\ Append(<<x, y>>, z) = <<x, y, z>>
  <2>1. ASSUME NEW v \in D, NEW w \in D
        PROVE  Append(<<v>>, w) = <<v, w>>
    <3> DEFINE p == <<v>>
               q == <<v, w>>
    <3>1. /\ p \in Seq(D) /\ q \in Seq(D) /\ Len(p) = 1 /\ Len(q) = 2
          /\ p[1] = v /\ q[1] = v /\ q[2] = w
      OBVIOUS
    <3> HIDE DEF D, p, q
    <3>2. Len(q) = Len(p) + 1 /\ q[Len(q)] = w /\ \A i \in 1 .. Len(p) : q[i] = p[i]
      BY <3>1
    <3>3. Append(p, w) = q
      BY <3>1, <3>2, SameTuple
    <3>4. QED
      BY <3>3 DEF p, q
  <2>2. Append(<<x, y>>, z) = <<x, y, z>>
    <3> DEFINE p == <<x, y>>
               q == <<x, y, z>>
    <3>1. /\ p \in Seq(D) /\ q \in Seq(D) /\ z \in D /\ Len(p) = 2 /\ Len(q) = 3
          /\ p[1] = x /\ p[2] = y /\ q[1] = x /\ q[2] = y /\ q[3] = z
      OBVIOUS
    <3> HIDE DEF D, p, q
    <3>2. Len(q) = Len(p) + 1 /\ q[Len(q)] = z /\ \A i \in 1 .. Len(p) : q[i] = p[i]
      BY <3>1
    <3>3. Append(p, z) = q
      BY <3>1, <3>2, SameTuple
    <3>4. QED
      BY <3>3 DEF p, q
  <2>3. QED
    BY <2>1, <2>2
<1>4. QED
  BY <1>2, <1>3

LEMMA UrlOfKey ==
  ASSUME NEW server \in Free(HostStops), server # <<>>, NEW id \in Free({"?", "#"}),
         NEW query \in Free({"#"})
  PROVE  UrlOf(UrlText(server, id, <<"?">> \o query)) =
           [host |-> server,
            path |-> Normalised(<<<<"keys">>>> \o SplitOn(id, "/")),
            query |-> query]
<1> DEFINE q == <<"?">> \o query
           front == Keys \o id
           rest == Keys \o (id \o q)
           name == <<"keys">>
<1>1. /\ "?" \in Tokens \ {"#"} /\ "/" \in Tokens \ {"?", "#"}
      /\ "keys" \in Tokens \ {"?", "#", "/"}
  BY MeantTokens DEF Marks, Words
<1>2. /\ id \in Text /\ query \in Text /\ name \in Text
      /\ name \in Free({"/"}) /\ name \in Free({"?", "#"}) /\ <<"/">> \in Free({"?", "#"})
      /\ <<"/">> \in Text
  BY <1>1, FreeIsText, Singleton DEF Free, Text
<1>3. /\ q \in Free({"#"}) /\ q # <<>> /\ q[1] = "?" /\ Tail(q) = query /\ q \in Text
  <2>1. "?" \in Tokens \ {"#"} /\ query \in Seq(Tokens \ {"#"})
    BY <1>1 DEF Free
  <2>2. q \in Seq(Tokens \ {"#"}) /\ q # <<>> /\ q[1] = "?" /\ Tail(q) = query
    BY <2>1, FirstOf
  <2>3. QED
    BY <2>2, FreeIsText DEF Free
<1>4. name \o <<"/">> = <<"keys", "/">> /\ Keys = <<"/">> \o (name \o <<"/">>)
  <2>1. name \o <<"/">> = <<"keys", "/">>
    BY Tuples
  <2>2. <<"/">> \o <<"keys", "/">> = Keys
    BY Tuples DEF Keys
  <2> HIDE DEF name
  <2>3. QED
    BY <2>1, <2>2
<1>5. name \o <<"/">> \in Free({"?", "#"})
  <2> HIDE DEF name
  <2>1. QED
    BY <1>2, ConcatProperties DEF Free
<1>6. PICK inner \in Free({"?", "#"}) : inner = (name \o <<"/">>) \o id
  <2> DEFINE x == name \o <<"/">>
  <2> HIDE DEF x
  <2>1. x \o id \in Free({"?", "#"})
    BY <1>5, ConcatProperties DEF Free, x
  <2>2. QED
    BY <2>1 DEF x
<1>7. front = <<"/">> \o inner
  <2> DEFINE x == name \o <<"/">>
  <2> HIDE DEF x
  <2>1. x \in Text
    BY <1>5, FreeIsText DEF x
  <2>2. (<<"/">> \o x) \o id = <<"/">> \o (x \o id)
    <3> DEFINE first == <<"/">>
    <3>1. first \in Seq(Tokens) /\ x \in Seq(Tokens) /\ id \in Seq(Tokens)
      BY <1>2, <2>1 DEF Text
    <3> HIDE DEF first
    <3>2. (first \o x) \o id = first \o (x \o id)
      BY <3>1, ConcatAssociative
    <3>3. QED
      BY <3>2 DEF first
  <2>3. Keys = <<"/">> \o x
    BY <1>4 DEF x
  <2>4. QED
    BY <1>6, <2>2, <2>3 DEF x
<1>8. /\ front \in Free({"?", "#"}) /\ front # <<>> /\ Tail(front) = inner
  <2>1. "/" \in Tokens \ {"?", "#"} /\ inner \in Seq(Tokens \ {"?", "#"})
    BY <1>1 DEF Free
  <2>2. <<"/">> \o inner \in Seq(Tokens \ {"?", "#"}) /\ <<"/">> \o inner # <<>>
        /\ Tail(<<"/">> \o inner) = inner
    BY <2>1, FirstOf
  <2>3. QED
    BY <1>7, <2>2 DEF Free
<1>9. SplitOn(inner, "/") = <<name>> \o SplitOn(id, "/")
  <2> HIDE DEF name
  <2>1. SplitOn((name \o <<"/">>) \o id, "/") = <<name>> \o SplitOn(id, "/")
    BY <1>1, <1>2, SplitAfter
  <2>2. QED
    BY <1>6, <2>1
<1>10. rest = front \o q
  <2> HIDE DEF q
  <2>1. Keys \in Seq(Tokens) /\ id \in Seq(Tokens) /\ q \in Seq(Tokens)
    BY <1>2, <1>3, Literals DEF Text
  <2>2. QED
    BY <2>1, ConcatAssociative, SMTT(30)
<1>11. front \in Free({"?"}) /\ front \in Free({"#"})
  <2>1. {"?", "#"} = {"?"} \cup {"#"}
    OBVIOUS
  <2>2. QED
    BY <1>8, <2>1, FreeBoth
<1> HIDE DEF q, front, rest
<1>12. Before(rest, {"?", "#"}) = front /\ After(rest, {"?"}) = query
  <2>1. Before(front \o q, {"?", "#"}) = front
    BY <1>3, <1>8, CutAt
  <2>2. After(front \o q, {"?"}) = Tail(q)
    BY <1>3, <1>11, CutAt
  <2>3. QED
    BY <1>3, <1>10, <2>1, <2>2
<1>13. Before(rest, {"#"}) = rest
  <2>1. rest \in Free({"#"})
    BY <1>3, <1>10, <1>11, ConcatProperties DEF Free
  <2>2. QED
    BY <2>1, NothingAfter
<1>14. UrlOf(UrlText(server, id, q)) =
        [host |-> server,
         path |-> IF front = <<>> THEN <<>> ELSE Normalised(SplitOn(Tail(front), "/")),
         query |-> query]
  <2>1. UrlOf(UrlText(server, id, q)) =
          LET path == Before(rest, {"?", "#"})
          IN [host |-> server,
              path |-> IF path = <<>> THEN <<>> ELSE Normalised(SplitOn(Tail(path), "/")),
              query |-> After(Before(rest, {"#"}), {"?"})]
    BY <1>2, <1>3, UrlOfServer DEF rest
  <2>2. QED
    BY <1>12, <1>13, <2>1
<1>15. QED
  BY <1>8, <1>9, <1>14 DEF q

-----------------------------------------------------------------------------
(* Queries.                                                                *)

QueryText(a, f) == <<"algorithm", "=", a, "&", "flags", "=", f>>
FlagNumbers == {"256", "257"}

LEMMA PairsOfQuery ==
  ASSUME NEW a \in Algorithms, NEW f \in FlagNumbers, NEW u, u.query = QueryText(a, f)
  PROVE  QueryPairs(u) = <<<<<<"algorithm">>, <<a>>>>, <<<<"flags">>, <<f>>>>>>
<1> DEFINE one == <<"algorithm", "=", a>>
           two == <<"flags", "=", f>>
           parts == SplitOn(u.query, "&")
<1>1. /\ {"algorithm", "flags", "=", a, f} \subseteq Tokens \ {"&"}
      /\ {"algorithm", "flags"} \subseteq Tokens \ {"="}
      /\ "&" \in Tokens
  BY MeantTokens DEF Marks, Words, Algorithms, FlagNumbers
<1>2. one \in Free({"&"}) /\ two \in Free({"&"}) /\ two \in Text
  BY <1>1 DEF Free, Text
<1>3. parts = <<one, two>>
  <2>1. u.query = (one \o <<"&">>) \o two
    BY DEF QueryText
  <2> HIDE DEF one, two
  <2>2. parts = <<one>> \o SplitOn(two, "&")
    BY <1>1, <1>2, <2>1, SplitAfter
  <2>3. SplitOn(two, "&") = <<two>>
    BY <1>2, SplitWhole
  <2>4. <<one>> \o <<two>> = <<one, two>>
    BY Tuples
  <2>5. QED
    BY <2>2, <2>3, <2>4
<1>4. ASSUME NEW name \in {"algorithm", "flags"}, NEW value \in Tokens
      PROVE  /\ Before(<<name, "=", value>>, {"="}) = <<name>>
             /\ After(<<name, "=", value>>, {"="}) = <<value>>
  <2> DEFINE x == <<name>>
             y == <<"=", value>>
  <2>1. x \in Free({"="}) /\ y \in Text /\ y # <<>> /\ y[1] \in {"="}
    <3>1. name \in Tokens \ {"="} /\ "=" \in Tokens
      BY <1>1
    <3>2. x \in Free({"="})
      BY <3>1, Singleton DEF Free
    <3>3. y \in Text
      BY <3>1 DEF Text
    <3>4. QED
      BY <3>2, <3>3
  <2>2. <<name, "=", value>> = x \o y /\ Tail(y) = <<value>>
    OBVIOUS
  <2> HIDE DEF x, y
  <2>3. Before(x \o y, {"="}) = x /\ After(x \o y, {"="}) = Tail(y)
    BY <2>1, CutAt
  <2>4. QED
    BY <2>2, <2>3 DEF x
<1>5. one # <<>> /\ two # <<>>
  OBVIOUS
<1>6. QueryPairs(u) = [i \in {i \in DOMAIN parts : parts[i] # <<>>} |->
                         <<Before(parts[i], {"="}), After(parts[i], {"="})>>]
  BY DEF QueryPairs
<1>7. /\ Before(one, {"="}) = <<"algorithm">> /\ After(one, {"="}) = <<a>>
      /\ Before(two, {"="}) = <<"flags">> /\ After(two, {"="}) = <<f>>
  BY <1>1, <1>4
<1>8. QED
  <2> HIDE DEF one, two, parts
  <2>1. DOMAIN parts = {1, 2} /\ parts[1] = one /\ parts[2] = two
    BY <1>3
  <2>2. QueryPairs(u) = [i \in {1, 2} |-> IF i = 1 THEN <<<<"algorithm">>, <<a>>>>
                                          ELSE <<<<"flags">>, <<f>>>>]
    <3>1. {i \in DOMAIN parts : parts[i] # <<>>} = {1, 2}
      BY <1>5, <2>1
    <3>2. QED
      BY <1>6, <1>7, <2>1, <3>1
  <2>3. QED
    BY <2>2

LEMMA ParamsOfQuery ==
  ASSUME NEW a \in Algorithms, NEW n \in FlagValues, NEW u,
         u.query = QueryText(a, FormatFlags[n])
  PROVE  Params(u) = [flags |-> n, alg |-> a] /\ Params(u) # Err
<1> DEFINE f == FormatFlags[n]
           pairs == QueryPairs(u)
           given(name) == {i \in DOMAIN pairs : pairs[i][1] = name}
           last(name) == CHOOSE i \in given(name) : \A j \in given(name) : j <= i
<1>1. f \in FlagNumbers /\ ParseFlags(<<f>>) = n
  BY DEF FormatFlags, FlagValues, FlagNumbers, ParseFlags
<1>2. ParseAlgorithm(<<a>>) = a
  BY DEF ParseAlgorithm
<1>3. n # Err /\ a # Err
  <2>1. a \in Tokens
    BY MeantTokens DEF Words, Algorithms
  <2>2. QED
    BY <2>1, ErrAssumption
<1>4. pairs = <<<<<<"algorithm">>, <<a>>>>, <<<<"flags">>, <<f>>>>>>
  BY <1>1, PairsOfQuery
<1> HIDE DEF f, pairs
<1>5. /\ DOMAIN pairs = {1, 2}
      /\ pairs[1][1] = <<"algorithm">> /\ pairs[1][2] = <<a>>
      /\ pairs[2][1] = <<"flags">> /\ pairs[2][2] = <<f>>
  BY <1>4
<1>6. \A i \in DOMAIN pairs : Understood(pairs[i])
  BY <1>1, <1>2, <1>3, <1>5 DEF Understood
<1>7. given(<<"flags">>) = {2} /\ given(<<"algorithm">>) = {1}
  BY <1>5
<1>8. last(<<"flags">>) = 2 /\ last(<<"algorithm">>) = 1
  <2> HIDE DEF given
  <2>1. QED
    BY <1>7
<1>9. Params(u) = [flags |-> n, alg |-> a]
  <2> DEFINE value(name) == pairs[last(name)][2]
  <2>1. value(<<"flags">>) = <<f>> /\ value(<<"algorithm">>) = <<a>>
    <3> HIDE DEF last
    <3>1. QED
      BY <1>5, <1>8
  <2>2. Params(u) = IF \E i \in DOMAIN pairs : ~Understood(pairs[i])
                    THEN Err
                    ELSE [flags |-> IF given(<<"flags">>) = {} THEN NoParams.flags
                                    ELSE ParseFlags(value(<<"flags">>)),
                          alg |-> IF given(<<"algorithm">>) = {} THEN NoParams.alg
                                  ELSE ParseAlgorithm(value(<<"algorithm">>))]
    BY DEF Params, pairs
  <2> HIDE DEF value, given
  <2>3. QED
    BY <1>1, <1>2, <1>6, <1>7, <2>1, <2>2
<1>10. [flags |-> n, alg |-> a] \in [flags : FlagValues, alg : Algorithms]
  OBVIOUS
<1>11. QED
  BY <1>9, <1>10, ErrAssumption

LEMMA KeyUrlText ==
  ASSUME NEW k, k.alg \in Algorithms, k.flags \in FlagValues, NEW id
  PROVE  LET query == QueryText(k.alg, FormatFlags[k.flags])
         IN /\ query \in Free({"#"}) /\ <<"?">> \o query \in Free(Dropped)
            /\ MkKeyUrl(k, id) = UrlParse(UrlText(k.server, id, <<"?">> \o query))
<1> DEFINE a == k.alg
           f == FormatFlags[k.flags]
<1>1. a \in Algorithms /\ f \in FlagNumbers
  BY DEF FormatFlags, FlagValues, FlagNumbers
<1>2. {a, f, "algorithm", "=", "&", "flags"} \subseteq Tokens \ ({"#"} \cup Dropped)
  BY <1>1, MeantTokens DEF Marks, Words, Algorithms, FlagNumbers
<1> HIDE DEF a, f
<1>3. QueryText(a, f) \in Free({"#"}) /\ <<"?">> \o QueryText(a, f) \in Free(Dropped)
  <2> DEFINE D == Tokens \ ({"#"} \cup Dropped)
             query == QueryText(a, f)
  <2>1. {a, f, "algorithm", "=", "&", "flags"} \subseteq D
    BY <1>2
  <2> HIDE DEF D
  <2>2. query \in Seq(D)
    BY <2>1 DEF QueryText
  <2> HIDE DEF query
  <2>3. query \in Free({"#"}) /\ query \in Free(Dropped)
    BY <2>2, FreeBoth DEF Free, D
  <2>4. "?" \in Tokens \ Dropped
    BY MeantTokens DEF Marks
  <2>5. <<"?">> \o query \in Free(Dropped)
    BY <2>3, <2>4, FirstOf DEF Free
  <2>6. QED
    BY <2>3, <2>5 DEF query
<1>4. <<"?", "algorithm", "=", a, "&", "flags", "=", f>> = <<"?">> \o QueryText(a, f)
  BY DEF QueryText
<1>5. MkKeyUrl(k, id) =
        UrlParse(Scheme \o k.server \o <<"/", "keys", "/">> \o id \o
                 <<"?", "algorithm", "=", a, "&", "flags", "=", f>>)
  BY DEF MkKeyUrl, a, f
<1>6. QED
  BY <1>3, <1>4, <1>5 DEF UrlText, a, f

\* For a server with a name, the id without what is dropped makes the same URL.
LEMMA KeyUrlKept ==
  ASSUME NEW k, k.server \in Free(HostStops), k.alg \in Algorithms, k.flags \in FlagValues,
         NEW id \in Text
  PROVE  LET query == QueryText(k.alg, FormatFlags[k.flags])
         IN MkKeyUrl(k, id) = UrlOf(UrlText(k.server, Kept(id), <<"?">> \o query))
<1> DEFINE q == <<"?">> \o QueryText(k.alg, FormatFlags[k.flags])
           server == k.server
<1>1. q \in Free(Dropped) /\ MkKeyUrl(k, id) = UrlParse(UrlText(server, id, q))
  BY KeyUrlText, Zenon
<1>2. server \in Free(Dropped)
  BY HostIsFree
<1> HIDE DEF q, server
<1>3. Kept(UrlText(server, id, q)) = UrlText(server, Kept(id), q)
  BY <1>1, <1>2, KeptUrlText, Zenon
<1>4. QED
  BY <1>1, <1>3, Zenon DEF UrlParse, q, server

\* The segments of a plain id are names, and nothing ends the path early.
LEMMA PlainNames ==
  ASSUME NEW id \in Text, Plain(id)
  PROVE  /\ id \in Free({"?", "#"}) /\ Kept(id) = id
         /\ SplitOn(id, "/") \in Seq(Free(DOMAIN Escape) \ DotSegments)
<1>1. id \in Free(({"?", "#"} \cup DOMAIN Escape) \cup Dropped)
  BY FreeElements DEF Plain
<1>2. id \in Free({"?", "#"}) /\ id \in Free(DOMAIN Escape) /\ id \in Free(Dropped)
  <2>1. id \in Free({"?", "#"} \cup DOMAIN Escape) /\ id \in Free(Dropped)
    BY <1>1, FreeBoth
  <2>2. QED
    BY <2>1, FreeBoth
<1> DEFINE segments == SplitOn(id, "/")
<1>3. segments \in Seq(Free(DOMAIN Escape \cup {"/"}))
  BY <1>2, SplitFree
<1> HIDE DEF segments
<1>4. /\ Len(segments) \in Nat /\ segments = [i \in 1 .. Len(segments) |-> segments[i]]
      /\ \A i \in 1 .. Len(segments) : segments[i] \in Free(DOMAIN Escape \cup {"/"})
  BY <1>3, ElementOfSeq, LenProperties
<1>5. \A i \in 1 .. Len(segments) : segments[i] \in Free(DOMAIN Escape)
  BY <1>4, FreeBoth
<1>6. \A i \in 1 .. Len(segments) : segments[i] \notin DotSegments
  <2>1. ToSet(segments) \cap DotSegments = {}
    BY DEF Plain, segments
  <2>2. QED
    BY <1>4, <2>1 DEF ToSet
<1>7. segments \in Seq(Free(DOMAIN Escape) \ DotSegments)
  BY <1>4, <1>5, <1>6, TypedSeq
<1>8. Kept(id) = id
  BY <1>2, KeptFree
<1>9. QED
  BY <1>2, <1>7, <1>8 DEF segments

\* What mk_key_url() makes of a server, a plain id, an algorithm and flags is a
\* URL, of which KeyUrl::try_from() gives the four back.
LEMMA RoundTrip ==
  ASSUME NEW k, k.server \in Free(HostStops), k.server # <<>>,
         k.alg \in Algorithms, k.flags \in FlagValues,
         NEW id \in Text, Plain(id)
  PROVE  /\ MkKeyUrl(k, id) # Err
         /\ TryFrom(MkKeyUrl(k, id)) =
              [server |-> k.server, id |-> id, alg |-> k.alg, flags |-> k.flags]
<1> DEFINE u == MkKeyUrl(k, id)
           query == QueryText(k.alg, FormatFlags[k.flags])
           segments == SplitOn(id, "/")
           name == <<"keys">>
           Names == Free(DOMAIN Escape) \ DotSegments
           path == <<name>> \o segments
<1>1. /\ id \in Free({"?", "#"}) /\ Kept(id) = id /\ segments \in Seq(Names)
  BY PlainNames
<1>2. u = [host |-> k.server, path |-> Normalised(path), query |-> query]
  <2>1. query \in Free({"#"}) /\ u = UrlOf(UrlText(k.server, id, <<"?">> \o query))
    BY <1>1, KeyUrlText, KeyUrlKept
  <2> HIDE DEF query, u
  <2>2. QED
    BY <1>1, <2>1, UrlOfKey
<1>3. segments \in Seq(Text) /\ segments # <<>>
  BY SplitStep DEF Parts
<1>4. /\ path \in Seq(Names) /\ path # <<>> /\ path[1] = name /\ Tail(path) = segments
  <2>1. name \in Names
    <3>1. "keys" \in Tokens \ DOMAIN Escape
      BY MeantTokens DEF Words
    <3>2. name \in Free(DOMAIN Escape)
      BY <3>1, Singleton DEF Free
    <3>3. name \notin DotSegments
      <4>1. "keys" \notin Dots
        BY DEF Dots
      <4>2. QED
        BY <4>1, NoDots
    <3>4. QED
      BY <3>2, <3>3
  <2> HIDE DEF name, Names, segments
  <2>2. QED
    BY <1>1, <2>1, FirstOf
<1>5. Len(path) >= 2
  <2> HIDE DEF name, segments, Names
  <2>1. name \in Names
    BY <1>4, ElementOfSeq, EmptySeq
  <2>2. Len(path) = 1 + Len(segments)
    BY <1>1, <2>1, Singleton, ConcatProperties
  <2>3. Len(segments) \in Nat \ {0}
    BY <1>3, EmptySeq
  <2>4. QED
    BY <2>2, <2>3
<1>6. Normalised(path) = path
  <2> HIDE DEF path
  <2>1. QED
    BY <1>4, NormalisedNames DEF Names
<1>7. u.host = k.server /\ u.path = path /\ u.query = query
  <2> HIDE DEF u, query, path
  <2>1. QED
    BY <1>2, <1>6
<1>8. KeyId(u) = id
  <2>1. KeyId(u) = Joined(segments)
    BY <1>4, <1>7 DEF KeyId
  <2>2. QED
    BY <2>1, JoinedSplit
<1>9. Params(u) = [flags |-> k.flags, alg |-> k.alg] /\ Params(u) # Err
  <2> HIDE DEF u
  <2>1. QED
    BY <1>7, ParamsOfQuery
<1>10. k.flags # Err /\ k.alg # Err
  <2>1. k.alg \in Tokens
    BY MeantTokens DEF Words
  <2>2. QED
    BY <2>1, ErrAssumption
<1>11. TryFrom(u) = [server |-> k.server, id |-> id, alg |-> k.alg, flags |-> k.flags]
  <2> HIDE DEF u, path, name
  <2>1. u.host # <<>> /\ ~(Len(u.path) < 2) /\ u.path[1] = <<"keys">>
    <3>1. Len(path) \in Nat /\ Len(u.path) = Len(path) /\ u.path[1] = path[1]
      <4>1. u.path = path
        BY <1>7
      <4>2. Len(path) \in Nat
        <5> HIDE DEF Names
        <5>1. QED
          BY <1>4, LenProperties
      <4>3. QED
        BY <4>1, <4>2
    <3>2. path[1] = <<"keys">>
      BY <1>4 DEF name
    <3>3. QED
      BY <1>5, <1>7, <3>1, <3>2
  <2>2. QED
    BY <1>7, <1>8, <1>9, <1>10, <2>1 DEF TryFrom
<1>12. u # Err
  <2>1. k.server \in Text
    BY FreeIsText
  <2>2. path \in Seq(Text)
    <3>1. Names \subseteq Text
      BY FreeIsText
    <3> HIDE DEF Names, path
    <3>2. QED
      BY <1>4, <3>1, SeqMonotonic
  <2>3. query \in Text
    BY KeyUrlText, FreeIsText
  <2> HIDE DEF u, path, query
  <2>4. u \in [host : Text, path : Seq(Text), query : Text]
    BY <1>2, <1>6, <2>1, <2>2, <2>3
  <2>5. QED
    BY <2>4, ErrAssumption
<1>13. QED
  BY <1>11, <1>12

-----------------------------------------------------------------------------
(* What KeyUrl::try_from() takes.                                          *)

LEMMA JoinedFree ==
  ASSUME NEW stops, "/" \notin stops, NEW p \in Seq(Free(stops))
  PROVE  Joined(p) \in Free(stops)
<1> DEFINE D == Free(stops)
           S == {q \in Seq(D) : Joined(q) \in D}
<1>1. D \subseteq Text /\ Seq(D) \subseteq Seq(Text)
  BY FreeIsText, SeqMonotonic
<1>2. <<"/">> \in D
  <2>1. "/" \in Tokens \ stops
    BY MeantTokens DEF Marks
  <2>2. QED
    BY <2>1, Singleton DEF Free
<1>3. <<>> \in S
  <2>1. <<>> \in Seq(Text) /\ <<>> \in Seq(D) /\ <<>> \in D
    BY DEF Free
  <2>2. QED
    BY <2>1, JoinedStep
<1>4. ASSUME NEW q \in Seq(D), NEW s \in D, q \in S
      PROVE  Append(q, s) \in S
  <2>1. Append(q, s) \in Seq(D)
    BY AppendProperties
  <2>2. Joined(Append(q, s)) = IF q = <<>> THEN s ELSE Joined(q) \o <<"/">> \o s
    BY <1>1, JoinedStep
  <2>3. \A a, b \in D : a \o b \in D
    BY ConcatProperties DEF Free
  <2> HIDE DEF D
  <2>4. Joined(q) \o <<"/">> \o s \in D
    BY <1>2, <1>4, <2>3
  <2>5. QED
    BY <2>1, <2>2, <2>4
<1>5. Seq(D) \subseteq S
  <2> HIDE DEF D, S
  <2>1. QED
    BY <1>3, <1>4, InductionOnSeq
<1>6. QED
  BY <1>5

LEMMA ParamsType ==
  ASSUME NEW u, Params(u) # Err, Err \notin {Params(u).flags, Params(u).alg}
  PROVE  Params(u).flags \in FlagValues /\ Params(u).alg \in Algorithms
<1> DEFINE pairs == QueryPairs(u)
           given(name) == {i \in DOMAIN pairs : pairs[i][1] = name}
           value(name) == pairs[CHOOSE i \in given(name) : \A j \in given(name) : j <= i][2]
           flags == IF given(<<"flags">>) = {} THEN NoParams.flags
                    ELSE ParseFlags(value(<<"flags">>))
           alg == IF given(<<"algorithm">>) = {} THEN NoParams.alg
                  ELSE ParseAlgorithm(value(<<"algorithm">>))
<1>1. Params(u) = [flags |-> flags, alg |-> alg]
  BY DEF Params
<1>2. \A t : ParseFlags(t) \in FlagValues \cup {Err}
  BY DEF ParseFlags, FlagValues
<1>3. \A t : ParseAlgorithm(t) \in Algorithms \cup {Err}
  <2>1. \A t : t \in {<<a>> : a \in Algorithms} => t[1] \in Algorithms
    OBVIOUS
  <2>2. QED
    BY <2>1 DEF ParseAlgorithm
<1>4. NoParams.flags = Err /\ NoParams.alg = Err
  BY DEF NoParams
<1>5. flags \in FlagValues \cup {Err} /\ alg \in Algorithms \cup {Err}
  <2> HIDE DEF given, value
  <2>1. QED
    BY <1>2, <1>3, <1>4
<1> HIDE DEF flags, alg
<1>6. QED
  BY <1>1, <1>5

LEMMA TryFromType ==
  ASSUME NEW u \in UrlType, TryFrom(u) # Err
  PROVE  LET k == TryFrom(u)
         IN /\ k = [server |-> u.host, id |-> k.id, alg |-> k.alg, flags |-> k.flags]
            /\ k.server \in Free(HostStops) /\ k.server # <<>>
            /\ k.alg \in Algorithms /\ k.flags \in FlagValues
            /\ k.id \in Text /\ Plain(k.id)
            /\ Params(u) = [flags |-> k.flags, alg |-> k.alg]
<1> DEFINE Names == Free(SegmentStops) \ DotSegments
           params == Params(u)
           id == KeyId(u)
           segments == Tail(u.path)
<1>1. /\ u.host # <<>> /\ ~(Len(u.path) < 2)
      /\ params # Err /\ Err \notin {params.flags, params.alg}
      /\ TryFrom(u) = [server |-> u.host, id |-> id, alg |-> params.alg, flags |-> params.flags]
  BY DEF TryFrom
<1>2. params.flags \in FlagValues /\ params.alg \in Algorithms
  BY <1>1, ParamsType
<1>3. u.host \in Free(HostStops) /\ u.path \in Seq(Names)
  BY DEF UrlType
<1>4. segments \in Seq(Names) /\ segments # <<>>
  <2> DEFINE p == u.path
  <2>1. p \in Seq(Names) /\ ~(Len(p) < 2)
    BY <1>1, <1>3
  <2> HIDE DEF p, Names
  <2>2. p # <<>> /\ Len(p) \in Nat
    BY <2>1, LenProperties, EmptySeq
  <2>3. Tail(p) \in Seq(Names) /\ Len(Tail(p)) = Len(p) - 1
    BY <2>1, <2>2
  <2>4. ASSUME Tail(p) = <<>>
        PROVE  FALSE
    <3>1. Len(p) - 1 = 0
      BY <2>3, <2>4
    <3> DEFINE n == Len(p)
    <3>2. n \in Nat /\ ~(n < 2) /\ n - 1 = 0
      BY <2>1, <2>2, <3>1
    <3> HIDE DEF n
    <3>3. QED
      BY <3>2
  <2>5. QED
    BY <2>3, <2>4 DEF p
<1> DEFINE stops == ({"?", "#"} \cup Dropped) \cup DOMAIN Escape
<1>5. segments \in Seq(Free({"/"})) /\ segments \in Seq(Free(stops))
  <2>1. SegmentStops = {"/"} \cup stops
    BY DEF SegmentStops
  <2> HIDE DEF stops
  <2>2. Names \subseteq Free({"/"}) /\ Names \subseteq Free(stops)
    BY <2>1, FreeBoth
  <2> HIDE DEF segments, Names
  <2>3. QED
    BY <1>4, <2>2, SeqMonotonic
<1> HIDE DEF segments
<1>6. id = Joined(segments) /\ id \in Free(stops)
  <2>1. "/" \notin stops
    BY MeantTokens DEF Marks
  <2> HIDE DEF stops
  <2>2. QED
    BY <1>5, <2>1, JoinedFree DEF KeyId, segments
<1>7. SplitOn(id, "/") = segments
  BY <1>4, <1>5, <1>6, SplitJoined
<1>8. id \in Text
  BY <1>6, FreeIsText
<1> HIDE DEF id
<1>9. ToSet(id) \cap ({"?", "#"} \cup DOMAIN Escape \cup Dropped) = {}
  <2>1. ToSet(id) \cap stops = {}
    BY <1>6, <1>8, FreeElements
  <2>2. QED
    BY <2>1
<1>10. ToSet(segments) \cap DotSegments = {}
  <2> HIDE DEF Names
  <2>1. DOMAIN segments = 1 .. Len(segments) /\ \A i \in 1 .. Len(segments) : segments[i] \in Names
    BY <1>4, ElementOfSeq, LenProperties
  <2>2. QED
    BY <2>1 DEF ToSet, Names
<1>11. Plain(id)
  BY <1>7, <1>9, <1>10 DEF Plain
<1>12. params = [flags |-> params.flags, alg |-> params.alg]
  BY <1>1 DEF Params
<1> HIDE DEF params
<1>13. QED
  BY <1>1, <1>2, <1>3, <1>8, <1>11, <1>12 DEF params

-----------------------------------------------------------------------------
(* The application.                                                        *)

ParsedType == {p \in [server : Free(HostStops) \ {<<>>}, id : Text,
                      alg : Algorithms, flags : FlagValues] : Plain(p.id)}

\* A URL saved is the one that was made of the half of the KeyPair that it is
\* saved for.
SavedAsMade == \A e \in store : e.url = MkKeyUrl(e.of, e.of[e.half])
UInv == TypeOK /\ SavedAsMade

LEMMA MkKeyUrlType ==
  ASSUME NEW k, k.server \in Text, k.alg \in Algorithms, k.flags \in FlagValues,
         NEW id \in Text, MkKeyUrl(k, id) # Err
  PROVE  MkKeyUrl(k, id) \in UrlType
<1> DEFINE query == QueryText(k.alg, FormatFlags[k.flags])
           q == <<"?">> \o query
<1>1. query \in Free({"#"}) /\ MkKeyUrl(k, id) = UrlParse(UrlText(k.server, id, q))
  BY KeyUrlText
<1>2. q \in Text
  <2> HIDE DEF query
  <2>1. "?" \in Tokens /\ query \in Text
    BY <1>1, FreeIsText, MeantTokens DEF Marks
  <2>2. QED
    BY <2>1, FirstOf DEF Text
<1> HIDE DEF q
<1>3. UrlText(k.server, id, q) \in Text
  BY <1>2, UrlTextGrouped
<1>4. QED
  BY <1>1, <1>3, UrlParseType

LEMMA UrlsType ==
  ASSUME TypeOK, SavedAsMade
  PROVE  Urls \subseteq UrlType
<1>1. ASSUME NEW e \in store
      PROVE  e.url \in UrlType
  <2>1. e.of \in KeyPairType /\ e.half \in Halves /\ e.url # Err
    BY DEF TypeOK
  <2>2. e.of[e.half] \in Text /\ e.of.server \in Text /\ e.of.alg \in Algorithms
        /\ e.of.flags \in FlagValues
    BY <2>1, ServerIdsAssumption DEF KeyPairType, Halves
  <2>3. QED
    BY <2>1, <2>2, MkKeyUrlType DEF SavedAsMade
<1>2. WrittenUrls \subseteq UrlType
  BY HandWrittenAssumption, UrlParseType DEF WrittenUrls
<1>3. QED
  BY <1>1, <1>2 DEF Urls

LEMMA TryFromParsed ==
  ASSUME NEW u \in UrlType, TryFrom(u) # Err
  PROVE  TryFrom(u) \in ParsedType
<1> DEFINE p == TryFrom(u)
<1>1. /\ p = [server |-> u.host, id |-> p.id, alg |-> p.alg, flags |-> p.flags]
      /\ p.server \in Free(HostStops) /\ p.server # <<>>
      /\ p.alg \in Algorithms /\ p.flags \in FlagValues
      /\ p.id \in Text /\ Plain(p.id)
  BY TryFromType
<1> HIDE DEF p
<1>2. p \in [server : Free(HostStops) \ {<<>>}, id : Text, alg : Algorithms, flags : FlagValues]
  BY <1>1
<1>3. QED
  BY <1>1, <1>2 DEF ParsedType, p

LEMMA ParsedIsTyped ==
  ASSUME TypeOK, SavedAsMade
  PROVE  Parsed \ {Err} \subseteq ParsedType
BY UrlsType, TryFromParsed DEF Parsed

\* What from_urls() makes of two such URLs.
LEMMA FromUrlsType ==
  ASSUME pool \in ServerIds, NEW p \in ParsedType, NEW q \in ParsedType, FromUrls(p, q) # Err
  PROVE  LET k == FromUrls(p, q)
         IN /\ k = [server |-> pool, alg |-> p.alg, flags |-> p.flags,
                    priv |-> p.id, pub |-> q.id]
            /\ k \in KeyPairType
            /\ pool = p.server /\ p.server = q.server /\ p.alg = q.alg /\ p.flags = q.flags
            /\ Plain(k.priv) /\ Plain(k.pub)
<1> DEFINE k == FromUrls(p, q)
<1>1. /\ ~Refused(p, q)
      /\ k = [server |-> pool, alg |-> p.alg, flags |-> p.flags, priv |-> p.id, pub |-> q.id]
  BY DEF FromUrls
<1>2. /\ p.id \in Text /\ q.id \in Text /\ p.alg \in Algorithms /\ p.flags \in FlagValues
      /\ Plain(p.id) /\ Plain(q.id)
  BY DEF ParsedType
<1> HIDE DEF k
<1>3. k \in KeyPairType
  BY <1>1, <1>2 DEF KeyPairType
<1>4. QED
  BY <1>1, <1>2, <1>3 DEF Refused, k

\* The URLs of a KeyPair that has plain ids and belongs to the server of the
\* pool, which is a host, give that KeyPair back.
LEMMA RestoredFromItsUrls ==
  ASSUME NEW k \in KeyPairType, k.server = pool, pool \in Free(HostStops), pool # <<>>,
         Plain(k.priv), Plain(k.pub)
  PROVE  /\ Err \notin {MkKeyUrl(k, k.priv), MkKeyUrl(k, k.pub)}
         /\ Restored(MkKeyUrl(k, k.priv), MkKeyUrl(k, k.pub)) = k
<1> DEFINE of(id) == [server |-> k.server, id |-> id, alg |-> k.alg, flags |-> k.flags]
<1>1. /\ k.alg \in Algorithms /\ k.flags \in FlagValues /\ k.priv \in Text /\ k.pub \in Text
      /\ k.server \in Text
      /\ k = [server |-> k.server, alg |-> k.alg, flags |-> k.flags,
              priv |-> k.priv, pub |-> k.pub]
  BY ServerIdsAssumption DEF KeyPairType
<1>2. /\ MkKeyUrl(k, k.priv) # Err /\ TryFrom(MkKeyUrl(k, k.priv)) = of(k.priv)
      /\ MkKeyUrl(k, k.pub) # Err /\ TryFrom(MkKeyUrl(k, k.pub)) = of(k.pub)
  BY <1>1, RoundTrip
<1>3. \A id \in Text : of(id) \in [server : Text, id : Text, alg : Algorithms, flags : FlagValues]
  BY <1>1
<1>4. of(k.priv) # Err /\ of(k.pub) # Err
  <2> HIDE DEF of
  <2>1. QED
    BY <1>1, <1>3, ErrAssumption
<1>5. FromUrls(of(k.priv), of(k.pub)) = k
  BY <1>1 DEF FromUrls, Refused
<1> HIDE DEF of
<1>6. QED
  BY <1>2, <1>4, <1>5 DEF Restored

LEMMA InitUInv == Init => UInv
BY DEF Init, UInv, TypeOK, SavedAsMade

LEMMA NextUInv == UInv /\ [Next]_vars => UInv'
<1> SUFFICES ASSUME UInv, [Next]_vars
             PROVE  UInv'
  OBVIOUS
<1>1. TypeOK /\ SavedAsMade
  BY DEF UInv
<1>2. CASE Obtain
  <2>1. PICK m \in KeyPairs :
          held' = held \cup {[server |-> pool, alg |-> m.alg, flags |-> m.flags,
                              priv |-> m.priv, pub |-> m.pub]}
    BY <1>2 DEF Obtain
  <2> DEFINE k == [server |-> pool, alg |-> m.alg, flags |-> m.flags,
                   priv |-> m.priv, pub |-> m.pub]
  <2>2. k \in KeyPairType /\ k.priv = m.priv /\ k.pub = m.pub
    BY <1>1, KeyPairsAssumption DEF TypeOK, KeyPairType
  <2>3. held' = held \cup {k} /\ pool' = pool /\ store' = store /\ outcome' = "Ok"
    BY <1>2, <2>1 DEF Obtain
  <2> HIDE DEF k
  <2>4. TypeOK' /\ SavedAsMade'
    BY <1>1, <2>2, <2>3 DEF TypeOK, SavedAsMade
  <2>5. QED
    BY <2>4 DEF UInv
<1>3. CASE Save
  <2>1. PICK k \in held, half \in Halves :
          LET url == MkKeyUrl(k, k[half])
          IN IF url = Err
             THEN outcome' = "Panic" /\ UNCHANGED store
             ELSE outcome' = "Ok" /\ store' = store \cup {[of |-> k, half |-> half, url |-> url]}
    BY <1>3 DEF Save
  <2> DEFINE e == [of |-> k, half |-> half, url |-> MkKeyUrl(k, k[half])]
  <2>2. /\ pool' = pool /\ held' = held /\ outcome' \in {"Panic", "Ok"}
        /\ store' = store \/ (store' = store \cup {e} /\ e.url # Err)
    BY <1>3, <2>1 DEF Save
  <2>3. e.of = k /\ e.half = half /\ e.url = MkKeyUrl(k, k[half]) /\ k \in KeyPairType
    BY <1>1 DEF TypeOK
  <2> HIDE DEF e
  <2>4. TypeOK'
    BY <1>1, <2>2, <2>3 DEF TypeOK
  <2>5. SavedAsMade'
    BY <1>1, <2>2, <2>3 DEF SavedAsMade
  <2>6. QED
    BY <2>4, <2>5 DEF UInv
<1>4. CASE Restart
  BY <1>1, <1>4 DEF Restart, UInv, TypeOK, SavedAsMade
<1>5. CASE Restore
  <2>1. pool' = pool /\ store' = store
    BY <1>5 DEF Restore
  <2>2. CASE outcome' = Err /\ held' = held
    BY <1>1, <2>1, <2>2 DEF UInv, TypeOK, SavedAsMade
  <2>3. CASE \E p, q \in Parsed \ {Err} :
               FromUrls(p, q) # Err /\ outcome' = "Ok" /\ held' = held \cup {FromUrls(p, q)}
    <3>1. PICK p \in Parsed \ {Err}, q \in Parsed \ {Err} :
            FromUrls(p, q) # Err /\ outcome' = "Ok" /\ held' = held \cup {FromUrls(p, q)}
      BY <2>3
    <3> DEFINE k == FromUrls(p, q)
    <3>2. p \in ParsedType /\ q \in ParsedType /\ pool \in ServerIds
      BY <1>1, ParsedIsTyped DEF TypeOK
    <3>3. k \in KeyPairType
      BY <3>1, <3>2, FromUrlsType
    <3>4. held' = held \cup {k} /\ outcome' = "Ok"
      BY <3>1
    <3> HIDE DEF k
    <3>5. TypeOK' /\ SavedAsMade'
      BY <1>1, <2>1, <3>3, <3>4 DEF TypeOK, SavedAsMade
    <3>6. QED
      BY <3>5 DEF UInv
  <2>4. QED
    BY <1>5, <2>2, <2>3 DEF Restore
<1>6. CASE UNCHANGED vars
  BY <1>1, <1>6 DEF vars, UInv, TypeOK, SavedAsMade
<1>7. QED
  BY <1>2, <1>3, <1>4, <1>5, <1>6 DEF Next

\* What is held and what is saved is always a KeyPair and its URL: both
\* conditions of UInv hold in every reachable state (src/key_pair.rs, lines
\* 105-137 and 155-163).
THEOREM UrlInvariance == Spec => []UInv
BY InitUInv, NextUInv, PTL DEF Spec

\* Whatever is held belongs to a server id of the application and has an
\* algorithm, flags and ids (src/key_pair.rs, lines 105-137).
THEOREM UrlTypes == Spec => []TypeOK
<1>1. UInv => TypeOK
  BY DEF UInv
<1>2. QED
  BY <1>1, UrlInvariance, PTL

\* Whatever the ids, and whoever wrote the URLs: a KeyPair restored from them can
\* be saved and restored again as it is (src/key_pair.rs, lines 105-137 and
\* 155-163).
THEOREM RestoredStaysTheSame == Spec => []RestoredIsStable
<1>1. UInv => RestoredIsStable
  <2> SUFFICES ASSUME UInv,
                      NEW p \in Parsed \ {Err}, NEW q \in Parsed \ {Err}, FromUrls(p, q) # Err
               PROVE  LET k == FromUrls(p, q)
                      IN /\ Err \notin {MkKeyUrl(k, k.priv), MkKeyUrl(k, k.pub)}
                         /\ Restored(MkKeyUrl(k, k.priv), MkKeyUrl(k, k.pub)) = k
    BY DEF RestoredIsStable
  <2> DEFINE k == FromUrls(p, q)
  <2>1. p \in ParsedType /\ q \in ParsedType /\ pool \in ServerIds
    BY ParsedIsTyped DEF UInv, TypeOK
  <2>2. /\ k = [server |-> pool, alg |-> p.alg, flags |-> p.flags, priv |-> p.id, pub |-> q.id]
        /\ k \in KeyPairType /\ pool = p.server
        /\ Plain(k.priv) /\ Plain(k.pub)
    BY <2>1, FromUrlsType
  <2>3. pool \in Free(HostStops) /\ pool # <<>>
    BY <2>1, <2>2 DEF ParsedType
  <2> HIDE DEF k
  <2>4. k.server = pool
    BY <2>2
  <2>5. QED
    BY <2>2, <2>3, <2>4, RestoredFromItsUrls DEF k
<1>2. QED
  BY <1>1, UrlInvariance, PTL

LEMMA NameIsHost ==
  ASSUME NEW s \in Text, Name(s)
  PROVE  s \in Free(HostStops) /\ s # <<>>
<1>1. ToSet(s) \cap HostStops = {}
  BY DEF Name, HostStops, AuthorityStops
<1>2. QED
  BY <1>1, FreeElements DEF Name

\* The two URLs saved of a KeyPair whose server has a name and whose ids are
\* plain give that KeyPair back, in a later run of the application too, as long
\* as its pool has the same server id (src/key_pair.rs, lines 155-163 and
\* 243-263, against lines 105-137 and src/key_url.rs, lines 127-172).
THEOREM SavedComesBack == Spec => []SavedIsRestored
<1>1. UInv => SavedIsRestored
  <2> SUFFICES ASSUME UInv, NEW e \in store, NEW f \in store, SavedTogether(e, f),
                      Name(e.of.server), Plain(e.of.priv), Plain(e.of.pub)
               PROVE  Restored(e.url, f.url) = e.of
    BY DEF SavedIsRestored
  <2> DEFINE k == e.of
  <2>1. /\ k \in KeyPairType /\ k.server = pool
        /\ e.url = MkKeyUrl(k, k.priv) /\ f.url = MkKeyUrl(k, k.pub)
    BY DEF UInv, TypeOK, SavedAsMade, SavedTogether
  <2>2. k.server \in Text
    BY <2>1, ServerIdsAssumption DEF KeyPairType
  <2>3. k.server \in Free(HostStops) /\ k.server # <<>>
    BY <2>2, NameIsHost
  <2>4. Plain(k.priv) /\ Plain(k.pub)
    OBVIOUS
  <2> HIDE DEF k
  <2>5. Restored(MkKeyUrl(k, k.priv), MkKeyUrl(k, k.pub)) = k
    BY <2>1, <2>3, <2>4, RestoredFromItsUrls
  <2>6. QED
    BY <2>1, <2>5 DEF k
<1>2. QED
  BY <1>1, UrlInvariance, PTL

-----------------------------------------------------------------------------
(* Ids that have a query or a fragment in them.                            *)

\* No part of a text that is split has a token if the text has not, and the
\* other way round: the separator is the only one that goes.
LEMMA SplitFreeBack ==
  ASSUME NEW stops, NEW sep, sep \notin stops, NEW t \in Text, SplitOn(t, sep) \in Seq(Free(stops))
  PROVE  t \in Free(stops)
<1> DEFINE F == Free(stops)
           S == {u \in Text : SplitOn(u, sep) \in Seq(F) => u \in F}
<1>1. <<>> \in S
  BY DEF Free, Text
<1>2. ASSUME NEW u \in Text, NEW x \in Tokens, u \in S
      PROVE  Append(u, x) \in S
  <2> DEFINE parts == SplitOn(u, sep)
             all == Append(u, x)
  <2>1. parts \in Parts /\ all \in Text /\ SplitOn(all, sep) = Extended(parts, x, sep)
    BY SplitStep
  <2>2. parts \in Seq(F) => u \in F
    BY <1>2
  <2>3. ASSUME u \in F, x \notin stops
        PROVE  all \in F
    <3>1. x \in Tokens \ stops
      BY <2>3
    <3>2. QED
      BY <2>3, <3>1, AppendProperties DEF Free
  <2> HIDE DEF parts, all
  <2>4. /\ Front(parts) \in Seq(Text) /\ Last(parts) \in Text
        /\ parts = Append(Front(parts), Last(parts))
        /\ parts \in Seq(Text) /\ <<>> \in Text
    <3>1. parts \in Seq(Text) /\ parts # <<>>
      BY <2>1 DEF Parts
    <3>2. <<>> \in Text
      BY DEF Text
    <3>3. QED
      BY <3>1, <3>2, AppendedLast
  <2>5. ASSUME x = sep, Extended(parts, x, sep) \in Seq(F)
        PROVE  all \in F
    <3>1. Append(parts, <<>>) \in Seq(F)
      BY <2>5 DEF Extended
    <3>2. parts \in Seq(F)
      <4> HIDE DEF F
      <4>1. QED
        BY <2>4, <3>1, AppendParts
    <3>3. QED
      BY <2>2, <2>3, <2>5, <3>2
  <2>6. ASSUME x # sep, Extended(parts, x, sep) \in Seq(F)
        PROVE  all \in F
    <3>1. Append(Last(parts), x) \in Text
      BY <2>4, AppendProperties DEF Text
    <3>2. Append(Front(parts), Append(Last(parts), x)) \in Seq(F)
      BY <2>6 DEF Extended
    <3>3. Front(parts) \in Seq(F) /\ Append(Last(parts), x) \in F
      <4> HIDE DEF F
      <4>1. QED
        BY <2>4, <3>1, <3>2, AppendParts
    <3>4. Last(parts) \in F /\ x \in Tokens \ stops
      BY <2>4, <3>3, AppendParts DEF Free, Text
    <3>5. parts \in Seq(F)
      <4> HIDE DEF F
      <4>1. Append(Front(parts), Last(parts)) \in Seq(F)
        BY <3>3, <3>4, AppendProperties
      <4>2. QED
        BY <2>4, <4>1
    <3>6. QED
      BY <2>2, <2>3, <3>4, <3>5
  <2>7. QED
    BY <2>1, <2>5, <2>6 DEF all
<1>3. Text \subseteq S
  <2> HIDE DEF S
  <2>1. QED
    BY <1>1, <1>2, InductionOnSeq DEF Text
<1>4. QED
  BY <1>3

LEMMA FirstAndRest ==
  ASSUME NEW D, NEW E, NEW y \in Seq(E), y # <<>>, y[1] \in D, Tail(y) \in Seq(D)
  PROVE  y \in Seq(D)
<1> DEFINE n == Len(y)
           r == Tail(y)
<1>1. n \in Nat \ {0} /\ y = [i \in 1 .. n |-> y[i]]
  BY EmptySeq, LenProperties
<1>2. Len(r) = n - 1 /\ \A i \in 1 .. n - 1 : r[i] = y[i + 1]
  BY <1>1
<1> HIDE DEF n, r
<1>3. \A i \in 1 .. n - 1 : r[i] \in D
  <2>1. r \in Seq(D)
    BY DEF r
  <2>2. QED
    BY <1>2, <2>1, ElementOfSeq
<1>4. \A i \in 1 .. n : y[i] \in D
  <2> SUFFICES ASSUME NEW i \in 1 .. n, i # 1
               PROVE  y[i] \in D
    OBVIOUS
  <2>1. i - 1 \in 1 .. n - 1 /\ (i - 1) + 1 = i
    BY <1>1
  <2>2. QED
    BY <1>2, <1>3, <2>1
<1>5. QED
  BY <1>1, <1>4, TypedSeq

LEMMA UnderstoodFree ==
  ASSUME NEW part \in Text, Understood(<<Before(part, {"="}), After(part, {"="})>>)
  PROVE  part \in Free({"?"})
<1>1. PICK x \in Free({"="}), y \in Text : part = x \o y /\ (y # <<>> => y[1] \in {"="})
  BY Cuts
<1> DEFINE v == IF y = <<>> THEN <<>> ELSE Tail(y)
<1>2. Before(part, {"="}) = x /\ After(part, {"="}) = v
  BY <1>1, CutAt
<1>3. {"flags", "algorithm", "=", "256", "257"} \cup Algorithms \subseteq Tokens \ {"?"}
  BY MeantTokens DEF Marks, Words, Algorithms
<1>4. \/ x = <<"flags">> /\ ParseFlags(v) # Err
      \/ x = <<"algorithm">> /\ ParseAlgorithm(v) # Err
  <2> HIDE DEF v
  <2>1. QED
    BY <1>2 DEF Understood
<1>5. x \in Free({"?"})
  <2>1. <<"flags">> \in Free({"?"}) /\ <<"algorithm">> \in Free({"?"})
    BY <1>3, Singleton DEF Free
  <2>2. QED
    BY <1>4, <2>1
<1>6. v \in Text
  <2>1. part \in Free({})
    BY FreeBoth
  <2>2. After(part, {"="}) \in Free({})
    BY <2>1, CutFree
  <2> HIDE DEF v
  <2>3. QED
    BY <1>2, <2>2, FreeBoth
<1>7. v \in Free({"?"})
  <2> HIDE DEF v
  <2>1. ASSUME ParseFlags(v) # Err
        PROVE  \E w : v = <<w>> /\ w # "?"
    <3>1. v = <<"256">> \/ v = <<"257">> \/ v = <<"0257">>
      BY <2>1 DEF ParseFlags
    <3>2. v[1] # "?" /\ v = <<v[1]>>
      BY <3>1
    <3>3. QED
      BY <3>2
  <2>2. ASSUME ParseAlgorithm(v) # Err
        PROVE  \E w : v = <<w>> /\ w # "?"
    <3>1. \E c \in Algorithms : v = <<c>>
      BY <2>2 DEF ParseAlgorithm
    <3>2. QED
      BY <3>1 DEF Algorithms
  <2>3. PICK w : v = <<w>> /\ w # "?"
    BY <1>4, <2>1, <2>2
  <2>4. w \in Tokens \ {"?"}
    BY <1>6, <2>3, ElementOfSeq DEF Text
  <2>5. QED
    BY <2>3, <2>4, Singleton DEF Free
<1>8. y \in Free({"?"})
  <2>1. CASE y = <<>>
    BY <2>1 DEF Free
  <2>2. CASE y # <<>>
    <3>1. y[1] \in Tokens \ {"?"} /\ Tail(y) \in Seq(Tokens \ {"?"})
      BY <1>1, <1>3, <1>7, <2>2 DEF Free
    <3>2. y \in Seq(Tokens)
      BY DEF Text
    <3>3. QED
      BY <2>2, <3>1, <3>2, FirstAndRest DEF Free
  <2>3. QED
    BY <2>1, <2>2
<1>9. QED
  BY <1>1, <1>5, <1>8, ConcatProperties DEF Free

\* Parameters are refused if there is another question mark among them.
LEMMA ParamsFree ==
  ASSUME NEW u, u.query \in Text, Params(u) # Err
  PROVE  u.query \in Free({"?"})
<1> DEFINE parts == SplitOn(u.query, "&")
           pair(i) == <<Before(parts[i], {"="}), After(parts[i], {"="})>>
           Named == {i \in DOMAIN parts : parts[i] # <<>>}
<1>1. QueryPairs(u) = [i \in Named |-> pair(i)]
  BY DEF QueryPairs
<1>2. \A i \in DOMAIN QueryPairs(u) : Understood(QueryPairs(u)[i])
  BY DEF Params
<1> HIDE DEF pair
<1>3. \A i \in DOMAIN parts : parts[i] = <<>> \/ Understood(pair(i))
  <2> HIDE DEF parts
  <2>1. \A i \in Named : Understood(pair(i))
    <3> HIDE DEF Named
    <3>1. QED
      BY <1>1, <1>2
  <2>2. QED
    BY <2>1
<1>4. parts \in Seq(Text)
  BY SplitStep DEF Parts
<1> HIDE DEF parts
<1>5. /\ DOMAIN parts = 1 .. Len(parts) /\ Len(parts) \in Nat
      /\ \A i \in 1 .. Len(parts) : parts[i] \in Text
      /\ parts = [i \in 1 .. Len(parts) |-> parts[i]]
  BY <1>4, ElementOfSeq, LenProperties
<1>6. ASSUME NEW i \in 1 .. Len(parts)
      PROVE  parts[i] \in Free({"?"})
  <2>1. CASE parts[i] = <<>>
    BY <2>1 DEF Free
  <2>2. CASE Understood(pair(i))
    BY <1>5, <2>2, UnderstoodFree DEF pair
  <2>3. QED
    BY <1>3, <1>5, <2>1, <2>2
<1>7. parts \in Seq(Free({"?"}))
  BY <1>5, <1>6, TypedSeq
<1>8. QED
  BY <1>7, SplitFreeBack DEF parts

\* A text that has a token is cut at the first of them.
LEMMA CutHere ==
  ASSUME NEW c \in Tokens, NEW id \in Text, id \notin Free({c})
  PROVE  \E x \in Free({c}), z \in Text : id = x \o (<<c>> \o z)
<1>1. PICK x \in Free({c}), y \in Text : id = x \o y /\ (y # <<>> => y[1] \in {c})
  BY Cuts
<1>2. ASSUME y = <<>>
      PROVE  FALSE
  <2>1. x \o y = x
    BY <1>2, FreeIsText, ConcatEmptySeq DEF Text
  <2>2. QED
    BY <1>1, <2>1
<1> DEFINE z == Tail(y)
<1>3. z \in Text
  BY <1>2 DEF Text
<1>4. y = <<c>> \o z
  <2>1. /\ y \in Seq(Tokens) /\ z \in Seq(Tokens) /\ <<c>> \in Seq(Tokens)
        /\ Len(y) \in Nat \ {0} /\ Len(z) = Len(y) - 1 /\ \A i \in 1 .. Len(z) : z[i] = y[i + 1]
        /\ y[1] = c
    BY <1>1, <1>2, EmptySeq DEF Text
  <2> DEFINE t == <<c>> \o z
             n == Len(z)
  <2> HIDE DEF z
  <2>2. /\ t \in Seq(Tokens) /\ Len(t) = 1 + n /\ n \in Nat
        /\ \A i \in 1 .. 1 + n : t[i] = IF i <= 1 THEN <<c>>[i] ELSE z[i - 1]
    BY <2>1, Singleton, ConcatProperties
  <2>3. Len(t) = Len(y) /\ <<c>>[1] = c
    BY <2>1, <2>2
  <2> HIDE DEF t, n
  <2>4. ASSUME NEW i \in 1 .. Len(t)
        PROVE  t[i] = y[i]
    <3>1. CASE i = 1
      BY <2>1, <2>2, <2>3, <3>1
    <3>2. CASE i # 1
      <4>1. i - 1 \in 1 .. Len(z) /\ (i - 1) + 1 = i /\ i \in 1 .. 1 + n /\ ~(i <= 1)
        BY <2>2, <3>2 DEF n
      <4>2. QED
        BY <2>1, <2>2, <4>1
    <3>3. QED
      BY <3>1, <3>2
  <2>5. t = y
    BY <2>1, <2>2, <2>3, <2>4, SeqEqual
  <2>6. QED
    BY <2>5 DEF t
<1>5. QED
  BY <1>1, <1>3, <1>4

\* In the URL of a key, what follows the authority is cut at that token too.
CutAround(c, id, q, x, z) ==
  /\ id = x \o (<<c>> \o z)
  /\ Keys \o x \in Free({c})
  /\ z \o q \in Text
  /\ Before(Keys \o (id \o q), {c}) = Keys \o x
  /\ After(Keys \o (id \o q), {c}) = z \o q

LEMMA CutInRest ==
  ASSUME NEW c \in {"?", "#"}, NEW id \in Text, id \notin Free({c}), NEW q \in Text
  PROVE  \E x \in Free({c}), z \in Text : CutAround(c, id, q, x, z)
<1>1. c \in Tokens /\ {"/", "keys"} \subseteq Tokens \ {c}
  BY MeantTokens DEF Marks, Words
<1>2. PICK x \in Free({c}), z \in Text : id = x \o (<<c>> \o z)
  BY <1>1, CutHere
<1> DEFINE cz == <<c>> \o z
           front == Keys \o x
           after == z \o q
           y == <<c>> \o after
<1>3. x \in Text /\ Keys \in Text /\ <<c>> \in Text
  BY <1>1, FreeIsText, Literals, Singleton DEF Text
<1>4. Keys \in Free({c})
  BY <1>1 DEF Keys, Free
<1>5. front \in Free({c}) /\ front \in Text
  <2>1. front \in Free({c})
    BY <1>4, ConcatProperties DEF Free
  <2>2. QED
    BY <2>1, FreeIsText
<1>6. after \in Text
  BY ConcatProperties DEF Text
<1>7. cz \in Text
  BY <1>3, ConcatProperties DEF Text
<1>8. y \in Text /\ y # <<>> /\ y[1] = c /\ Tail(y) = after
  <2> HIDE DEF after
  <2>1. QED
    BY <1>1, <1>6, FirstOf DEF Text
<1>9. cz \o q = y
  <2>1. <<c>> \in Seq(Tokens) /\ z \in Seq(Tokens) /\ q \in Seq(Tokens)
    BY <1>3 DEF Text
  <2>2. QED
    BY <2>1, ConcatAssociative, SMTT(30)
<1> HIDE DEF cz, y, after
<1>10. (x \o cz) \o q = x \o (cz \o q)
  <2>1. x \in Seq(Tokens) /\ cz \in Seq(Tokens) /\ q \in Seq(Tokens)
    BY <1>3, <1>7 DEF Text
  <2>2. QED
    BY <2>1, ConcatAssociative, SMTT(30)
<1>11. (Keys \o x) \o y = Keys \o (x \o y)
  <2>1. x \in Seq(Tokens) /\ y \in Seq(Tokens) /\ Keys \in Seq(Tokens)
    BY <1>3, <1>8 DEF Text
  <2>2. QED
    BY <2>1, ConcatAssociative, SMTT(30)
<1>12. Keys \o (id \o q) = front \o y
  BY <1>2, <1>9, <1>10, <1>11 DEF cz
<1>13. Before(front \o y, {c}) = front /\ After(front \o y, {c}) = after
  <2> HIDE DEF front
  <2>1. y # <<>> => y[1] \in {c}
    BY <1>8
  <2>2. QED
    BY <1>5, <1>8, <2>1, CutAt
<1>14. QED
  BY <1>2, <1>5, <1>6, <1>12, <1>13 DEF CutAround, after

\* Whatever the id is, as long as it brings no query of its own: a URL made of a
\* half of a KeyPair is for the server, the algorithm and the flags of the
\* KeyPair, if it is taken at all.
LEMMA MadeIsOfItsKeyPair ==
  ASSUME NEW k, k.server \in Free(HostStops), k.server # <<>>,
         k.alg \in Algorithms, k.flags \in FlagValues,
         NEW whole \in Text, BringsNoQuery(whole),
         MkKeyUrl(k, whole) # Err, TryFrom(MkKeyUrl(k, whole)) # Err
  PROVE  LET p == TryFrom(MkKeyUrl(k, whole))
         IN p.server = k.server /\ p.alg = k.alg /\ p.flags = k.flags
<1> DEFINE u == MkKeyUrl(k, whole)
           id == Kept(whole)
           p == TryFrom(u)
           query == QueryText(k.alg, FormatFlags[k.flags])
           q == <<"?">> \o query
           rest == Keys \o (id \o q)
<1>0. id \in Text /\ (id \in Free({"?"}) \/ id \in Free({"#"}))
  <2>1. whole \in Free({"?"}) \/ whole \in Free({"#"})
    BY FreeElements DEF BringsNoQuery
  <2>2. QED
    BY <2>1, KeptFree, FreeIsText
<1>1. query \in Free({"#"}) /\ u = UrlOf(UrlText(k.server, id, q))
  BY KeyUrlText, KeyUrlKept
<1> HIDE DEF id
<1>2. /\ q \in Text /\ q \in Free({"#"}) /\ q \notin Free({"?"})
  <2> HIDE DEF query
  <2>1. "?" \in Tokens \ {"#"} /\ query \in Seq(Tokens \ {"#"})
    BY <1>1, MeantTokens DEF Free, Marks
  <2>2. q \in Seq(Tokens \ {"#"}) /\ q # <<>> /\ q[1] = "?"
    BY <2>1, FirstOf
  <2> HIDE DEF q
  <2>3. q \in Free({"#"}) /\ q \in Text
    BY <2>2, FreeIsText DEF Free
  <2>4. ASSUME q \in Free({"?"})
        PROVE  FALSE
    <3>1. q[1] \in Tokens \ {"?"}
      BY <2>2, <2>4, EmptySeq, ElementOfSeq DEF Free
    <3>2. QED
      BY <2>2, <3>1
  <2>5. QED
    BY <2>3, <2>4
<1>3. u \in UrlType /\ TryFrom(u) # Err
  BY FreeIsText, MkKeyUrlType
<1>4. p.server = u.host /\ Params(u) = [flags |-> p.flags, alg |-> p.alg]
      /\ p.alg \in Algorithms /\ p.flags \in FlagValues
  <2> HIDE DEF u
  <2>1. p = [server |-> u.host, id |-> p.id, alg |-> p.alg, flags |-> p.flags]
    BY <1>3, TryFromType
  <2>2. /\ Params(u) = [flags |-> p.flags, alg |-> p.alg]
        /\ p.alg \in Algorithms /\ p.flags \in FlagValues
    BY <1>3, TryFromType
  <2> HIDE DEF p
  <2>3. QED
    BY <2>1, <2>2
<1>5. u.host = k.server /\ u.query = After(Before(rest, {"#"}), {"?"})
  <2> HIDE DEF query, q
  <2>1. LET path == Before(rest, {"?", "#"})
        IN UrlOf(UrlText(k.server, id, q)) =
             [host |-> k.server,
              path |-> IF path = <<>> THEN <<>> ELSE Normalised(SplitOn(Tail(path), "/")),
              query |-> After(Before(rest, {"#"}), {"?"})]
    BY <1>0, <1>2, UrlOfServer
  <2> HIDE DEF u, rest
  <2>2. QED
    BY <1>1, <2>1
<1>6. Params(u) # Err
  BY <1>4, ErrAssumption
<1> HIDE DEF u, p
<1>7. CASE id \in Free({"?"}) /\ id \in Free({"#"})
  <2>1. id \in Free({"?", "#"})
    <3>1. {"?", "#"} = {"?"} \cup {"#"}
      OBVIOUS
    <3>2. QED
      BY <1>7, <3>1, FreeBoth
  <2> HIDE DEF query
  <2>2. u = [host |-> k.server, path |-> Normalised(<<<<"keys">>>> \o SplitOn(id, "/")),
             query |-> query]
    BY <1>1, <2>1, UrlOfKey
  <2>3. u.query = query
    BY <2>2
  <2>4. Params(u) = [flags |-> k.flags, alg |-> k.alg]
    BY <2>3, ParamsOfQuery DEF query
  <2>5. QED
    BY <1>4, <1>5, <2>4 DEF p, u
<1>8. CASE id \notin Free({"?"})
  <2> HIDE DEF q
  <2>1. id \in Free({"#"})
    BY <1>0, <1>8
  <2>2. rest \in Free({"#"})
    <3>1. Keys \in Free({"#"})
      <4>1. {"/", "keys"} \subseteq Tokens \ {"#"}
        BY MeantTokens DEF Marks, Words
      <4>2. QED
        BY <4>1 DEF Keys, Free
    <3>2. QED
      BY <1>2, <2>1, <3>1, ConcatProperties DEF Free
  <2>3. PICK x \in Free({"?"}), z \in Text : After(rest, {"?"}) = z \o q /\ z \o q \in Text
    <3>1. PICK x \in Free({"?"}), z \in Text : CutAround("?", id, q, x, z)
      BY <1>0, <1>2, <1>8, CutInRest
    <3>2. QED
      BY <3>1 DEF CutAround
  <2> HIDE DEF rest
  <2>4. u.query = z \o q
    BY <1>5, <2>2, <2>3, NothingAfter
  <2>5. z \o q \in Free({"?"})
    BY <1>6, <2>3, <2>4, ParamsFree
  <2>6. QED
    BY <1>2, <2>5, ConcatParts DEF Free
<1>9. CASE id \notin Free({"#"})
  <2> HIDE DEF q
  <2>1. id \in Free({"?"})
    BY <1>0, <1>9
  <2>2. PICK x \in Free({"#"}), z \in Text :
          id = x \o (<<"#">> \o z) /\ Before(rest, {"#"}) = Keys \o x
    <3>1. PICK x \in Free({"#"}), z \in Text : CutAround("#", id, q, x, z)
      BY <1>0, <1>2, <1>9, CutInRest
    <3>2. QED
      BY <3>1 DEF CutAround
  <2>3. x \in Free({"?"})
    <3> DEFINE hz == <<"#">> \o z
    <3>1. x \in Text /\ hz \in Text
      <4>1. "#" \in Tokens
        BY MeantTokens DEF Marks
      <4>2. QED
        BY <4>1, FreeIsText, FirstOf DEF Text
    <3>2. x \o hz \in Free({"?"})
      BY <2>1, <2>2
    <3> HIDE DEF hz
    <3>3. QED
      BY <3>1, <3>2, ConcatParts DEF Free
  <2>4. Keys \o x \in Free({"?"})
    <3>1. {"/", "keys"} \subseteq Tokens \ {"?"}
      BY MeantTokens DEF Marks, Words
    <3>2. Keys \in Free({"?"})
      BY <3>1 DEF Keys, Free
    <3>3. QED
      BY <2>3, <3>2, ConcatProperties DEF Free
  <2> HIDE DEF rest
  <2>5. u.query = <<>>
    BY <1>5, <2>2, <2>4, NothingAfter
  <2>6. Params(u).alg = Err
    <3>1. SplitOn(u.query, "&") = <<<<>>>>
      <4>1. <<>> \in Free({"&"})
        BY DEF Free
      <4>2. QED
        BY <2>5, <4>1, SplitWhole
    <3>2. \A i \in DOMAIN <<<<>>>> : <<<<>>>>[i] = <<>>
      OBVIOUS
    <3>3. DOMAIN QueryPairs(u) = {}
      BY <3>1, <3>2 DEF QueryPairs
    <3>4. QED
      BY <3>3 DEF Params, NoParams
  <2>7. p.alg = Err
    BY <1>4, <2>6
  <2>8. QED
    <3>1. p.alg \in Tokens
      BY <1>4, MeantTokens DEF Words
    <3>2. QED
      BY <2>7, <3>1, ErrAssumption
<1>10. QED
  BY <1>7, <1>8, <1>9

\* A KeyPair restored from two saved URLs, of whichever KeyPairs on servers with
\* a name, is for the server, the algorithm and the flags of both, if neither id
\* brings a query of its own (src/key_pair.rs, lines 105-129, and src/key_url.rs,
\* lines 127-172).
THEOREM HalvesOfOneServer == Spec => []HalvesAgree
<1>1. ASSUME UInv, NEW e \in store, Name(e.of.server), BringsNoQuery(e.of[e.half]),
             TryFrom(e.url) # Err
      PROVE  LET p == TryFrom(e.url)
             IN p.server = e.of.server /\ p.alg = e.of.alg /\ p.flags = e.of.flags
  <2> DEFINE k == e.of
             id == k[e.half]
  <2>1. k \in KeyPairType /\ e.half \in Halves /\ e.url # Err /\ e.url = MkKeyUrl(k, id)
    BY <1>1 DEF UInv, TypeOK, SavedAsMade
  <2>2. k.alg \in Algorithms /\ k.flags \in FlagValues /\ id \in Text /\ k.server \in Text
    BY <2>1, ServerIdsAssumption DEF KeyPairType, Halves
  <2>3. k.server \in Free(HostStops) /\ k.server # <<>>
    BY <1>1, <2>2, NameIsHost
  <2>4. BringsNoQuery(id)
    BY <1>1
  <2> HIDE DEF id, k
  <2>5. LET p == TryFrom(MkKeyUrl(k, id))
        IN p.server = k.server /\ p.alg = k.alg /\ p.flags = k.flags
    BY <1>1, <2>1, <2>2, <2>3, <2>4, MadeIsOfItsKeyPair
  <2>6. QED
    BY <2>1, <2>5 DEF k
<1>2. UInv => HalvesAgree
  <2> SUFFICES ASSUME UInv, NEW e \in store, NEW f \in store,
                      Name(e.of.server), BringsNoQuery(e.of[e.half]),
                      Name(f.of.server), BringsNoQuery(f.of[f.half]),
                      Restored(e.url, f.url) # Err
               PROVE  LET k == Restored(e.url, f.url)
                      IN /\ k.server = e.of.server /\ k.alg = e.of.alg /\ k.flags = e.of.flags
                         /\ k.server = f.of.server /\ k.alg = f.of.alg /\ k.flags = f.of.flags
    BY DEF HalvesAgree
  <2> DEFINE p == TryFrom(e.url)
             q == TryFrom(f.url)
  <2>1. p # Err /\ q # Err /\ Restored(e.url, f.url) = FromUrls(p, q) /\ FromUrls(p, q) # Err
    BY DEF Restored
  <2>2. /\ p.server = e.of.server /\ p.alg = e.of.alg /\ p.flags = e.of.flags
        /\ q.server = f.of.server /\ q.alg = f.of.alg /\ q.flags = f.of.flags
    BY <1>1, <2>1
  <2> HIDE DEF p, q
  <2>3. /\ ~Refused(p, q)
        /\ FromUrls(p, q) = [server |-> pool, alg |-> p.alg, flags |-> p.flags,
                             priv |-> p.id, pub |-> q.id]
    BY <2>1 DEF FromUrls
  <2>4. QED
    BY <2>1, <2>2, <2>3 DEF Refused
<1>3. QED
  BY <1>2, UrlInvariance, PTL
=============================================================================
