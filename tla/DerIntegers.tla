---------------------------- MODULE DerIntegers -----------------------------
(***************************************************************************)
(* The integers in the DER of an ECDSA signature and of an RSA public key, *)
(* and the octets the library makes of them: parse_x962() of               *)
(* src/algorithms/ecdsa.rs, with halves of Half octets, and parse_pkcs1()  *)
(* and parse_x509() of src/algorithms/rsa.rs.  A server may send any two   *)
(* integers; the DER around them is right.  as_slice() of an integer gives *)
(* its content octets, with the zero that keeps a high bit from being a    *)
(* sign: parse_x962() takes that zero off, the RSA parsers do not.         *)
(***************************************************************************)
EXTENDS Integers, SequencesExt

CONSTANTS Half,     \* half_len
          ShortLen, \* longest exponent whose length is one octet: 255
          Octets,   \* the octets that occur
          MaxLen,   \* bound: the length of an integer
          Err       \* what is returned in place of octets, or a panic

ASSUME HalfAssumption == Half \in Nat \ {0}
ASSUME ShortLenAssumption == ShortLen \in 1 .. 255
ASSUME OctetsAssumption == Octets \subseteq 0 .. 255
ASSUME MaxLenAssumption == MaxLen \in Nat
ASSUME ErrAssumption == Err \notin Seq(Nat)

VARIABLES first, second,  \* the content octets of the two integers
          call,           \* the parser called, if one was
          result          \* what it returned
vars == <<first, second, call, result>>

\* bcder::Unsigned: some octets, and not negative.  Whether superfluous zeros
\* are refused is left to the callers.
Unsigned(x) == x # <<>> /\ x[1] < 128

-----------------------------------------------------------------------------
(* parse_x962()                                                            *)

\* A zero in front is right before a high bit only.
SuperfluousZero(x) == Len(x) >= 2 /\ x[1] = 0 /\ x[2] < 128
\* Bug: the zero stays.
KeepZero(x) == x
Stripped(x) == IF Len(x) >= 2 /\ x[1] = 0 /\ x[2] >= 128 THEN Tail(x) ELSE x

Zeros(n) == [i \in 1 .. n |-> 0]
\* Bug: on the wrong side.
PaddedRight(x) == x \o Zeros(Half - Len(x))
Padded(x) == Zeros(Half - Len(x)) \o x

ParseX962(r, s) ==
  IF \A x \in {r, s} : Unsigned(x) /\ ~SuperfluousZero(x) /\ Len(Stripped(x)) <= Half
  THEN Padded(Stripped(r)) \o Padded(Stripped(s))
  ELSE Err

-----------------------------------------------------------------------------
(* parse_pkcs1() and parse_x509()                                          *)

\* domain::crypto::common::rsa_encode: the length of the exponent, in one octet
\* or in a zero and two, the exponent, and the modulus.  It panics when two
\* octets are not enough.
LengthOctets(n) ==
  IF n <= ShortLen THEN <<n>> ELSE <<0, n \div 256, n % 256>>
RsaEncode(exponent, modulus) ==
  IF Len(exponent) < 65536
  THEN LengthOctets(Len(exponent)) \o exponent \o modulus
  ELSE Err

\* The modulus comes first in DER, and second in a DNSKEY.
\* Bug: it comes first in both.
RsaParseSwapped(one, two) ==
  IF Unsigned(one) /\ Unsigned(two) THEN RsaEncode(one, two) ELSE Err
RsaParse(modulus, exponent) ==
  IF Unsigned(modulus) /\ Unsigned(exponent) THEN RsaEncode(exponent, modulus) ELSE Err

-----------------------------------------------------------------------------
Init ==
  /\ first \in BoundedSeq(Octets, MaxLen)
  /\ second \in BoundedSeq(Octets, MaxLen)
  /\ call = "None"
  /\ result = Err

Parse(name, octets) ==
  /\ call = "None"
  /\ call' = name
  /\ result' = octets
  /\ UNCHANGED <<first, second>>

Next ==
  \/ Parse("parse_x962", ParseX962(first, second))
  \/ Parse("parse_rsa", RsaParse(first, second))

Spec == Init /\ [][Next]_vars
-----------------------------------------------------------------------------
(* Properties.                                                             *)

\* The integer that each of the prefixes of some octets stands for.
PrefixValues(x) ==
  LET v[i \in 0 .. Len(x)] == IF i = 0 THEN 0 ELSE 256 * v[i - 1] + x[i] IN v
Value(x) == PrefixValues(x)[Len(x)]
\* 256 ^ n: the least integer that n octets cannot hold.
TooLarge(n) == Value(<<1>> \o Zeros(n))

\* The halves of a signature are the integers r and s of the DER, whatever
\* their lengths and leading zeros (src/algorithms/ecdsa.rs, lines 69-85).
HalvesAreTheIntegers ==
  call = "parse_x962" /\ result # Err =>
    /\ Len(result) = 2 * Half
    /\ Value(SubSeq(result, 1, Half)) = Value(first)
    /\ Value(SubSeq(result, Half + 1, 2 * Half)) = Value(second)

\* A signature is refused only for an integer that is negative, too large for
\* its half, or not in the one form DER gives it (lines 46-81).
Proper(x) ==
  x # <<>> /\ x[1] < 128 /\ (Len(x) > 1 /\ x[1] = 0 => x[2] >= 128) /\ Value(x) < TooLarge(Half)
EverySignatureIsTaken ==
  call = "parse_x962" => (result # Err <=> Proper(first) /\ Proper(second))

\* The fields of an RSA key as RFC 3110 has them (quoted in src/public_key.rs,
\* lines 83-101): where the exponent starts, how long it is, and the rest.
Header(key) == IF key[1] = 0 THEN 3 ELSE 1
ExponentLen(key) == IF key[1] = 0 THEN 256 * key[2] + key[3] ELSE key[1]
Exponent(key) == SubSeq(key, Header(key) + 1, Header(key) + ExponentLen(key))
Modulus(key) == SubSeq(key, Header(key) + ExponentLen(key) + 1, Len(key))

\* The octets of an RSA key can be taken apart again, whatever the lengths of
\* exponent and modulus, and give the integers of the DER, which has them the
\* other way round, octet for octet: a zero in front of a high bit is still
\* there (src/algorithms/rsa.rs, lines 54-72 and 107-125).
ExponentAndModulus ==
  call = "parse_rsa" /\ result # Err =>
    Exponent(result) = second /\ Modulus(result) = first

\* "Leading zero octets are prohibited in the exponent and modulus"
\* (src/public_key.rs, line 100): what RFC 3110 says of the records the RSA
\* parsers make, of positive integers in the one form DER gives them.
InDer(x) == Unsigned(x) /\ ~SuperfluousZero(x) /\ x # <<0>>
NoLeadingZeros ==
  call = "parse_rsa" /\ result # Err /\ InDer(first) /\ InDer(second) =>
    Exponent(result)[1] # 0 /\ Modulus(result)[1] # 0
=============================================================================
