----------------------------- MODULE Algorithms -----------------------------
(***************************************************************************)
(* The DNSSEC algorithms the library knows and what it knows of each: the  *)
(* constants ALG_* and get_alg_info() of src/algorithms/mod.rs, and the    *)
(* selection and check of the key length in generate() of src/lib.rs.      *)
(***************************************************************************)
EXTENDS Integers

RsaAlgorithms == {"RSASHA1", "RSASHA1_NSEC3_SHA1", "RSASHA256", "RSASHA512"}
EcdsaAlgorithms == {"ECDSAP256SHA256", "ECDSAP384SHA384"}
EdAlgorithms == {"ED25519", "ED448"}

\* SecurityAlgorithm is an open one octet enumeration: OTHER stands for every
\* value the library does not name.
SecurityAlgorithms ==
  RsaAlgorithms \cup EcdsaAlgorithms \cup EdAlgorithms \cup {"OTHER"}

\* The kinds of key pair a server can hold, whatever DNSSEC calls them.
KeyKinds == {"RSA", "P-256", "P-384", "Ed25519", "Ed448"}

CurveKinds == {"P-256", "P-384"}
EdKinds == {"Ed25519", "Ed448"}

None == "None"
NoLength == 0

\* sigLen is the exact signature length the sig_parser insists on, if any.
AlgorithmInfo ==
  [kind : KeyKinds, minLen : Nat, maxLen : Nat, fixedLen : Nat,
   curve : {"P-256", "P-384", None}, sigLen : Nat]

RsaInfo(min, max) ==
  [kind |-> "RSA", minLen |-> min, maxLen |-> max, fixedLen |-> NoLength,
   curve |-> None, sigLen |-> NoLength]
EcdsaInfo(curve, bits) ==
  [kind |-> curve, minLen |-> NoLength, maxLen |-> NoLength, fixedLen |-> bits,
   curve |-> curve, sigLen |-> NoLength]
EdInfo(kind, octets, sigLen) ==
  [kind |-> kind, minLen |-> NoLength, maxLen |-> NoLength,
   fixedLen |-> octets * 8, curve |-> None, sigLen |-> sigLen]

\* SHA-1 based algorithms have no entry: keys may be read for them but never
\* generated or used for signing.
ALG_MAPPINGS ==
  {<<"RSASHA256", RsaInfo(512, 4096)>>,
   <<"RSASHA512", RsaInfo(1024, 4096)>>,
   <<"ECDSAP256SHA256", EcdsaInfo("P-256", 256)>>,
   <<"ECDSAP384SHA384", EcdsaInfo("P-384", 384)>>,
   <<"ED25519", EdInfo("Ed25519", 32, 64)>>,
   <<"ED448", EdInfo("Ed448", 57, 114)>>}

\* get_alg_info(alg) is Some exactly for the algorithms of the table.
SupportedAlgorithms == {item[1] : item \in ALG_MAPPINGS}
HasAlgInfo(alg) == alg \in SupportedAlgorithms
AlgInfo(alg) == (CHOOSE item \in ALG_MAPPINGS : item[1] = alg)[2]

\* kmip_crypto_alg: KMIP has one ECDSA for all curves.
CryptoAlg(kind) == IF kind \in CurveKinds THEN "ECDSA" ELSE kind

\* sig_parser given a signature made by a key of this kind.  RSA algorithms
\* take any octets; ECDSA takes two integers in DER, which no other kind of key
\* makes, if each fits half of the output; Edwards curves take one length,
\* which is that of the signatures of their own kind.  (An RSA signature of 64
\* octets has the length of ED25519's; a server asked to sign with Ed25519 makes
\* none, see CanSign in Hsm.)
ValueByteLen(alg) == AlgInfo(alg).fixedLen \div 8
CurveOctets(kind) == IF kind = "P-256" THEN 32 ELSE 48
EdSignatureLength(kind) == IF kind = "Ed25519" THEN 64 ELSE 114
\* Bug: integers that are too long for ECDSA are cut.
SignatureParsesCut(alg, kind) ==
  /\ alg \in EcdsaAlgorithms => kind \in CurveKinds
  /\ alg \in EdAlgorithms =>
       kind \in EdKinds /\ EdSignatureLength(kind) = AlgInfo(alg).sigLen

SignatureParses(alg, kind) ==
  /\ alg \in EcdsaAlgorithms =>
       kind \in CurveKinds /\ CurveOctets(kind) <= ValueByteLen(alg)
  /\ alg \in EdAlgorithms =>
       kind \in EdKinds /\ EdSignatureLength(kind) = AlgInfo(alg).sigLen

(***************************************************************************)
(* generate(): what the caller asks for, and the length put in the         *)
(* request.  Only the RSA parameters carry a number of bits.               *)
(***************************************************************************)
\* GenerateParams: bits is NoLength for the algorithms that take none.
IsGenerateParams(alg, bits) ==
  /\ HasAlgInfo(alg)
  /\ bits \in Nat
  /\ bits # NoLength => alg \in RsaAlgorithms

\* bits.or(alg.kmip_crypto_fixed_len)
KeyLength(alg, bits) == IF bits # NoLength THEN bits ELSE AlgInfo(alg).fixedLen

\* The length is within the range the algorithm mandates, if it mandates one.
LengthPermitted(alg, bits) ==
  AlgInfo(alg).maxLen # NoLength =>
    KeyLength(alg, bits) \in AlgInfo(alg).minLen .. AlgInfo(alg).maxLen
=============================================================================
