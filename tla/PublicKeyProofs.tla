-------------------------- MODULE PublicKeyProofs ---------------------------
(***************************************************************************)
(* Proofs of the properties of PublicKeyFetch, for any objects a server    *)
(* may return.  All of them follow from what FromObject makes of a single  *)
(* object, to which Comes relates the result in every state.               *)
(***************************************************************************)
EXTENDS PublicKeyFetch, TLAPS

Comes(o) == result \in {FromObject(alg, o), WithDnskey(FromObject(alg, o))}
Nothing == pc \in {"idle", "connect", "get_key"} => fetched = {}
IInv == TypeOK /\ Nothing /\ \A o \in fetched : Comes(o)

-----------------------------------------------------------------------------
(* What is made of one object.                                             *)

LEMMA Curves ==
  /\ AlgInfo("ECDSAP256SHA256") = EcdsaInfo("P-256", 256)
  /\ AlgInfo("ECDSAP384SHA384") = EcdsaInfo("P-384", 384)
<1> DEFINE Item(a) == CHOOSE item \in ALG_MAPPINGS : item[1] = a
<1>1. /\ <<"ECDSAP256SHA256", EcdsaInfo("P-256", 256)>> \in ALG_MAPPINGS
      /\ <<"ECDSAP384SHA384", EcdsaInfo("P-384", 384)>> \in ALG_MAPPINGS
      /\ \A item \in ALG_MAPPINGS :
           /\ item[1] = "ECDSAP256SHA256" => item[2] = EcdsaInfo("P-256", 256)
           /\ item[1] = "ECDSAP384SHA384" => item[2] = EcdsaInfo("P-384", 384)
  BY DEF ALG_MAPPINGS
<1>2. \A a : (\E item \in ALG_MAPPINGS : item[1] = a) =>
               Item(a) \in ALG_MAPPINGS /\ Item(a)[1] = a
  OBVIOUS
<1> HIDE DEF Item
<1>3. /\ Item("ECDSAP256SHA256")[2] = EcdsaInfo("P-256", 256)
      /\ Item("ECDSAP384SHA384")[2] = EcdsaInfo("P-384", 384)
  <2>1. \E item \in ALG_MAPPINGS : item[1] = "ECDSAP256SHA256"
    BY <1>1
  <2>2. \E item \in ALG_MAPPINGS : item[1] = "ECDSAP384SHA384"
    BY <1>1
  <2> QED
    BY <1>1, <1>2, <2>1, <2>2
<1> QED
  BY <1>3 DEF AlgInfo, Item

LEMMA Lengths == \A a \in EcdsaAlgorithms : ValueByteLen(a) \in Nat
  BY Curves DEF EcdsaAlgorithms, ValueByteLen, EcdsaInfo

LEMMA ParsersReturn ==
  ASSUME NEW a, NEW o \in KeyObjects
  PROVE  /\ RsaParsePkcs1(a, o) \in PublicKeyResults
         /\ RsaParseX509(a, o) \in PublicKeyResults
         /\ EcdsaParseX509(a, o) \in PublicKeyResults
<1>1. o.len \in Nat
  BY DEF KeyObjects
<1>2. /\ \A n \in Nat : Key(n) \in PublicKeyResults
      /\ \A res \in Results : Fail(res) \in PublicKeyResults
  BY DEF Key, Fail, PublicKeyResults, Results
<1>3. 1 + o.len \in Nat /\ (o.len # 0 => o.len - 1 \in Nat)
  BY <1>1
<1> QED
  BY <1>2, <1>3 DEF RsaParsePkcs1, RsaParseX509, EcdsaParseX509, RsaEncodedLength, Results

LEMMA FromObjectReturns ==
  ASSUME NEW a, NEW o \in KeyObjects
  PROVE  FromObject(a, o) \in PublicKeyResults
<1>1. /\ o.len \in Nat
      /\ \A n \in Nat : Key(n) \in PublicKeyResults
      /\ Fail("Kmip") \in PublicKeyResults
  BY DEF KeyObjects, Key, Fail, PublicKeyResults, Results
<1>2. FromBytes(a, o) \in PublicKeyResults
  BY <1>1, ParsersReturn DEF FromBytes
<1> QED
  BY <1>1, <1>2 DEF FromObject, RsaEncodedLength

LEMMA DnskeyReturns ==
  ASSUME NEW r
  PROVE  /\ WithDnskey(r).res = "Ok" => WithDnskey(r) = r
         /\ r \in PublicKeyResults => WithDnskey(r) \in PublicKeyResults
  BY DEF WithDnskey, Fail, PublicKeyResults, Results

LEMMA OnlyRsaHasRsaOid ==
  ASSUME NEW kind \in KeyKinds, AlgorithmOid(kind) = "rsaEncryption"
  PROVE  kind = "RSA"
<1>1. AlgorithmOid("P-256") = "id-ecPublicKey" /\ AlgorithmOid("P-384") = "id-ecPublicKey"
  BY Zenon DEF AlgorithmOid
<1>2. AlgorithmOid("Ed25519") = "id-Ed25519" /\ AlgorithmOid("Ed448") = "id-Ed448"
  BY Zenon DEF AlgorithmOid
<1> QED
  BY <1>1, <1>2 DEF KeyKinds

\* Octets that are published for an RSA or an ECDSA algorithm.
LEMMA PublishedOctets ==
  ASSUME NEW a, NEW o \in KeyObjects, WellFormed(o), o.material = "Bytes",
         FromObject(a, o).res = "Ok"
  PROVE  /\ o.object = "PublicKey" /\ a # "OTHER"
         /\ a \in RsaAlgorithms => o.kind = "RSA" /\ o.syntax # "Octets"
         /\ a \in EcdsaAlgorithms =>
              /\ o.kind = AlgInfo(a).curve /\ o.syntax = "SubjectPublicKeyInfo"
              /\ o.flag = Uncompressed /\ FromObject(a, o).len = 2 * ValueByteLen(a)
<1>1. FromObject(a, o) = FromBytes(a, o) /\ o.object = "PublicKey"
  BY DEF FromObject, Fail
<1>2. /\ a \in RsaAlgorithms \/ a \in EcdsaAlgorithms \/ a \in EdAlgorithms
      /\ a \in RsaAlgorithms =>
           FromBytes(a, o) \in {RsaParsePkcs1(a, o), RsaParseX509(a, o)}
      /\ a \in EcdsaAlgorithms => FromBytes(a, o) = EcdsaParseX509(a, o)
  BY <1>1 DEF FromBytes, Fail, RsaAlgorithms, EcdsaAlgorithms, EdAlgorithms
<1>3. a # "OTHER"
  BY <1>2 DEF RsaAlgorithms, EcdsaAlgorithms, EdAlgorithms
<1>4. CASE a \in RsaAlgorithms
  <2>1. a \notin EcdsaAlgorithms
    BY <1>4 DEF RsaAlgorithms, EcdsaAlgorithms
  <2>2. o.kind = "RSA" /\ o.syntax # "Octets"
    <3>1. o.kind \in KeyKinds
      BY DEF KeyObjects
    <3>2. \/ o.syntax = "RSAPublicKey"
          \/ o.syntax = "SubjectPublicKeyInfo" /\ AlgorithmOid(o.kind) = "rsaEncryption"
      BY <1>1, <1>2, <1>4 DEF RsaParsePkcs1, RsaParseX509, Fail
    <3> QED
      BY <3>1, <3>2, OnlyRsaHasRsaOid DEF WellFormed
  <2> QED
    BY <1>1, <1>3, <2>1, <2>2
<1>5. CASE a \in EcdsaAlgorithms
  <2>1. a \notin RsaAlgorithms
    BY <1>5 DEF RsaAlgorithms, EcdsaAlgorithms
  <2>2. /\ o.kind = AlgInfo(a).curve /\ o.syntax = "SubjectPublicKeyInfo"
        /\ o.flag = Uncompressed /\ o.len = 1 + ValueByteLen(a) + ValueByteLen(a)
        /\ EcdsaParseX509(a, o) = Key(o.len - 1)
    BY <1>1, <1>2, <1>5 DEF EcdsaParseX509, Fail
  <2>3. FromObject(a, o).len = 2 * ValueByteLen(a)
    BY <1>1, <1>2, <1>5, <2>2, Lengths DEF Key
  <2> QED
    BY <1>1, <1>3, <2>1, <2>2, <2>3
<1>6. CASE a \notin RsaAlgorithms \cup EcdsaAlgorithms
  BY <1>1, <1>3, <1>6
<1> QED
  BY <1>4, <1>5, <1>6

LEMMA PublishedObject ==
  ASSUME NEW a, NEW o, FromObject(a, o).res = "Ok"
  PROVE  /\ o.object = "PublicKey"
         /\ o.material \in {"Bytes", "TransparentRSAPublicKey"}
<1>1. Fail("Kmip").res # "Ok"
  BY DEF Fail
<1> QED
  BY <1>1, Zenon DEF FromObject

\* What a parser panics on, and how long a key is.
LEMMA ParsedObject ==
  ASSUME NEW a, NEW o \in KeyObjects
  PROVE  /\ FromObject(a, o).res = "Panic" => ~o.whole \/ o.len = 0
         /\ FromObject(a, o).res = "Ok" => FromObject(a, o).len \in {o.len - 1, o.len, 1 + o.len}
<1> DEFINE Claim(r) == /\ r.res = "Panic" => ~o.whole \/ o.len = 0
                       /\ r.res = "Ok" => r.len \in {o.len - 1, o.len, 1 + o.len}
<1>1. /\ \A n \in {o.len - 1, o.len, 1 + o.len} : Claim(Key(n))
      /\ Claim(Fail("Kmip")) /\ Claim(Fail("InvalidKeyMaterial"))
      /\ ~o.whole \/ o.len = 0 => Claim(Fail("Panic"))
  BY DEF Key, Fail
<1> HIDE DEF Claim
<1>2. a \in RsaAlgorithms => Claim(RsaParsePkcs1(a, o)) /\ Claim(RsaParseX509(a, o))
  BY <1>1 DEF RsaParsePkcs1, RsaParseX509, RsaEncodedLength
<1>3. a \in EcdsaAlgorithms => Claim(EcdsaParseX509(a, o))
  BY <1>1 DEF EcdsaParseX509
<1>4. Claim(FromBytes(a, o))
  BY <1>1, <1>2, <1>3 DEF FromBytes, EcdsaAlgorithms
<1>5. Claim(FromObject(a, o))
  BY <1>1, <1>4 DEF FromObject, RsaEncodedLength
<1> QED
  BY <1>5 DEF Claim

LEMMA DnskeyPanics ==
  ASSUME NEW r, WithDnskey(r).res = "Panic"
  PROVE  r.res = "Panic" \/ (r.res = "Ok" /\ r.len > MaxKeyOctets)
  BY DEF WithDnskey

LEMMA PanickedKey ==
  ASSUME IInv, NEW o \in fetched, result.res = "Panic"
  PROVE  ~o.whole \/ o.len = 0 \/ o.len >= MaxKeyOctets
<1> DEFINE r == FromObject(alg, o)
<1>1. result \in {r, WithDnskey(r)} /\ o \in KeyObjects
  BY ObjectsAssumption DEF IInv, TypeOK, Comes
<1>2. r.res = "Panic" \/ (r.res = "Ok" /\ r.len > MaxKeyOctets)
  BY <1>1, DnskeyPanics
<1>3. /\ r.res = "Panic" => ~o.whole \/ o.len = 0
      /\ r.res = "Ok" => r.len \in {o.len - 1, o.len, 1 + o.len}
  BY <1>1, ParsedObject
<1> HIDE DEF r
<1>4. o.len \in Nat
  BY <1>1 DEF KeyObjects
<1> QED
  BY <1>2, <1>3, <1>4 DEF MaxKeyOctets

-----------------------------------------------------------------------------
LEMMA InitInv == Init => IInv
  BY DEF Init, IInv, TypeOK, Nothing

LEMMA NextInv == IInv /\ [Next \/ Done]_vars => IInv'
<1> SUFFICES ASSUME IInv, [Next \/ Done]_vars
             PROVE  IInv'
  OBVIOUS
<1> USE DEF IInv, TypeOK
<1>1. CASE Call \/ Connect
  BY <1>1 DEF Call, Connect, Comes, Nothing
<1>2. CASE FetchFails
  <2>1. Fail("Kmip") \in PublicKeyResults
    BY DEF Fail, PublicKeyResults, Results
  <2> QED
    BY <1>2, <2>1 DEF FetchFails, Comes, Nothing
<1>3. CASE Fetch
  <2>1. PICK o \in Objects : fetched' = {o} /\ result' = FromObject(alg, o)
    BY <1>3 DEF Fetch
  <2>2. pc' = "fetched" /\ alg' = alg /\ result' \in PublicKeyResults
    BY <1>3, <2>1, FromObjectReturns, ObjectsAssumption DEF Fetch
  <2>3. \A p \in fetched' : Comes(p)'
    BY <2>1, <2>2 DEF Comes
  <2> QED
    BY <2>1, <2>2, <2>3 DEF Nothing
<1>4. CASE MakeDnskey
  <2>1. pc' = "done" /\ UNCHANGED <<alg, fetched>> /\ result' = WithDnskey(result)
    BY <1>4 DEF MakeDnskey
  <2>2. WithDnskey(NoResult) = NoResult
    BY DEF WithDnskey, NoResult
  <2>3. result' \in PublicKeyResults \cup {NoResult}
    BY <2>1, <2>2, DnskeyReturns
  <2>4. \A r : WithDnskey(WithDnskey(r)) = WithDnskey(r)
    BY DEF WithDnskey, Fail
  <2>5. \A o \in fetched : Comes(o)'
    BY <2>1, <2>4 DEF Comes
  <2> QED
    BY <2>1, <2>3, <2>5 DEF Nothing
<1>5. CASE UNCHANGED vars
  BY <1>5 DEF vars, Comes, Nothing
<1> QED
  BY <1>1, <1>2, <1>3, <1>4, <1>5 DEF Next, Done

\* The types of the variables, and where a result comes from, in every state.
THEOREM FetchInvariance == Spec => []IInv
  BY InitInv, NextInv, PTL DEF Spec

LEMMA SuccessComes ==
  ASSUME IInv, NEW o \in fetched, Success
  PROVE  /\ o \in KeyObjects /\ WellFormed(o)
         /\ FromObject(alg, o).res = "Ok" /\ result = FromObject(alg, o)
<1>1. Comes(o) /\ o \in Objects
  BY DEF IInv, TypeOK
<1>2. result = FromObject(alg, o)
  BY <1>1, DnskeyReturns DEF Comes, Success
<1> QED
  BY <1>1, <1>2, ObjectsAssumption DEF Success

-----------------------------------------------------------------------------
\* A call of for_key_id_and_dnssec_algorithm() or dnskey() returns a key, one of
\* the two errors or panics, for any object (src/public_key.rs, lines 114-246).
THEOREM FetchTypes == Spec => []TypeOK
<1>1. IInv => TypeOK
  BY DEF IInv
<1> QED
  BY <1>1, FetchInvariance, PTL

\* Whatever label a server puts on octets, for an RSA or ECDSA algorithm they are
\* published only if the DER says so (src/public_key.rs, lines 152-180).
THEOREM OctetsMatch == Spec => []ParsedKeysMatch
<1>1. IInv => ParsedKeysMatch
  BY SuccessComes, PublishedOctets DEF ParsedKeysMatch
<1> QED
  BY <1>1, FetchInvariance, PTL

\* The DNSKEY of an ECDSA algorithm holds an uncompressed point of the right
\* length (src/algorithms/ecdsa.rs, lines 157-205).
THEOREM PointsAreWhole == Spec => []EcdsaPointsAreWhole
<1>1. IInv => EcdsaPointsAreWhole
  BY SuccessComes, PublishedOctets DEF EcdsaPointsAreWhole
<1> QED
  BY <1>1, FetchInvariance, PTL

\* A panic comes of a bit string that is empty or has bits left over, or of a key
\* too long for a record, and of nothing else (src/algorithms/rsa.rs, line 54;
\* src/algorithms/ecdsa.rs, line 183; src/public_key.rs, line 245).
THEOREM PanicsAreConfined == Spec => []OnlyMalformedKeysPanic
<1>1. IInv => OnlyMalformedKeysPanic
  BY PanickedKey DEF OnlyMalformedKeysPanic
<1> QED
  BY <1>1, FetchInvariance, PTL

\* Nothing but a public key object is published, and for an unknown algorithm
\* nothing but a transparent RSA key, which the code takes for any algorithm
\* (src/public_key.rs, lines 115-121 and 190-216).
THEOREM PublicOnly == Spec => []OnlyKnownKeysArePublished
<1>1. IInv => OnlyKnownKeysArePublished
  BY SuccessComes, PublishedOctets, PublishedObject DEF OnlyKnownKeysArePublished
<1> QED
  BY <1>1, FetchInvariance, PTL
=============================================================================
