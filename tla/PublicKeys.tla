----------------------------- MODULE PublicKeys -----------------------------
(***************************************************************************)
(* How PublicKey::for_key_id_and_dnssec_algorithm() turns the object a     *)
(* server returns into a DNSSEC public key: the dispatch on the key        *)
(* material and format, the three DER parsers it calls, and dnskey().      *)
(*                                                                         *)
(* An object is described by what the code looks at: the KMIP object type, *)
(* the form of its key material, the key format type the server labels it  *)
(* with, the DER syntax its octets really have, whether the bit string in  *)
(* a SubjectPublicKeyInfo consists of whole octets, and for an elliptic    *)
(* curve point its first octet and its length.  "kind" is the truth about  *)
(* the key; the OIDs a SubjectPublicKeyInfo carries are those of its kind. *)
(***************************************************************************)
EXTENDS Algorithms

Formats == {"PKCS1", "X509", "Raw", "OtherFormat"}
Syntaxes == {"RSAPublicKey", "SubjectPublicKeyInfo", "Octets"}
Uncompressed == 4

\* len: octets of the EC point with its leading flag, of the Edwards curve
\* key, or of the exponent and modulus of an RSA key.
KeyObjects ==
  [object : {"PublicKey", "PrivateKey", "OtherObject"},
   material : {"Bytes", "TransparentRSAPublicKey", "OtherMaterial"},
   format : Formats, syntax : Syntaxes, kind : KeyKinds, whole : BOOLEAN,
   flag : 0 .. 255, len : Nat]

AlgorithmOid(kind) ==
  CASE kind = "RSA" -> "rsaEncryption"
    [] kind \in {"P-256", "P-384"} -> "id-ecPublicKey"
    [] kind = "Ed25519" -> "id-Ed25519"
    [] kind = "Ed448" -> "id-Ed448"

Results == {"Ok", "InvalidKeyMaterial", "Kmip", "Panic"}
PublicKeyResults == [res : Results, len : Nat]
Fail(res) == [res |-> res, len |-> 0]
Key(len) == [res |-> "Ok", len |-> len]

\* domain::crypto::common::rsa_encode: exponents of the keys considered fit
\* the form with one octet of exponent length.
RsaEncodedLength(o) == 1 + o.len

\* algorithms/rsa.rs: parse_pkcs1 and parse_x509.  Both assert an RSA
\* algorithm, which their only caller ensures.  The octets of a bit string
\* that has some bits more are None, which is unwrapped.
RsaParsePkcs1(alg, o) ==
  IF alg \notin RsaAlgorithms THEN Fail("Panic")
  ELSE IF o.syntax # "RSAPublicKey" THEN Fail("InvalidKeyMaterial")
  ELSE Key(RsaEncodedLength(o))

RsaParseX509(alg, o) ==
  IF alg \notin RsaAlgorithms THEN Fail("Panic")
  ELSE IF \/ o.syntax # "SubjectPublicKeyInfo"
          \/ AlgorithmOid(o.kind) # "rsaEncryption"
       THEN Fail("InvalidKeyMaterial")
  ELSE IF ~o.whole THEN Fail("Panic")
  ELSE Key(RsaEncodedLength(o))

\* Bugs: the point is not looked at, its length is not, its curve is not; the
\* coordinates are cut out before the length is looked at.
EcdsaParseX509Slices(alg, o) ==
  IF o.syntax # "SubjectPublicKeyInfo" THEN Fail("InvalidKeyMaterial") ELSE Key(o.len - 1)
EcdsaParseX509AnyLength(alg, o) ==
  IF o.syntax # "SubjectPublicKeyInfo" \/ o.kind # AlgInfo(alg).curve
  THEN Fail("InvalidKeyMaterial")
  ELSE IF o.len = 0 \/ o.flag # Uncompressed THEN Fail("InvalidKeyMaterial")
  ELSE Key(o.len - 1)
EcdsaParseX509AnyCurve(alg, o) ==
  IF o.syntax # "SubjectPublicKeyInfo" \/ AlgorithmOid(o.kind) # "id-ecPublicKey"
  THEN Fail("InvalidKeyMaterial")
  ELSE IF o.flag # Uncompressed \/ o.len # 1 + 2 * ValueByteLen(alg)
  THEN Fail("InvalidKeyMaterial")
  ELSE Key(o.len - 1)

EcdsaParseX509SplitsFirst(alg, o) ==
  IF \/ o.syntax # "SubjectPublicKeyInfo"
     \/ o.kind # AlgInfo(alg).curve
     \/ ~o.whole
  THEN Fail("InvalidKeyMaterial")
  ELSE IF o.len < 1 + 2 * ValueByteLen(alg) THEN Fail("Panic")
  ELSE IF o.flag # Uncompressed THEN Fail("InvalidKeyMaterial")
  ELSE Key(2 * ValueByteLen(alg))

\* algorithms/ecdsa.rs: parse_x509.  A bit string that is not one of octets is
\* an error here; the first octet is read before the length is checked.
EcdsaParseX509(alg, o) ==
  IF alg \notin EcdsaAlgorithms THEN Fail("Panic")
  ELSE IF \/ o.syntax # "SubjectPublicKeyInfo"
          \/ AlgorithmOid(o.kind) # "id-ecPublicKey"
          \/ o.kind # AlgInfo(alg).curve
          \/ ~o.whole
       THEN Fail("InvalidKeyMaterial")
  ELSE IF o.len = 0 THEN Fail("Panic")
  ELSE IF \/ o.flag # Uncompressed
          \/ o.len # 1 + ValueByteLen(alg) + ValueByteLen(alg)
       THEN Fail("InvalidKeyMaterial")
  ELSE Key(o.len - 1)

\* The match on (algorithm, key_format_type) for material that is octets.
FromBytes(alg, o) ==
  CASE alg \in RsaAlgorithms /\ o.format = "PKCS1" -> RsaParsePkcs1(alg, o)
    [] alg \in RsaAlgorithms /\ o.format = "X509" -> RsaParseX509(alg, o)
    [] alg = "ECDSAP256SHA256" /\ o.format = "X509" -> EcdsaParseX509(alg, o)
    [] alg = "ECDSAP384SHA384" /\ o.format \in {"Raw", "X509"} ->
         EcdsaParseX509(alg, o)
    [] alg \in EdAlgorithms /\ o.format = "Raw" -> Key(o.len)
    [] OTHER -> Fail("Kmip")

\* Bug: the type of the managed object is not looked at.
FromObjectOfAnyType(alg, o) ==
  CASE o.material = "Bytes" -> FromBytes(alg, o)
    [] o.material = "TransparentRSAPublicKey" -> Key(RsaEncodedLength(o))
    [] OTHER -> Fail("Kmip")

\* for_key_id_and_dnssec_algorithm() after get_key has answered.
FromObject(alg, o) ==
  CASE o.object = "PublicKey" /\ o.material = "Bytes" -> FromBytes(alg, o)
    [] o.object = "PublicKey" /\ o.material = "TransparentRSAPublicKey" ->
         Key(RsaEncodedLength(o))
    [] OTHER -> Fail("Kmip")

\* dnskey(): Dnskey::new() refuses record data longer than 65535 octets, four
\* of which precede the key, and the refusal is unwrapped.
MaxKeyOctets == 65535 - 4
WithDnskey(r) == IF r.res = "Ok" /\ r.len > MaxKeyOctets THEN Fail("Panic") ELSE r
=============================================================================
