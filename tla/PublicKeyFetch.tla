--------------------------- MODULE PublicKeyFetch ---------------------------
(***************************************************************************)
(* One caller of PublicKey::for_key_id_and_dnssec_algorithm() or           *)
(* for_key_url(), and of dnskey() on the result (src/public_key.rs), and   *)
(* a server that may return any object for the id.                         *)
(***************************************************************************)
EXTENDS PublicKeys

CONSTANT Objects    \* the objects a server may return

\* What the octets are cannot contradict what they are octets of.
WellFormed(o) ==
  /\ o.material = "TransparentRSAPublicKey" => o.kind = "RSA" /\ o.syntax = "Octets"
  /\ o.syntax = "RSAPublicKey" => o.kind = "RSA"
  /\ ~o.whole => o.syntax = "SubjectPublicKeyInfo"

ASSUME ObjectsAssumption ==
  Objects \subseteq KeyObjects /\ \A o \in Objects : WellFormed(o)

VARIABLES pc,        \* "idle", "connect", "get_key", "fetched" or "done"
          alg,       \* the algorithm the caller gave
          fetched,   \* the objects received, at most one
          result     \* the public key, and in "done" the DNSKEY made of it
vars == <<pc, alg, fetched, result>>

NoResult == [res |-> "None", len |-> 0]

TypeOK ==
  /\ pc \in {"idle", "connect", "get_key", "fetched", "done"}
  /\ alg \in SecurityAlgorithms
  /\ fetched \subseteq Objects
  /\ result \in PublicKeyResults \cup {NoResult}

Init ==
  /\ pc = "idle"
  /\ alg \in SecurityAlgorithms
  /\ fetched = {}
  /\ result = NoResult

Call ==
  /\ pc = "idle"
  /\ pc' = "connect"
  /\ UNCHANGED <<alg, fetched, result>>

Connect ==
  /\ pc = "connect"
  /\ pc' = "get_key"
  /\ UNCHANGED <<alg, fetched, result>>

\* No connection from the pool, or get_key() fails: there is no object to read.
FetchFails ==
  /\ pc \in {"connect", "get_key"}
  /\ pc' = "fetched"
  /\ result' = Fail("Kmip")
  /\ UNCHANGED <<alg, fetched>>

Fetch ==
  /\ pc = "get_key"
  /\ pc' = "fetched"
  /\ \E o \in Objects : fetched' = {o} /\ result' = FromObject(alg, o)
  /\ UNCHANGED alg

\* from_metadata() asks for the DNSKEY at once.
MakeDnskey ==
  /\ pc = "fetched"
  /\ pc' = "done"
  /\ result' = WithDnskey(result)
  /\ UNCHANGED <<alg, fetched>>

Done == pc = "done" /\ UNCHANGED vars

Next == Call \/ Connect \/ FetchFails \/ Fetch \/ MakeDnskey
Spec == Init /\ [][Next \/ Done]_vars
-----------------------------------------------------------------------------
Success == result.res = "Ok"

\* Octets are published for an RSA or ECDSA algorithm only when the DER in them
\* says that they are a key of that algorithm and curve, whatever format the
\* server labels them with (src/public_key.rs, lines 152-180).
ParsedKeysMatch ==
  \A o \in fetched : Success /\ o.material = "Bytes" =>
    /\ alg \in RsaAlgorithms => o.kind = "RSA" /\ o.syntax # "Octets"
    /\ alg \in EcdsaAlgorithms =>
         o.kind = AlgInfo(alg).curve /\ o.syntax = "SubjectPublicKeyInfo"

\* The DNSKEY of an ECDSA algorithm holds two coordinates of an uncompressed
\* point, no more and no less: a compressed or truncated point, or one of the
\* other curve, is never published (src/algorithms/ecdsa.rs, lines 157-205).
EcdsaPointsAreWhole ==
  \A o \in fetched : Success /\ o.material = "Bytes" /\ alg \in EcdsaAlgorithms =>
    o.flag = Uncompressed /\ result.len = 2 * ValueByteLen(alg)

\* For an algorithm the library does not know it publishes nothing but a
\* transparent RSA key, and it never publishes an object of another type
\* (src/public_key.rs, lines 115-121 and 190-216).
OnlyKnownKeysArePublished ==
  \A o \in fetched : Success =>
    /\ o.object = "PublicKey"
    /\ alg = "OTHER" => o.material = "TransparentRSAPublicKey"

\* No object makes the parsers or dnskey() panic, of whatever type, label,
\* syntax, curve or form of point, but one whose bit string is empty or has
\* bits left over, or that is too long for a record (src/algorithms/rsa.rs,
\* line 54; src/algorithms/ecdsa.rs, line 183; src/public_key.rs, line 245).
OnlyMalformedKeysPanic ==
  \A o \in fetched : result.res = "Panic" =>
    ~o.whole \/ o.len = 0 \/ o.len >= MaxKeyOctets

-----------------------------------------------------------------------------
(* What comments in the source say and the code does not do.               *)

\* "If the cryptographic algorithm of the retrieved key does not match the
\* given DNSSEC algorithm an error will be returned." (src/public_key.rs,
\* line 53)
KindMatches(k) ==
  \/ alg \in RsaAlgorithms /\ k = "RSA"
  \/ HasAlgInfo(alg) /\ k = AlgInfo(alg).kind
MismatchedAlgorithmRejected ==
  \A o \in fetched : ~KindMatches(o.kind) => ~Success
=============================================================================
