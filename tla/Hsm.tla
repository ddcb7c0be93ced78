-------------------------------- MODULE Hsm ---------------------------------
(***************************************************************************)
(* The KMIP server, as the library uses it.  It is not part of the         *)
(* repository: what it does is read off the calls in src/lib.rs,           *)
(* src/key_pair.rs and src/public_key.rs, and how servers differ off the   *)
(* comments there that name PyKMIP, Fortanix DSM, Securosys and            *)
(* Cascade-HSM-Bridge.  Every operation is atomic at the server.           *)
(***************************************************************************)
EXTENDS PublicKeys

CONSTANTS Pairs,     \* the key pairs the server has room for
          NoPair,    \* not a key pair
          Servers    \* the server profiles considered

ASSUME NoPairAssumption == NoPair \notin Pairs

VARIABLES server,    \* the profile of the server in use
          kind,      \* the kind of each pair
          object     \* the state of each managed object
hsmVars == <<server, kind, object>>

\* curve: what the server makes of Cryptographic Domain Parameters for an
\* elliptic curve; rsa, ecFormat: how it returns public keys; edExtension:
\* whether Query reports the Ed448/25519 extension; revokes: the states it
\* accepts Revoke in.
Profiles ==
  [curve : {"optional", "required", "refused"},
   rsa : {"PKCS1", "X509", "Transparent"}, ecFormat : {"X509", "Raw"},
   edExtension : BOOLEAN,
   revokes : SUBSET {"PreActive", "Active", "Deactivated"}]

ASSUME ServersAssumption == Servers \subseteq Profiles

\* Each half of a pair is an object with an identifier of its own.
KeyIds == {"private", "public"} \X Pairs
NoId == <<"none", NoPair>>
Private(p) == <<"private", p>>
Public(p) == <<"public", p>>
PairOf(id) == id[2]

ObjectStates == {"Absent", "PreActive", "Active", "Deactivated", "Destroyed"}

HsmTypeOK ==
  /\ server \in Servers
  /\ kind \in [Pairs -> KeyKinds]
  /\ object \in [KeyIds -> ObjectStates]

HsmInit ==
  /\ server \in Servers
  /\ kind = [p \in Pairs |-> "RSA"]
  /\ object = [id \in KeyIds |-> "Absent"]

Exists(id) == id \in KeyIds /\ object[id] \notin {"Absent", "Destroyed"}

-----------------------------------------------------------------------------
(* What the server grants.                                                 *)

AcceptsTemplate(k, namedCurve) ==
  CASE k \in {"P-256", "P-384"} /\ server.curve = "required" -> namedCurve
    [] k \in {"P-256", "P-384"} /\ server.curve = "refused" -> ~namedCurve
    [] k \in {"Ed25519", "Ed448"} -> server.edExtension
    [] OTHER -> TRUE

HasRoom == \E p \in Pairs : object[Private(p)] = "Absent"

CanActivate(id) == id \in KeyIds /\ object[id] = "PreActive"
CanRevoke(id) == id \in KeyIds /\ object[id] \in server.revokes
CanDestroy(id) == Exists(id) /\ object[id] # "Active"
CanSign(id, k) ==
  /\ id \in KeyIds
  /\ id[1] = "private"
  /\ object[id] = "Active"
  /\ CryptoAlg(kind[id[2]]) = CryptoAlg(k)

-----------------------------------------------------------------------------
(* What it does when it grants a request.                                  *)

CreateKeyPair(p, k) ==
  /\ object[Private(p)] = "Absent"
  /\ kind' = [kind EXCEPT ![p] = k]
  /\ object' = [id \in KeyIds |-> IF id[2] = p THEN "PreActive" ELSE object[id]]
  /\ UNCHANGED server

SetObject(id, s) ==
  /\ object' = [object EXCEPT ![id] = s]
  /\ UNCHANGED <<server, kind>>

\* The octets of a public key of each kind, in the form this server uses.
PointLength(k) == IF k = "P-256" THEN 65 ELSE 97
KeyObject(id) ==
  LET k == kind[id[2]]
      bytes == [object |-> "PublicKey", material |-> "Bytes", kind |-> k,
                format |-> "Raw", syntax |-> "Octets", whole |-> TRUE, flag |-> 0,
                len |-> 0]
      spki(format, flag, len) ==
        [bytes EXCEPT !.format = format, !.syntax = "SubjectPublicKeyInfo",
                      !.flag = flag, !.len = len]
  IN CASE id[1] = "private" -> [bytes EXCEPT !.object = "PrivateKey"]
       [] id[1] = "public" /\ k = "RSA" /\ server.rsa = "Transparent" ->
            [bytes EXCEPT !.material = "TransparentRSAPublicKey",
                          !.format = "OtherFormat", !.len = 259]
       [] id[1] = "public" /\ k = "RSA" /\ server.rsa = "PKCS1" ->
            [bytes EXCEPT !.format = "PKCS1", !.syntax = "RSAPublicKey", !.len = 259]
       [] id[1] = "public" /\ k = "RSA" /\ server.rsa = "X509" -> spki("X509", 0, 259)
       [] id[1] = "public" /\ k \in {"P-256", "P-384"} ->
            spki(server.ecFormat, Uncompressed, PointLength(k))
       [] id[1] = "public" /\ k = "Ed25519" -> [bytes EXCEPT !.len = 32]
       [] id[1] = "public" /\ k = "Ed448" -> [bytes EXCEPT !.len = 57]
=============================================================================
