------------------------ MODULE KeyPublicationProofs ------------------------
(***************************************************************************)
(* What KeyLifecycle publishes and returns for KeyPairs that were not      *)
(* generated but built from any two ids, or from URLs: public halves as    *)
(* DNSKEYs, signatures that the algorithm has room for, and, if all URLs   *)
(* are those of generated KeyPairs, keys of the kind the algorithm needs.  *)
(***************************************************************************)
EXTENDS KeyFailureProofs

\* A signature is, or was on its way, by a key that has been created.
SignersExist ==
  /\ \A s \in signatures : object[Private(s.pair)] # "Absent"
  /\ \A c \in Callers : pc[c] = "sign" /\ resp[c].status = "Ok" =>
       object[Private(resp[c].pair)] # "Absent"

PInv == HInv /\ OnlyPublicHalvesArePublished /\ SignersExist /\ SignaturesAreNotCut

-----------------------------------------------------------------------------
(* What is made of the objects and signatures of a server.                 *)

LEMMA PrivateObject ==
  ASSUME NEW p \in Pairs
  PROVE  KeyObject(Private(p)).object = "PrivateKey"
<1>1. Private(p)[1] = "private"
  BY DEF Private
<1> QED
  BY <1>1 DEF KeyObject

LEMMA PublishedIsPublic ==
  ASSUME NEW a, NEW id \in KeyIds, WithDnskey(FromObject(a, KeyObject(id))).res = "Ok"
  PROVE  id = Public(PairOf(id))
<1> DEFINE o == KeyObject(id)
<1>1. FromObject(a, o).res = "Ok"
  BY DEF WithDnskey, Fail
<1> HIDE DEF o
<1>2. Fail("Kmip").res # "Ok"
  BY DEF Fail
<1>3. o.object = "PublicKey"
  BY <1>1, <1>2, Zenon DEF FromObject
<1>4. id # Private(PairOf(id))
  BY <1>3, PrivateObject, IdPairs DEF o
<1> QED
  BY <1>4 DEF KeyIds, Private, Public, PairOf

LEMMA P256Length == ValueByteLen("ECDSAP256SHA256") = 32
<1> DEFINE item == CHOOSE item \in ALG_MAPPINGS : item[1] = "ECDSAP256SHA256"
<1>1. <<"ECDSAP256SHA256", EcdsaInfo("P-256", 256)>> \in ALG_MAPPINGS
  BY DEF ALG_MAPPINGS
<1>2. item \in ALG_MAPPINGS /\ item[1] = "ECDSAP256SHA256"
  BY <1>1
<1>3. item[2] = EcdsaInfo("P-256", 256)
  BY <1>2 DEF ALG_MAPPINGS
<1>4. item[2].fixedLen = 256
  BY <1>3 DEF EcdsaInfo
<1> HIDE DEF item
<1>5. 256 \div 8 = 32
  OBVIOUS
<1> QED
  BY <1>4, <1>5 DEF ValueByteLen, AlgInfo, item

LEMMA WiderSignatures ==
  ASSUME NEW k, SignatureParses("ECDSAP256SHA256", k)
  PROVE  k = "P-256"
<1>1. CurveOctets(k) <= 32
  BY P256Length, Zenon DEF SignatureParses, RsaAlgorithms, EcdsaAlgorithms, EdAlgorithms
<1> QED
  BY <1>1 DEF CurveOctets

-----------------------------------------------------------------------------
(* The steps of the server.                                                *)

\* What the server signs with is a private key that is active.
LEMMA SignedByExisting ==
  ASSUME HInv, NEW c \in Callers, Serve(c), pc[c] = "sign", resp'[c].status = "Ok"
  PROVE  object[Private(resp'[c].pair)] # "Absent" /\ resp'[c].pair \in Pairs
<1> USE DEF HInv, IInv, TypeOK
<1>1. ServeSign(c)
  BY DEF Serve, ServeQuery, ServeCreate, ServeGet, ServeActivate, ServeRevoke,
         ServeDestroy, Refuse, LoseRequest, AnswerOddly, ServeWithout, Waiting
<1>2. CanSign(local[c].priv, Template(c)) /\ resp'[c].pair = PairOf(local[c].priv)
  BY <1>1, ReplyEffect, IdPairs DEF ServeSign, CanSign
<1>3. local[c].priv = Private(PairOf(local[c].priv)) /\ PairOf(local[c].priv) \in Pairs
  BY <1>2, IdPairs DEF CanSign, KeyIds, Private, PairOf
<1> QED
  BY <1>2, <1>3 DEF CanSign

LEMMA ServerPublishes ==
  ASSUME PInv, NEW c \in Callers, Serve(c)
  PROVE  OnlyPublicHalvesArePublished' /\ SignersExist' /\ SignaturesAreNotCut'
<1> USE DEF PInv
<1>1. UNCHANGED appVars /\ UNCHANGED pc /\ \A d \in Callers \ {c} : resp'[d] = resp[d]
  BY DEF Serve, ServeQuery, ServeCreate, ServeGet, ServeActivate, ServeRevoke,
         ServeDestroy, ServeSign, Refuse, LoseRequest, AnswerOddly, Reply, ServeWithout,
         HInv, IInv, TypeOK
<1>2. \A s \in signatures : s.pair \in Pairs
  BY DEF HInv, IInv, TypeOK
<1>3. OnlyPublicHalvesArePublished'
  BY <1>1 DEF OnlyPublicHalvesArePublished, appVars
<1>4. SignaturesAreNotCut'
  BY <1>1, <1>2, KeysEndure DEF SignaturesAreNotCut, SignersExist, appVars
<1>5. ASSUME NEW d \in Callers, pc'[d] = "sign", resp'[d].status = "Ok"
      PROVE  object'[Private(resp'[d].pair)] # "Absent"
  <2>1. CASE d = c
    BY <1>1, <1>5, <2>1, SignedByExisting, KeysEndure
  <2>2. CASE d # c
    <3>1. resp[d].pair \in Pairs
      BY <1>1, <1>5, <2>2, IdPairs DEF HInv, IInv, CallerInv, DestroysOrSigns
    <3> QED
      BY <1>1, <1>5, <2>2, <3>1, KeysEndure DEF SignersExist
  <2> QED
    BY <2>1, <2>2
<1> QED
  BY <1>1, <1>2, <1>3, <1>4, <1>5, KeysEndure DEF SignersExist, appVars

-----------------------------------------------------------------------------
(* The steps of a caller.                                                  *)

\* A signature arrives only in answer to a request.
LEMMA NoSignatureYet ==
  ASSUME HInv, NEW c \in Callers, Start(c) \/ Continue(c)
  PROVE  ~(pc'[c] = "sign" /\ resp'[c].status = "Ok")
<1> USE DEF HInv, IInv, TypeOK, Pending
<1>1. CASE Start(c)
  BY <1>1 DEF Start, Generate, FromMetadata, FromUrls, DestroyKey, SignRaw,
              SignUnsupported, Enter
<1>2. CASE Continue(c)
  <2> USE DEF Return
  <2>1. CASE \/ ConnectFails(c) \/ GenerateRejectsLength(c) \/ SignFails(c) \/ SignPanics(c)
             \/ Bails(c, "query") \/ Bails(c, "get_key") \/ Bails(c, "activate")
             \/ Bails(c, "revoke") \/ Bails(c, "destroy")
             \/ Activated(c) \/ KeyDestroyed(c) \/ Signed(c)
    BY <2>1 DEF ConnectFails, GenerateRejectsLength, SignFails, SignPanics, Bails,
                Activated, KeyDestroyed, Signed
  <2>2. CASE \/ GenerateQueries(c) \/ GenerateCreates(c)
             \/ Connect(c, "meta_connect", "get_key") \/ Connect(c, "act_connect", "activate")
             \/ Connect(c, "des_connect", "revoke")
    BY <2>2 DEF GenerateQueries, GenerateCreates, Connect
  <2>3. CASE Queried(c) \/ CreateFails(c) \/ Revoked(c) \/ Created(c) \/ KeyFetched(c)
    BY <2>3 DEF Queried, CreateFails, Revoked, Created, KeyFetched, Proceed, Release
  <2>4. CASE Connect(c, "sign_connect", "sign")
    <3>1. pc[c] \notin RequestStates
      BY <2>4 DEF Connect, RequestStates
    <3>2. resp[c].status = "Pending" /\ UNCHANGED resp
      BY <2>4, <3>1 DEF Connect, CallerInv, HoldsOnlyForRequest
    <3> QED
      BY <3>2
  <2> QED
    BY <1>2, <2>1, <2>2, <2>3, <2>4 DEF Continue
<1> QED
  BY <1>1, <1>2

\* A KeyPair is returned when its public key has been fetched, or later.
LEMMA ReturnedIsPublic ==
  ASSUME HInv, NEW c \in Callers, Activated(c) \/ KeyFetched(c),
         NEW k \in keypairs' \ keypairs
  PROVE  k.pub = Public(k.key)
<1> USE DEF HInv, IInv, TypeOK
<1>1. CASE Activated(c)
  <2>1. pc[c] = "activate" /\ k = KeyPairOf(local[c])
    BY <1>1 DEF Activated, Granted
  <2>2. local[c].pub = Public(local[c].key)
    BY <2>1 DEF CallerInv, Generates, Activating
  <2> QED
    BY <2>1, <2>2 DEF KeyPairOf
<1>2. CASE KeyFetched(c)
  <2>1. /\ pc[c] = "get_key" /\ resp[c].status = "Ok" /\ Fetched(c) = "Ok"
        /\ k = KeyPairOf(Located(c))
    BY <1>2 DEF KeyFetched, Granted, Release, appVars
  <2>2. local[c].pub \in KeyIds /\ resp[c].pair = PairOf(local[c].pub)
    BY <2>1 DEF CallerInv, Generates
  <2>3. local[c].pub = Public(PairOf(local[c].pub))
    BY <2>1, <2>2, PublishedIsPublic DEF Fetched
  <2>4. local[c] \in Locals /\ resp[c].pair \in Pairs \cup {NoPair}
    BY DEF Replies
  <2>5. Located(c).pub = local[c].pub /\ Located(c).key = resp[c].pair
    BY <2>4, LocalWithKey DEF Located
  <2> QED
    BY <2>1, <2>2, <2>3, <2>5 DEF KeyPairOf
<1> QED
  BY <1>1, <1>2

LEMMA SignedIsWhole ==
  ASSUME PInv, NEW c \in Callers, Signed(c), NEW s \in signatures' \ signatures
  PROVE  /\ object[Private(s.pair)] # "Absent"
         /\ s.keypair.alg = "ECDSAP256SHA256" => kind[s.pair] = "P-256"
<1> USE DEF PInv, HInv, IInv, TypeOK
<1>1. pc[c] = "sign" /\ resp[c].status = "Ok"
  BY DEF Signed, Granted
<1>2. /\ SignatureParses(local[c].alg, kind[resp[c].pair])
      /\ s = [keypair |-> KeyPairOf(local[c]), pair |-> resp[c].pair]
  BY DEF Signed
<1>3. s.pair = resp[c].pair /\ s.keypair.alg = local[c].alg
  BY <1>2 DEF KeyPairOf
<1> QED
  BY <1>1, <1>2, <1>3, WiderSignatures DEF SignersExist

LEMMA CallerPublishes ==
  ASSUME PInv, NEW c \in Callers, Start(c) \/ Continue(c)
  PROVE  OnlyPublicHalvesArePublished' /\ SignersExist' /\ SignaturesAreNotCut'
<1> USE DEF PInv
<1>1. UNCHANGED <<object, kind>> /\ Others(c)
  BY CallerKeeps DEF Keeps, hsmVars
<1>2. ~Activated(c) /\ ~KeyFetched(c) => UNCHANGED keypairs
  BY KeyPairsGrow
<1>3. ~Signed(c) => UNCHANGED signatures
  BY DEF Start, Generate, FromMetadata, FromUrls, DestroyKey, SignRaw, SignUnsupported,
         Enter, appVars, Continue, ConnectFails, GenerateQueries, GenerateCreates,
         GenerateRejectsLength, Bails, Queried, CreateFails, Created, Revoked, SignFails,
         SignPanics, Connect, Proceed, Release, KeyDestroyed, Activated, KeyFetched
<1>4. OnlyPublicHalvesArePublished'
  BY <1>2, ReturnedIsPublic DEF OnlyPublicHalvesArePublished
<1>5. \A s \in signatures' : object'[Private(s.pair)] # "Absent"
  BY <1>1, <1>3, SignedIsWhole DEF SignersExist
<1>6. SignaturesAreNotCut'
  BY <1>1, <1>3, SignedIsWhole DEF SignaturesAreNotCut
<1>7. \A d \in Callers : pc'[d] = "sign" /\ resp'[d].status = "Ok" =>
        object'[Private(resp'[d].pair)] # "Absent"
  BY <1>1, NoSignatureYet DEF SignersExist, Others
<1> QED
  BY <1>4, <1>5, <1>6, <1>7 DEF SignersExist

-----------------------------------------------------------------------------
LEMMA PublicationInit == Init => PInv
  BY HoldersInit DEF Init, PInv, OnlyPublicHalvesArePublished, SignersExist,
                     SignaturesAreNotCut

LEMMA PublicationNext == PInv /\ [Next \/ Finished]_vars => PInv'
<1> SUFFICES ASSUME PInv, [Next \/ Finished]_vars
             PROVE  PInv'
  OBVIOUS
<1>1. HInv'
  BY HoldersNext DEF PInv
<1>2. CASE Next
  BY <1>1, <1>2, CallerPublishes, ServerPublishes DEF Next, PInv
<1>3. CASE UNCHANGED vars
  BY <1>1, <1>3 DEF vars, clientVars, appVars, hsmVars, PInv, SignersExist,
                    OnlyPublicHalvesArePublished, SignaturesAreNotCut
<1> QED
  BY <1>2, <1>3 DEF Finished

LEMMA Publication == Spec => []PInv
  BY PublicationInit, PublicationNext, PTL DEF Spec

\* What a KeyPair publishes is what its public key id names, whatever ids the
\* application gives (src/public_key.rs, lines 114-121 and 182-188).
THEOREM PublicHalvesOnly == Spec => []OnlyPublicHalvesArePublished
<1>1. PInv => OnlyPublicHalvesArePublished
  BY DEF PInv
<1> QED
  BY <1>1, Publication, PTL

\* A signature returned for P-256 was made with a key on P-256, whatever ids
\* the KeyPair was built from (src/algorithms/ecdsa.rs, lines 29-83).
THEOREM NoCutSignatures == Spec => []SignaturesAreNotCut
<1>1. PInv => SignaturesAreNotCut
  BY DEF PInv
<1> QED
  BY <1>1, Publication, PTL

-----------------------------------------------------------------------------
(* KeyPairs restored from URLs, in an application that gives from_urls()   *)
(* nothing but the URLs of generated KeyPairs.                             *)

OfKind(id, a) ==
  /\ PairOf(id) \in Pairs
  /\ object[Private(PairOf(id))] # "Absent"
  /\ kind[PairOf(id)] = AlgInfo(a).kind

\* Both ids of a KeyPair, or of a call about to return one, name keys that exist
\* and are of the kind its algorithm needs.
Fits(k) == OfKind(k.priv, k.alg) /\ OfKind(k.pub, k.alg)
AllFit ==
  /\ \A k \in keypairs : Fits(k)
  /\ \A c \in Callers : pc[c] \in ReadingKey /\ local[c].via # "generate" => Fits(local[c])

UInv == PInv /\ ("from_metadata" \notin Operations => AllFit)

LEMMA GeneratedFits ==
  ASSUME HInv, NEW c \in Callers, Activated(c)
  PROVE  Fits(KeyPairOf(local[c]))
<1>1. pc[c] = "activate" /\ CallerInv(c) /\ local[c].via = "generate"
  BY DEF HInv, IInv, CallerInv, Activated, Granted, Generates, Activating
<1>2. /\ PairOf(local[c].pub) \in Pairs
      /\ local[c].priv = Private(PairOf(local[c].pub))
      /\ object[local[c].priv] # "Absent"
      /\ kind[PairOf(local[c].pub)] = AlgInfo(local[c].alg).kind
  BY <1>1 DEF CallerInv, Generates, Activating
<1> QED
  BY <1>2, PairIds DEF Fits, OfKind, KeyPairOf

LEMMA FetchedFits ==
  ASSUME HInv, AllFit, NEW c \in Callers, KeyFetched(c), NEW k \in keypairs' \ keypairs
  PROVE  Fits(k)
  BY FetchedFrom DEF AllFit, ReadingKey, Fits

\* A call that is about to read a public key, and was not before, was made by
\* from_urls() or is that of a generate().
LEMMA RestoredFits ==
  ASSUME HInv, AllFit, "from_metadata" \notin Operations, NEW c \in Callers,
         Start(c) \/ Continue(c), pc'[c] \in ReadingKey, local'[c].via # "generate"
  PROVE  Fits(local'[c])
  BY RestoredFrom DEF AllFit, Fits

LEMMA CallerFits ==
  ASSUME UInv, NEW c \in Callers, Start(c) \/ Continue(c), "from_metadata" \notin Operations
  PROVE  AllFit'
<1> USE DEF UInv, PInv
<1>1. UNCHANGED <<object, kind>> /\ Others(c)
  BY CallerKeeps DEF Keeps, hsmVars
<1>2. \A k : Fits(k) <=> Fits(k)'
  BY <1>1 DEF Fits, OfKind
<1>3. \A k \in keypairs' \ keypairs : Fits(k)
  <2>1. ~Activated(c) /\ ~KeyFetched(c) => UNCHANGED keypairs
    BY KeyPairsGrow
  <2>2. Activated(c) => keypairs' = keypairs \cup {KeyPairOf(local[c])}
    BY DEF Activated
  <2> QED
    BY <2>1, <2>2, GeneratedFits, FetchedFits
<1>4. ASSUME NEW d \in Callers, pc'[d] \in ReadingKey, local'[d].via # "generate"
      PROVE  Fits(local'[d])
  BY <1>1, <1>4, RestoredFits DEF Others, AllFit
<1> QED
  BY <1>1, <1>3, <1>4 DEF AllFit, Fits, OfKind

LEMMA ServerFits ==
  ASSUME UInv, NEW c \in Callers, Serve(c), AllFit
  PROVE  AllFit'
<1>1. UNCHANGED <<keypairs, pc, local>>
  BY DEF Serve, ServeQuery, ServeCreate, ServeGet, ServeActivate, ServeRevoke,
         ServeDestroy, ServeSign, Refuse, LoseRequest, AnswerOddly, Reply, ServeWithout,
         appVars
<1>2. ASSUME NEW k, Fits(k)
      PROVE  Fits(k)'
  BY <1>2, KeysEndure DEF Fits, OfKind, UInv, PInv
<1> QED
  BY <1>1, <1>2 DEF AllFit, Fits, OfKind

\* A KeyPair restored from the URLs of generated KeyPairs refers to keys of the
\* kind its algorithm needs (src/key_pair.rs, lines 105-137), unless the
\* application also restores URLs of KeyPairs that it made up.
THEOREM UrlsKept ==
  ASSUME "from_metadata" \notin Operations
  PROVE  Spec => []UrlsKeepTheAlgorithm
<1>1. Init => UInv
  BY PublicationInit DEF Init, UInv, AllFit, ReadingKey
<1>2. UInv /\ [Next \/ Finished]_vars => UInv'
  <2> SUFFICES ASSUME UInv, [Next \/ Finished]_vars
               PROVE  UInv'
    OBVIOUS
  <2>1. PInv'
    BY PublicationNext DEF UInv
  <2>2. CASE Next
    BY <2>1, <2>2, CallerFits, ServerFits DEF Next, UInv
  <2>3. CASE UNCHANGED vars
    BY <2>1, <2>3 DEF vars, clientVars, appVars, hsmVars, UInv, AllFit, Fits, OfKind
  <2> QED
    BY <2>2, <2>3 DEF Finished
<1>3. UInv => UrlsKeepTheAlgorithm
  <2> SUFFICES ASSUME UInv, NEW k \in keypairs
               PROVE  /\ kind[k.key] = AlgInfo(k.alg).kind
                      /\ kind[PairOf(k.priv)] = AlgInfo(k.alg).kind
    BY DEF UrlsKeepTheAlgorithm
  <2>1. Fits(k) /\ k.pub = Public(k.key)
    BY DEF UInv, AllFit, PInv, OnlyPublicHalvesArePublished
  <2>2. PairOf(k.pub) = k.key
    BY <2>1 DEF Public, PairOf
  <2> QED
    BY <2>1, <2>2 DEF Fits, OfKind
<1> QED
  BY <1>1, <1>2, <1>3, PTL DEF Spec
=============================================================================
