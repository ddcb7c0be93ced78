-------------------------- MODULE KeyCustodyProofs --------------------------
(***************************************************************************)
(* KeyLifecycle implements KeyCustody, for any values of its constants.    *)
(*                                                                         *)
(* Each step of a caller or of the server is a step of KeyCustody or       *)
(* leaves its variables alone.  That a pair is handed over only once, and  *)
(* not activated after that, takes one more invariant: from the response   *)
(* of the server on a call of generate() is the only one to hold its pair, *)
(* and nobody has been given it.                                           *)
(***************************************************************************)
EXTENDS KeyLifecycleProofs

Generating == Asking \cup ReadingKey \cup Activating

\* The call of c goes on with pair p, which the server made for it.
Holds(c, p) ==
  /\ local[c].via = "generate"
  /\ \/ pc[c] \in {"create", "recreate"} /\ resp[c].status = "Ok" /\ resp[c].pair = p
     \/ pc[c] \in ReadingKey \cup Activating /\ PairOf(local[c].pub) = p

Given(p) == \E k \in OfGenerate : k.key = p

SoleHolder ==
  \A c \in Callers, p \in Pairs : Holds(c, p) =>
    ~Given(p) /\ \A d \in Callers : Holds(d, p) => d = c

AsksFor(l) ==
  \E r \in Params : l.alg = r.alg /\ l.bits = r.bits /\ l.flags = r.flags
Asked ==
  \A c \in Callers :
    pc[c] \in Generating /\ local[c].via = "generate" => AsksFor(local[c])

HInv == IInv /\ SoleHolder /\ Asked

-----------------------------------------------------------------------------
(* SoleHolder and Asked are kept.                                          *)

\* A step of c after which it holds what it held, if that.
Keeps(c) ==
  /\ Others(c)
  /\ \A p \in Pairs : Holds(c, p)' => Holds(c, p)
  /\ pc'[c] \in Generating /\ local'[c].via = "generate" => AsksFor(local'[c])

LEMMA OthersHold ==
  ASSUME NEW c \in Callers, Others(c), NEW d \in Callers \ {c}, NEW p \in Pairs
  PROVE  Holds(d, p)' <=> Holds(d, p)
  BY DEF Others, Holds

LEMMA AskedFrame ==
  ASSUME HInv, NEW c \in Callers, Others(c),
         pc'[c] \in Generating /\ local'[c].via = "generate" => AsksFor(local'[c])
  PROVE  Asked'
<1> SUFFICES ASSUME NEW d \in Callers, pc'[d] \in Generating, local'[d].via = "generate"
             PROVE  AsksFor(local'[d])
  BY DEF Asked, AsksFor
<1>1. CASE d = c
  BY <1>1
<1>2. CASE d # c
  BY <1>2 DEF HInv, Asked, Others
<1> QED
  BY <1>1, <1>2

LEMMA KeepsHolders ==
  ASSUME HInv, NEW c \in Callers, Keeps(c), OfGenerate' = OfGenerate
  PROVE  SoleHolder' /\ Asked'
<1>1. \A d \in Callers, p \in Pairs : Holds(d, p)' => Holds(d, p)
  BY OthersHold DEF Keeps
<1>2. \A p \in Pairs : Given(p)' = Given(p)
  BY DEF Given
<1>3. SoleHolder'
  BY <1>1, <1>2 DEF HInv, SoleHolder
<1> QED
  BY <1>3, AskedFrame DEF Keeps

LEMMA ReturnKeeps ==
  ASSUME IInv, NEW c \in Callers, NEW r, Return(c, r)
  PROVE  Keeps(c)
<1>1. Others(c) /\ pc'[c] = "idle"
  BY DEF Return, Others, IInv, TypeOK
<1> QED
  BY <1>1 DEF Keeps, Holds, Generating, Asking, ReadingKey, Activating

LEMMA EnterKeeps ==
  ASSUME IInv, NEW c \in Callers, NEW label \in ConnectStates, NEW l,
         Enter(c, label, l), label = "gen_connect" => AsksFor(l),
         label = "meta_connect" => l.via # "generate", label # "act_connect"
  PROVE  Keeps(c)
<1>1. Others(c) /\ pc'[c] = label /\ local'[c] = l
  BY DEF Enter, Others, IInv, TypeOK
<1> QED
  BY <1>1 DEF Keeps, Holds, Generating, Asking, ReadingKey, Activating, ConnectStates

LEMMA ConnectKeeps ==
  ASSUME HInv, NEW c \in Callers, NEW from, NEW to, <<from, to>> \in Connections,
         Connect(c, from, to)
  PROVE  Keeps(c)
<1>1. /\ Others(c) /\ pc[c] = from /\ pc'[c] = to
      /\ local'[c] = local[c] /\ resp'[c] = resp[c]
  BY DEF Connect, Others, HInv, IInv, TypeOK
<1>2. resp[c].status = "Pending"
  BY <1>1 DEF HInv, IInv, CallerInv, HoldsOnlyForRequest, RequestStates, Connections
<1>3. \A p \in Pairs : Holds(c, p)' => Holds(c, p)
  BY <1>1, <1>2 DEF Holds, ReadingKey, Activating, Connections
<1> QED
  BY <1>1, <1>3 DEF Keeps, HInv, Asked, Generating, Asking, ReadingKey, Activating, Connections

LEMMA ProceedKeeps ==
  ASSUME HInv, NEW c \in Callers, NEW to, Proceed(c, to),
         \/ pc[c] \in {"query", "create"} /\ to \in {"create", "recreate"}
         \/ to = "destroy"
  PROVE  Keeps(c)
<1>1. /\ Others(c) /\ pc'[c] = to /\ local'[c] = local[c] /\ resp'[c] = Pending
  BY DEF Proceed, Others, HInv, IInv, TypeOK
<1>2. \A p \in Pairs : ~Holds(c, p)'
  BY <1>1 DEF Holds, ReadingKey, Activating, Pending
<1> QED
  BY <1>1, <1>2 DEF Keeps, HInv, Asked, Generating, Asking, ReadingKey, Activating

LEMMA CreatedKeeps ==
  ASSUME HInv, NEW c \in Callers, Created(c)
  PROVE  Keeps(c)
<1> USE DEF HInv, IInv, TypeOK
<1> DEFINE p == resp[c].pair
           l == WithIds(local[c], Private(p), Public(p))
<1>1. pc[c] \in {"create", "recreate"} /\ resp[c].status = "Ok" /\ Release(c, "meta_connect", l)
  BY DEF Created, Granted
<1>2. p \in Pairs /\ local[c].via = "generate"
  BY <1>1 DEF CallerInv, Generates, Asking
<1>3. local[c] \in Locals /\ Private(p) \in Ids /\ Public(p) \in Ids
  BY <1>2, PairIds DEF Ids
<1>4. /\ l.alg = local[c].alg /\ l.bits = local[c].bits /\ l.flags = local[c].flags
      /\ l.pub = Public(p)
  BY <1>3, LocalWithIds
<1> HIDE DEF l
<1>5. Others(c) /\ pc'[c] = "meta_connect" /\ local'[c] = l
  BY <1>1 DEF Release, Others
<1>6. \A q \in Pairs : Holds(c, q)' => Holds(c, q)
  BY <1>1, <1>2, <1>4, <1>5, PairIds DEF Holds
<1>7. AsksFor(local[c])
  BY <1>1, <1>2 DEF Asked, Generating, Asking
<1>8. AsksFor(local'[c])
  BY <1>4, <1>5, <1>7 DEF AsksFor
<1> QED
  BY <1>5, <1>6, <1>8 DEF Keeps

LEMMA LocatedKeeps ==
  ASSUME HInv, NEW c \in Callers, Granted(c, "get_key"), local[c].via = "generate",
         Release(c, "act_connect", Located(c))
  PROVE  Keeps(c)
<1> USE DEF HInv, IInv, TypeOK
<1> DEFINE l == Located(c)
<1>1. pc[c] = "get_key" /\ Release(c, "act_connect", l)
  BY DEF Granted
<1>2. local[c] \in Locals /\ resp[c].pair \in Pairs \cup {NoPair}
  BY DEF Replies
<1>3. /\ l.alg = local[c].alg /\ l.bits = local[c].bits /\ l.flags = local[c].flags
      /\ l.pub = local[c].pub
  BY <1>2, LocalWithKey DEF Located
<1> HIDE DEF l
<1>4. Others(c) /\ pc'[c] = "act_connect" /\ local'[c] = l
  BY <1>1 DEF Release, Others
<1>5. \A q \in Pairs : Holds(c, q)' => Holds(c, q)
  BY <1>1, <1>3, <1>4 DEF Holds, ReadingKey, Activating
<1>6. AsksFor(local[c])
  BY <1>1 DEF Asked, Generating, ReadingKey
<1>7. AsksFor(local'[c])
  BY <1>3, <1>4, <1>6 DEF AsksFor
<1> QED
  BY <1>4, <1>5, <1>7 DEF Keeps

\* The caller gives its pair to the application and holds it no more.
LEMMA ActivatedHolders ==
  ASSUME HInv, NEW c \in Callers, Activated(c)
  PROVE  /\ SoleHolder' /\ Asked' /\ Holds(c, local[c].key)
         /\ OfGenerate' = OfGenerate \cup {KeyPairOf(local[c])}
<1> USE DEF HInv, IInv, TypeOK
<1>1. /\ pc[c] = "activate" /\ Return(c, "Ok")
      /\ keypairs' = keypairs \cup {KeyPairOf(local[c])}
  BY DEF Activated, Granted
<1>2. CallerInv(c)
  OBVIOUS
<1>3. Keeps(c)
  BY <1>1, ReturnKeeps
<1>4. /\ local[c].via = "generate" /\ local[c].key \in Pairs
      /\ PairOf(local[c].pub) = local[c].key
  BY <1>1, <1>2 DEF CallerInv, Generates, Activating
<1>5. Holds(c, local[c].key)
  BY <1>1, <1>4 DEF Holds, Activating
<1>6. KeyPairOf(local[c]).via = "generate" /\ KeyPairOf(local[c]).key = local[c].key
  BY <1>4 DEF KeyPairOf
<1>7. OfGenerate' = OfGenerate \cup {KeyPairOf(local[c])}
  BY <1>1, <1>6 DEF OfGenerate
<1>8. \A p \in Pairs : Given(p)' => Given(p) \/ p = local[c].key
  BY <1>6, <1>7 DEF Given
<1>9. \A p \in Pairs : ~Holds(c, p)'
  BY <1>1 DEF Return, Holds, ReadingKey, Activating
<1>10. \A d \in Callers, p \in Pairs : Holds(d, p)' => Holds(d, p) /\ d # c
  BY <1>3, <1>9, OthersHold DEF Keeps
<1>11. SoleHolder'
  BY <1>4, <1>5, <1>8, <1>10 DEF SoleHolder
<1> QED
  BY <1>3, <1>5, <1>7, <1>11, AskedFrame DEF Keeps

\* Answers other than the creation of a pair give nobody a pair to hold.
LEMMA AnswerKeeps ==
  ASSUME HInv, NEW c \in Callers, Serve(c), ~ServeCreate(c)
  PROVE  Keeps(c) /\ UNCHANGED appVars
<1> USE DEF HInv, IInv, TypeOK, Reply, ServeWithout, Waiting
<1>1. /\ UNCHANGED <<pc, conn, local, ret, made, appVars>>
      /\ \E r : resp' = [resp EXCEPT ![c] = r]
  BY DEF Serve, ServeQuery, ServeGet, ServeActivate, ServeRevoke, ServeDestroy, ServeSign,
         Refuse, LoseRequest, AnswerOddly
<1>2. pc[c] \in {"create", "recreate"} => resp'[c].status # "Ok"
  <2>1. CASE Refuse(c) \/ LoseRequest(c) \/ AnswerOddly(c)
    BY <2>1 DEF Refuse, LoseRequest, AnswerOddly
  <2> QED
    BY <2>1 DEF Serve, ServeQuery, ServeGet, ServeActivate, ServeRevoke, ServeDestroy, ServeSign
<1>3. Others(c)
  BY <1>1 DEF Others
<1>4. \A p \in Pairs : Holds(c, p)' => Holds(c, p)
  BY <1>1, <1>2 DEF Holds
<1> QED
  BY <1>1, <1>3, <1>4 DEF Keeps, Asked

LEMMA CreateHolders ==
  ASSUME HInv, NEW c \in Callers, ServeCreate(c)
  PROVE  SoleHolder' /\ Asked' /\ UNCHANGED appVars
<1> USE DEF HInv, IInv, TypeOK
<1>1. PICK p \in Pairs : /\ CreateKeyPair(p, Template(c))
                         /\ Reply(c, p)
                         /\ made' = [made EXCEPT ![c] = @ \cup {p}]
  BY DEF ServeCreate
<1>2. /\ resp'[c].status = "Ok" => resp'[c].pair = p
      /\ \A d \in Callers \ {c} : resp'[d] = resp[d]
      /\ UNCHANGED <<pc, conn, local, ret, appVars, calls>>
  BY <1>1, ReplyEffect
<1>3. pc[c] \in {"create", "recreate"} /\ object[Private(p)] = "Absent"
  BY <1>1 DEF ServeCreate, Waiting, CreateKeyPair
<1>4. Others(c)
  BY <1>1, <1>2 DEF Others
<1>5. \A d \in Callers : ~Holds(d, p)
  <2> SUFFICES ASSUME NEW d \in Callers, Holds(d, p)
               PROVE  FALSE
    OBVIOUS
  <2>1. CallerInv(d)
    OBVIOUS
  <2> QED
    BY <1>3, <2>1 DEF Holds, CallerInv, Generates
<1>6. ~Given(p)
  BY <1>3 DEF Given, OfGenerate, KeyPairsMatch, DeliveredAreUsable
<1>7. \A q \in Pairs : Holds(c, q)' => q = p
  <2>1. pc'[c] \notin ReadingKey \cup Activating
    BY <1>2, <1>3 DEF ReadingKey, Activating
  <2> QED
    BY <1>2, <2>1 DEF Holds
<1>8. \A d \in Callers \ {c}, q \in Pairs : Holds(d, q)' => Holds(d, q)
  BY <1>4, OthersHold
<1>9. \A q \in Pairs : Given(q)' => Given(q)
  BY <1>2 DEF Given, OfGenerate, appVars
<1>10. SoleHolder'
  BY <1>5, <1>6, <1>7, <1>8, <1>9 DEF SoleHolder
<1>11. Asked'
  BY <1>2 DEF Asked
<1> QED
  BY <1>2, <1>10, <1>11

LEMMA StartKeeps ==
  ASSUME HInv, NEW c \in Callers, Start(c)
  PROVE  Keeps(c) /\ UNCHANGED appVars
<1> USE DEF HInv, ConnectStates
<1>1. ASSUME UNCHANGED <<pc, conn, resp, local>>, NEW S, made' = [made EXCEPT ![c] = S],
             NEW r, ret' = [ret EXCEPT ![c] = r]
      PROVE  Keeps(c)
  <2>1. Others(c)
    BY <1>1 DEF Others, IInv, TypeOK
  <2> QED
    BY <1>1, <2>1 DEF Keeps, Holds, Asked
<1>2. CASE Generate(c)
  <2>1. PICK r \in Params : Enter(c, "gen_connect", ForGenerate(r))
    BY <1>2 DEF Generate
  <2>2. AsksFor(ForGenerate(r))
    BY ForGenerateType DEF AsksFor
  <2> QED
    BY <2>1, <2>2, EnterKeeps DEF Enter
<1>3. CASE FromMetadata(c)
  <2>1. PICK a \in ImportAlgs, priv \in KeyIds, pub \in KeyIds :
          Enter(c, "meta_connect", Import("from_metadata", a, 0, priv, pub))
    BY <1>3 DEF FromMetadata
  <2>2. a \in SecurityAlgorithms /\ priv \in Ids /\ pub \in Ids /\ "from_metadata" \in Vias
    BY ImportAlgsAssumption DEF Ids, Vias
  <2> QED
    BY <2>1, <2>2, ImportType, EnterKeeps DEF Enter
<1>4. CASE FromUrls(c)
  <2> DEFINE L(k, l) == Import("from_urls", k.alg, k.flags, k.priv, l.pub)
  <2>1. PICK k, l \in keypairs :
          \/ Enter(c, "meta_connect", L(k, l))
          \/ /\ ret' = [ret EXCEPT ![c] = "Failed"] /\ made' = [made EXCEPT ![c] = {}]
             /\ UNCHANGED <<hsmVars, pc, conn, resp, local, appVars>>
    BY <1>4 DEF FromUrls
  <2>2. /\ k.alg \in SecurityAlgorithms /\ k.flags \in Nat /\ k.priv \in Ids
        /\ l.pub \in Ids /\ "from_urls" \in Vias
    BY DEF IInv, TypeOK, KeyPairs, Vias
  <2>3. L(k, l).via = "from_urls"
    BY <2>2, ImportType
  <2> HIDE DEF L
  <2> QED
    BY <1>1, <2>1, <2>3, EnterKeeps DEF Enter
<1>5. CASE DestroyKey(c)
  BY <1>5, EnterKeeps DEF DestroyKey, Enter
<1>6. CASE SignRaw(c)
  BY <1>6, EnterKeeps DEF SignRaw, Enter
<1>7. CASE SignUnsupported(c)
  BY <1>1, <1>7 DEF SignUnsupported
<1> QED
  BY <1>2, <1>3, <1>4, <1>5, <1>6, <1>7 DEF Start

LEMMA ContinueKeeps ==
  ASSUME HInv, NEW c \in Callers, Continue(c), ~Activated(c)
  PROVE  Keeps(c) /\ OfGenerate' = OfGenerate
<1> USE DEF HInv
<1>1. UNCHANGED appVars => OfGenerate' = OfGenerate
  BY DEF appVars, OfGenerate
<1>2. CASE \/ ConnectFails(c) \/ GenerateRejectsLength(c) \/ SignFails(c) \/ SignPanics(c)
           \/ Bails(c, "query") \/ Bails(c, "get_key") \/ Bails(c, "activate")
           \/ Bails(c, "revoke") \/ Bails(c, "destroy")
  BY <1>1, <1>2, ReturnKeeps
     DEF ConnectFails, GenerateRejectsLength, SignFails, SignPanics, Bails
<1>3. CASE KeyDestroyed(c) \/ Signed(c)
  BY <1>3, ReturnKeeps DEF KeyDestroyed, Signed, OfGenerate
<1>4. CASE \/ GenerateQueries(c) \/ GenerateCreates(c)
           \/ Connect(c, "meta_connect", "get_key") \/ Connect(c, "act_connect", "activate")
           \/ Connect(c, "des_connect", "revoke") \/ Connect(c, "sign_connect", "sign")
  <2>1. PICK from, to : <<from, to>> \in Connections /\ Connect(c, from, to)
    BY <1>4 DEF GenerateQueries, GenerateCreates, Connections
  <2>2. Keeps(c)
    BY <2>1, ConnectKeeps
  <2> QED
    BY <1>1, <2>1, <2>2 DEF Connect
<1>5. CASE Queried(c) \/ CreateFails(c) \/ Revoked(c)
  <2>1. CASE \E r : Return(c, r) /\ UNCHANGED appVars
    BY <1>1, <2>1, ReturnKeeps
  <2>2. CASE \E to : /\ Proceed(c, to)
                     /\ \/ pc[c] \in {"query", "create"} /\ to \in {"create", "recreate"}
                        \/ to = "destroy"
    BY <1>1, <2>2, ProceedKeeps DEF Proceed
  <2> QED
    BY <1>5, <2>1, <2>2 DEF Queried, CreateFails, RetriesWithCurve, Revoked, Granted
<1>6. CASE Created(c)
  BY <1>1, <1>6, CreatedKeeps DEF Created, Release
<1>7. CASE KeyFetched(c)
  <2>1. CASE local[c].via = "generate" /\ Release(c, "act_connect", Located(c))
    BY <1>1, <1>7, <2>1, LocatedKeeps DEF KeyFetched, Release
  <2>2. CASE /\ local[c].via # "generate" /\ Return(c, "Ok")
             /\ keypairs' = keypairs \cup {KeyPairOf(Located(c))}
    <3>1. Located(c).via = local[c].via
      BY LocalWithKey DEF Located, Replies, IInv, TypeOK
    <3>2. KeyPairOf(Located(c)).via # "generate"
      BY <2>2, <3>1 DEF KeyPairOf
    <3> QED
      BY <2>2, <3>2, ReturnKeeps DEF OfGenerate
  <2>3. CASE \E r : Return(c, r) /\ UNCHANGED appVars
    BY <1>1, <2>3, ReturnKeeps
  <2> QED
    BY <1>7, <2>1, <2>2, <2>3 DEF KeyFetched
<1> QED
  BY <1>2, <1>3, <1>4, <1>5, <1>6, <1>7 DEF Continue

LEMMA HoldersNext == HInv /\ [Next \/ Finished]_vars => HInv'
<1> SUFFICES ASSUME HInv, [Next \/ Finished]_vars
             PROVE  HInv'
  OBVIOUS
<1>1. IInv'
  BY NextInv DEF HInv
<1>2. CASE Next
  <2>1. PICK c \in Callers : Start(c) \/ Continue(c) \/ Serve(c)
    BY <1>2 DEF Next
  <2>2. UNCHANGED appVars => OfGenerate' = OfGenerate
    BY DEF appVars, OfGenerate
  <2> QED
    BY <1>1, <2>1, <2>2, StartKeeps, ContinueKeeps, ActivatedHolders, AnswerKeeps,
       CreateHolders, KeepsHolders DEF HInv
<1>3. CASE Finished \/ UNCHANGED vars
  BY <1>1, <1>3 DEF Finished, vars, clientVars, appVars, HInv, SoleHolder, Asked, Holds,
                    Given, OfGenerate
<1> QED
  BY <1>2, <1>3

LEMMA HoldersInit == Init => HInv
<1> SUFFICES ASSUME Init
             PROVE  HInv
  OBVIOUS
<1>1. \A c \in Callers : pc[c] = "idle"
  BY DEF Init
<1> QED
  BY <1>1, InitInv DEF HInv, SoleHolder, Asked, Holds, Generating, Asking, ReadingKey,
                       Activating

LEMMA Holders == Spec => []HInv
  BY HoldersInit, HoldersNext, PTL DEF Spec

-----------------------------------------------------------------------------
(* Every step is one of KeyCustody.                                        *)

Unseen == UNCHANGED <<Stage, kind, OfGenerate, SignedByGenerated, Gone>>

LEMMA UnseenStutters == ASSUME Unseen PROVE UNCHANGED Custody!vars
  BY DEF Unseen, Custody!vars

LEMMA SameAlgInfo == \A a : Custody!AlgInfo(a) = AlgInfo(a)
  BY DEF Custody!AlgInfo, AlgInfo, Custody!ALG_MAPPINGS, ALG_MAPPINGS, Custody!RsaInfo,
         RsaInfo, Custody!EcdsaInfo, EcdsaInfo, Custody!EdInfo, EdInfo, Custody!NoLength,
         NoLength, Custody!None, None

LEMMA NothingReturned ==
  ASSUME UNCHANGED appVars
  PROVE  UNCHANGED <<OfGenerate, SignedByGenerated, Gone>>
  BY DEF appVars, OfGenerate, SignedByGenerated, Gone

LEMMA ServerAlone ==
  ASSUME UNCHANGED hsmVars
  PROVE  UNCHANGED <<Stage, kind>>
  BY DEF hsmVars, Stage

\* generate() returns: the pair of the call is handed over.
LEMMA ActivatedImplements ==
  ASSUME HInv, NEW c \in Callers, Activated(c)
  PROVE  Custody!Next
<1> USE DEF HInv, IInv, TypeOK
<1> DEFINE p == local[c].key
           k == KeyPairOf(local[c])
<1>1. /\ pc[c] = "activate" /\ resp[c].status = "Ok" /\ Return(c, "Ok")
      /\ UNCHANGED <<signatures, destroyed>>
  BY DEF Activated, Granted
<1>2. CallerInv(c)
  OBVIOUS
<1>3. /\ local[c].via = "generate" /\ p \in Pairs /\ local[c].pub = Public(p)
      /\ local[c].priv = Private(p) /\ kind[p] = AlgInfo(local[c].alg).kind
      /\ object[Private(p)] \in Usable
  BY <1>1, <1>2 DEF CallerInv, Generates, Activating
<1>4. PICK r \in Params : local[c].alg = r.alg /\ local[c].flags = r.flags
  BY <1>1, <1>3 DEF Asked, AsksFor, Generating, Activating
<1>5. Holds(c, p) /\ OfGenerate' = OfGenerate \cup {k}
  BY ActivatedHolders
<1>6. ~Custody!HandedOver(p)
  BY <1>3, <1>5 DEF SoleHolder, Given, Custody!HandedOver
<1>7. Stage[p] \in {"Active", "Deactivated", "Destroyed"}
  BY <1>3 DEF Stage, Usable
<1>8. k = [via |-> "generate", alg |-> r.alg, flags |-> r.flags,
           priv |-> <<"private", p>>, pub |-> <<"public", p>>, key |-> p]
  BY <1>3, <1>4 DEF KeyPairOf, Private, Public
<1>9. UNCHANGED <<Stage, kind, SignedByGenerated, Gone>>
  BY <1>1, ServerAlone DEF Return, SignedByGenerated, Gone
<1>10. kind[p] = Custody!AlgInfo(r.alg).kind
  BY <1>3, <1>4, SameAlgInfo
<1> HIDE DEF k
<1>11. Custody!HandOver(p, r)
  BY <1>5, <1>6, <1>7, <1>8, <1>9, <1>10 DEF Custody!HandOver
<1> QED
  BY <1>3, <1>4, <1>11 DEF Custody!Next

LEMMA SignedImplements ==
  ASSUME HInv, NEW c \in Callers, Signed(c)
  PROVE  Custody!Next \/ Unseen
<1> USE DEF HInv, IInv, TypeOK
<1> DEFINE k == KeyPairOf(local[c])
           s == [keypair |-> k, pair |-> resp[c].pair]
<1>1. UNCHANGED <<Stage, kind, OfGenerate, Gone>>
  BY ServerAlone DEF Signed, Return, OfGenerate, Gone
<1>2. CASE UNCHANGED signatures
  BY <1>1, <1>2 DEF Unseen, SignedByGenerated
<1>3. CASE signatures' = signatures \cup {s}
  <2>1. pc[c] = "sign" /\ resp[c].status = "Ok" /\ CallerInv(c)
    BY DEF Signed, Granted
  <2>2. k \in keypairs /\ local[c].priv \in KeyIds /\ resp[c].pair = PairOf(local[c].priv)
    BY <2>1 DEF CallerInv, DestroysOrSigns, Signing
  <2>3. k.priv = local[c].priv
    BY DEF KeyPairOf
  <2>4. s.keypair = k /\ s.pair = resp[c].pair
    OBVIOUS
  <2>5. CASE k.via = "generate"
    <3>1. resp[c].pair = k.key
      BY <2>2, <2>3, <2>5, PairIds DEF DeliveredAreKnown, KeyPairsMatch
    <3>2. SignedByGenerated' = SignedByGenerated \cup {[keypair |-> k, pair |-> k.key]}
      BY <1>3, <2>5, <3>1 DEF SignedByGenerated
    <3>3. k \in OfGenerate /\ Custody!Sign(k)
      BY <1>1, <2>2, <2>5, <3>2 DEF OfGenerate, Custody!Sign
    <3> QED
      BY <3>3 DEF Custody!Next
  <2>6. CASE k.via # "generate"
    BY <1>1, <1>3, <2>4, <2>6 DEF Unseen, SignedByGenerated
  <2> QED
    BY <2>5, <2>6
<1> QED
  BY <1>2, <1>3 DEF Signed

LEMMA DestroyedImplements ==
  ASSUME HInv, NEW c \in Callers, KeyDestroyed(c)
  PROVE  Custody!Next \/ Unseen
<1> USE DEF HInv, IInv, TypeOK
<1> DEFINE id == local[c].priv
<1>1. UNCHANGED <<Stage, kind, OfGenerate, SignedByGenerated>>
  BY ServerAlone DEF KeyDestroyed, Return, OfGenerate, SignedByGenerated
<1>2. destroyed' = destroyed \cup {id} /\ pc[c] = "destroy" /\ resp[c].status = "Ok"
  BY DEF KeyDestroyed, Granted
<1>3. id \in KeyIds /\ object[id] = "Destroyed"
  BY <1>2 DEF CallerInv, DestroysOrSigns, Destroying
<1>4. CASE \E p \in Pairs : id = Private(p)
  <2>1. PICK p \in Pairs : id = Private(p)
    BY <1>4
  <2>2. \A q \in Pairs : Private(q) = Private(p) => q = p
    BY DEF Private
  <2>3. Gone' = Gone \cup {p} /\ Stage[p] = "Destroyed"
    BY <1>2, <1>3, <2>1, <2>2 DEF Gone, Stage
  <2> QED
    BY <1>1, <2>3 DEF Custody!Report, Custody!Next
<1>5. CASE ~\E p \in Pairs : id = Private(p)
  <2>1. Gone' = Gone
    BY <1>2, <1>5 DEF Gone
  <2> QED
    BY <1>1, <2>1 DEF Unseen
<1> QED
  BY <1>4, <1>5

LEMMA CallerImplements ==
  ASSUME HInv, NEW c \in Callers, Start(c) \/ Continue(c)
  PROVE  Custody!Next \/ Unseen
<1>1. UNCHANGED <<Stage, kind>>
  BY CallersLeaveServer, ServerAlone
<1>2. CASE UNCHANGED appVars
  BY <1>1, <1>2, NothingReturned DEF Unseen
<1>3. CASE Start(c)
  BY <1>2, <1>3, StartKeeps
<1>4. CASE Activated(c) \/ Signed(c) \/ KeyDestroyed(c)
  BY <1>4, ActivatedImplements, SignedImplements, DestroyedImplements
<1>5. CASE KeyFetched(c)
  <2>1. UNCHANGED <<signatures, destroyed>> /\ ~Activated(c)
    BY <1>5 DEF KeyFetched, Release, appVars, Activated, Granted
  <2>2. OfGenerate' = OfGenerate
    BY <1>5, <2>1, ContinueKeeps DEF Continue
  <2> QED
    BY <1>1, <2>1, <2>2 DEF Unseen, SignedByGenerated, Gone
<1>6. CASE Continue(c) /\ ~(\/ Activated(c) \/ Signed(c) \/ KeyDestroyed(c) \/ KeyFetched(c))
  <2>1. UNCHANGED appVars
    BY <1>6 DEF Continue, ConnectFails, GenerateQueries, GenerateCreates,
       GenerateRejectsLength, Bails, Queried, CreateFails, Created, Revoked, SignFails,
       SignPanics, Connect, Proceed, Release
  <2> QED
    BY <1>2, <2>1
<1> QED
  BY <1>3, <1>4, <1>5, <1>6

\* A change of state of one object is one of its pair if it is a private half.
LEMMA ObjectChanges ==
  ASSUME HInv, NEW id \in KeyIds, NEW s, SetObject(id, s)
  PROVE  /\ UNCHANGED kind
         /\ \/ Stage' = Stage
            \/ \E p \in Pairs : /\ id = Private(p) /\ Stage[p] = object[id]
                                /\ Stage' = [Stage EXCEPT ![p] = s]
<1> USE DEF HInv, IInv, TypeOK, HsmTypeOK, SetObject
<1>1. \A p, q \in Pairs : Private(p) = Private(q) => p = q
  BY DEF Private
<1>2. CASE \E p \in Pairs : id = Private(p)
  <2>1. PICK p \in Pairs : id = Private(p)
    BY <1>2
  <2>2. Stage' = [Stage EXCEPT ![p] = s]
    BY <1>1, <2>1, PairIds DEF Stage
  <2> QED
    BY <2>1, <2>2 DEF Stage
<1>3. CASE ~\E p \in Pairs : id = Private(p)
  BY <1>3, PairIds DEF Stage
<1> QED
  BY <1>2, <1>3

LEMMA ServeObjectImplements ==
  ASSUME HInv, NEW c \in Callers, ServeActivate(c) \/ ServeRevoke(c) \/ ServeDestroy(c)
  PROVE  Custody!Next \/ Unseen
<1> USE DEF HInv, IInv, TypeOK, HsmTypeOK, Waiting
<1> DEFINE id == local[c].priv
<1>1. UNCHANGED <<OfGenerate, SignedByGenerated, Gone>>
  BY NothingReturned DEF ServeActivate, ServeRevoke, ServeDestroy, Reply
<1>2. UNCHANGED <<Stage, kind>> => Unseen
  BY <1>1 DEF Unseen
<1>3. CASE ServeActivate(c)
  <2>1. /\ pc[c] = "activate" /\ id \in KeyIds /\ object[id] = "PreActive"
        /\ SetObject(id, "Active")
    BY <1>3 DEF ServeActivate, CanActivate
  <2>2. CASE \E p \in Pairs : /\ id = Private(p) /\ Stage[p] = object[id]
                              /\ Stage' = [Stage EXCEPT ![p] = "Active"]
    <3>1. PICK p \in Pairs : /\ id = Private(p) /\ Stage[p] = object[id]
                             /\ Stage' = [Stage EXCEPT ![p] = "Active"]
      BY <2>2
    <3>2. local[c].via = "generate" /\ local[c].priv = Private(PairOf(local[c].pub))
      BY <2>1 DEF CallerInv, Generates, Activating
    <3>3. Holds(c, p)
      BY <2>1, <3>1, <3>2 DEF Holds, Activating, Private
    <3>4. ~Custody!HandedOver(p)
      BY <3>3 DEF SoleHolder, Given, Custody!HandedOver
    <3>5. Custody!Activate(p)
      BY <1>1, <2>1, <3>1, <3>4, ObjectChanges DEF Custody!Activate, Custody!Move
    <3> QED
      BY <3>5 DEF Custody!Next
  <2> QED
    BY <1>2, <2>1, <2>2, ObjectChanges
<1>4. CASE ServeRevoke(c)
  <2>1. /\ id \in KeyIds /\ object[id] \in {"PreActive", "Active", "Deactivated"}
        /\ SetObject(id, "Deactivated")
    BY <1>4, ServersAssumption DEF ServeRevoke, CanRevoke, Profiles
  <2>2. ASSUME NEW p \in Pairs, Stage[p] = object[id], UNCHANGED kind,
               Stage' = [Stage EXCEPT ![p] = "Deactivated"]
        PROVE  Custody!Next
    BY <1>1, <2>1, <2>2 DEF Custody!Revoke, Custody!Move, Custody!Next
  <2> QED
    BY <1>2, <2>1, <2>2, ObjectChanges
<1>5. CASE ServeDestroy(c)
  <2>1. /\ id \in KeyIds /\ object[id] \in {"PreActive", "Deactivated"}
        /\ SetObject(id, "Destroyed")
    BY <1>5 DEF ServeDestroy, CanDestroy, Exists, ObjectStates
  <2>2. ASSUME NEW p \in Pairs, Stage[p] = object[id], UNCHANGED kind,
               Stage' = [Stage EXCEPT ![p] = "Destroyed"]
        PROVE  Custody!Next
    BY <1>1, <2>1, <2>2 DEF Custody!Destroy, Custody!Move, Custody!Next
  <2> QED
    BY <1>2, <2>1, <2>2, ObjectChanges
<1> QED
  BY <1>3, <1>4, <1>5

LEMMA ServeCreateImplements ==
  ASSUME HInv, NEW c \in Callers, ServeCreate(c)
  PROVE  Custody!Next
<1> USE DEF HInv, IInv, TypeOK, HsmTypeOK
<1>1. PICK p \in Pairs : CreateKeyPair(p, Template(c))
  BY DEF ServeCreate
<1>2. UNCHANGED <<OfGenerate, SignedByGenerated, Gone>>
  BY CreateHolders, NothingReturned
<1>3. /\ object[Private(p)] = "Absent" /\ kind' = [kind EXCEPT ![p] = Template(c)]
      /\ object' = [id \in KeyIds |-> IF id[2] = p THEN "PreActive" ELSE object[id]]
  BY <1>1 DEF CreateKeyPair
<1>4. \A q \in Pairs : Private(q) \in KeyIds /\ Private(q)[2] = q
  BY PairIds DEF Private
<1>5. Stage[p] = "Absent" /\ Stage' = [Stage EXCEPT ![p] = "PreActive"]
  BY <1>3, <1>4 DEF Stage
<1>6. Template(c) \in Custody!KeyKinds
  <2>1. local[c].alg \in SupportedAlgorithms
    BY DEF CallerInv, Generates, Asking, ServeCreate, Waiting
  <2> QED
    BY <2>1, AlgInfoKind DEF Template, KeyKinds, Custody!KeyKinds
<1>7. Custody!Create(p, Template(c))
  BY <1>2, <1>3, <1>5 DEF Custody!Create, Custody!Move
<1> QED
  BY <1>6, <1>7 DEF Custody!Next

LEMMA ServerImplements ==
  ASSUME HInv, NEW c \in Callers, Serve(c)
  PROVE  Custody!Next \/ Unseen
<1>1. CASE ServeCreate(c)
  BY <1>1, ServeCreateImplements
<1>2. CASE ServeActivate(c) \/ ServeRevoke(c) \/ ServeDestroy(c)
  BY <1>2, ServeObjectImplements
<1>3. CASE \/ ServeQuery(c) \/ ServeGet(c) \/ ServeSign(c)
           \/ Refuse(c) \/ LoseRequest(c) \/ AnswerOddly(c)
  <2>1. UNCHANGED hsmVars /\ UNCHANGED appVars
    BY <1>3 DEF ServeQuery, ServeGet, ServeSign, Refuse, LoseRequest, AnswerOddly,
                ServeWithout, Reply
  <2> QED
    BY <2>1, ServerAlone, NothingReturned DEF Unseen
<1> QED
  BY <1>1, <1>2, <1>3 DEF Serve

LEMMA InitImplements == Init => Custody!Init
<1> SUFFICES ASSUME Init
             PROVE  Custody!Init
  OBVIOUS
<1>1. Stage = [p \in Pairs |-> "Absent"]
  BY PairIds DEF Init, HsmInit, Stage
<1> QED
  BY <1>1 DEF Init, HsmInit, Custody!Init, OfGenerate, SignedByGenerated, Gone

LEMMA NextImplements ==
  HInv /\ [Next \/ Finished]_vars => [Custody!Next]_(Custody!vars)
<1> SUFFICES ASSUME HInv, [Next \/ Finished]_vars
             PROVE  Custody!Next \/ UNCHANGED Custody!vars
  OBVIOUS
<1>1. Custody!Next \/ Unseen
  <2>1. CASE Next
    BY <2>1, CallerImplements, ServerImplements DEF Next
  <2>2. CASE UNCHANGED vars
    BY <2>2, ServerAlone, NothingReturned DEF vars, Unseen
  <2> QED
    BY <2>1, <2>2 DEF Finished
<1> QED
  BY <1>1, UnseenStutters

\* The calls of the library, interleaved, retried and failing in every way that
\* is modelled, implement what KeyCustody promises: a generated pair is handed
\* over once, whole and activated, nothing but signing, revocation and
\* destruction happens to it after that, signatures are its own, and what was
\* reported as destroyed was (src/lib.rs, lines 128-357; src/key_pair.rs, lines
\* 339-370).
THEOREM KeepsCustody == Spec => CustodyKept
<1>1. Spec => Custody!Init /\ [][Custody!Next]_(Custody!vars)
  BY InitImplements, NextImplements, Holders, PTL DEF Spec
<1> QED
  BY <1>1 DEF CustodyKept, Custody!Spec
=============================================================================
